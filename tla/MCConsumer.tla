----------------------------- MODULE MCConsumer -----------------------------
(* Model-checking instances of Consumer.                                    *)
EXTENDS Consumer
=============================================================================
