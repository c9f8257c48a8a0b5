---------------------------- MODULE MCCatalogue -----------------------------
(* Model-checking instance of Catalogue.                                    *)
EXTENDS Catalogue
=============================================================================
