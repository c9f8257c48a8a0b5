-------------------------------- MODULE Cart --------------------------------
(***************************************************************************)
(* The cart of one user: a single Redis key, which product-service reads,   *)
(* changes and writes back without a lock. Carts of different users have    *)
(* different keys and do not meet.                                          *)
(***************************************************************************)
EXTENDS Integers, FiniteSets, Functions

CONSTANTS
  CartProducts,  \* ids of products
  Quantities,    \* what a request may add; the handler's tags check nothing
  CartRequests,  \* HTTP requests, each handled once
  MaxCartFaults, \* bound: failed calls and crashes
  NoProductId    \* 0, what a product_id that is not a number becomes

ASSUME CartAssumption ==
  /\ Quantities \subseteq Int
  /\ MaxCartFaults \in Nat
  /\ NoProductId \notin CartProducts

VARIABLES
  cart,      \* the value of the key: product |-> quantity; no key and [] read the same
  cartHttp,  \* cartHttp[r]: the request, the cart it will write, its answer
  onSale,    \* products that exist
  expected,  \* history: the cart the finished requests should have left
  added,     \* history: added[p], all that was ever added of p
  cartRaced, \* history: two writers overlapped, or a write was cut off
  cartFaults

cartVars == <<cart, cartHttp, onSale, expected, added, cartRaced, cartFaults>>

EmptyCart == [p \in {} |-> 0]
NewCartRequest == [pc |-> "new", op |-> "none", prod |-> NoProductId, qty |-> 0,
                   held |-> EmptyCart, code |-> "none"]

CartInit ==
  /\ cart = EmptyCart /\ expected = EmptyCart
  /\ cartHttp = [r \in CartRequests |-> NewCartRequest]
  /\ onSale = CartProducts
  /\ added = [p \in CartProducts |-> 0]
  /\ cartRaced = FALSE /\ cartFaults = 0

CartAt(r, pc)       == cartHttp[r].pc = pc
CartAnswer(r, code) == cartHttp' = [cartHttp EXCEPT ![r].pc = "done", ![r].code = code, ![r].held = EmptyCart]
CartFault           == cartFaults < MaxCartFaults /\ cartFaults' = cartFaults + 1
Writers             == {"add", "remove", "clear"}
\* A removal between its DEL and its SET.
Emptied             == \E r \in CartRequests : cartHttp[r].op = "remove" /\ cartHttp[r].pc = "set"
Writing(r)          == cartHttp[r].op \in Writers /\ cartHttp[r].pc # "done"

-----------------------------------------------------------------------------
PostCart(r, op, p, q) ==
  /\ CartAt(r, "new")
  /\ cartHttp' = [cartHttp EXCEPT ![r].op = op, ![r].prod = p, ![r].qty = q,
                                  ![r].pc = IF op = "clear" THEN "del" ELSE "get"]
  /\ cartRaced' = (cartRaced \/ (op \in Writers /\ \E s \in CartRequests : Writing(s)))
  /\ UNCHANGED <<cart, onSale, expected, cartFaults>>

AddToCart(r) ==
  \E p \in CartProducts, q \in Quantities :
    PostCart(r, "add", p, q) /\ added' = [added EXCEPT ![p] = @ + q]
RemoveFromCart(r) ==
  \E p \in CartProducts \union {NoProductId} : PostCart(r, "remove", p, 0) /\ UNCHANGED added
RemoveAllCart(r) == PostCart(r, "clear", NoProductId, 0) /\ UNCHANGED added
ShowCart(r) == PostCart(r, "show", NoProductId, 0) /\ UNCHANGED added

\* No token, or a body that does not bind.
RefuseCart(r) ==
  /\ CartAt(r, "new") /\ CartAnswer(r, "refused")
  /\ UNCHANGED <<cart, onSale, expected, added, cartRaced, cartFaults>>

\* Seeded bug: the item that is there is not found.
X_AlwaysNewItem(items, p, q) == [x \in DOMAIN items \union {p} |-> IF x = p THEN q ELSE items[x]]

\* The loop over the items: more of a product that is there, or a new item.
Merged(items, p, q) ==
  IF p \in DOMAIN items THEN [items EXCEPT ![p] = @ + q]
  ELSE [x \in DOMAIN items \union {p} |-> IF x = p THEN q ELSE items[x]]

Without(items, p) == Restrict(items, DOMAIN items \ {p})

\* GET of the key, and what the request makes of it.
GetCart(r) ==
  LET req == cartHttp[r]
  IN /\ CartAt(r, "get")
     /\ \/ /\ \/ /\ req.op = "add"
                 /\ cartHttp' = [cartHttp EXCEPT ![r].held = Merged(cart, req.prod, req.qty), ![r].pc = "set"]
              \/ /\ req.op = "remove"
                 /\ cartHttp' = [cartHttp EXCEPT ![r].held = Without(cart, req.prod), ![r].pc = "del"]
              \/ /\ req.op = "show"
                 /\ cartHttp' = [cartHttp EXCEPT ![r].held = cart, ![r].pc = "products"]
           /\ UNCHANGED cartFaults
        \/ CartAnswer(r, "error") /\ CartFault
     /\ UNCHANGED <<cart, onSale, expected, added, cartRaced>>

\* DEL of the key: all of RemoveAllCart, and the first half of RemoveFromCart.
DelCart(r) ==
  /\ CartAt(r, "del")
  /\ \/ /\ cart' = EmptyCart
        /\ \/ cartHttp[r].op = "clear" /\ CartAnswer(r, "ok") /\ expected' = EmptyCart
           \/ /\ cartHttp[r].op = "remove" /\ UNCHANGED expected
              /\ cartHttp' = [cartHttp EXCEPT ![r].pc = "set"]
        /\ UNCHANGED <<cartRaced, cartFaults>>
     \/ /\ cart' \in {cart, EmptyCart} /\ CartAnswer(r, "error") /\ CartFault
        /\ cartRaced' = TRUE /\ UNCHANGED expected
  /\ UNCHANGED <<onSale, added>>

\* SET of the key, to what was made of the value read before.
SetCart(r) ==
  LET req == cartHttp[r]
  IN /\ CartAt(r, "set")
     /\ \/ /\ cart' = req.held /\ CartAnswer(r, "ok")
           /\ expected' = IF req.op = "remove" THEN Without(expected, req.prod)
                          ELSE IF req.prod \in DOMAIN expected THEN [expected EXCEPT ![req.prod] = @ + req.qty]
                          ELSE [x \in DOMAIN expected \union {req.prod} |->
                                  IF x = req.prod THEN req.qty ELSE expected[x]]
           /\ UNCHANGED <<cartRaced, cartFaults>>
        \/ /\ cart' \in {cart, req.held} /\ CartAnswer(r, "error") /\ CartFault
           /\ cartRaced' = TRUE /\ UNCHANGED expected
     /\ UNCHANGED <<onSale, added>>

\* GetByID for each item. One product that is gone makes the whole answer an error.
GetCartProducts(r) ==
  /\ CartAt(r, "products")
  /\ IF DOMAIN cartHttp[r].held \subseteq onSale THEN CartAnswer(r, "ok") ELSE CartAnswer(r, "error")
  /\ UNCHANGED <<cart, onSale, expected, added, cartRaced, cartFaults>>

\* An administrator deletes a product; no cart hears of it.
ProductGone ==
  /\ \E p \in onSale : onSale' = onSale \ {p}
  /\ UNCHANGED <<cart, cartHttp, expected, added, cartRaced, cartFaults>>

CartCrash ==
  /\ CartFault
  /\ cartHttp' = [r \in CartRequests |->
       IF cartHttp[r].pc \in {"new", "done"} THEN cartHttp[r]
       ELSE [cartHttp[r] EXCEPT !.pc = "done", !.code = "lost", !.held = EmptyCart]]
  /\ cartRaced' = (cartRaced \/ Emptied)
  /\ UNCHANGED <<cart, onSale, expected, added>>

CartNext ==
  \/ \E r \in CartRequests :
       \/ AddToCart(r) \/ RemoveFromCart(r) \/ RemoveAllCart(r) \/ ShowCart(r) \/ RefuseCart(r)
       \/ GetCart(r) \/ DelCart(r) \/ SetCart(r) \/ GetCartProducts(r)
  \/ ProductGone
  \/ CartCrash

-----------------------------------------------------------------------------
CartTypeOK ==
  /\ \A c \in {cart, expected} \union {cartHttp[r].held : r \in CartRequests} :
       DOMAIN c \subseteq CartProducts /\ \A p \in DOMAIN c : c[p] \in Int
  /\ \A r \in CartRequests :
       /\ cartHttp[r].op \in Writers \union {"none", "show"}
       /\ cartHttp[r].pc \in {"new", "get", "del", "set", "products", "done"}
       /\ cartHttp[r].code \in {"none", "ok", "refused", "error", "lost"}
  /\ onSale \subseteq CartProducts
  /\ added \in [CartProducts -> Int]
  /\ cartRaced \in BOOLEAN /\ cartFaults \in 0 .. MaxCartFaults

(* Requests of one user that did not overlap leave the cart they ask for,   *)
(* in the order they were answered; requests that failed before they wrote, *)
(* and a crash that does not hit a removal half-way, change nothing. And    *)
(* requests that add no negative quantity never make more of a product than *)
(* was added, also when they overlap (cart_service.go:34,                   *)
(* cart_repository.go:60).                                                  *)
CartIsWhatWasAsked ==
  /\ cartRaced \/ Emptied \/ cart = expected
  /\ Quantities \subseteq Nat => \A p \in DOMAIN cart : cart[p] <= added[p]
=============================================================================
