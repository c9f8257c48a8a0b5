-------------------------- MODULE CatalogueProofs --------------------------
(***************************************************************************)
(* Theorems about Catalogue, for any number of products, categories, slugs, *)
(* requests, index workers, connections and faults.                         *)
(*                                                                         *)
(* CatalogueInv has three parts that build on each other: what a            *)
(* transaction in flight may rely on (the row it locked, and, unless it     *)
(* overlapped with another request, the row it selected); what the events   *)
(* in the outbox say of the rows; and how far the index follows the events. *)
(***************************************************************************)
EXTENDS Catalogue, FiniteSetTheorems, TLAPS

-----------------------------------------------------------------------------
(* The inductive invariant.                                                *)

HttpRequests ==
  [pc : Pcs, op : Ops, prod : Products \union {None}, cat : Categories \union {None},
   slug : Slugs \union {None}, withVariants : BOOLEAN, ver : Versions,
   seen : SUBSET (Variants \union [prod : Products, ver : Versions]), code : Codes]

\* The steps of a transaction that writes the row of a product, of one that holds the row, of one
\* that deletes it, and of the requests that write none.
Writing   == {"save", "variants", "naming"}
Holding   == {"variants", "naming"}
Dropping  == {"dropVariants", "dropRow"}
Elsewhere == {"insertCategory", "saveCategory", "deleteCategory", "index"}
WriteOps  == {"create", "update", "delete"}

\* What a request is about; an update without variants never touches those there are, and one
\* with variants has seen all there are.
RequestOK(r) ==
  LET h == http[r] IN
  /\ h.pc \in Writing \union Dropping => h.prod \in Products /\ h.seen \subseteq Variants
  /\ h.pc \in Writing => h.slug \in Slugs /\ h.op \in {"create", "update"} /\ h.ver >= 2 /\ h.ver < clock
  /\ h.pc \in Dropping => h.op = "delete" /\ h.ver = 0 /\ product[h.prod].row # "none"
  /\ h.pc \in Elsewhere => h.op \notin WriteOps /\ h.prod = None
  /\ h.pc \in {"insertCategory", "saveCategory"} => h.slug \in Slugs
  /\ h.pc \in {"saveCategory", "deleteCategory"} => h.cat \in Categories /\ category[h.cat].row # "none"
  /\ h.pc \in Writing \union Dropping \union {"insertCategory", "index"} => h.cat = None
  /\ h.pc = "index" => h.seen \subseteq [prod : Products, ver : Versions]
  /\ h.pc \in Writing /\ h.op = "create" => h.pc = "naming" /\ product[h.prod].row = "none"
  /\ h.pc \in {"save", "variants"} => h.seen = {}
  /\ h.pc = "variants" => h.withVariants
  /\ h.pc = "naming" => IF h.withVariants THEN LiveVariants(h.prod) \subseteq h.seen ELSE h.seen = {}

\* Unless another request got in between: the row is the one selected.
AloneOK(r) ==
  LET h == http[r] IN
  /\ h.pc \in Writing /\ h.prod \notin raced =>
       (h.op = "update" => Live(h.prod)) /\ product[h.prod].ver <= h.ver
  /\ h.pc \in Dropping /\ h.prod \notin raced => Live(h.prod) /\ h.seen = LiveVariants(h.prod)

\* A row has one writer at a time; requests in flight on one product, or on one slug, count as
\* overlapping.
ApartOK(q, r) ==
  /\ http[q].pc \in Holding /\ http[r].pc \in Holding => http[q].prod # http[r].prod
  /\ q \in InFlight /\ r \in InFlight =>
       /\ http[q].prod = http[r].prod /\ http[q].prod # None => http[q].prod \in raced
       /\ http[q].slug = http[r].slug /\ http[q].slug # None => http[q].slug \in raced
       /\ http[q].slug # None /\ http[r].cat # None /\ http[q].slug = category[http[r].cat].slug =>
            http[q].slug \in raced

ProductOK(p) ==
  /\ product[p].row = "none" => product[p] = NoProduct
  /\ product[p].row # "none" => product[p].slug \in KnownSlugs
  /\ product[p].ver < clock

\* Slugs are unique over all rows; a category about to be deleted has no product, unless one was
\* moved into it meanwhile.
CategoryOK(c) ==
  /\ category[c].row = "none" <=> category[c].slug = None
  /\ category[c].row = "none" => category[c] = NoCategory
  /\ \A d \in Categories : category[c].slug = category[d].slug /\ category[c].row # "none" => c = d
UnusedOK(r) ==
  http[r].pc = "deleteCategory" =>
    \A p \in Products : Live(p) /\ product[p].slug = category[http[r].cat].slug => product[p].slug \in raced
NamedOK(p) == Live(p) /\ product[p].slug \notin raced => CategoryNamed(product[p].slug)

Recorded == pending \union handled

\* No event of a request that is not over, nor of a product that was not created.
EventsOK ==
  /\ \A e \in Recorded : http[e.by].pc = "done" /\ product[e.prod].row # "none"
  /\ \A e \in Recorded : e.prod \notin raced => e.ver <= product[e.prod].ver

JobType == job \in [Workers -> {Idle} \union [at : {"writing"}, event : Events, skip : BOOLEAN]]

\* A handler at work holds an event that was recorded, and knows how it compares with the document.
JobOK(w) ==
  LET e == job[w].event IN
  job[w].at = "writing" =>
    /\ e \in Recorded /\ e.kind # "deleted"
    /\ e.prod \notin raced \union unsettled =>
         /\ \A v \in Workers : job[v].at = "writing" /\ job[v].event.prod = e.prod => v = w
         /\ job[w].skip <=> e.ver < doc[e.prod]
         /\ \A d \in handled : d.prod = e.prod => d.kind # "deleted"

\* The document is as new as every handled event, and not newer than the row; after a handled
\* deletion there is none.
DocOK(p) ==
  p \notin raced \union unsettled =>
    IF \E e \in handled : e.prod = p /\ e.kind = "deleted" THEN doc[p] = 0
    ELSE /\ \A e \in handled : e.prod = p => e.ver <= doc[p]
         /\ doc[p] <= product[p].ver
         /\ product[p].ver = 1 => doc[p] = 1

ClockOK == clock <= 2 + Cardinality({r \in Requests : http[r].pc # "new"})

RequestsInv == http \in [Requests -> HttpRequests] /\ \A r \in Requests : RequestOK(r) /\ AloneOK(r)
ApartInv    == \A q, r \in Requests : q # r => ApartOK(q, r)
ProductsInv == VariantsFollowProduct /\ \A p \in Products : ProductOK(p)
CategoriesInv ==
  /\ \A c \in Categories : CategoryOK(c)
  /\ \A r \in Requests : UnusedOK(r)
  /\ \A p \in Products : NamedOK(p)
EventsInv == WritesAreAnnounced /\ EventsOK
IndexInv  == JobType /\ (\A w \in Workers : JobOK(w)) /\ \A p \in Products : DocOK(p)

CatalogueInv ==
  TypeOK /\ ClockOK /\ RequestsInv /\ ApartInv /\ ProductsInv /\ CategoriesInv /\ EventsInv /\ IndexInv

-----------------------------------------------------------------------------
(* Types.                                                                  *)

HttpType == http \in [Requests -> HttpRequests]
ProductRows == [row : Rows, status : Statuses, slug : Slugs \union {None}, ver : Versions,
                variants : SUBSET Variants]
CategoryRows == [row : Rows, slug : Slugs \union {None}]

\* The tables, and what the consumers keep.
DatabaseType ==
  /\ product \in [Products -> ProductRows] /\ category \in [Categories -> CategoryRows]
  /\ clock \in 2 .. 2 + Cardinality(Requests)
  /\ pending \subseteq Events /\ handled \subseteq Events
  /\ raced \subseteq Products \union Slugs
SearchType ==
  /\ doc \in [Products -> Versions]
  /\ \A w \in Workers : job[w] = Idle \/ (job[w].at = "writing" /\ job[w].event \in Events)
  /\ unsettled \subseteq Products
  /\ faults \in 0 .. MaxFaults

LEMMA VersionsType ==
  /\ Cardinality(Requests) \in Nat
  /\ Versions \subseteq Nat /\ 0 \in Versions /\ 1 \in Versions
  BY CatalogueAssumption, FS_CardinalityType DEF Versions

LEMMA NewRequestType ==
  /\ NewRequest \in HttpRequests
  /\ NoProduct \in ProductRows /\ NoCategory \in CategoryRows
  BY VersionsType DEF NewRequest, HttpRequests, Pcs, Ops, Codes, NoProduct, ProductRows, Rows, Statuses,
                      NoCategory, CategoryRows

LEMMA TypesTogether == HttpType /\ DatabaseType /\ SearchType => TypeOK
<1>1. ASSUME HttpType
      PROVE  \A r \in Requests :
               /\ http[r].pc \in Pcs /\ http[r].op \in Ops /\ http[r].code \in Codes
               /\ http[r].prod \in Products \union {None} /\ http[r].cat \in Categories \union {None}
               /\ http[r].slug \in Slugs \union {None} /\ http[r].ver \in Versions
               /\ http[r].seen \subseteq (Variants \union [prod : Products, ver : Versions])
  BY <1>1 DEF HttpType, HttpRequests
<1>2. QED
  BY <1>1 DEF DatabaseType, SearchType, TypeOK, ProductRows, CategoryRows

LEMMA TypesApart == TypeOK => DatabaseType /\ SearchType
  BY DEF TypeOK, DatabaseType, SearchType, ProductRows, CategoryRows

\* The clock is behind the requests that have begun: who begins can take a version.
LEMMA ClockIsVersion ==
  ASSUME TypeOK, ClockOK, NEW r \in Requests, http[r].pc = "new"
  PROVE  clock \in Versions /\ clock + 1 \in 2 .. 2 + Cardinality(Requests) /\ clock >= 2
<1> DEFINE B == {q \in Requests : http[q].pc # "new"}
<1>1. IsFiniteSet(B) /\ IsFiniteSet(B \union {r}) /\ Cardinality(B \union {r}) = Cardinality(B) + 1
  <2>1. B \subseteq Requests /\ r \notin B
    OBVIOUS
  <2> HIDE DEF B
  <2>2. IsFiniteSet(B)
    BY <2>1, CatalogueAssumption, FS_Subset
  <2>3. QED
    BY <2>1, <2>2, FS_AddElement
<1>2. B \union {r} \subseteq Requests
  OBVIOUS
<1>3. clock <= 2 + Cardinality(B)
  BY DEF ClockOK
<1> HIDE DEF B
<1>4. Cardinality(B \union {r}) <= Cardinality(Requests)
  BY <1>1, <1>2, CatalogueAssumption, FS_Subset
<1>5. Cardinality(B) \in Nat /\ Cardinality(Requests) \in Nat
  BY <1>1, CatalogueAssumption, FS_CardinalityType
<1>6. clock \in Nat /\ clock >= 2 /\ clock <= 2 + Cardinality(Requests)
  BY <1>5 DEF TypeOK
<1>7. QED
  BY <1>1, <1>3, <1>4, <1>5, <1>6 DEF Versions

-----------------------------------------------------------------------------
(* What a step does.                                                       *)

\* Nobody but r moves.
Moves(r) == HttpType' /\ \A q \in Requests \ {r} : http'[q] = http[q]
SameRequest(r) == /\ http'[r].op = http[r].op /\ http'[r].prod = http[r].prod
                  /\ http'[r].cat = http[r].cat /\ http'[r].slug = http[r].slug
                  /\ http'[r].withVariants = http[r].withVariants /\ http'[r].ver = http[r].ver

\* r is answered: a write that changed nothing is not answered with success.
Ends(r) == /\ Moves(r) /\ http[r].pc # "done" /\ http'[r].pc = "done"
           /\ http'[r].op \in WriteOps => http'[r].code # "ok"
           /\ UNCHANGED <<database, search, raced>>

\* r begins, with what it found in the tables.
BeginsWriting(r) ==
  LET h == http'[r] IN
  /\ h.prod \in Products /\ h.slug \in Slugs /\ h.ver = clock /\ h.seen = {} /\ h.cat = None
  /\ clock' = clock + 1
  /\ \/ h.pc = "naming" /\ h.op = "create" /\ product[h.prod].row = "none"
        /\ \A q \in InFlight : http[q].prod # h.prod
     \/ h.pc = "save" /\ h.op = "update" /\ Live(h.prod)
BeginsDropping(r) ==
  LET h == http'[r] IN
  /\ h.pc = "dropVariants" /\ h.op = "delete" /\ h.prod \in Products /\ Live(h.prod)
  /\ h.seen = LiveVariants(h.prod) /\ h.ver = 0 /\ h.cat = None /\ h.slug = None
  /\ clock' = clock
BeginsElsewhere(r) ==
  LET h == http'[r] IN
  /\ h.pc \in Elsewhere /\ h.op \notin WriteOps /\ h.prod = None
  /\ h.pc \in {"insertCategory", "saveCategory"} => h.slug \in Slugs
  /\ h.pc \in {"saveCategory", "deleteCategory"} => h.cat \in Categories /\ category[h.cat].row = "live"
  /\ h.pc \in {"insertCategory", "index"} => h.cat = None
  /\ h.pc = "index" => h.seen \subseteq [prod : Products, ver : Versions]
  /\ h.pc = "deleteCategory" => PreloadProducts(h.cat) = {}
  /\ clock' = clock
Begins(r) ==
  /\ Moves(r) /\ http[r].pc = "new"
  /\ raced' = raced \union UNION {Touches(http'[r]) \intersect Touches(http[q]) : q \in InFlight}
  /\ BeginsWriting(r) \/ BeginsDropping(r) \/ BeginsElsewhere(r)
  /\ UNCHANGED <<product, category, pending, handled, search>>

\* The steps within a transaction.
Saves(r) ==
  /\ Moves(r) /\ SameRequest(r) /\ http[r].pc = "save" /\ ~RowLocked(http[r].prod, r)
  /\ http'[r].pc = (IF http[r].withVariants THEN "variants" ELSE "naming") /\ http'[r].seen = http[r].seen
  /\ UNCHANGED <<database, search, raced>>
Replaces(r) ==
  /\ Moves(r) /\ SameRequest(r) /\ http[r].pc = "variants" /\ http'[r].pc = "naming"
  /\ http'[r].seen = LiveVariants(http[r].prod)
  /\ UNCHANGED <<database, search, raced>>
Drops(r) ==
  /\ Moves(r) /\ SameRequest(r) /\ http[r].pc = "dropVariants" /\ http'[r].pc = "dropRow"
  /\ http'[r].seen = http[r].seen \intersect LiveVariants(http[r].prod)
  /\ UNCHANGED <<database, search, raced>>

\* A transaction commits the row of its product and the event of it.
LiveAfter(p) == {v \in product'[p].variants : v.live}
Event(r, kind) == [kind |-> kind, prod |-> http[r].prod, ver |-> http[r].ver, by |-> r]
Commits(r, kind) ==
  /\ Moves(r) /\ http'[r].pc = "done" /\ http'[r].op = http[r].op /\ http'[r].code = "ok"
  /\ http[r].prod \in Products
  /\ product' \in [Products -> ProductRows]
  /\ \A p \in Products \ {http[r].prod} : product'[p] = product[p]
  /\ pending' = pending \union {Event(r, kind)} /\ Event(r, kind) \in Events
  /\ UNCHANGED <<category, clock, handled, search, raced>>
CommitsWrite(r) ==
  LET h == http[r] IN
  /\ h.pc = "naming" /\ CategoryNamed(h.slug) /\ Commits(r, IF h.op = "create" THEN "created" ELSE "updated")
  /\ product'[h.prod].row = "live" /\ product'[h.prod].slug = h.slug /\ product'[h.prod].ver = h.ver
  /\ IF h.withVariants THEN \A v \in LiveAfter(h.prod) : v.ver = h.ver
     ELSE LiveAfter(h.prod) \subseteq LiveVariants(h.prod)
CommitsDrop(r) ==
  LET h == http[r] IN
  /\ h.pc = "dropRow" /\ ~RowLocked(h.prod, r) /\ Commits(r, "deleted")
  /\ product'[h.prod].row = "deleted" /\ product'[h.prod].slug = product[h.prod].slug
  /\ product'[h.prod].ver = product[h.prod].ver
  /\ LiveAfter(h.prod) = LiveVariants(h.prod) \ h.seen

\* A category is inserted, saved or deleted.
WritesCategory(r) ==
  LET h == http[r] IN
  /\ Moves(r) /\ http'[r].pc = "done" /\ http'[r].op = h.op
  /\ UNCHANGED <<product, clock, pending, handled, search, raced>>
  /\ \E c \in Categories :
       /\ \A d \in Categories \ {c} : category'[d] = category[d]
       /\ category' \in [Categories -> CategoryRows]
       /\ \/ /\ h.pc = "insertCategory" /\ category[c].row = "none" /\ h.slug \notin KnownSlugs
             /\ category'[c].row = "live" /\ category'[c].slug = h.slug
          \/ /\ h.pc = "saveCategory" /\ c = h.cat
             /\ category'[c].row = "live" /\ category'[c].slug = h.slug
             /\ h.slug = category[c].slug \/ (h.slug \notin KnownSlugs /\ ~Referenced(category[c].slug))
          \/ /\ h.pc = "deleteCategory" /\ c = h.cat
             /\ category'[c].row = "deleted" /\ category'[c].slug = category[c].slug

\* A reindex writes a document as it selected it, or leaves it out.
Indexes(r) ==
  /\ Moves(r) /\ SameRequest(r) /\ http[r].pc = "index" /\ http'[r].pc = "index"
  /\ http'[r].seen \subseteq http[r].seen
  /\ UNCHANGED <<database, job, raced>> /\ faults' \in 0 .. MaxFaults
  /\ \/ UNCHANGED <<doc, unsettled>>
     \/ \E p \in Products, v \in Versions :
          /\ doc' = [doc EXCEPT ![p] = v]
          /\ unsettled' = unsettled \union
               (IF ~Live(p) \/ product[p].ver # v \/ Working(p) THEN {p} ELSE {})

RequestStep(r) ==
  \/ Ends(r) \/ Begins(r) \/ Saves(r) \/ Replaces(r) \/ Drops(r) \/ CommitsWrite(r)
  \/ CommitsDrop(r) \/ WritesCategory(r) \/ Indexes(r)

LEMMA AnswerMoves ==
  ASSUME HttpType, NEW r \in Requests, NEW op \in Ops, NEW code \in Codes, Answer(r, op, code)
  PROVE  Moves(r) /\ http'[r].pc = "done" /\ http'[r].op = op /\ http'[r].code = code
<1> DEFINE h == [NewRequest EXCEPT !.pc = "done", !.op = op, !.code = code]
<1>1. h \in HttpRequests /\ h.pc = "done" /\ h.op = op /\ h.code = code
  BY NewRequestType DEF HttpRequests, Pcs
<1>2. http' = [http EXCEPT ![r] = h]
  BY DEF Answer
<1> HIDE DEF h
<1>3. QED
  BY <1>1, <1>2 DEF HttpType, Moves

LEMMA AnswerEnds ==
  ASSUME HttpType, NEW r \in Requests, http[r].pc # "done", NEW op \in Ops, NEW code \in Codes,
         op \in WriteOps => code # "ok", AnswerOnly(r, op, code)
  PROVE  Ends(r)
  BY AnswerMoves DEF AnswerOnly, Ends

LEMMA BeginMoves ==
  ASSUME HttpType, NEW r \in Requests, NEW h \in HttpRequests, Begin(r, h) \/ BeginTransaction(r, h)
  PROVE  /\ Moves(r) /\ http[r].pc = "new" /\ http'[r] = h
         /\ raced' = raced \union UNION {Touches(http'[r]) \intersect Touches(http[q]) : q \in InFlight}
<1>1. Begin(r, h)
  BY DEF BeginTransaction
<1>2. http'[r] = h
  BY <1>1 DEF Begin, HttpType
<1>3. raced' = raced \union UNION {Touches(http'[r]) \intersect Touches(http[q]) : q \in InFlight}
  BY <1>1, <1>2 DEF Begin
<1>4. QED
  BY <1>1, <1>2, <1>3 DEF Begin, HttpType, Moves

\* The routes of products.
LEMMA ProductBegins ==
  ASSUME TypeOK, HttpType, ClockOK, NEW r \in Requests, CreateAdmin(r) \/ EditAdmin(r) \/ DeleteAdmin(r)
  PROVE  Ends(r) \/ Begins(r)
<1>0. WriteOps \subseteq Ops /\ {"ok", "refused", "notfound", "error"} \subseteq Codes
  BY DEF WriteOps, Ops, Codes
<1>1. ASSUME NEW op \in WriteOps, CheckToken(r, op) \/ BadRequest(r, op)
      PROVE  Ends(r)
  BY <1>0, <1>1, AnswerEnds DEF CheckToken, BadRequest
<1>2. ASSUME NEW p \in Products, NEW s \in Slugs, NEW b \in BOOLEAN, InsertProduct(r, p, s, b)
      PROVE  Ends(r) \/ Begins(r)
  <2>1. CASE s \in KnownSlugs
    <3> DEFINE h == [NewRequest EXCEPT !.pc = "naming", !.op = "create", !.prod = p, !.slug = s,
                                       !.withVariants = b, !.ver = clock]
    <3>1. /\ BeginTransaction(r, h) /\ clock' = clock + 1
          /\ UNCHANGED <<product, category, pending, handled, search>>
          /\ product[p].row = "none" /\ \A q \in InFlight : http[q].prod # p
      BY <1>2, <2>1 DEF InsertProduct
    <3>2. clock \in Versions
      BY <3>1, ClockIsVersion DEF BeginTransaction, Begin
    <3>3. /\ h \in HttpRequests /\ h.pc = "naming" /\ h.op = "create" /\ h.prod = p /\ h.slug = s
          /\ h.ver = clock /\ h.seen = {} /\ h.cat = None
      BY <3>2, NewRequestType DEF HttpRequests, Pcs, Ops, NewRequest
    <3> HIDE DEF h
    <3>4. http'[r] = h /\ Moves(r) /\ http[r].pc = "new"
          /\ raced' = raced \union UNION {Touches(http'[r]) \intersect Touches(http[q]) : q \in InFlight}
      BY <3>1, <3>3, BeginMoves
    <3>5. BeginsWriting(r)
      BY <3>1, <3>3, <3>4 DEF BeginsWriting
    <3>6. QED
      BY <3>1, <3>4, <3>5 DEF Begins
  <2>2. CASE s \notin KnownSlugs
    BY <1>0, <1>2, <2>2, AnswerEnds DEF InsertProduct, WriteOps
  <2>3. QED
    BY <2>1, <2>2
<1>3. ASSUME NEW p \in Products, NEW s \in Slugs, NEW b \in BOOLEAN, SelectProduct(r, p, s, b)
      PROVE  Ends(r) \/ Begins(r)
  <2>1. CASE Live(p)
    <3> DEFINE h == [NewRequest EXCEPT !.pc = "save", !.op = "update", !.prod = p, !.slug = s,
                                       !.withVariants = b, !.ver = clock]
    <3>1. /\ BeginTransaction(r, h) /\ clock' = clock + 1
          /\ UNCHANGED <<product, category, pending, handled, search>>
      BY <1>3, <2>1 DEF SelectProduct
    <3>2. clock \in Versions
      BY <3>1, ClockIsVersion DEF BeginTransaction, Begin
    <3>3. /\ h \in HttpRequests /\ h.pc = "save" /\ h.op = "update" /\ h.prod = p /\ h.slug = s
          /\ h.ver = clock /\ h.seen = {} /\ h.cat = None
      BY <3>2, NewRequestType DEF HttpRequests, Pcs, Ops, NewRequest
    <3> HIDE DEF h
    <3>4. http'[r] = h /\ Moves(r) /\ http[r].pc = "new"
          /\ raced' = raced \union UNION {Touches(http'[r]) \intersect Touches(http[q]) : q \in InFlight}
      BY <3>1, <3>3, BeginMoves
    <3>5. BeginsWriting(r)
      BY <2>1, <3>1, <3>3, <3>4 DEF BeginsWriting
    <3>6. QED
      BY <3>1, <3>4, <3>5 DEF Begins
  <2>2. CASE ~Live(p)
    BY <1>0, <1>3, <2>2, AnswerEnds DEF SelectProduct, WriteOps
  <2>3. QED
    BY <2>1, <2>2
<1>4. ASSUME NEW p \in Products, SelectWithChilds(r, p)
      PROVE  Ends(r) \/ Begins(r)
  <2>1. CASE Live(p)
    <3> DEFINE h == [NewRequest EXCEPT !.pc = "dropVariants", !.op = "delete", !.prod = p,
                                       !.seen = LiveVariants(p)]
    <3>1. BeginTransaction(r, h) /\ UNCHANGED <<database, search>>
      BY <1>4, <2>1 DEF SelectWithChilds
    <3>2. LiveVariants(p) \subseteq Variants
      BY DEF TypeOK, LiveVariants
    <3>3. /\ h \in HttpRequests /\ h.pc = "dropVariants" /\ h.op = "delete" /\ h.prod = p
          /\ h.slug = None /\ h.ver = 0 /\ h.seen = LiveVariants(p) /\ h.cat = None
      BY <3>2, NewRequestType DEF HttpRequests, Pcs, Ops, NewRequest
    <3> HIDE DEF h
    <3>4. http'[r] = h /\ Moves(r) /\ http[r].pc = "new"
          /\ raced' = raced \union UNION {Touches(http'[r]) \intersect Touches(http[q]) : q \in InFlight}
      BY <3>1, <3>3, BeginMoves
    <3>5. BeginsDropping(r)
      BY <2>1, <3>1, <3>3, <3>4 DEF BeginsDropping, database
    <3>6. QED
      BY <3>1, <3>4, <3>5 DEF Begins, database
  <2>2. CASE ~Live(p)
    BY <1>0, <1>4, <2>2, AnswerEnds DEF SelectWithChilds, WriteOps
  <2>3. QED
    BY <2>1, <2>2
<1>5. QED
  BY <1>1, <1>2, <1>3, <1>4 DEF CreateAdmin, EditAdmin, DeleteAdmin, WriteOps

\* The routes of categories and of the index.
LEMMA OtherBegins ==
  ASSUME TypeOK, HttpType, NEW r \in Requests,
         CreateCategory(r) \/ UpdateCategory(r) \/ DeleteCategory(r) \/ ReindexProducts(r)
  PROVE  Ends(r) \/ Begins(r)
<1> DEFINE ops == {"newCategory", "editCategory", "dropCategory", "reindex"}
<1>0. ops \subseteq Ops \ WriteOps /\ {"ok", "refused", "notfound", "error"} \subseteq Codes
  BY DEF WriteOps, Ops, Codes
<1>1. ASSUME NEW op \in ops, CheckToken(r, op) \/ BadRequest(r, op)
      PROVE  Ends(r)
  BY <1>0, <1>1, AnswerEnds DEF CheckToken, BadRequest
<1>2. ASSUME NEW h \in HttpRequests, Begin(r, h), UNCHANGED <<database, search>>,
             h.pc \in Elsewhere, h.op \in ops, h.prod = None,
             h.pc \in {"insertCategory", "saveCategory"} => h.slug \in Slugs,
             h.pc \in {"saveCategory", "deleteCategory"} =>
               h.cat \in Categories /\ category[h.cat].row = "live",
             h.pc \in {"insertCategory", "index"} => h.cat = None,
             h.pc = "index" => h.seen \subseteq [prod : Products, ver : Versions],
             h.pc = "deleteCategory" => PreloadProducts(h.cat) = {}
      PROVE  Begins(r)
  <2>1. http'[r] = h /\ Moves(r) /\ http[r].pc = "new"
        /\ raced' = raced \union UNION {Touches(http'[r]) \intersect Touches(http[q]) : q \in InFlight}
    BY <1>2, BeginMoves
  <2>2. BeginsElsewhere(r)
    BY <1>0, <1>2, <2>1 DEF BeginsElsewhere, database
  <2>3. QED
    BY <1>2, <2>1, <2>2 DEF Begins, database
<1>3. ASSUME NEW s \in Slugs, CheckNewSlug(r, s)
      PROVE  Ends(r) \/ Begins(r)
  <2> DEFINE h == [NewRequest EXCEPT !.pc = "insertCategory", !.op = "newCategory", !.slug = s]
  <2>1. /\ h \in HttpRequests /\ h.pc = "insertCategory" /\ h.op = "newCategory" /\ h.slug = s
        /\ h.prod = None /\ h.cat = None
    BY NewRequestType DEF HttpRequests, Pcs, Ops, NewRequest
  <2>2. \/ Begin(r, h) /\ UNCHANGED <<database, search>>
        \/ http[r].pc = "new" /\ AnswerOnly(r, "newCategory", "error")
    BY <1>3 DEF CheckNewSlug
  <2> HIDE DEF h
  <2>3. QED
    BY <1>0, <1>2, <2>1, <2>2, AnswerEnds DEF Elsewhere
<1>4. ASSUME NEW c \in Categories, NEW s \in Slugs, CheckEditedSlug(r, c, s)
      PROVE  Ends(r) \/ Begins(r)
  <2> DEFINE h == [NewRequest EXCEPT !.pc = "saveCategory", !.op = "editCategory", !.cat = c, !.slug = s]
  <2>1. /\ h \in HttpRequests /\ h.pc = "saveCategory" /\ h.op = "editCategory" /\ h.slug = s
        /\ h.prod = None /\ h.cat = c
    BY NewRequestType DEF HttpRequests, Pcs, Ops, NewRequest
  <2>2. \/ CategoryExists(c) /\ Begin(r, h) /\ UNCHANGED <<database, search>>
        \/ http[r].pc = "new" /\ AnswerOnly(r, "editCategory", "error")
        \/ http[r].pc = "new" /\ AnswerOnly(r, "editCategory", "notfound")
    BY <1>4 DEF CheckEditedSlug
  <2> HIDE DEF h
  <2>3. QED
    BY <1>0, <1>2, <2>1, <2>2, AnswerEnds DEF Elsewhere, CategoryExists
<1>5. ASSUME NEW c \in Categories, CheckUnused(r, c)
      PROVE  Ends(r) \/ Begins(r)
  <2> DEFINE h == [NewRequest EXCEPT !.pc = "deleteCategory", !.op = "dropCategory", !.cat = c]
  <2>1. /\ h \in HttpRequests /\ h.pc = "deleteCategory" /\ h.op = "dropCategory"
        /\ h.prod = None /\ h.cat = c
    BY NewRequestType DEF HttpRequests, Pcs, Ops, NewRequest
  <2>2. \/ CategoryExists(c) /\ PreloadProducts(c) = {} /\ Begin(r, h) /\ UNCHANGED <<database, search>>
        \/ http[r].pc = "new" /\ AnswerOnly(r, "dropCategory", "error")
        \/ http[r].pc = "new" /\ AnswerOnly(r, "dropCategory", "notfound")
    BY <1>5 DEF CheckUnused
  <2> HIDE DEF h
  <2>3. QED
    BY <1>0, <1>2, <2>1, <2>2, AnswerEnds DEF Elsewhere, CategoryExists
<1>6. ASSUME ReindexProducts(r)
      PROVE  Ends(r) \/ Begins(r)
  <2> DEFINE all == {[prod |-> p, ver |-> product[p].ver] : p \in GetAll("ACTIVE")}
             h == [NewRequest EXCEPT !.pc = "index", !.op = "reindex", !.seen = all]
  <2>1. all \subseteq [prod : Products, ver : Versions]
    BY DEF GetAll, TypeOK
  <2>2. CheckToken(r, "reindex") \/ (Begin(r, h) /\ UNCHANGED <<database, search>>)
    BY <1>6 DEF ReindexProducts
  <2> HIDE DEF all
  <2>3. /\ h \in HttpRequests /\ h.pc = "index" /\ h.op = "reindex" /\ h.seen = all
        /\ h.prod = None /\ h.cat = None
    BY <2>1, NewRequestType DEF HttpRequests, Pcs, Ops, NewRequest
  <2> HIDE DEF h
  <2>4. QED
    BY <1>1, <1>2, <2>1, <2>2, <2>3 DEF Elsewhere
<1>7. QED
  BY <1>1, <1>3, <1>4, <1>5, <1>6 DEF CreateCategory, UpdateCategory, DeleteCategory

\* A step of r within its transaction.
LEMMA StepMoves ==
  ASSUME HttpType, NEW r \in Requests, NEW pc \in Pcs,
         NEW seen \in SUBSET (Variants \union [prod : Products, ver : Versions]),
         http' = [http EXCEPT ![r] = [http[r] EXCEPT !.pc = pc, !.seen = seen]]
  PROVE  Moves(r) /\ SameRequest(r) /\ http'[r].pc = pc /\ http'[r].seen = seen
<1> DEFINE h == [http[r] EXCEPT !.pc = pc, !.seen = seen]
<1>1. /\ h \in HttpRequests /\ h.pc = pc /\ h.seen = seen /\ h.op = http[r].op /\ h.prod = http[r].prod
      /\ h.cat = http[r].cat /\ h.slug = http[r].slug /\ h.withVariants = http[r].withVariants
      /\ h.ver = http[r].ver
  BY DEF HttpType, HttpRequests
<1>2. http' = [http EXCEPT ![r] = h]
  OBVIOUS
<1> HIDE DEF h
<1>3. http'[r] = h /\ \A q \in Requests \ {r} : http'[q] = http[q]
  BY <1>2 DEF HttpType
<1>4. HttpType'
  BY <1>1, <1>2 DEF HttpType
<1>5. QED
  BY <1>1, <1>3, <1>4 DEF Moves, SameRequest

\* What is left of a set of variants when some of them are deleted.
LEMMA DropLeaves ==
  ASSUME NEW vs \in SUBSET Variants, NEW seen \in SUBSET Variants
  PROVE  /\ Drop(seen) \subseteq Variants /\ \A v \in Drop(seen) : ~v.live
         /\ {v \in (vs \ seen) \union Drop(seen) : v.live} = {v \in vs : v.live} \ seen
<1>1. \A v \in Variants : [v EXCEPT !.live = FALSE] \in Variants /\ [v EXCEPT !.live = FALSE].live = FALSE
  BY DEF Variants
<1>2. Drop(seen) \subseteq Variants /\ \A v \in Drop(seen) : ~v.live
  BY <1>1 DEF Drop
<1>3. QED
  BY <1>2

\* The last steps of a transaction.
LEMMA CommitMoves ==
  ASSUME TypeOK, HttpType, NEW r \in Requests, http[r].prod \in Products, NEW row \in ProductRows,
         NEW kind \in {"created", "updated", "deleted"}, Commit(r, row, kind)
  PROVE  Commits(r, kind) /\ product'[http[r].prod] = row
<1>1. http[r].ver \in Versions /\ http[r].op \in Ops
  BY DEF HttpType, HttpRequests
<1>2. Event(r, kind) \in Events
  BY <1>1 DEF Event, Events
<1>3. /\ product' = [product EXCEPT ![http[r].prod] = row] /\ Answer(r, http[r].op, "ok")
      /\ pending' = pending \union {Event(r, kind)}
      /\ UNCHANGED <<category, clock, handled, search, raced>>
  BY DEF Commit, Event
<1>4. Moves(r) /\ http'[r].pc = "done" /\ http'[r].op = http[r].op /\ http'[r].code = "ok"
  BY <1>1, <1>3, AnswerMoves DEF Codes
<1>5. product \in [Products -> ProductRows]
  BY TypesApart DEF DatabaseType
<1>6. /\ product' \in [Products -> ProductRows] /\ product'[http[r].prod] = row
      /\ \A p \in Products \ {http[r].prod} : product'[p] = product[p]
  BY <1>3, <1>5
<1>7. QED
  BY <1>2, <1>3, <1>4, <1>6 DEF Commits

LEMMA NameAndCommitMoves ==
  ASSUME TypeOK, HttpType, NEW r \in Requests, RequestOK(r), NameAndCommit(r)
  PROVE  Ends(r) \/ CommitsWrite(r)
<1> DEFINE h    == http[r]
           seen == h.seen
           vs   == product[h.prod].variants
           new  == IF h.withVariants THEN {[ver |-> h.ver, slug |-> h.slug, live |-> TRUE]} ELSE {}
           kept == (vs \ seen) \union Drop(seen)
           kind == IF h.op = "create" THEN "created" ELSE "updated"
<1>1. /\ h.pc = "naming" /\ h.prod \in Products /\ seen \subseteq Variants /\ h.slug \in Slugs
      /\ h.ver \in Versions /\ h.op \in Ops /\ vs \subseteq Variants
      /\ IF h.withVariants THEN LiveVariants(h.prod) \subseteq h.seen ELSE h.seen = {}
      /\ h.withVariants \in BOOLEAN
  BY DEF NameAndCommit, RequestOK, Writing, HttpType, HttpRequests, TypeOK
<1>2. CASE ~CategoryNamed(h.slug)
  BY <1>1, <1>2, AnswerEnds DEF NameAndCommit, Codes
<1>3. CASE CategoryNamed(h.slug)
  <2>0. PICK status \in Statuses : Commit(r, Written(h, status, kept \union new), kind)
    BY <1>3 DEF NameAndCommit
  <2> DEFINE row == Written(h, status, kept \union new)
  <2>1. Commit(r, row, kind)
    BY <2>0
  <2>2. new \subseteq Variants
    <3>1. [ver |-> h.ver, slug |-> h.slug, live |-> TRUE] \in Variants
      BY <1>1 DEF Variants
    <3>2. QED
      BY <3>1
  <2>3. kept \subseteq Variants /\ {v \in kept : v.live} = LiveVariants(h.prod) \ seen
    BY <1>1, DropLeaves DEF LiveVariants
  <2>4. \A v \in new : v.ver = h.ver /\ h.withVariants
    OBVIOUS
  <2> HIDE DEF new, kept
  <2>5. row \in ProductRows
    BY <1>1, <2>0, <2>2, <2>3 DEF ProductRows, Rows, Written
  <2>6. row.row = "live" /\ row.slug = h.slug /\ row.ver = h.ver /\ row.variants = kept \union new
    BY DEF Written
  <2> HIDE DEF row
  <2>7. Commits(r, kind) /\ product'[h.prod] = row
    BY <1>1, <2>1, <2>5, CommitMoves
  <2>8. LiveAfter(h.prod) = {v \in kept \union new : v.live}
    BY <2>6, <2>7 DEF LiveAfter
  <2>9. IF h.withVariants THEN \A v \in LiveAfter(h.prod) : v.ver = h.ver
        ELSE LiveAfter(h.prod) \subseteq LiveVariants(h.prod)
    BY <1>1, <2>3, <2>4, <2>8
  <2>10. QED
    BY <1>1, <1>3, <2>6, <2>7, <2>9 DEF CommitsWrite
<1>4. QED
  BY <1>2, <1>3

LEMMA DropRowMoves ==
  ASSUME TypeOK, HttpType, NEW r \in Requests, RequestOK(r), DropRow(r)
  PROVE  CommitsDrop(r)
<1> DEFINE h    == http[r]
           seen == h.seen
           old  == product[h.prod]
           left == (old.variants \ seen) \union Drop(seen)
           row  == [old EXCEPT !.row = "deleted", !.variants = left]
<1>1. /\ h.pc = "dropRow" /\ h.prod \in Products /\ seen \subseteq Variants /\ old \in ProductRows
      /\ ~RowLocked(h.prod, r)
  BY TypesApart DEF DropRow, RequestOK, Dropping, DatabaseType
<1>2. Commit(r, row, "deleted")
  BY <1>1 DEF DropRow, ProductRows
<1>3. left \subseteq Variants /\ {v \in left : v.live} = LiveVariants(h.prod) \ seen
  <2>1. old.variants \subseteq Variants
    BY <1>1 DEF ProductRows
  <2>2. QED
    BY <1>1, <2>1, DropLeaves DEF LiveVariants
<1> HIDE DEF left
<1>4. row \in ProductRows /\ row.row = "deleted" /\ row.slug = old.slug /\ row.ver = old.ver
      /\ row.variants = left
  BY <1>1, <1>3 DEF ProductRows, Rows
<1> HIDE DEF row
<1>5. Commits(r, "deleted") /\ product'[h.prod] = row
  BY <1>1, <1>2, <1>4, CommitMoves
<1>6. LiveAfter(h.prod) = {v \in left : v.live}
  BY <1>4, <1>5 DEF LiveAfter
<1>7. QED
  BY <1>1, <1>3, <1>4, <1>5, <1>6 DEF CommitsDrop

LEMMA CategoryMoves ==
  ASSUME TypeOK, HttpType, NEW r \in Requests, RequestOK(r),
         InsertCategory(r) \/ SaveCategory(r) \/ DropCategory(r)
  PROVE  Ends(r) \/ WritesCategory(r)
<1>0. category \in [Categories -> CategoryRows] /\ http[r].op \in Ops /\ {"ok", "error"} \subseteq Codes
  BY TypesApart DEF DatabaseType, HttpType, HttpRequests, Codes
<1>1. CASE AnswerOnly(r, http[r].op, "error")
  BY <1>0, <1>1, AnswerEnds DEF InsertCategory, SaveCategory, DropCategory
<1>2. ASSUME NEW c \in Categories, NEW row \in CategoryRows, category' = [category EXCEPT ![c] = row]
      PROVE  /\ \A d \in Categories \ {c} : category'[d] = category[d]
             /\ category' \in [Categories -> CategoryRows] /\ category'[c] = row
  BY <1>0, <1>2
<1>3. ASSUME InsertCategory(r), ~AnswerOnly(r, http[r].op, "error")
      PROVE  WritesCategory(r)
  <2> DEFINE row == [row |-> "live", slug |-> http[r].slug]
  <2>1. PICK c \in Categories : category[c].row = "none" /\ category' = [category EXCEPT ![c] = row]
    BY <1>3 DEF InsertCategory
  <2>2. row \in CategoryRows /\ row.row = "live" /\ row.slug = http[r].slug
    BY DEF CategoryRows, Rows, HttpType, HttpRequests
  <2>3. /\ http[r].pc = "insertCategory" /\ http[r].slug \notin KnownSlugs /\ Answer(r, http[r].op, "ok")
        /\ UNCHANGED <<product, clock, pending, handled, search, raced>>
    BY <1>3 DEF InsertCategory
  <2> HIDE DEF row
  <2>4. QED
    BY <1>0, <1>2, <2>1, <2>2, <2>3, AnswerMoves DEF WritesCategory
<1>4. ASSUME SaveCategory(r), ~AnswerOnly(r, http[r].op, "error")
      PROVE  WritesCategory(r)
  <2> DEFINE row == [row |-> "live", slug |-> http[r].slug]
             c   == http[r].cat
  <2>1. /\ http[r].pc = "saveCategory" /\ Answer(r, http[r].op, "ok")
        /\ UNCHANGED <<product, clock, pending, handled, search, raced>>
        /\ category' = [category EXCEPT ![c] = row]
        /\ http[r].slug = category[c].slug
           \/ (http[r].slug \notin KnownSlugs /\ ~Referenced(category[c].slug))
    BY <1>4 DEF SaveCategory
  <2>2. row \in CategoryRows /\ row.row = "live" /\ row.slug = http[r].slug
    BY DEF CategoryRows, Rows, HttpType, HttpRequests
  <2>3. c \in Categories
    BY <2>1 DEF RequestOK
  <2> HIDE DEF row
  <2>4. QED
    BY <1>0, <1>2, <2>1, <2>2, <2>3, AnswerMoves DEF WritesCategory
<1>5. ASSUME DropCategory(r)
      PROVE  WritesCategory(r)
  <2> DEFINE c   == http[r].cat
             row == [category[c] EXCEPT !.row = "deleted"]
  <2>1. /\ http[r].pc = "deleteCategory" /\ Answer(r, http[r].op, "ok")
        /\ UNCHANGED <<product, clock, pending, handled, search, raced>>
        /\ category' = [category EXCEPT ![c] = row]
    BY <1>5 DEF DropCategory
  <2>2. c \in Categories
    BY <2>1 DEF RequestOK
  <2>3. row \in CategoryRows /\ row.row = "deleted" /\ row.slug = category[c].slug
    BY <1>0, <2>2 DEF CategoryRows, Rows
  <2> HIDE DEF row
  <2>4. QED
    BY <1>0, <1>2, <2>1, <2>2, <2>3, AnswerMoves DEF WritesCategory
<1>6. QED
  BY <1>1, <1>3, <1>4, <1>5

LEMMA ReindexMoves ==
  ASSUME TypeOK, HttpType, NEW r \in Requests, RequestOK(r), ReindexOne(r)
  PROVE  Ends(r) \/ Indexes(r)
<1> DEFINE h == http[r]
<1>0. h.pc = "index" /\ h.op \in Ops \ WriteOps /\ h.seen \subseteq [prod : Products, ver : Versions]
  BY DEF ReindexOne, RequestOK, Elsewhere, HttpType, HttpRequests
<1>1. CASE AnswerOnly(r, h.op, "ok")
  BY <1>0, <1>1, AnswerEnds DEF Codes
<1>2. ASSUME NEW d \in h.seen, http' = [http EXCEPT ![r].seen = h.seen \ {d}],
             UNCHANGED <<database, job, raced>>,
             \/ /\ doc' = [doc EXCEPT ![d.prod] = d.ver]
                /\ unsettled' = unsettled \union
                     (IF ~Live(d.prod) \/ product[d.prod].ver # d.ver \/ Working(d.prod)
                      THEN {d.prod} ELSE {})
                /\ UNCHANGED faults
             \/ faults < MaxFaults /\ faults' = faults + 1 /\ UNCHANGED <<doc, unsettled>>
      PROVE  Indexes(r)
  <2> DEFINE seen == h.seen \ {d}
  <2>1. d.prod \in Products /\ d.ver \in Versions
    BY <1>0
  <2>2. seen \in SUBSET (Variants \union [prod : Products, ver : Versions]) /\ seen \subseteq h.seen
    BY <1>0
  <2>3. http' = [http EXCEPT ![r] = [http[r] EXCEPT !.pc = "index", !.seen = seen]]
    BY <1>0, <1>2 DEF HttpType, HttpRequests
  <2> HIDE DEF seen
  <2>4. Moves(r) /\ SameRequest(r) /\ http'[r].pc = "index" /\ http'[r].seen = seen
    BY <2>2, <2>3, StepMoves DEF Pcs
  <2>5. faults' \in 0 .. MaxFaults
    BY <1>2, CatalogueAssumption DEF TypeOK
  <2>6. QED
    BY <1>0, <1>2, <2>1, <2>2, <2>4, <2>5 DEF Indexes
<1>3. AnswerOnly(r, h.op, "ok") \/
      \E d \in h.seen :
        /\ http' = [http EXCEPT ![r].seen = h.seen \ {d}]
        /\ UNCHANGED <<database, job, raced>>
        /\ \/ /\ doc' = [doc EXCEPT ![d.prod] = d.ver]
              /\ unsettled' = unsettled \union
                   (IF ~Live(d.prod) \/ product[d.prod].ver # d.ver \/ Working(d.prod)
                    THEN {d.prod} ELSE {})
              /\ UNCHANGED faults
           \/ faults < MaxFaults /\ faults' = faults + 1 /\ UNCHANGED <<doc, unsettled>>
  BY DEF ReindexOne
<1>4. QED
  BY <1>1, <1>2, <1>3

LEMMA RequestSteps ==
  ASSUME TypeOK, ClockOK, RequestsInv, NEW r \in Requests, Receive(r) \/ Proceed(r) \/ DatabaseError(r)
  PROVE  RequestStep(r)
<1>0. /\ HttpType /\ RequestOK(r) /\ http[r] \in HttpRequests /\ {"ok", "error"} \subseteq Codes
      /\ \A p \in Products : LiveVariants(p) \subseteq Variants
  BY DEF RequestsInv, HttpType, Codes, TypeOK, LiveVariants
<1>1. CASE Receive(r)
  BY <1>0, <1>1, ProductBegins, OtherBegins DEF Receive, RequestStep
<1>2. CASE DatabaseError(r) \/ DeadlockVictim(r)
  <2>1. http[r].pc # "done" /\ AnswerOnly(r, http[r].op, "error") /\ http[r].op \in Ops
    BY <1>0, <1>2 DEF DatabaseError, DeadlockVictim, HttpRequests
  <2>2. QED
    BY <1>0, <2>1, AnswerEnds DEF RequestStep
<1>3. CASE SaveProduct(r)
  <2>1. CASE AnswerOnly(r, http[r].op, "error")
    BY <1>0, <1>3, <2>1, AnswerEnds DEF SaveProduct, HttpRequests, RequestStep
  <2>2. CASE ~AnswerOnly(r, http[r].op, "error")
    <3> DEFINE pc == IF http[r].withVariants THEN "variants" ELSE "naming"
    <3>1. /\ http' = [http EXCEPT ![r] = [http[r] EXCEPT !.pc = pc, !.seen = http[r].seen]]
          /\ http[r].pc = "save" /\ ~RowLocked(http[r].prod, r) /\ UNCHANGED <<database, search, raced>>
      BY <1>0, <1>3, <2>2 DEF SaveProduct, Goto, HttpType, HttpRequests
    <3>2. pc \in Pcs /\ http[r].seen \in SUBSET (Variants \union [prod : Products, ver : Versions])
      BY <1>0 DEF Pcs, HttpRequests
    <3> HIDE DEF pc
    <3>3. Moves(r) /\ SameRequest(r) /\ http'[r].pc = pc /\ http'[r].seen = http[r].seen
      BY <1>0, <3>1, <3>2, StepMoves, ZenonT(60)
    <3>4. QED
      BY <3>1, <3>3 DEF Saves, RequestStep, pc
  <2>3. QED
    BY <2>1, <2>2
<1>4. CASE ReplaceVariants(r)
  <2> DEFINE seen == LiveVariants(http[r].prod)
  <2>1. /\ http' = [http EXCEPT ![r] = [http[r] EXCEPT !.pc = "naming", !.seen = seen]]
        /\ http[r].pc = "variants" /\ UNCHANGED <<database, search, raced>>
    BY <1>0, <1>4 DEF ReplaceVariants, HttpType, HttpRequests
  <2>2. "naming" \in Pcs /\ seen \in SUBSET (Variants \union [prod : Products, ver : Versions])
    BY <1>0, <2>1 DEF Pcs, RequestOK, Writing
  <2> HIDE DEF seen
  <2>3. Moves(r) /\ SameRequest(r) /\ http'[r].pc = "naming" /\ http'[r].seen = seen
    BY <1>0, <2>1, <2>2, StepMoves
  <2>4. QED
    BY <2>1, <2>3 DEF Replaces, RequestStep, seen
<1>5. CASE DropVariants(r)
  <2> DEFINE seen == http[r].seen \intersect LiveVariants(http[r].prod)
  <2>1. /\ http' = [http EXCEPT ![r] = [http[r] EXCEPT !.pc = "dropRow", !.seen = seen]]
        /\ http[r].pc = "dropVariants" /\ UNCHANGED <<database, search, raced>>
    BY <1>0, <1>5 DEF DropVariants, HttpType, HttpRequests
  <2>2. "dropRow" \in Pcs /\ seen \in SUBSET (Variants \union [prod : Products, ver : Versions])
    BY <1>0, <2>1 DEF Pcs, RequestOK, Dropping
  <2> HIDE DEF seen
  <2>3. Moves(r) /\ SameRequest(r) /\ http'[r].pc = "dropRow" /\ http'[r].seen = seen
    BY <1>0, <2>1, <2>2, StepMoves
  <2>4. QED
    BY <2>1, <2>3 DEF Drops, RequestStep, seen
<1>6. CASE NameAndCommit(r)
  BY <1>0, <1>6, NameAndCommitMoves DEF RequestStep
<1>7. CASE DropRow(r)
  BY <1>0, <1>7, DropRowMoves DEF RequestStep
<1>8. CASE InsertCategory(r) \/ SaveCategory(r) \/ DropCategory(r)
  BY <1>0, <1>8, CategoryMoves DEF RequestStep
<1>9. CASE ReindexOne(r)
  BY <1>0, <1>9, ReindexMoves DEF RequestStep
<1>10. QED
  BY <1>1, <1>2, <1>3, <1>4, <1>5, <1>6, <1>7, <1>8, <1>9 DEF Proceed

\* What the consumers do to the documents and the events.
DocumentStep ==
  /\ UNCHANGED <<product, category, clock, http, raced>>
  /\ \/ \E w \in Workers : (\E e \in Deliverable : CompareVersions(w, e)) \/ IndexDocument(w)
     \/ \E e \in Deliverable : DeleteDocument(e)
     \/ UNCHANGED vars

LEMMA NextSteps ==
  ASSUME TypeOK, ClockOK, RequestsInv, [Next]_vars
  PROVE  (\E r \in Requests : RequestStep(r)) \/ DocumentStep
<1>1. ASSUME Consume
      PROVE  DocumentStep
  BY <1>1 DEF Consume, DocumentStep, CompareVersions, IndexDocument, DeleteDocument, database
<1>2. ASSUME UNCHANGED vars
      PROVE  DocumentStep
  BY <1>2 DEF vars, DocumentStep
<1>3. QED
  BY <1>1, <1>2, RequestSteps DEF Next

\* Overlaps are not forgotten, and events neither.
LEMMA HistoryGrows ==
  ASSUME TypeOK, ClockOK, RequestsInv, IndexInv, [Next]_vars
  PROVE  /\ raced \subseteq raced' /\ unsettled \subseteq unsettled' /\ handled \subseteq handled'
         /\ Recorded \subseteq Recorded'
<1>1. ASSUME NEW r \in Requests, RequestStep(r)
      PROVE  /\ raced \subseteq raced' /\ unsettled \subseteq unsettled' /\ handled \subseteq handled'
             /\ Recorded \subseteq Recorded'
  BY <1>1 DEF RequestStep, Ends, Begins, Saves, Replaces, Drops, CommitsWrite, CommitsDrop, Commits,
              WritesCategory, Indexes, database, search, Recorded
<1>2. ASSUME NEW e, Settle(e)
      PROVE  handled \subseteq handled' /\ Recorded \subseteq Recorded'
  BY <1>2 DEF Settle, Recorded
<1>3. ASSUME DocumentStep
      PROVE  /\ raced \subseteq raced' /\ unsettled \subseteq unsettled' /\ handled \subseteq handled'
             /\ Recorded \subseteq Recorded'
  BY <1>2, <1>3 DEF DocumentStep, CompareVersions, IndexDocument, DeleteDocument, database, vars, Recorded
<1>4. QED
  BY <1>1, <1>3, NextSteps

LEMMA TouchesType ==
  ASSUME TypeOK, NEW h \in HttpRequests
  PROVE  Touches(h) \subseteq Products \union Slugs
  BY DEF Touches, TypeOK, HttpRequests

LEMMA RequestStepTypes ==
  ASSUME TypeOK, ClockOK, HttpType, NEW r \in Requests, RequestStep(r)
  PROVE  HttpType' /\ DatabaseType' /\ SearchType'
<1>0. DatabaseType /\ SearchType
  BY TypesApart
<1>1. CASE Ends(r) \/ Saves(r) \/ Replaces(r) \/ Drops(r)
  BY <1>0, <1>1 DEF Ends, Saves, Replaces, Drops, Moves, DatabaseType, SearchType, database, search, Working
<1>2. CASE Begins(r)
  <2>1. clock' \in 2 .. 2 + Cardinality(Requests)
    BY <1>0, <1>2, ClockIsVersion DEF Begins, BeginsWriting, BeginsDropping, BeginsElsewhere, DatabaseType
  <2>2. raced' \subseteq Products \union Slugs
    <3>1. HttpType' /\ Touches(http'[r]) \subseteq Products \union Slugs
      BY <1>2, TouchesType DEF Begins, Moves, HttpType
    <3>2. QED
      BY <1>0, <1>2, <3>1 DEF Begins, DatabaseType
  <2>3. QED
    BY <1>0, <1>2, <2>1, <2>2 DEF Begins, Moves, DatabaseType, SearchType, search
<1>3. CASE CommitsWrite(r) \/ CommitsDrop(r)
  BY <1>0, <1>3 DEF CommitsWrite, CommitsDrop, Commits, Moves, DatabaseType, SearchType, search
<1>4. CASE WritesCategory(r)
  BY <1>0, <1>4 DEF WritesCategory, Moves, DatabaseType, SearchType, search
<1>5. CASE Indexes(r)
  BY <1>0, <1>5 DEF Indexes, Moves, DatabaseType, SearchType, database
<1>6. QED
  BY <1>1, <1>2, <1>3, <1>4, <1>5 DEF RequestStep

LEMMA DeliverableType ==
  ASSUME TypeOK, NEW e \in Deliverable
  PROVE  /\ e \in Recorded /\ e \in Events /\ e.prod \in Products /\ e.ver \in Versions
         /\ Redelivery(e) \in {0, 1} /\ (Redelivery(e) = 1 => faults < MaxFaults)
  BY DEF Deliverable, Recorded, TypeOK, Events, Redelivery

LEMMA DocumentStepTypes ==
  ASSUME TypeOK, HttpType, JobType, DocumentStep
  PROVE  HttpType' /\ DatabaseType' /\ SearchType' /\ JobType'
<1>0. DatabaseType /\ SearchType
  BY TypesApart
<1>1. HttpType' /\ product' \in [Products -> ProductRows] /\ category' \in [Categories -> CategoryRows]
      /\ clock' \in 2 .. 2 + Cardinality(Requests) /\ raced' \subseteq Products \union Slugs
  BY <1>0 DEF DocumentStep, HttpType, DatabaseType
<1> DEFINE Rest == /\ pending' \subseteq Events /\ handled' \subseteq Events
                   /\ doc' \in [Products -> Versions] /\ unsettled' \subseteq Products
                   /\ faults' \in 0 .. MaxFaults /\ JobType'
<1>2. ASSUME NEW w \in Workers, NEW e \in Deliverable, CompareVersions(w, e)
      PROVE  Rest
  <2>1. /\ e \in Events /\ e.prod \in Products /\ Redelivery(e) \in {0, 1}
        /\ Redelivery(e) = 1 => faults < MaxFaults
    BY <1>2, DeliverableType
  <2>2. faults' \in 0 .. MaxFaults
    BY <1>0, <1>2, <2>1, CatalogueAssumption DEF CompareVersions, SearchType
  <2>3. PICK b \in BOOLEAN : job' = [job EXCEPT ![w] = [at |-> "writing", event |-> e,
                                                       skip |-> ~b /\ e.ver < GetExistingVersion(e.prod)]]
    BY <1>2 DEF CompareVersions
  <2>4. JobType'
    BY <2>1, <2>3 DEF JobType
  <2>5. QED
    BY <1>0, <1>2, <2>1, <2>2, <2>4 DEF CompareVersions, database, DatabaseType, SearchType
<1>3. ASSUME NEW w \in Workers, IndexDocument(w)
      PROVE  Rest
  <2> DEFINE e == job[w].event
  <2>1. job[w].at = "writing"
    BY <1>3 DEF IndexDocument
  <2>2. e \in Events
    BY <2>1 DEF JobType, Idle
  <2>3. e.prod \in Products /\ e.ver \in Versions
    BY <2>2 DEF Events
  <2>4. job' = [job EXCEPT ![w] = Idle]
    BY <1>3 DEF IndexDocument
  <2>5. JobType'
    BY <2>4 DEF JobType
  <2>6. /\ pending' \subseteq Events /\ handled' \subseteq Events /\ doc' \in [Products -> Versions]
        /\ faults' \in 0 .. MaxFaults /\ unsettled' = unsettled
    BY <1>0, <1>3, <2>2, <2>3, CatalogueAssumption DEF IndexDocument, Settle, DatabaseType, SearchType
  <2>7. QED
    BY <1>0, <2>5, <2>6 DEF SearchType
<1>4. ASSUME NEW e \in Deliverable, DeleteDocument(e)
      PROVE  Rest
  <2>1. /\ e \in Events /\ e.prod \in Products /\ Redelivery(e) \in {0, 1}
        /\ Redelivery(e) = 1 => faults < MaxFaults
    BY <1>4, DeliverableType
  <2>2. faults' \in 0 .. MaxFaults
    BY <1>0, <1>4, <2>1, CatalogueAssumption DEF DeleteDocument, SearchType
  <2>3. doc' \in [Products -> Versions] /\ unsettled' \subseteq Products /\ job' = job
    BY <1>0, <1>4, <2>1, VersionsType DEF DeleteDocument, SearchType
  <2>4. pending' \subseteq Events /\ handled' \subseteq Events
    BY <1>0, <1>4, <2>1 DEF DeleteDocument, Settle, DatabaseType
  <2>5. QED
    BY <2>2, <2>3, <2>4 DEF JobType
<1>5. ASSUME UNCHANGED vars
      PROVE  Rest
  BY <1>0, <1>5 DEF vars, DatabaseType, SearchType, JobType
<1>6. Rest
  BY <1>2, <1>3, <1>4, <1>5 DEF DocumentStep
<1>7. SearchType'
  <2>1. \A w \in Workers : job'[w] = Idle \/ (job'[w].at = "writing" /\ job'[w].event \in Events)
    BY <1>6 DEF JobType
  <2>2. QED
    BY <1>6, <2>1 DEF SearchType
<1>8. QED
  BY <1>1, <1>6, <1>7 DEF DatabaseType

LEMMA NextTypeOK ==
  ASSUME CatalogueInv, [Next]_vars
  PROVE  TypeOK' /\ HttpType' /\ DatabaseType' /\ JobType'
<1>0. TypeOK /\ ClockOK /\ RequestsInv /\ HttpType /\ JobType
  BY DEF CatalogueInv, RequestsInv, HttpType, IndexInv
<1>1. HttpType' /\ DatabaseType' /\ SearchType' /\ JobType'
  <2>1. ASSUME NEW r \in Requests, RequestStep(r)
        PROVE  HttpType' /\ DatabaseType' /\ SearchType' /\ JobType'
    <3>1. job' = job
      BY <2>1 DEF RequestStep, Ends, Begins, Saves, Replaces, Drops, CommitsWrite, CommitsDrop, Commits,
                  WritesCategory, Indexes, search
    <3>2. QED
      BY <1>0, <2>1, <3>1, RequestStepTypes DEF JobType
  <2>2. QED
    BY <1>0, <2>1, DocumentStepTypes, NextSteps
<1>2. QED
  BY <1>1, TypesTogether, PTL

\* Who takes a version has begun.
LEMMA NextClockOK ==
  ASSUME CatalogueInv, [Next]_vars
  PROVE  ClockOK' /\ clock \in Nat /\ clock' \in Nat /\ clock <= clock'
<1> DEFINE B  == {r \in Requests : http[r].pc # "new"}
           B2 == {r \in Requests : http'[r].pc # "new"}
<1>0. /\ TypeOK /\ ClockOK /\ RequestsInv /\ clock \in Nat
      /\ IsFiniteSet(B) /\ Cardinality(B) \in Nat /\ clock <= 2 + Cardinality(B)
      /\ IsFiniteSet(B2) /\ Cardinality(B2) \in Nat
  <2>1. B \subseteq Requests /\ B2 \subseteq Requests
    OBVIOUS
  <2>2. clock <= 2 + Cardinality(B) /\ TypeOK /\ ClockOK /\ RequestsInv
    BY DEF CatalogueInv, ClockOK
  <2> HIDE DEF B, B2
  <2>3. clock \in Nat
    BY <2>2, VersionsType DEF TypeOK
  <2>4. QED
    BY <2>1, <2>2, <2>3, CatalogueAssumption, FS_Subset, FS_CardinalityType
<1>1. ASSUME clock' = clock, B \subseteq B2
      PROVE  clock' \in Nat /\ clock <= clock' /\ clock' <= 2 + Cardinality(B2)
  <2>1. Cardinality(B) <= Cardinality(B2)
    BY <1>0, <1>1, FS_Subset
  <2> HIDE DEF B, B2
  <2>2. QED
    BY <1>0, <1>1, <2>1
<1>2. ASSUME clock' = clock + 1, NEW r \in Requests, http[r].pc = "new", B \union {r} \subseteq B2
      PROVE  clock' \in Nat /\ clock <= clock' /\ clock' <= 2 + Cardinality(B2)
  <2>1. r \notin B
    BY <1>2
  <2> HIDE DEF B, B2
  <2>2. IsFiniteSet(B \union {r}) /\ Cardinality(B \union {r}) = Cardinality(B) + 1
    BY <1>0, <2>1, FS_AddElement
  <2>3. Cardinality(B \union {r}) <= Cardinality(B2)
    BY <1>0, <1>2, <2>2, FS_Subset
  <2>4. QED
    BY <1>0, <1>2, <2>2, <2>3
<1>3. ASSUME NEW r \in Requests, RequestStep(r)
      PROVE  clock' \in Nat /\ clock <= clock' /\ clock' <= 2 + Cardinality(B2)
  <2>1. http'[r].pc # "new" /\ \A q \in Requests \ {r} : http'[q] = http[q]
    BY <1>3 DEF RequestStep, Moves, Ends, Begins, BeginsWriting, BeginsDropping, BeginsElsewhere, Elsewhere,
                Saves, Replaces, Drops, CommitsWrite, CommitsDrop, Commits, WritesCategory, Indexes
  <2>2. B \union {r} \subseteq B2
    BY <2>1
  <2>3. clock' = clock \/ (clock' = clock + 1 /\ http[r].pc = "new")
    BY <1>3 DEF RequestStep, Ends, Begins, BeginsWriting, BeginsDropping, BeginsElsewhere, database,
                Saves, Replaces, Drops, CommitsWrite, CommitsDrop, Commits, WritesCategory, Indexes
  <2> HIDE DEF B, B2
  <2>4. QED
    BY <1>1, <1>2, <2>2, <2>3
<1>4. ASSUME DocumentStep
      PROVE  clock' \in Nat /\ clock <= clock' /\ clock' <= 2 + Cardinality(B2)
  BY <1>1, <1>4 DEF DocumentStep
<1>5. clock' \in Nat /\ clock <= clock' /\ clock' <= 2 + Cardinality(B2)
  BY <1>0, <1>3, <1>4, NextSteps
<1>6. QED
  BY <1>0, <1>5 DEF ClockOK

-----------------------------------------------------------------------------
(* Requests that overlap.                                                  *)

LEMMA TouchesHas ==
  ASSUME NEW h
  PROVE  /\ h.prod # None => h.prod \in Touches(h)
         /\ h.slug # None => h.slug \in Touches(h)
         /\ h.cat # None /\ category[h.cat].slug # None => category[h.cat].slug \in Touches(h)
  BY DEF Touches

\* A request that goes on, or ends, is about what it was about.
LEMMA StepsKeepSubject ==
  ASSUME NEW r \in Requests, RequestStep(r), ~Begins(r), NEW q \in Requests, q \in InFlight'
  PROVE  /\ q \in InFlight /\ http'[q].prod = http[q].prod /\ http'[q].slug = http[q].slug
         /\ http'[q].cat = http[q].cat
<1>1. CASE q # r
  BY <1>1 DEF RequestStep, Moves, Ends, Saves, Replaces, Drops, CommitsWrite, CommitsDrop, Commits,
              WritesCategory, Indexes, InFlight
<1>2. CASE q = r
  BY <1>2 DEF RequestStep, Ends, Saves, Replaces, Drops, CommitsWrite, CommitsDrop, Commits,
              WritesCategory, Indexes, SameRequest, InFlight
<1>3. QED
  BY <1>1, <1>2

\* One writer of a row.
LEMMA NextOneWriter ==
  ASSUME CatalogueInv, [Next]_vars, NEW q \in Requests, NEW r \in Requests, q # r,
         http'[q].pc \in Holding, http'[r].pc \in Holding
  PROVE  http'[q].prod # http'[r].prod
<1>0. \A x, y \in Requests : x # y /\ http[x].pc \in Holding /\ http[y].pc \in Holding =>
        http[x].prod # http[y].prod
  BY DEF CatalogueInv, ApartInv, ApartOK
<1>1. ASSUME NEW a \in Requests, NEW b \in Requests, a # b, RequestStep(a),
             http'[a].pc \in Holding, http'[b].pc \in Holding
      PROVE  http'[a].prod # http'[b].prod
  <2>1. http'[b] = http[b] /\ b \in InFlight
    BY <1>1 DEF RequestStep, Moves, Ends, Begins, Saves, Replaces, Drops, CommitsWrite, CommitsDrop,
                Commits, WritesCategory, Indexes, InFlight, Holding
  <2>2. CASE Begins(a)
    BY <1>1, <2>1, <2>2 DEF Begins, BeginsWriting, BeginsDropping, BeginsElsewhere, Elsewhere, Holding
  <2>3. CASE Saves(a)
    BY <1>1, <2>1, <2>3 DEF Saves, SameRequest, RowLocked, Holding
  <2>4. CASE Replaces(a)
    BY <1>0, <1>1, <2>1, <2>4 DEF Replaces, SameRequest, Holding
  <2>5. CASE ~Begins(a) /\ ~Saves(a) /\ ~Replaces(a)
    BY <1>1, <2>5 DEF RequestStep, Ends, Drops, CommitsWrite, CommitsDrop, Commits, WritesCategory,
                      Indexes, Holding
  <2>6. QED
    BY <2>2, <2>3, <2>4, <2>5
<1>2. ASSUME NEW a \in Requests, a \notin {q, r}, RequestStep(a)
      PROVE  http'[q] = http[q] /\ http'[r] = http[r]
  BY <1>2 DEF RequestStep, Moves, Ends, Begins, Saves, Replaces, Drops, CommitsWrite, CommitsDrop,
              Commits, WritesCategory, Indexes
<1>3. ASSUME NEW a \in Requests, RequestStep(a)
      PROVE  http'[q].prod # http'[r].prod
  <2>1. CASE a = q
    BY <1>1, <1>3, <2>1
  <2>2. CASE a = r
    BY <1>1, <1>3, <2>2
  <2>3. CASE a \notin {q, r}
    BY <1>0, <1>2, <1>3, <2>3
  <2>4. QED
    BY <2>1, <2>2, <2>3
<1>4. CASE DocumentStep
  BY <1>0, <1>4 DEF DocumentStep
<1>5. QED
  BY <1>3, <1>4, NextSteps DEF CatalogueInv

\* What two requests in flight have in common is raced.
Overlap(q, r) ==
  q \in InFlight /\ r \in InFlight =>
    /\ http[q].prod = http[r].prod /\ http[q].prod # None => http[q].prod \in raced
    /\ http[q].slug = http[r].slug /\ http[q].slug # None => http[q].slug \in raced
    /\ http[q].slug # None /\ http[r].cat # None /\ http[q].slug = category[http[r].cat].slug =>
         http[q].slug \in raced

LEMMA NextOverlap ==
  ASSUME CatalogueInv, [Next]_vars, NEW q \in Requests, NEW r \in Requests, q # r
  PROVE  Overlap(q, r)'
<1>0. /\ raced \subseteq raced' /\ HttpType /\ TypeOK
      /\ \A x, y \in Requests : x # y => Overlap(x, y)
  BY HistoryGrows DEF CatalogueInv, ApartInv, ApartOK, Overlap, RequestsInv, HttpType
<1>1. ASSUME NEW a \in Requests, Begins(a), a \in {q, r}
      PROVE  Overlap(q, r)'
  <2> DEFINE b == IF a = q THEN r ELSE q
  <2>1. b \in Requests /\ http'[b] = http[b] /\ category' = category
    BY <1>1 DEF Begins, Moves
  <2>2. b \in InFlight' => b \in InFlight /\ Touches(http'[a]) \intersect Touches(http[b]) \subseteq raced'
    BY <1>1, <2>1 DEF Begins, InFlight
  <2>3. q \in InFlight' /\ r \in InFlight' => Touches(http'[q]) \intersect Touches(http'[r]) \subseteq raced'
    BY <1>1, <2>1, <2>2
  <2> HIDE DEF b
  <2>4. ASSUME q \in InFlight', r \in InFlight'
        PROVE  /\ http'[q].prod = http'[r].prod /\ http'[q].prod # None => http'[q].prod \in raced'
               /\ http'[q].slug = http'[r].slug /\ http'[q].slug # None => http'[q].slug \in raced'
               /\ http'[q].slug # None /\ http'[r].cat # None
                    /\ http'[q].slug = category[http'[r].cat].slug => http'[q].slug \in raced'
    BY <2>3, <2>4, TouchesHas
  <2>5. QED
    BY <2>1, <2>4 DEF Overlap
<1>2. ASSUME NEW a \in Requests, Begins(a), a \notin {q, r}
      PROVE  Overlap(q, r)'
  <2>1. http'[q] = http[q] /\ http'[r] = http[r] /\ category' = category
    BY <1>2 DEF Begins, Moves
  <2>2. QED
    BY <1>0, <2>1 DEF Overlap, InFlight
<1>3. ASSUME NEW a \in Requests, RequestStep(a), ~Begins(a), category' = category
      PROVE  Overlap(q, r)'
  BY <1>0, <1>3, StepsKeepSubject DEF Overlap
\* The category of r gets the slug of the request that saves it, which overlaps with q.
<1>4. ASSUME NEW a \in Requests, WritesCategory(a), ~Begins(a)
      PROVE  Overlap(q, r)'
  <2> SUFFICES ASSUME q \in InFlight', r \in InFlight'
               PROVE  Overlap(q, r)'
    BY DEF Overlap
  <2>1. /\ q \in InFlight /\ http'[q].prod = http[q].prod /\ http'[q].slug = http[q].slug
        /\ r \in InFlight /\ http'[r].prod = http[r].prod /\ http'[r].slug = http[r].slug
        /\ http'[r].cat = http[r].cat
    BY <1>4, StepsKeepSubject DEF RequestStep
  <2>2. q # a /\ r # a /\ a \in InFlight
    BY <1>4 DEF WritesCategory, InFlight
  <2>3. ASSUME http[q].slug # None, http[r].cat # None, http[q].slug = category'[http[r].cat].slug
        PROVE  http[q].slug \in raced
    <3>1. http[r].cat \in Categories /\ (http[r].pc \in {"saveCategory", "deleteCategory"})
      BY <1>0, <2>1, <2>3 DEF CatalogueInv, RequestsInv, RequestOK, HttpType, HttpRequests, InFlight, Pcs,
                              Writing, Dropping
    <3>2. category[http[r].cat].row # "none"
      BY <3>1 DEF CatalogueInv, RequestsInv, RequestOK
    <3>3. PICK c \in Categories :
             /\ \A d \in Categories \ {c} : category'[d] = category[d]
             /\ \/ category[c].row = "none"
                \/ http[a].pc = "saveCategory" /\ category'[c].slug = http[a].slug
                \/ category'[c].slug = category[c].slug
      BY <1>4 DEF WritesCategory
    <3>4. CASE category'[http[r].cat].slug = category[http[r].cat].slug
      BY <1>0, <2>1, <2>3, <3>4 DEF Overlap
    <3>5. CASE category'[http[r].cat].slug = http[a].slug
      <4>1. Overlap(q, a) /\ http[q].slug = http[a].slug
        BY <1>0, <2>2, <2>3, <3>5
      <4>2. QED
        BY <2>1, <2>2, <2>3, <4>1 DEF Overlap
    <3>6. QED
      BY <3>1, <3>2, <3>3, <3>4, <3>5
  <2>4. raced' = raced
    BY <1>4 DEF WritesCategory
  <2>5. QED
    BY <1>0, <2>1, <2>3, <2>4 DEF Overlap
<1>5. CASE DocumentStep
  BY <1>0, <1>5 DEF DocumentStep, Overlap, InFlight
<1>6. ASSUME NEW a \in Requests, RequestStep(a), ~Begins(a), ~WritesCategory(a)
      PROVE  category' = category
  BY <1>6 DEF RequestStep, Ends, Saves, Replaces, Drops, CommitsWrite, CommitsDrop, Commits,
              Indexes, database
<1>7. QED
  BY <1>1, <1>2, <1>3, <1>4, <1>5, <1>6, NextSteps DEF CatalogueInv

LEMMA NextApartInv ==
  ASSUME CatalogueInv, [Next]_vars
  PROVE  ApartInv'
  BY NextOneWriter, NextOverlap DEF ApartInv, ApartOK, Overlap

-----------------------------------------------------------------------------
(* What a transaction may rely on.                                         *)

\* Only a transaction that commits writes a row, and nobody in flight notices, unless the two
\* overlapped and the other one does not hold the row.
LEMMA RowStays ==
  ASSUME CatalogueInv, NEW a \in Requests, NEW r \in Requests, a # r, RequestStep(a),
         http[r].pc \in Writing \union Dropping
  PROVE  \/ product'[http[r].prod] = product[http[r].prod]
         \/ http[r].prod \in raced /\ http[r].pc \notin Holding
<1>0. http[r].prod \in Products /\ None \notin Products /\ r \in InFlight
  BY CatalogueAssumption DEF CatalogueInv, RequestsInv, RequestOK, InFlight, Writing, Dropping
<1>1. CASE product' = product
  BY <1>1
<1>2. CASE (CommitsWrite(a) \/ CommitsDrop(a)) /\ http[a].prod # http[r].prod
  BY <1>0, <1>2 DEF CommitsWrite, CommitsDrop, Commits
<1>3. CASE (CommitsWrite(a) \/ CommitsDrop(a)) /\ http[a].prod = http[r].prod
  <2>1. a \in InFlight /\ ApartOK(a, r)
    BY <1>3 DEF CommitsWrite, CommitsDrop, InFlight, CatalogueInv, ApartInv
  <2>2. http[r].prod \in raced
    BY <1>0, <1>3, <2>1 DEF ApartOK
  <2>3. http[r].pc \notin Holding
    BY <1>3, <2>1 DEF ApartOK, CommitsWrite, CommitsDrop, RowLocked, Holding
  <2>4. QED
    BY <2>2, <2>3
<1>4. QED
  BY <1>1, <1>2, <1>3 DEF RequestStep, Ends, Begins, Saves, Replaces, Drops, WritesCategory, Indexes,
                          database

\* An id that was given to a category is never free again.
LEMMA CategoriesStay ==
  ASSUME NEW a \in Requests, RequestStep(a), NEW c \in Categories, category[c].row # "none"
  PROVE  category'[c].row # "none"
  BY DEF RequestStep, Ends, Begins, Saves, Replaces, Drops, CommitsWrite, CommitsDrop, Commits,
         WritesCategory, Indexes, database

LEMMA ProductsStay ==
  ASSUME NEW a \in Requests, RequestStep(a), NEW p \in Products, product[p].row # "none"
  PROVE  product'[p].row # "none"
<1>1. CASE CommitsWrite(a) \/ CommitsDrop(a)
  BY <1>1 DEF CommitsWrite, CommitsDrop, Commits
<1>2. CASE ~CommitsWrite(a) /\ ~CommitsDrop(a)
  BY <1>2 DEF RequestStep, Ends, Begins, Saves, Replaces, Drops, WritesCategory, Indexes, database
<1>3. QED
  BY <1>1, <1>2

LEMMA OthersRequestOK ==
  ASSUME CatalogueInv, [Next]_vars, NEW a \in Requests, NEW r \in Requests, a # r, RequestStep(a)
  PROVE  RequestOK(r)' /\ AloneOK(r)'
<1>0. /\ RequestOK(r) /\ AloneOK(r) /\ http[r] \in HttpRequests
      /\ clock \in Nat /\ clock' \in Nat /\ clock <= clock' /\ raced \subseteq raced'
      /\ http'[r] = http[r]
  <2>1. /\ TypeOK /\ ClockOK /\ RequestsInv /\ IndexInv /\ RequestOK(r) /\ AloneOK(r)
        /\ http[r] \in HttpRequests
    BY DEF CatalogueInv, RequestsInv
  <2>2. http'[r] = http[r]
    BY DEF RequestStep, Moves, Ends, Begins, Saves, Replaces, Drops, CommitsWrite, CommitsDrop, Commits,
           WritesCategory, Indexes
  <2>3. QED
    BY <2>1, <2>2, NextClockOK, HistoryGrows
<1> DEFINE h == http[r]
<1>1. h.pc \in Writing => h.ver < clock'
  <2>1. h.ver \in Nat
    BY <1>0, VersionsType DEF HttpRequests
  <2>2. QED
    BY <1>0, <2>1 DEF RequestOK
<1>2. h.pc \in {"saveCategory", "deleteCategory"} => category'[h.cat].row # "none"
  BY <1>0, CategoriesStay DEF RequestOK
<1>3. h.pc \in Holding => product'[h.prod] = product[h.prod]
  BY RowStays DEF Writing, Holding
<1>4. h.pc \in Writing \union Dropping /\ h.prod \notin raced => product'[h.prod] = product[h.prod]
  BY RowStays
<1>5. h.pc \in Dropping => product'[h.prod].row # "none"
  BY <1>0, ProductsStay DEF RequestOK
<1>6. RequestOK(r)'
  BY <1>0, <1>1, <1>2, <1>3, <1>5 DEF RequestOK, LiveVariants, Holding
<1>7. AloneOK(r)'
  BY <1>0, <1>4 DEF AloneOK, Live, LiveVariants
<1>8. QED
  BY <1>6, <1>7

LEMMA OwnRequestOK ==
  ASSUME CatalogueInv, [Next]_vars, NEW r \in Requests, RequestStep(r)
  PROVE  RequestOK(r)' /\ AloneOK(r)'
<1>0. /\ RequestOK(r) /\ AloneOK(r) /\ http[r] \in HttpRequests /\ TypeOK
      /\ clock \in Nat /\ clock' \in Nat /\ clock <= clock'
      /\ \A p \in Products : ProductOK(p)
  <2>1. /\ TypeOK /\ RequestOK(r) /\ AloneOK(r) /\ http[r] \in HttpRequests
        /\ \A p \in Products : ProductOK(p)
    BY DEF CatalogueInv, RequestsInv, ProductsInv
  <2>2. QED
    BY <2>1, NextClockOK
<1>1. CASE http'[r].pc = "done"
  BY <1>1 DEF RequestOK, AloneOK, Writing, Dropping, Elsewhere
<1>2. CASE Begins(r) /\ BeginsWriting(r)
  <2> DEFINE h == http'[r]
  <2>1. /\ h.prod \in Products /\ h.slug \in Slugs /\ h.ver = clock /\ h.seen = {} /\ h.cat = None
        /\ clock' = clock + 1 /\ product' = product /\ raced \subseteq raced'
        /\ \/ h.pc = "naming" /\ h.op = "create" /\ product[h.prod].row = "none"
           \/ h.pc = "save" /\ h.op = "update" /\ Live(h.prod)
    BY <1>2 DEF Begins, BeginsWriting
  <2>2. http[r].pc = "new"
    BY <1>2 DEF Begins
  <2>3. clock >= 2
    BY <1>0, <2>2, ClockIsVersion DEF CatalogueInv
  <2>4. product[h.prod].ver < clock /\ product[h.prod].ver \in Nat
    BY <1>0, <2>1, VersionsType DEF ProductOK, TypeOK
  <2>5. h.pc = "naming" => LiveVariants(h.prod) = {}
    BY <1>0, <2>1 DEF ProductOK, LiveVariants, NoProduct
  <2>6. \A p : LiveVariants(p)' = LiveVariants(p) /\ Live(p)' = Live(p)
    BY <2>1 DEF LiveVariants, Live
  <2>7. RequestOK(r)'
    BY <1>0, <2>1, <2>3, <2>5 DEF RequestOK, Writing, Dropping, Elsewhere, LiveVariants
  <2>8. AloneOK(r)'
    BY <1>0, <2>1, <2>4 DEF AloneOK, Writing, Dropping, Live
  <2>9. QED
    BY <2>7, <2>8
<1>3. CASE Begins(r) /\ BeginsDropping(r)
  <2>1. LiveVariants(http'[r].prod) \subseteq Variants
    BY <1>0, <1>3 DEF BeginsDropping, LiveVariants, TypeOK
  <2>2. QED
    BY <1>0, <1>3, <2>1 DEF Begins, BeginsDropping, RequestOK, AloneOK, Writing, Dropping, Elsewhere,
                            LiveVariants, Live
<1>4. CASE Begins(r) /\ BeginsElsewhere(r)
  BY <1>0, <1>4 DEF Begins, BeginsElsewhere, RequestOK, AloneOK, Writing, Dropping, Elsewhere
<1>5. CASE Saves(r)
  BY <1>0, <1>5 DEF Saves, SameRequest, database, RequestOK, AloneOK, Writing, Dropping, Elsewhere,
                    LiveVariants, Live, HttpRequests
<1>6. CASE Replaces(r)
  <2>1. LiveVariants(http[r].prod) \subseteq Variants
    BY <1>0, <1>6 DEF Replaces, LiveVariants, TypeOK, RequestOK, Writing
  <2>2. QED
    BY <1>0, <1>6, <2>1 DEF Replaces, SameRequest, database, RequestOK, AloneOK, Writing, Dropping,
                            Elsewhere, LiveVariants, Live
<1>7. CASE Drops(r)
  BY <1>0, <1>7 DEF Drops, SameRequest, database, RequestOK, AloneOK, Writing, Dropping, Elsewhere,
                    LiveVariants, Live
<1>8. CASE Indexes(r)
  BY <1>0, <1>8 DEF Indexes, SameRequest, database, RequestOK, AloneOK, Writing, Dropping, Elsewhere
<1>9. QED
  BY <1>1, <1>2, <1>3, <1>4, <1>5, <1>6, <1>7, <1>8
     DEF RequestStep, Ends, Begins, CommitsWrite, CommitsDrop, Commits, WritesCategory

LEMMA NextRequestsInv ==
  ASSUME CatalogueInv, [Next]_vars
  PROVE  RequestsInv'
<1>1. ASSUME NEW a \in Requests, RequestStep(a), NEW r \in Requests
      PROVE  RequestOK(r)' /\ AloneOK(r)'
  BY <1>1, OthersRequestOK, OwnRequestOK
<1>2. ASSUME DocumentStep, NEW r \in Requests
      PROVE  RequestOK(r)' /\ AloneOK(r)'
  BY <1>2 DEF DocumentStep, CatalogueInv, RequestsInv, RequestOK, AloneOK, LiveVariants, Live
<1>3. (\E a \in Requests : RequestStep(a)) \/ DocumentStep
  BY NextSteps DEF CatalogueInv
<1>4. QED
  BY <1>1, <1>2, <1>3, NextTypeOK DEF RequestsInv, HttpType

-----------------------------------------------------------------------------
(* Products and their variants.                                             *)

\* A slug that a row references stays one of a category.
LEMMA ReferencedStays ==
  ASSUME CatalogueInv, NEW a \in Requests, RequestStep(a), NEW p \in Products,
         product[p].row # "none", product[p].slug \in KnownSlugs
  PROVE  product[p].slug \in KnownSlugs'
<1> DEFINE s == product[p].slug
<1>1. PICK d \in Categories : category[d].slug = s /\ s # None
  BY DEF KnownSlugs
<1>2. Referenced(s)
  BY DEF Referenced
<1>3. category'[d].slug = s
  <2>1. CASE WritesCategory(a)
    <3>1. PICK c \in Categories :
             /\ \A e \in Categories \ {c} : category'[e] = category[e]
             /\ \/ category[c].row = "none"
                \/ category'[c].slug = category[c].slug
                \/ ~Referenced(category[c].slug)
      BY <2>1 DEF WritesCategory
    <3>2. category[c].row = "none" => category[c].slug = None
      BY DEF CatalogueInv, CategoriesInv, CategoryOK
    <3>3. QED
      BY <1>1, <1>2, <3>1, <3>2
  <2>2. CASE ~WritesCategory(a)
    BY <1>1, <2>2 DEF RequestStep, Ends, Begins, Saves, Replaces, Drops, CommitsWrite, CommitsDrop, Commits,
                      Indexes, database
  <2>3. QED
    BY <2>1, <2>2
<1>4. QED
  BY <1>1, <1>3 DEF KnownSlugs

\* What VariantsFollowProduct says of one product.
FollowOK(p) ==
  /\ \A v, u \in LiveVariants(p) : v.ver = u.ver
  /\ product[p].row = "deleted" /\ p \notin raced => LiveVariants(p) = {}

LEMMA FollowTogether == VariantsFollowProduct <=> \A p \in Products : FollowOK(p)
  BY DEF VariantsFollowProduct, FollowOK, GetDetailHome, SelectByID

LEMMA CommittedProductOK ==
  ASSUME CatalogueInv, [Next]_vars, NEW a \in Requests, CommitsWrite(a) \/ CommitsDrop(a),
         NEW p \in Products, p = http[a].prod
  PROVE  ProductOK(p)' /\ FollowOK(p)'
<1> DEFINE h    == http[a]
           row  == product'[p]
           live == LiveAfter(p)
<1>0. /\ RequestOK(a) /\ AloneOK(a) /\ ProductOK(p) /\ FollowOK(p)
      /\ category' = category /\ raced' = raced /\ clock' = clock
      /\ h.withVariants \in BOOLEAN
  BY FollowTogether DEF CommitsWrite, CommitsDrop, Commits, CatalogueInv, RequestsInv, ProductsInv, HttpRequests
<1>1. KnownSlugs' = KnownSlugs
  BY <1>0 DEF KnownSlugs
<1>2. row.row # "none" /\ row.slug \in KnownSlugs /\ row.ver < clock
  <2>1. CASE CommitsWrite(a)
    <3>1. h.slug \in KnownSlugs
      <4>1. PICK c \in Categories : category[c].slug = h.slug
        BY <2>1 DEF CommitsWrite, CategoryNamed, GetBySlug
      <4>2. h.slug # None
        BY <1>0, <2>1, CatalogueAssumption DEF CommitsWrite, RequestOK, Writing
      <4>3. QED
        BY <4>1, <4>2 DEF KnownSlugs
    <3>2. QED
      BY <1>0, <2>1, <3>1 DEF CommitsWrite, RequestOK, Writing
  <2>2. CASE CommitsDrop(a)
    BY <1>0, <2>2 DEF CommitsDrop, RequestOK, Dropping, ProductOK
  <2>3. QED
    BY <2>1, <2>2
<1>3. \A v, u \in live : v.ver = u.ver
  BY <1>0 DEF CommitsWrite, CommitsDrop, FollowOK
<1>4. row.row = "deleted" /\ p \notin raced => live = {}
  BY <1>0 DEF CommitsWrite, CommitsDrop, AloneOK, Dropping
<1>5. LiveVariants(p)' = live
  BY DEF LiveAfter, LiveVariants
<1>6. ProductOK(p)'
  BY <1>0, <1>1, <1>2 DEF ProductOK
<1>7. FollowOK(p)'
  BY <1>0, <1>3, <1>4, <1>5 DEF FollowOK
<1>8. QED
  BY <1>6, <1>7

LEMMA NextProductsInv ==
  ASSUME CatalogueInv, [Next]_vars
  PROVE  ProductsInv'
<1>0. /\ TypeOK /\ ClockOK /\ RequestsInv /\ IndexInv /\ raced \subseteq raced'
      /\ clock \in Nat /\ clock' \in Nat /\ clock <= clock'
      /\ \A p \in Products : ProductOK(p) /\ FollowOK(p) /\ product[p].ver \in Nat
  BY HistoryGrows, NextClockOK, FollowTogether, VersionsType DEF CatalogueInv, ProductsInv, TypeOK
<1>1. ASSUME NEW p \in Products, product'[p] = product[p],
             product[p].row # "none" => product[p].slug \in KnownSlugs'
      PROVE  ProductOK(p)' /\ FollowOK(p)'
  <2>1. LiveVariants(p)' = LiveVariants(p)
    BY <1>1 DEF LiveVariants
  <2>2. ProductOK(p)'
    BY <1>0, <1>1 DEF ProductOK
  <2>3. FollowOK(p)'
    BY <1>0, <1>1, <2>1 DEF FollowOK
  <2>4. QED
    BY <2>2, <2>3
<1>2. ASSUME NEW a \in Requests, RequestStep(a), NEW p \in Products
      PROVE  ProductOK(p)' /\ FollowOK(p)'
  <2>1. product[p].row # "none" => product[p].slug \in KnownSlugs'
    BY <1>0, <1>2, ReferencedStays DEF ProductOK
  <2>2. CASE (CommitsWrite(a) \/ CommitsDrop(a)) /\ p = http[a].prod
    BY <1>2, <2>2, CommittedProductOK
  <2>3. CASE ~((CommitsWrite(a) \/ CommitsDrop(a)) /\ p = http[a].prod)
    <3>1. product'[p] = product[p]
      BY <1>2, <2>3 DEF RequestStep, CommitsWrite, CommitsDrop, Commits, Ends, Begins, Saves, Replaces, Drops,
                        WritesCategory, Indexes, database
    <3>2. QED
      BY <1>1, <1>2, <2>1, <3>1
  <2>4. QED
    BY <2>2, <2>3
<1>3. ASSUME DocumentStep, NEW p \in Products
      PROVE  ProductOK(p)' /\ FollowOK(p)'
  <2>1. product' = product /\ KnownSlugs' = KnownSlugs
    BY <1>3 DEF DocumentStep, KnownSlugs
  <2>2. QED
    BY <1>0, <1>1, <2>1 DEF ProductOK
<1>4. \A p \in Products : ProductOK(p)' /\ FollowOK(p)'
  BY <1>0, <1>2, <1>3, NextSteps
<1>5. VariantsFollowProduct'
  BY <1>4 DEF VariantsFollowProduct, FollowOK, GetDetailHome, SelectByID
<1>6. QED
  BY <1>4, <1>5 DEF ProductsInv

-----------------------------------------------------------------------------
(* Categories.                                                             *)

\* How the row of a category can change.
Renamed(a, c) ==
  \/ /\ category[c].row = "none" /\ category'[c].row = "live" /\ category'[c].slug = http[a].slug
     /\ http[a].slug \in Slugs /\ http[a].slug \notin KnownSlugs
  \/ /\ category[c].row # "none" /\ category'[c].row = "live" /\ category'[c].slug = http[a].slug
     /\ http[a].slug \in Slugs
     /\ \/ http[a].slug = category[c].slug
        \/ http[a].slug \notin KnownSlugs /\ ~Referenced(category[c].slug)
  \/ /\ category[c].row # "none" /\ category'[c].row = "deleted" /\ category'[c].slug = category[c].slug
     /\ http[a].pc = "deleteCategory" /\ http[a].cat = c

LEMMA OneCategoryChanges ==
  ASSUME CatalogueInv, NEW a \in Requests, WritesCategory(a)
  PROVE  \E c \in Categories :
           Renamed(a, c) /\ \A d \in Categories \ {c} : category'[d] = category[d]
  BY DEF CatalogueInv, RequestsInv, RequestOK, WritesCategory, Renamed

LEMMA CategoriesSame ==
  ASSUME CatalogueInv, NEW a \in Requests, RequestStep(a), ~WritesCategory(a)
  PROVE  category' = category
  BY DEF RequestStep, Ends, Begins, Saves, Replaces, Drops, CommitsWrite, CommitsDrop, Commits, Indexes, database

\* Slugs stay unique: a new one was not in use.
LEMMA RenamedCategoryOK ==
  ASSUME CatalogueInv, NEW a \in Requests, NEW c \in Categories, Renamed(a, c),
         \A d \in Categories \ {c} : category'[d] = category[d], NEW b \in Categories
  PROVE  CategoryOK(b)'
<1>0. None \notin Slugs /\ \A d \in Categories : CategoryOK(d)
  BY CatalogueAssumption DEF CatalogueInv, CategoriesInv
<1>1. category'[c].row # "none" /\ category'[c].slug # None
  BY <1>0 DEF Renamed, CategoryOK
<1>2. \A d \in Categories \ {c} : category[d].slug # category'[c].slug
  <2>1. CASE http[a].slug \notin KnownSlugs /\ category'[c].slug = http[a].slug
    BY <1>1, <2>1 DEF KnownSlugs
  <2>2. CASE category'[c].slug = category[c].slug /\ category[c].row # "none"
    BY <1>0, <2>2 DEF CategoryOK
  <2>3. QED
    BY <2>1, <2>2 DEF Renamed
<1>3. (category'[b].row = "none" <=> category'[b].slug = None)
      /\ (category'[b].row = "none" => category'[b] = NoCategory)
  BY <1>0, <1>1 DEF CategoryOK
<1>4. \A d \in Categories : category'[b].slug = category'[d].slug /\ category'[b].row # "none" => b = d
  <2>1. ASSUME NEW d \in Categories, category'[b].slug = category'[d].slug, category'[b].row # "none", b # d
        PROVE  FALSE
    <3>1. CASE b = c
      BY <1>2, <2>1, <3>1
    <3>2. CASE d = c
      BY <1>2, <2>1, <3>2
    <3>3. CASE b # c /\ d # c
      BY <1>0, <2>1, <3>3 DEF CategoryOK
    <3>4. QED
      BY <3>1, <3>2, <3>3
  <2>2. QED
    BY <2>1
<1>5. QED
  BY <1>3, <1>4 DEF CategoryOK

\* A commit of a product, seen from the categories.
LEMMA ProductWritten ==
  ASSUME CatalogueInv, NEW a \in Requests, RequestStep(a), NEW p \in Products, Live(p)'
  PROVE  \/ product'[p] = product[p]
         \/ /\ CommitsWrite(a) /\ p = http[a].prod /\ product'[p].slug = http[a].slug
            /\ category' = category /\ raced' = raced
<1>1. CASE CommitsWrite(a) \/ CommitsDrop(a)
  BY <1>1 DEF CommitsWrite, CommitsDrop, Commits, Live
<1>2. CASE ~CommitsWrite(a) /\ ~CommitsDrop(a)
  BY <1>2 DEF RequestStep, Ends, Begins, Saves, Replaces, Drops, WritesCategory, Indexes, database
<1>3. QED
  BY <1>1, <1>2

LEMMA StepUnusedOK ==
  ASSUME CatalogueInv, [Next]_vars, NEW a \in Requests, RequestStep(a), NEW r \in Requests
  PROVE  UnusedOK(r)'
<1> SUFFICES ASSUME http'[r].pc = "deleteCategory", NEW p \in Products, Live(p)',
                    product'[p].slug = category'[http'[r].cat].slug
             PROVE  product'[p].slug \in raced'
  BY DEF UnusedOK
<1>0. /\ TypeOK /\ ClockOK /\ RequestsInv /\ IndexInv /\ raced \subseteq raced'
      /\ ProductOK(p) /\ UnusedOK(r)
  BY HistoryGrows DEF CatalogueInv, ProductsInv, CategoriesInv
<1>1. CASE Begins(r)
  <2>1. BeginsElsewhere(r) /\ product' = product /\ category' = category
    BY <1>1 DEF Begins, BeginsWriting, BeginsDropping
  <2>2. PreloadProducts(http'[r].cat) = {}
    BY <2>1 DEF BeginsElsewhere
  <2>3. QED
    BY <2>1, <2>2 DEF PreloadProducts, Live
<1>2. CASE ~Begins(r)
  <2>1. http'[r] = http[r] /\ a # r /\ r \in InFlight
    BY <1>2 DEF RequestStep, Moves, Ends, Begins, Saves, Replaces, Drops, CommitsWrite, CommitsDrop, Commits,
                WritesCategory, Indexes, InFlight
  <2>2. /\ http[r].pc = "deleteCategory" /\ http[r].cat \in Categories
        /\ category[http[r].cat].row # "none" /\ None \notin Categories
    BY <2>1, CatalogueAssumption DEF CatalogueInv, RequestsInv, RequestOK
  <2>3. CASE CommitsWrite(a) /\ p = http[a].prod /\ product'[p].slug = http[a].slug
             /\ category' = category /\ raced' = raced
    <3>1. a \in InFlight /\ http[a].slug # None /\ ApartOK(a, r)
      BY <2>1, <2>3, CatalogueAssumption
         DEF CommitsWrite, InFlight, CatalogueInv, RequestsInv, RequestOK, Writing, ApartInv
    <3>2. QED
      BY <2>1, <2>2, <2>3, <3>1 DEF ApartOK
  <2>4. CASE product'[p] = product[p]
    <3>1. product[p].slug \in KnownSlugs /\ Live(p)
      BY <1>0, <2>4 DEF ProductOK, Live
    <3>2. CASE category'[http[r].cat].slug = category[http[r].cat].slug
      BY <1>0, <2>1, <2>2, <2>4, <3>1, <3>2 DEF UnusedOK
    <3>3. CASE category'[http[r].cat].slug # category[http[r].cat].slug
      <4>1. WritesCategory(a)
        BY <3>3, CategoriesSame
      <4>2. PICK c \in Categories : Renamed(a, c) /\ \A d \in Categories \ {c} : category'[d] = category[d]
        BY <4>1, OneCategoryChanges
      <4>3. c = http[r].cat /\ category'[c].slug \notin KnownSlugs
        BY <2>2, <3>3, <4>2 DEF Renamed
      <4>4. QED
        BY <2>1, <2>4, <3>1, <4>3
    <3>4. QED
      BY <3>2, <3>3
  <2>5. QED
    BY <1>2, <2>3, <2>4, ProductWritten
<1>3. QED
  BY <1>1, <1>2

LEMMA StepNamedOK ==
  ASSUME CatalogueInv, [Next]_vars, NEW a \in Requests, RequestStep(a), NEW p \in Products
  PROVE  NamedOK(p)'
<1> SUFFICES ASSUME Live(p)', product'[p].slug \notin raced'
             PROVE  \E c \in Categories : category'[c].row = "live" /\ category'[c].slug = product'[p].slug
  BY DEF NamedOK, CategoryNamed, GetBySlug
<1>0. /\ TypeOK /\ ClockOK /\ RequestsInv /\ IndexInv /\ raced \subseteq raced'
      /\ NamedOK(p) /\ \A r \in Requests : UnusedOK(r)
  BY HistoryGrows DEF CatalogueInv, CategoriesInv
<1>1. CASE CommitsWrite(a) /\ product'[p].slug = http[a].slug /\ category' = category
  BY <1>1 DEF CommitsWrite, CategoryNamed, GetBySlug
<1>2. CASE product'[p] = product[p]
  <2>1. Live(p) /\ product[p].slug \notin raced
    BY <1>0, <1>2 DEF Live
  <2>2. PICK c \in Categories : category[c].row = "live" /\ category[c].slug = product[p].slug
    BY <1>0, <2>1 DEF NamedOK, CategoryNamed, GetBySlug
  <2>3. category'[c].row = "live" /\ category'[c].slug = category[c].slug
    <3>1. CASE ~WritesCategory(a)
      BY <2>2, <3>1, CategoriesSame
    <3>2. CASE WritesCategory(a)
      <4>1. PICK d \in Categories : Renamed(a, d) /\ \A e \in Categories \ {d} : category'[e] = category[e]
        BY <3>2, OneCategoryChanges
      <4>2. CASE c # d
        BY <2>2, <4>1, <4>2
      <4>3. CASE c = d
        <5>1. Referenced(category[c].slug)
          BY <2>1, <2>2 DEF Referenced, Live
        <5>2. ~(http[a].pc = "deleteCategory" /\ http[a].cat = c)
          BY <1>0, <2>1, <2>2 DEF UnusedOK
        <5>3. QED
          BY <2>2, <4>1, <4>3, <5>1, <5>2 DEF Renamed
      <4>4. QED
        BY <4>2, <4>3
    <3>3. QED
      BY <3>1, <3>2
  <2>4. QED
    BY <1>2, <2>2, <2>3
<1>3. QED
  BY <1>1, <1>2, ProductWritten

LEMMA NextCategoriesInv ==
  ASSUME CatalogueInv, [Next]_vars
  PROVE  CategoriesInv'
<1>1. ASSUME NEW a \in Requests, RequestStep(a), NEW c \in Categories
      PROVE  CategoryOK(c)'
  <2>1. CASE WritesCategory(a)
    BY <2>1, OneCategoryChanges, RenamedCategoryOK
  <2>2. CASE ~WritesCategory(a)
    <3>1. category' = category
      BY <1>1, <2>2, CategoriesSame
    <3>2. QED
      BY <3>1 DEF CatalogueInv, CategoriesInv, CategoryOK
  <2>3. QED
    BY <2>1, <2>2
<1>2. ASSUME DocumentStep
      PROVE  CategoriesInv'
  <2>1. product' = product /\ category' = category /\ http' = http /\ raced' = raced /\ CategoriesInv
    BY <1>2 DEF DocumentStep, CatalogueInv
  <2>2. (\A c \in Categories : CategoryOK(c)')
    BY <2>1 DEF CategoriesInv, CategoryOK
  <2>3. \A r \in Requests : UnusedOK(r)'
    BY <2>1 DEF CategoriesInv, UnusedOK, Live
  <2>4. \A p \in Products : NamedOK(p)'
    BY <2>1 DEF CategoriesInv, NamedOK, CategoryNamed, GetBySlug, Live
  <2>5. QED
    BY <2>2, <2>3, <2>4 DEF CategoriesInv
<1>3. (\E a \in Requests : RequestStep(a)) \/ DocumentStep
  BY NextSteps DEF CatalogueInv
<1>4. QED
  BY <1>1, <1>2, <1>3, StepUnusedOK, StepNamedOK DEF CategoriesInv

-----------------------------------------------------------------------------
(* Events.                                                                 *)

\* What WritesAreAnnounced says of one request, and of one product.
AnswerOK(r) ==
  http[r].pc = "done" /\ http[r].op \in WriteOps => (http[r].code = "ok" <=> \E e \in Recorded : e.by = r)
AnnouncedOK(p) ==
  p \notin raced =>
    IF \E e \in Recorded : e.prod = p /\ e.kind = "deleted" THEN product[p].row = "deleted"
    ELSE /\ product[p].row # "deleted"
         /\ \A e \in Recorded : e.prod = p => e.ver <= product[p].ver
         /\ product[p].ver > 1 => \E e \in Recorded : e.prod = p /\ e.ver = product[p].ver

LEMMA AnnouncedTogether ==
  WritesAreAnnounced <=> (\A r \in Requests : AnswerOK(r)) /\ \A p \in Products : AnnouncedOK(p)
<1>1. (\A r \in Requests : AnswerOK(r)) <=>
        \A r \in Requests : http[r].pc = "done" /\ http[r].op \in {"create", "update", "delete"} =>
          (http[r].code = "ok" <=> \E e \in pending \union handled : e.by = r)
  BY DEF AnswerOK, WriteOps, Recorded
<1>2. ASSUME NEW p
      PROVE  LET about == {e \in Recorded : e.prod = p} IN
               /\ (\E e \in about : e.kind = "deleted") <=> \E e \in Recorded : e.prod = p /\ e.kind = "deleted"
               /\ (\A e \in about : e.ver <= product[p].ver) <=>
                    \A e \in Recorded : e.prod = p => e.ver <= product[p].ver
               /\ (\E e \in about : e.ver = product[p].ver) <=>
                    \E e \in Recorded : e.prod = p /\ e.ver = product[p].ver
  OBVIOUS
<1>3. (\A p \in Products : AnnouncedOK(p)) <=>
        \A p \in Products \ raced :
          LET about == {e \in pending \union handled : e.prod = p} IN
          IF \E e \in about : e.kind = "deleted" THEN product[p].row = "deleted"
          ELSE /\ product[p].row # "deleted"
               /\ \A e \in about : e.ver <= product[p].ver
               /\ product[p].ver > 1 => \E e \in about : e.ver = product[p].ver
  BY <1>2 DEF AnnouncedOK, Recorded
<1>4. QED
  BY <1>1, <1>3 DEF WritesAreAnnounced

\* Events are recorded by commits only; handling one keeps it recorded.
LEMMA RequestRecords ==
  ASSUME NEW a \in Requests, RequestStep(a)
  PROVE  \/ \E kind \in {"created", "updated"} : CommitsWrite(a) /\ Recorded' = Recorded \union {Event(a, kind)}
         \/ CommitsDrop(a) /\ Recorded' = Recorded \union {Event(a, "deleted")}
         \/ ~CommitsWrite(a) /\ ~CommitsDrop(a) /\ Recorded' = Recorded /\ product' = product
<1>1. CASE CommitsWrite(a)
  BY <1>1 DEF CommitsWrite, Commits, Recorded
<1>2. CASE CommitsDrop(a)
  BY <1>2 DEF CommitsDrop, Commits, Recorded
<1>3. CASE ~CommitsWrite(a) /\ ~CommitsDrop(a)
  BY <1>3 DEF RequestStep, Ends, Begins, Saves, Replaces, Drops, WritesCategory, Indexes, database, Recorded
<1>4. QED
  BY <1>1, <1>2, <1>3

LEMMA OtherRowsStay ==
  ASSUME NEW a \in Requests, RequestStep(a), NEW p \in Products,
         http[a].prod # p \/ (~CommitsWrite(a) /\ ~CommitsDrop(a))
  PROVE  product'[p] = product[p]
<1>1. CASE CommitsWrite(a)
  BY <1>1 DEF CommitsWrite, Commits
<1>2. CASE CommitsDrop(a)
  BY <1>2 DEF CommitsDrop, Commits
<1>3. CASE ~CommitsWrite(a) /\ ~CommitsDrop(a)
  <2>1. product' = product
    BY <1>3, RequestRecords
  <2>2. QED
    BY <2>1
<1>4. QED
  BY <1>1, <1>2, <1>3

LEMMA DocumentsKeepEvents ==
  ASSUME CatalogueInv, DocumentStep
  PROVE  Recorded' = Recorded
<1>1. ASSUME NEW e \in Recorded, Settle(e)
      PROVE  Recorded' = Recorded
  BY <1>1 DEF Settle, Recorded
<1>2. ASSUME NEW w \in Workers, IndexDocument(w)
      PROVE  Recorded' = Recorded
  <2>1. job[w].event \in Recorded
    BY <1>2 DEF IndexDocument, CatalogueInv, IndexInv, JobOK
  <2>2. QED
    BY <1>1, <1>2, <2>1 DEF IndexDocument, Recorded
<1>3. ASSUME NEW e \in Deliverable, DeleteDocument(e)
      PROVE  Recorded' = Recorded
  BY <1>1, <1>3, DeliverableType DEF DeleteDocument, CatalogueInv
<1>4. QED
  BY <1>2, <1>3 DEF DocumentStep, CompareVersions, database, vars, Recorded

\* A request that is over stays over, and a step is of one that is not.
LEMMA DoneStays ==
  ASSUME NEW a \in Requests, RequestStep(a), NEW r \in Requests
  PROVE  /\ http[a].pc # "done" /\ (r # a => http'[r] = http[r])
         /\ http[r].pc = "done" => http'[r].pc = "done"
  BY DEF RequestStep, Moves, Ends, Begins, Saves, Replaces, Drops, CommitsWrite, CommitsDrop, Commits,
         WritesCategory, Indexes

LEMMA StepEventsOK ==
  ASSUME CatalogueInv, [Next]_vars, NEW a \in Requests, RequestStep(a)
  PROVE  EventsOK'
<1>0. /\ TypeOK /\ ClockOK /\ RequestsInv /\ IndexInv /\ EventsOK /\ raced \subseteq raced'
      /\ \A p \in Products : product[p].ver \in Nat
      /\ http[a].ver \in Nat /\ Recorded \subseteq Events
  BY HistoryGrows, VersionsType
     DEF CatalogueInv, EventsInv, TypeOK, RequestsInv, HttpRequests, Recorded
<1>1. ASSUME NEW e \in Recorded
      PROVE  http'[e.by].pc = "done" /\ product'[e.prod].row # "none"
  <2>1. e.by \in Requests /\ e.prod \in Products
    BY <1>0, <1>1 DEF Events
  <2>2. QED
    BY <1>0, <1>1, <2>1, DoneStays, ProductsStay DEF EventsOK
<1>2. ASSUME NEW e \in Recorded, e.prod \notin raced'
      PROVE  e.ver <= product'[e.prod].ver
  <2>1. e.prod \in Products /\ e.ver \in Nat /\ e.ver <= product[e.prod].ver
    BY <1>0, <1>2, VersionsType DEF Events, EventsOK
  <2>2. CASE CommitsWrite(a) /\ http[a].prod = e.prod
    <3>1. product[e.prod].ver <= http[a].ver
      BY <1>0, <1>2, <2>2 DEF CommitsWrite, CatalogueInv, RequestsInv, AloneOK, Writing
    <3>2. product'[e.prod].ver = http[a].ver
      BY <2>2 DEF CommitsWrite
    <3>3. QED
      BY <1>0, <2>1, <3>1, <3>2
  <2>3. CASE CommitsDrop(a) /\ http[a].prod = e.prod
    BY <2>1, <2>3 DEF CommitsDrop
  <2>4. CASE http[a].prod # e.prod \/ (~CommitsWrite(a) /\ ~CommitsDrop(a))
    <3>1. product'[e.prod] = product[e.prod]
      BY <2>1, <2>4, OtherRowsStay
    <3>2. QED
      BY <2>1, <3>1
  <2>5. QED
    BY <2>2, <2>3, <2>4
<1>3. ASSUME NEW kind, CommitsWrite(a) \/ CommitsDrop(a), NEW e, e = Event(a, kind)
      PROVE  /\ http'[e.by].pc = "done" /\ product'[e.prod].row # "none"
             /\ e.ver <= product'[e.prod].ver
  <2>1. e.by = a /\ e.prod = http[a].prod /\ e.ver = http[a].ver
    BY <1>3 DEF Event
  <2>2. CASE CommitsWrite(a)
    BY <1>0, <2>1, <2>2 DEF CommitsWrite, Commits
  <2>3. CASE CommitsDrop(a)
    <3>1. http[a].ver = 0 /\ http[a].prod \in Products
      BY <1>0, <2>3 DEF CommitsDrop, Commits, RequestsInv, RequestOK, Dropping
    <3>2. QED
      BY <1>0, <2>1, <2>3, <3>1 DEF CommitsDrop, Commits
  <2>4. QED
    BY <1>3, <2>2, <2>3
<1>4. ASSUME NEW e \in Recorded'
      PROVE  /\ http'[e.by].pc = "done" /\ product'[e.prod].row # "none"
             /\ e.prod \notin raced' => e.ver <= product'[e.prod].ver
  <2>1. \/ e \in Recorded
        \/ (CommitsWrite(a) \/ CommitsDrop(a)) /\ \E kind \in {"created", "updated", "deleted"} : e = Event(a, kind)
    BY <1>4, RequestRecords
  <2>2. QED
    BY <1>1, <1>2, <1>3, <2>1
<1>5. QED
  BY <1>4 DEF EventsOK

\* The answer of a write says whether it is recorded.
LEMMA StepAnswerOK ==
  ASSUME CatalogueInv, [Next]_vars, NEW a \in Requests, RequestStep(a), NEW r \in Requests
  PROVE  AnswerOK(r)'
<1>0. /\ AnswerOK(r) /\ RequestOK(a) /\ \A e \in Recorded : e.by # a
  <2>1. EventsOK /\ AnswerOK(r) /\ RequestOK(a)
    BY AnnouncedTogether DEF CatalogueInv, EventsInv, RequestsInv
  <2>2. QED
    BY <2>1, DoneStays DEF EventsOK
<1>1. CASE r # a
  <2>1. http'[r] = http[r]
    BY <1>1, DoneStays
  <2>2. (\E e \in Recorded' : e.by = r) <=> \E e \in Recorded : e.by = r
    BY <1>1, RequestRecords DEF Event
  <2>3. QED
    BY <1>0, <2>1, <2>2 DEF AnswerOK
<1>2. CASE r = a /\ (CommitsWrite(a) \/ CommitsDrop(a))
  <2>1. \E e \in Recorded' : e.by = a
    <3>1. PICK kind : Event(a, kind) \in Recorded'
      BY <1>2, RequestRecords
    <3>2. Event(a, kind).by = a
      BY DEF Event
    <3>3. QED
      BY <3>1, <3>2
  <2>2. http'[a].code = "ok"
    BY <1>2 DEF CommitsWrite, CommitsDrop, Commits
  <2>3. QED
    BY <1>2, <2>1, <2>2 DEF AnswerOK
<1>3. CASE r = a /\ ~CommitsWrite(a) /\ ~CommitsDrop(a)
  <2>1. \A e \in Recorded' : e.by # a
    BY <1>0, <1>3, RequestRecords
  <2>2. http'[a].pc = "done" /\ http'[a].op \in WriteOps => http'[a].code # "ok"
    <3>1. CASE Ends(a)
      BY <3>1 DEF Ends
    <3>2. CASE WritesCategory(a)
      BY <1>0, <3>2 DEF WritesCategory, RequestOK, Elsewhere
    <3>3. CASE ~Ends(a) /\ ~WritesCategory(a)
      BY <1>3, <3>3 DEF RequestStep, Begins, BeginsWriting, BeginsDropping, BeginsElsewhere, Elsewhere,
                        Saves, Replaces, Drops, Indexes
    <3>4. QED
      BY <3>1, <3>2, <3>3
  <2>3. QED
    BY <1>3, <2>1, <2>2 DEF AnswerOK
<1>4. QED
  BY <1>1, <1>2, <1>3

\* A product that nobody else wrote meanwhile: a creation finds no event of it, an update none of
\* its deletion.
LEMMA StepAnnouncedOK ==
  ASSUME CatalogueInv, [Next]_vars, NEW a \in Requests, RequestStep(a), NEW p \in Products
  PROVE  AnnouncedOK(p)'
<1> SUFFICES ASSUME p \notin raced'
             PROVE  IF \E e \in Recorded' : e.prod = p /\ e.kind = "deleted" THEN product'[p].row = "deleted"
                    ELSE /\ product'[p].row # "deleted"
                         /\ \A e \in Recorded' : e.prod = p => e.ver <= product'[p].ver
                         /\ product'[p].ver > 1 => \E e \in Recorded' : e.prod = p /\ e.ver = product'[p].ver
  BY DEF AnnouncedOK
<1>0. /\ EventsOK /\ EventsOK' /\ p \notin raced /\ AnnouncedOK(p) /\ RequestOK(a) /\ AloneOK(a)
      /\ http[a].withVariants \in BOOLEAN
  <2>1. TypeOK /\ ClockOK /\ RequestsInv /\ IndexInv /\ EventsInv
    BY DEF CatalogueInv
  <2>2. p \notin raced /\ EventsOK'
    BY <2>1, HistoryGrows, StepEventsOK
  <2>3. QED
    BY <2>1, <2>2, AnnouncedTogether DEF EventsInv, RequestsInv, HttpRequests
<1>1. CASE http[a].prod = p /\ CommitsWrite(a)
  <2>1. PICK kind \in {"created", "updated"} : Recorded' = Recorded \union {Event(a, kind)}
    BY <1>1, RequestRecords DEF CommitsWrite, CommitsDrop
  <2>2. /\ Event(a, kind).prod = p /\ Event(a, kind).kind # "deleted"
        /\ Event(a, kind).ver = product'[p].ver /\ product'[p].row = "live"
    BY <1>1, <2>1 DEF Event, CommitsWrite
  <2>3. \A e \in Recorded : ~(e.prod = p /\ e.kind = "deleted")
    <3>1. http[a].op = "create" => product[p].row = "none"
      BY <1>0, <1>1 DEF RequestOK, CommitsWrite, Writing
    <3>2. http[a].op = "update" => Live(p)
      BY <1>0, <1>1 DEF AloneOK, CommitsWrite, Writing
    <3>3. http[a].op \in {"create", "update"}
      BY <1>0, <1>1 DEF RequestOK, CommitsWrite, Writing
    <3>4. QED
      BY <1>0, <3>1, <3>2, <3>3 DEF EventsOK, AnnouncedOK, Live
  <2>4. \A e \in Recorded' : e.prod = p => e.ver <= product'[p].ver
    BY <1>0 DEF EventsOK
  <2>5. QED
    BY <2>1, <2>2, <2>3, <2>4
<1>2. CASE http[a].prod = p /\ CommitsDrop(a)
  <2>1. Event(a, "deleted") \in Recorded'
    BY <1>2, RequestRecords DEF CommitsWrite, CommitsDrop
  <2>2. Event(a, "deleted").prod = p /\ Event(a, "deleted").kind = "deleted"
    BY <1>2 DEF Event
  <2>3. QED
    BY <1>2, <2>1, <2>2 DEF CommitsDrop
<1>3. CASE http[a].prod # p \/ (~CommitsWrite(a) /\ ~CommitsDrop(a))
  <2>1. product'[p] = product[p]
    BY <1>3, RequestRecords DEF CommitsWrite, CommitsDrop, Commits
  <2>2. \A e : e.prod = p => (e \in Recorded' <=> e \in Recorded)
    BY <1>3, RequestRecords DEF Event
  <2>3. QED
    BY <1>0, <2>1, <2>2 DEF AnnouncedOK
<1>4. QED
  BY <1>1, <1>2, <1>3

LEMMA NextEventsInv ==
  ASSUME CatalogueInv, [Next]_vars
  PROVE  EventsInv'
<1>1. ASSUME NEW a \in Requests, RequestStep(a)
      PROVE  EventsOK' /\ (\A r \in Requests : AnswerOK(r)') /\ \A p \in Products : AnnouncedOK(p)'
  BY <1>1, StepEventsOK, StepAnswerOK, StepAnnouncedOK
<1>2. ASSUME DocumentStep
      PROVE  EventsOK' /\ (\A r \in Requests : AnswerOK(r)') /\ \A p \in Products : AnnouncedOK(p)'
  <2>1. Recorded' = Recorded /\ product' = product /\ http' = http /\ raced' = raced
    BY <1>2, DocumentsKeepEvents DEF DocumentStep
  <2>2. EventsOK /\ (\A r \in Requests : AnswerOK(r)) /\ \A p \in Products : AnnouncedOK(p)
    BY AnnouncedTogether DEF CatalogueInv, EventsInv
  <2>3. QED
    BY <2>1, <2>2 DEF EventsOK, AnswerOK, AnnouncedOK
<1>3. EventsOK' /\ (\A r \in Requests : AnswerOK(r)') /\ \A p \in Products : AnnouncedOK(p)'
  BY <1>1, <1>2, NextSteps DEF CatalogueInv
<1>4. WritesAreAnnounced'
  <2>1. ((\A r \in Requests : AnswerOK(r)) /\ \A p \in Products : AnnouncedOK(p))'
    BY <1>3
  <2>2. (WritesAreAnnounced <=> (\A r \in Requests : AnswerOK(r)) /\ \A p \in Products : AnnouncedOK(p))'
    BY AnnouncedTogether, PTL
  <2>3. QED
    BY <2>1, <2>2
<1>5. QED
  BY <1>3, <1>4 DEF EventsInv

-----------------------------------------------------------------------------
(* The index.                                                              *)

\* A reindex that writes what is not the row, or while a handler works, leaves the product unsettled.
LEMMA RequestsKeepIndex ==
  ASSUME CatalogueInv, [Next]_vars, NEW a \in Requests, RequestStep(a), NEW p \in Products,
         p \notin raced' \union unsettled'
  PROVE  /\ p \notin raced \union unsettled /\ job' = job /\ handled' = handled
         /\ \/ doc'[p] = doc[p]
            \/ ~Working(p) /\ Live(p) /\ product' = product /\ doc'[p] = product[p].ver
<1>0. /\ raced \subseteq raced' /\ unsettled \subseteq unsettled' /\ doc \in [Products -> Versions]
  BY HistoryGrows DEF CatalogueInv, TypeOK
<1>1. CASE Indexes(a)
  BY <1>0, <1>1 DEF Indexes, database
<1>2. CASE ~Indexes(a)
  BY <1>0, <1>2 DEF RequestStep, Ends, Begins, Saves, Replaces, Drops, CommitsWrite, CommitsDrop, Commits,
                    WritesCategory, search, database
<1>3. QED
  BY <1>1, <1>2

LEMMA RequestJobOK ==
  ASSUME CatalogueInv, [Next]_vars, NEW a \in Requests, RequestStep(a), NEW w \in Workers
  PROVE  JobOK(w)'
<1>0. JobType /\ JobOK(w) /\ Recorded \subseteq Recorded' /\ job' = job
  <2>1. TypeOK /\ ClockOK /\ RequestsInv /\ IndexInv
    BY DEF CatalogueInv
  <2>2. job' = job
    BY DEF RequestStep, Ends, Begins, Saves, Replaces, Drops, CommitsWrite, CommitsDrop, Commits,
           WritesCategory, Indexes, search
  <2>3. QED
    BY <2>1, <2>2, HistoryGrows DEF IndexInv
<1> SUFFICES ASSUME job[w].at = "writing"
             PROVE  JobOK(w)'
  BY <1>0 DEF JobOK
<1> DEFINE e == job[w].event
<1>1. e \in Events /\ e.prod \in Products
  BY <1>0 DEF JobType, Idle, Events
<1>2. e \in Recorded' /\ e.kind # "deleted"
  BY <1>0 DEF JobOK
<1>3. ASSUME e.prod \notin raced' \union unsettled'
      PROVE  e.prod \notin raced \union unsettled /\ handled' = handled /\ doc'[e.prod] = doc[e.prod]
  BY <1>1, <1>3, RequestsKeepIndex DEF Working
<1>4. QED
  BY <1>0, <1>2, <1>3 DEF JobOK

LEMMA RequestDocOK ==
  ASSUME CatalogueInv, [Next]_vars, NEW a \in Requests, RequestStep(a), NEW p \in Products
  PROVE  DocOK(p)'
<1> SUFFICES ASSUME p \notin raced' \union unsettled'
             PROVE  IF \E e \in handled' : e.prod = p /\ e.kind = "deleted" THEN doc'[p] = 0
                    ELSE /\ \A e \in handled' : e.prod = p => e.ver <= doc'[p]
                         /\ doc'[p] <= product'[p].ver
                         /\ product'[p].ver = 1 => doc'[p] = 1
  BY DEF DocOK
<1>0. /\ p \notin raced \union unsettled /\ handled' = handled
      /\ doc[p] \in Nat /\ product[p].ver \in Nat /\ handled \subseteq Recorded
      /\ DocOK(p) /\ EventsOK /\ AnnouncedOK(p) /\ RequestOK(a) /\ AloneOK(a) /\ http[a].ver \in Nat
  <2>1. doc[p] \in Nat /\ product[p].ver \in Nat /\ http[a].ver \in Nat
    BY VersionsType DEF CatalogueInv, TypeOK
  <2>2. QED
    BY <2>1, RequestsKeepIndex, AnnouncedTogether DEF CatalogueInv, EventsInv, IndexInv, RequestsInv, Recorded
<1>1. CASE doc'[p] = doc[p]
  <2>1. product[p].ver <= product'[p].ver /\ (product'[p].ver = 1 => product[p].ver = 1)
        /\ product'[p].ver \in Nat
    <3>1. CASE CommitsWrite(a) /\ http[a].prod = p
      BY <1>0, <3>1 DEF CommitsWrite, AloneOK, RequestOK, Writing
    <3>2. CASE CommitsDrop(a) /\ http[a].prod = p
      BY <1>0, <3>2 DEF CommitsDrop
    <3>3. CASE http[a].prod # p \/ (~CommitsWrite(a) /\ ~CommitsDrop(a))
      <4>1. product'[p] = product[p]
        BY <3>3, OtherRowsStay
      <4>2. QED
        BY <1>0, <4>1
    <3>4. QED
      BY <3>1, <3>2, <3>3
  <2>2. QED
    BY <1>0, <1>1, <2>1 DEF DocOK
<1>2. CASE Live(p) /\ product' = product /\ doc'[p] = product[p].ver
  <2>1. \A e \in handled : ~(e.prod = p /\ e.kind = "deleted")
    BY <1>0, <1>2 DEF AnnouncedOK, Live
  <2>2. \A e \in handled : e.prod = p => e.ver <= product[p].ver
    BY <1>0 DEF EventsOK
  <2>3. QED
    BY <1>0, <1>2, <2>1, <2>2
<1>3. QED
  BY <1>1, <1>2, RequestsKeepIndex

\* A handler that starts: the only one of its product, after no deletion, and Get has answered.
LEMMA CompareKeepsIndex ==
  ASSUME CatalogueInv, NEW w \in Workers, NEW e \in Deliverable, CompareVersions(w, e), product' = product,
         raced' = raced
  PROVE  (\A v \in Workers : JobOK(v)') /\ \A p \in Products : DocOK(p)'
<1> DEFINE bad  == raced \union unsettled
           bad2 == raced' \union unsettled'
<1>0. /\ JobType /\ e \in Recorded /\ job[w] = Idle /\ e.kind # "deleted"
      /\ doc' = doc /\ handled' = handled /\ Recorded' = Recorded /\ bad \subseteq bad2
  BY DeliverableType
     DEF CatalogueInv, IndexInv, CompareVersions, database, Recorded
<1>1. PICK failed \in BOOLEAN :
         /\ job' = [job EXCEPT ![w] = [at |-> "writing", event |-> e,
                                        skip |-> ~failed /\ e.ver < GetExistingVersion(e.prod)]]
         /\ unsettled' = IF failed \/ OutOfOrder(e) THEN unsettled \union {e.prod} ELSE unsettled
  BY DEF CompareVersions
<1>2. /\ job'[w].at = "writing" /\ job'[w].event = e
      /\ job'[w].skip = (~failed /\ e.ver < doc[e.prod])
      /\ \A v \in Workers \ {w} : job'[v] = job[v]
  BY <1>0, <1>1 DEF JobType, GetExistingVersion
<1>3. e.prod \notin bad2 => ~failed /\ ~Working(e.prod) /\ \A d \in handled : d.prod = e.prod => d.kind # "deleted"
  BY <1>0, <1>1 DEF OutOfOrder
<1>4. JobOK(w)'
  <2>1. e.prod \notin bad2 =>
          /\ \A v \in Workers : job'[v].at = "writing" /\ job'[v].event.prod = e.prod => v = w
          /\ job'[w].skip <=> e.ver < doc[e.prod]
          /\ \A d \in handled : d.prod = e.prod => d.kind # "deleted"
    BY <1>2, <1>3 DEF Working
  <2> HIDE DEF bad
  <2>2. QED
    BY <1>0, <1>2, <2>1 DEF JobOK
<1>5. ASSUME NEW v \in Workers, v # w
      PROVE  JobOK(v)'
  <2> SUFFICES ASSUME job[v].at = "writing"
               PROVE  JobOK(v)'
    BY <1>2, <1>5 DEF JobOK
  <2>1. JobOK(v) /\ job'[v] = job[v]
    BY <1>2, <1>5 DEF CatalogueInv, IndexInv
  <2>2. job[v].event.prod \notin bad2 => job[v].event.prod \notin bad /\ job[v].event.prod # e.prod
    BY <1>0, <1>3 DEF Working
  <2>3. \A u \in Workers : job'[u].at = "writing" /\ job'[u].event.prod = job[v].event.prod
                             /\ job[v].event.prod \notin bad2 => u = v
    BY <1>2, <2>1, <2>2 DEF JobOK
  <2>4. QED
    BY <1>0, <2>1, <2>2, <2>3 DEF JobOK
<1>6. ASSUME NEW p \in Products
      PROVE  DocOK(p)'
  BY <1>0 DEF CatalogueInv, IndexInv, DocOK
<1>7. QED
  BY <1>4, <1>5, <1>6

\* A handler that ends: the document is as new as before and as its event.
LEMMA IndexKeepsIndex ==
  ASSUME CatalogueInv, NEW w \in Workers, IndexDocument(w), product' = product, raced' = raced
  PROVE  (\A v \in Workers : JobOK(v)') /\ \A p \in Products : DocOK(p)'
<1> DEFINE e   == job[w].event
           bad == raced \union unsettled
<1>0. /\ JobType /\ JobOK(w) /\ job[w].at = "writing" /\ e \in Recorded /\ e.kind # "deleted"
      /\ unsettled' = unsettled /\ doc \in [Products -> Versions] /\ EventsOK
      /\ \A v \in Workers : JobOK(v)
      /\ \A p \in Products : DocOK(p) /\ product[p].ver \in Nat
  <2>1. \A p \in Products : product[p].ver \in Nat
    BY VersionsType DEF CatalogueInv, TypeOK
  <2>2. QED
    BY <2>1 DEF IndexDocument, JobOK, CatalogueInv, EventsInv, IndexInv, TypeOK
<1>1. e.prod \in Products /\ e.ver \in Versions
  BY <1>0 DEF JobType, Idle, Events
<1>2. job'[w] = Idle /\ \A v \in Workers \ {w} : job'[v] = job[v]
  BY <1>0 DEF IndexDocument, JobType
<1>3. \A v \in Workers \ {w} : job[v].at = "writing" /\ job[v].event.prod \notin bad =>
        job[v].event.prod # e.prod
  BY <1>0 DEF JobOK
<1>4. /\ \/ handled' = handled \union {e} /\ (IF job[w].skip THEN doc' = doc ELSE doc' = [doc EXCEPT ![e.prod] = e.ver])
         \/ handled' = handled /\ doc' = doc
      /\ Recorded' = Recorded
  <2>1. \/ doc' = (IF job[w].skip THEN doc ELSE [doc EXCEPT ![e.prod] = e.ver]) /\ Settle(e)
        \/ UNCHANGED <<doc, pending, handled>>
    BY DEF IndexDocument
  <2>2. QED
    BY <1>0, <2>1 DEF Settle, Recorded
<1>5. \A p \in Products : p # e.prod => doc'[p] = doc[p]
  BY <1>0, <1>1, <1>4
<1>6. ASSUME NEW v \in Workers
      PROVE  JobOK(v)'
  <2> SUFFICES ASSUME job'[v].at = "writing"
               PROVE  JobOK(v)'
    BY DEF JobOK
  <2> DEFINE f == job[v].event
  <2>1. v # w /\ job'[v] = job[v] /\ JobOK(v) /\ job[v].at = "writing"
    BY <1>0, <1>2 DEF Idle
  <2>2. f \in Recorded' /\ f.kind # "deleted"
    BY <1>4, <2>1 DEF JobOK
  <2>3. ASSUME f.prod \notin bad
        PROVE  /\ \A u \in Workers : job'[u].at = "writing" /\ job'[u].event.prod = f.prod => u = v
               /\ job[v].skip <=> f.ver < doc'[f.prod]
               /\ \A d \in handled' : d.prod = f.prod => d.kind # "deleted"
    <3>1. f.prod # e.prod
      BY <1>3, <2>1, <2>3
    <3>2. f.prod \in Products
      BY <1>0, <2>1 DEF JobType, Idle, Events
    <3>3. doc'[f.prod] = doc[f.prod]
      BY <1>5, <3>1, <3>2
    <3>4. \A u \in Workers : job'[u].at = "writing" => job'[u] = job[u]
      BY <1>2 DEF Idle
    <3>5. \A d \in handled' : d.prod = f.prod => d \in handled
      BY <1>4, <3>1
    <3>6. QED
      BY <2>1, <2>3, <3>3, <3>4, <3>5 DEF JobOK
  <2>4. QED
    BY <1>0, <2>1, <2>2, <2>3 DEF JobOK
<1>7. ASSUME NEW p \in Products
      PROVE  DocOK(p)'
  <2>1. CASE p # e.prod
    <3>1. doc'[p] = doc[p] /\ \A d : d.prod = p => (d \in handled' <=> d \in handled)
      BY <1>4, <1>5, <2>1
    <3>2. QED
      BY <1>0, <3>1 DEF DocOK
  <2>2. CASE p = e.prod /\ p \notin bad
    <3>1. /\ \A d \in handled' : ~(d.prod = p /\ d.kind = "deleted")
          /\ \A d \in handled : ~(d.prod = p /\ d.kind = "deleted")
          /\ job[w].skip <=> e.ver < doc[p]
      BY <1>0, <1>4, <2>2 DEF JobOK
    <3>2. /\ \A d \in handled : d.prod = p => d.ver <= doc[p]
          /\ doc[p] <= product[p].ver /\ (product[p].ver = 1 => doc[p] = 1)
      BY <1>0, <2>2, <3>1 DEF DocOK
    <3>3. e.ver <= product[p].ver
      BY <1>0, <2>2 DEF EventsOK
    <3>4. /\ e.ver \in Nat /\ doc[p] \in Nat /\ product[p].ver \in Nat
          /\ \A d \in handled : d.ver \in Nat
      <4>1. \A d \in handled : d.ver \in Versions
        BY DEF CatalogueInv, TypeOK, Events
      <4>2. QED
        BY <1>0, <1>1, <4>1, VersionsType
    <3>5. doc'[p] \in {doc[p], e.ver} /\ doc[p] <= doc'[p]
          /\ (e \in handled' \ handled => e.ver <= doc'[p])
      BY <1>0, <1>1, <1>4, <2>2, <3>1, <3>4
    <3>6. \A d \in handled' : d.prod = p => d.ver <= doc'[p]
      BY <1>4, <3>2, <3>4, <3>5
    <3>7. doc'[p] <= product[p].ver /\ (product[p].ver = 1 => doc'[p] = 1)
      BY <3>2, <3>3, <3>4, <3>5
    <3>8. QED
      BY <3>1, <3>6, <3>7 DEF DocOK
  <2>3. CASE p \in bad
    BY <1>0, <2>3 DEF DocOK
  <2>4. QED
    BY <2>1, <2>2, <2>3
<1>8. QED
  BY <1>6, <1>7

\* A deletion that is handled leaves no document.
LEMMA DeleteKeepsIndex ==
  ASSUME CatalogueInv, NEW e \in Deliverable, DeleteDocument(e), product' = product, raced' = raced
  PROVE  (\A v \in Workers : JobOK(v)') /\ \A p \in Products : DocOK(p)'
<1>0. /\ JobType /\ e \in Recorded /\ e.kind = "deleted" /\ e.prod \in Products /\ job' = job
      /\ doc \in [Products -> Versions] /\ doc' = [doc EXCEPT ![e.prod] = 0]
      /\ handled' = handled \union {e} /\ Recorded' = Recorded /\ unsettled \subseteq unsettled'
      /\ (e.prod \notin unsettled' => ~Working(e.prod))
      /\ (\A w \in Workers : JobOK(w)) /\ \A p \in Products : DocOK(p)
  <2>1. e \in Recorded /\ e.prod \in Products
    BY DeliverableType DEF CatalogueInv
  <2>2. e.prod \notin unsettled' => ~Working(e.prod)
    BY DEF DeleteDocument, OutOfOrder
  <2>3. QED
    BY <2>1, <2>2 DEF CatalogueInv, IndexInv, TypeOK, DeleteDocument, Settle, Recorded
<1>1. ASSUME NEW p \in Products, p # e.prod
      PROVE  doc'[p] = doc[p] /\ \A d : d.prod = p => (d \in handled' <=> d \in handled)
  BY <1>0, <1>1
<1>2. ASSUME NEW w \in Workers
      PROVE  JobOK(w)'
  <2> SUFFICES ASSUME job[w].at = "writing"
               PROVE  JobOK(w)'
    BY <1>0 DEF JobOK
  <2> DEFINE f == job[w].event
  <2>1. f.prod \in Products /\ JobOK(w)
    BY <1>0 DEF JobType, Idle, Events
  <2>2. ASSUME f.prod \notin raced' \union unsettled'
        PROVE  f.prod \notin raced \union unsettled /\ doc'[f.prod] = doc[f.prod]
               /\ \A d \in handled' : d.prod = f.prod => d \in handled
    <3>1. f.prod # e.prod
      BY <1>0, <2>2 DEF Working
    <3>2. QED
      BY <1>0, <1>1, <2>1, <2>2, <3>1
  <2>3. QED
    BY <1>0, <2>1, <2>2 DEF JobOK
<1>3. ASSUME NEW p \in Products
      PROVE  DocOK(p)'
  <2>1. CASE p = e.prod
    BY <1>0, <2>1 DEF DocOK
  <2>2. CASE p # e.prod
    BY <1>0, <1>1, <2>2 DEF DocOK
  <2>3. QED
    BY <2>1, <2>2
<1>4. QED
  BY <1>2, <1>3

LEMMA NextIndexInv ==
  ASSUME CatalogueInv, [Next]_vars
  PROVE  IndexInv'
<1>1. ASSUME DocumentStep
      PROVE  (\A v \in Workers : JobOK(v)') /\ \A p \in Products : DocOK(p)'
  <2>1. product' = product /\ raced' = raced
    BY <1>1 DEF DocumentStep
  <2>2. ASSUME UNCHANGED vars
        PROVE  (\A v \in Workers : JobOK(v)') /\ \A p \in Products : DocOK(p)'
    BY <2>2 DEF vars, CatalogueInv, IndexInv, JobOK, DocOK, Recorded
  <2>3. QED
    BY <1>1, <2>1, <2>2, CompareKeepsIndex, IndexKeepsIndex, DeleteKeepsIndex DEF DocumentStep
<1>2. (\A v \in Workers : JobOK(v)') /\ \A p \in Products : DocOK(p)'
  BY <1>1, RequestJobOK, RequestDocOK, NextSteps DEF CatalogueInv
<1>3. QED
  BY <1>2, NextTypeOK DEF IndexInv, JobType

-----------------------------------------------------------------------------
(* The theorems.                                                           *)

LEMMA InitCatalogueInv == Init => CatalogueInv
<1> SUFFICES ASSUME Init
             PROVE  CatalogueInv
  OBVIOUS
<1>0. /\ Versions \subseteq Nat /\ 0 \in Versions /\ 1 \in Versions /\ Cardinality(Requests) \in Nat
      /\ None \notin Slugs /\ MaxFaults \in Nat
  BY VersionsType, CatalogueAssumption
<1>1. ASSUME NEW p \in Products
      PROVE  /\ product[p] \in ProductRows /\ product[p].row \in {"none", "live"}
             /\ product[p].row = "none" => product[p] = NoProduct
             /\ Live(p) => product[p].ver = 1
             /\ product[p].ver \in {0, 1}
             /\ \A v \in product[p].variants : v.ver = 1
  <2>1. \A s \in Slugs : [ver |-> 1, slug |-> s, live |-> TRUE] \in Variants
    BY <1>0 DEF Variants
  <2>2. CASE product[p] = NoProduct
    BY <2>2, NewRequestType DEF NoProduct, Live
  <2>3. ASSUME NEW status \in Statuses, NEW s \in Slugs, NEW vs \in SUBSET {[ver |-> 1, slug |-> t, live |-> TRUE] : t \in Slugs},
               product[p] = [row |-> "live", status |-> status, slug |-> s, ver |-> 1, variants |-> vs]
        PROVE  /\ product[p] \in ProductRows /\ Live(p) /\ product[p].ver = 1
               /\ \A v \in product[p].variants : v.ver = 1
    <3>1. vs \subseteq Variants /\ \A v \in vs : v.ver = 1
      BY <2>1
    <3>2. [row |-> "live", status |-> status, slug |-> s, ver |-> 1, variants |-> vs] \in ProductRows
      BY <1>0, <3>1 DEF ProductRows, Rows
    <3>3. QED
      BY <2>3, <3>1, <3>2 DEF Live
  <2>4. \/ product[p] = NoProduct
        \/ \E status \in Statuses, s \in Slugs,
              vs \in SUBSET {[ver |-> 1, slug |-> t, live |-> TRUE] : t \in Slugs} :
             product[p] = [row |-> "live", status |-> status, slug |-> s, ver |-> 1, variants |-> vs]
    BY DEF Init
  <2>5. QED
    BY <2>2, <2>3, <2>4 DEF Live
<1>2. ASSUME NEW c \in Categories
      PROVE  /\ category[c] \in CategoryRows /\ CategoryOK(c)
             /\ category[c].row \in {"none", "live"}
  <2>1. \A d \in Categories : category[d] = NoCategory \/ category[d] \in [row : {"live"}, slug : Slugs]
    BY DEF Init
  <2>2. \A d \in Categories : /\ category[d].row = "none" <=> category[d].slug = None
                              /\ category[d].row = "none" => category[d] = NoCategory
                              /\ category[d].row \in {"none", "live"} /\ category[d] \in CategoryRows
    BY <1>0, <2>1, NewRequestType DEF NoCategory, CategoryRows, Rows
  <2>3. \A d, e \in Categories : d # e /\ category[d].slug = category[e].slug => category[d] = NoCategory
    BY DEF Init
  <2>4. QED
    BY <2>2, <2>3 DEF CategoryOK, NoCategory
<1>3. /\ \A p \in Products : Live(p) => CategoryNamed(product[p].slug)
      /\ http = [r \in Requests |-> NewRequest] /\ clock = 2 /\ pending = {} /\ handled = {}
      /\ doc = [p \in Products |-> IF Live(p) THEN 1 ELSE 0] /\ job = [w \in Workers |-> Idle]
      /\ raced = {} /\ unsettled = {} /\ faults = 0
      /\ product \in [Products -> ProductRows] /\ category \in [Categories -> CategoryRows]
  <2>1. product \in [Products -> ProductRows] /\ category \in [Categories -> CategoryRows]
    BY <1>1, <1>2 DEF Init
  <2>2. QED
    BY <2>1 DEF Init, CategoryNamed
<1>4. http \in [Requests -> HttpRequests] /\ \A r \in Requests : http[r].pc = "new"
  BY <1>3, NewRequestType DEF NewRequest
<1>5. TypeOK
  <2>1. DatabaseType
    BY <1>0, <1>3 DEF DatabaseType
  <2>2. SearchType
    BY <1>0, <1>3 DEF SearchType
  <2>3. QED
    BY <1>4, <2>1, <2>2, TypesTogether DEF HttpType
<1>6. ClockOK
  <2> DEFINE B == {r \in Requests : http[r].pc # "new"}
  <2>1. B = {}
    BY <1>4
  <2>2. Cardinality(B) = 0
    BY <2>1, FS_EmptySet
  <2>3. QED
    BY <1>3, <2>2 DEF ClockOK
<1>7. RequestsInv
  BY <1>4 DEF RequestsInv, RequestOK, AloneOK, Writing, Dropping, Elsewhere
<1>8. ApartInv
  BY <1>4 DEF ApartInv, ApartOK, Holding, InFlight
<1>9. ProductsInv
  <2>1. ASSUME NEW p \in Products
        PROVE  ProductOK(p) /\ FollowOK(p)
    <3>1. product[p].row # "none" => product[p].slug \in KnownSlugs
      <4>1. ASSUME Live(p)
            PROVE  product[p].slug \in KnownSlugs
        <5>1. PICK c \in Categories : category[c].row = "live" /\ category[c].slug = product[p].slug
          BY <1>3, <4>1 DEF CategoryNamed, GetBySlug
        <5>2. category[c].slug # None
          BY <1>2, <5>1 DEF CategoryOK
        <5>3. QED
          BY <5>1, <5>2 DEF KnownSlugs
      <4>2. QED
        BY <1>1, <4>1 DEF Live
    <3>2. QED
      BY <1>1, <1>3, <3>1 DEF ProductOK, FollowOK, LiveVariants
  <2>2. QED
    BY <2>1, FollowTogether DEF ProductsInv
<1>10. CategoriesInv
  BY <1>2, <1>3, <1>4 DEF CategoriesInv, UnusedOK, NamedOK
<1>11. EventsInv
  <2>1. EventsOK
    BY <1>3 DEF EventsOK, Recorded
  <2>2. \A r \in Requests : AnswerOK(r)
    BY <1>4 DEF AnswerOK
  <2>3. \A p \in Products : AnnouncedOK(p)
    BY <1>1, <1>3 DEF AnnouncedOK, Recorded
  <2>4. QED
    BY <2>1, <2>2, <2>3, AnnouncedTogether DEF EventsInv
<1>12. IndexInv
  <2>1. JobType /\ \A w \in Workers : job[w].at # "writing"
    BY <1>3 DEF JobType, Idle
  <2>2. \A p \in Products : DocOK(p)
    BY <1>1, <1>3 DEF DocOK, NoProduct, Live
  <2>3. QED
    BY <2>1, <2>2 DEF IndexInv, JobOK
<1>13. QED
  BY <1>5, <1>6, <1>7, <1>8, <1>9, <1>10, <1>11, <1>12 DEF CatalogueInv

LEMMA Invariance == Spec => []CatalogueInv
<1>1. CatalogueInv /\ [Next]_vars => CatalogueInv'
  BY NextTypeOK, NextClockOK, NextRequestsInv, NextApartInv, NextProductsInv, NextCategoriesInv, NextEventsInv,
     NextIndexInv DEF CatalogueInv
<1>2. QED
  BY InitCatalogueInv, <1>1, PTL DEF Spec

\* Types and bounds: the clock gives each request at most one version, and stays below
\* what the requests can use up.
THEOREM TypeCorrect == Spec => []TypeOK
<1>1. CatalogueInv => TypeOK
  BY DEF CatalogueInv
<1>2. QED
  BY Invariance, <1>1, PTL

\* Update replaces a product's variants as a whole, however many updates and deletions of
\* it interleave; only a deletion an update overlapped can leave variants behind.
THEOREM VariantsAreReplacedWhole == Spec => []VariantsFollowProduct
<1>1. CatalogueInv => VariantsFollowProduct
  BY DEF CatalogueInv, ProductsInv
<1>2. QED
  BY Invariance, <1>1, PTL

\* A write of a product that is answered with success has its event in the outbox, and the
\* latest event says what the row says.
THEOREM EventsSayWhatWasWritten == Spec => []WritesAreAnnounced
<1>1. CatalogueInv => WritesAreAnnounced
  BY DEF CatalogueInv, EventsInv
<1>2. QED
  BY Invariance, <1>1, PTL

\* Whatever the lists show can be opened: a slug leads to one category, and a listed product
\* has one that counts it, unless the category was deleted by a request that
\* overlapped with one about the same slug.
THEOREM ListsCanBeOpened == Spec => []ListedPagesOpen
<1>1. ASSUME CatalogueInv
      PROVE  ListedPagesOpen
  <2>0. (\A c \in Categories : CategoryOK(c)) /\ \A p \in Products : NamedOK(p)
    BY <1>1 DEF CatalogueInv, CategoriesInv
  <2>1. ASSUME NEW l \in CategoryList
        PROVE  CategoryByID(l.cat) = {l.cat} /\ CategoryBySlug(category[l.cat].slug) = {l.cat}
    <3>1. l.cat \in Categories /\ category[l.cat].row = "live"
      BY <2>1 DEF CategoryList, SelectCategories, CategoryExists
    <3>2. \A d \in Categories : category[d].slug = category[l.cat].slug => d = l.cat
      BY <2>0, <3>1 DEF CategoryOK
    <3>3. QED
      BY <3>1, <3>2 DEF CategoryByID, CategoryExists, CategoryBySlug, GetBySlug
  <2>2. ASSUME NEW p \in GetAllHome \union UNION {GetAllAdmin(asked) : asked \in Statuses \union {""}},
               product[p].slug \notin raced
        PROVE  /\ GetDetailHome(p).code = "ok" /\ GetByIDAdmin(p).code = "ok"
               /\ \E l \in CategoryList : p \in l.products
    <3>1. p \in Products /\ Live(p)
      BY DEF GetAllHome, GetAllAdmin, GetAll
    <3>2. CategoryNamed(product[p].slug)
      BY <2>0, <2>2, <3>1 DEF NamedOK
    <3>3. GetDetailHome(p).code = "ok" /\ GetByIDAdmin(p).code = "ok"
      BY <3>1, <3>2 DEF GetByIDAdmin, GetDetailHome, GetByID, SelectByID
    <3>4. PICK c \in Categories : category[c].row = "live" /\ category[c].slug = product[p].slug
      BY <3>2 DEF CategoryNamed, GetBySlug
    <3>5. p \in PreloadProducts(c)
      BY <3>1, <3>4 DEF PreloadProducts
    <3>6. [cat |-> c, products |-> PreloadProducts(c)] \in CategoryList
      BY <3>4 DEF CategoryList, SelectCategories, CategoryExists
    <3>7. QED
      BY <3>3, <3>5, <3>6
  <2>3. QED
    BY <2>1, <2>2 DEF ListedPagesOpen
<1>2. QED
  BY Invariance, <1>1, PTL

\* Once nothing about a product is left to handle, the shop page shows its row from the index,
\* with any status, and from the rows if it is ACTIVE, whatever the order of its events and
\* however often they came; the exceptions are the ones the property names.
THEOREM IndexCatchesUp == Spec => []SettledIndexIsCurrent
<1>1. ASSUME CatalogueInv
      PROVE  SettledIndexIsCurrent
  <2> SUFFICES ASSUME NEW p \in Products, p \notin raced \union unsettled, \A e \in pending : e.prod # p
               PROVE  doc[p] = IF Live(p) THEN product[p].ver ELSE 0
    <3>1. \A p \in Products :
            /\ GetAllShop(TRUE, p) = doc[p]
            /\ GetAllShop(FALSE, p) = IF Live(p) /\ product[p].status = "ACTIVE" THEN product[p].ver ELSE 0
      BY DEF GetAllShop, SearchProducts, SearchES, GetAll
    <3>2. QED
      BY <3>1 DEF SettledIndexIsCurrent
  <2>0. /\ AnnouncedOK(p) /\ DocOK(p) /\ ProductOK(p) /\ product[p].row \in Rows
        /\ product[p].ver \in Nat /\ doc[p] \in Nat
        /\ \A e : e.prod = p => (e \in Recorded <=> e \in handled)
    BY <1>1, AnnouncedTogether, VersionsType
       DEF CatalogueInv, EventsInv, IndexInv, ProductsInv, TypeOK, Recorded
  <2>2. CASE \E e \in handled : e.prod = p /\ e.kind = "deleted"
    BY <2>0, <2>2 DEF AnnouncedOK, DocOK, Live
  <2>3. CASE ~\E e \in handled : e.prod = p /\ e.kind = "deleted"
    <3>1. /\ product[p].row # "deleted" /\ doc[p] <= product[p].ver
          /\ product[p].ver = 1 => doc[p] = 1
          /\ product[p].ver > 1 => \E e \in handled : e.prod = p /\ e.ver = product[p].ver /\ e.ver <= doc[p]
      BY <2>0, <2>3 DEF AnnouncedOK, DocOK
    <3>2. doc[p] = product[p].ver
      BY <2>0, <3>1
    <3>3. ~Live(p) => product[p].ver = 0
      BY <2>0, <3>1 DEF ProductOK, Live, Rows, NoProduct
    <3>4. QED
      BY <3>2, <3>3
  <2>4. QED
    BY <2>2, <2>3
<1>2. QED
  BY Invariance, <1>1, PTL

=============================================================================
