----------------------------- MODULE Catalogue -----------------------------
(***************************************************************************)
(* The catalogue of product-service: administrators' requests that write    *)
(* products and categories (handler, service and repository), the outbox    *)
(* events they record, and the Elasticsearch documents the two consumers    *)
(* and the reindex endpoint keep.                                           *)
(*                                                                         *)
(* PostgreSQL is modelled as far as the code relies on it, at READ          *)
(* COMMITTED: what a transaction wrote is visible when it commits, a write  *)
(* of a row waits for the transaction that wrote it, a cycle of waiting     *)
(* transactions is broken by aborting one, and a row that references a slug *)
(* keeps the slug from changing.                                            *)
(***************************************************************************)
EXTENDS Naturals, FiniteSets

CONSTANTS
  Products,       \* ids of products that are not variants of another
  Categories,     \* ids of categories
  Slugs,          \* what GenerateSlug can return
  Requests,       \* HTTP requests, each handled once
  Workers,        \* index handlers that can run at the same time, over all replicas
  MaxOpenConns,   \* DBMaxOpen, the size of the pool of database connections
  MaxFaults,      \* bound: redelivered events and failed calls of the index
  None            \* no product, no category, no slug

ASSUME CatalogueAssumption ==
  /\ MaxOpenConns \in Nat \ {0}
  /\ MaxFaults \in Nat
  /\ IsFiniteSet(Requests)
  /\ None \notin Products \union Categories \union Slugs

VARIABLES
  product,   \* product[p]: the row with its status, and its variants
  category,  \* category[c]: the row
  http,      \* http[r]: the request, its transaction and its answer
  clock,     \* the application's clock, where updated_at comes from
  pending,   \* events recorded in the outbox and not handled yet
  handled,   \* events handled at least once
  doc,       \* doc[p]: the version (created_at or updated_at) of p's document, 0 if none
  job,       \* job[w]: the event worker w handles
  raced,     \* history: products and slugs written by requests that overlapped
  unsettled, \* history: products whose events were handled out of the order the code copes with
  faults

vars == <<product, category, http, clock, pending, handled, doc, job, raced, unsettled, faults>>

Versions == 0 .. 1 + Cardinality(Requests)
\* The variants one request inserted: its version, the slug it gave them, deleted since or not.
Variants == [ver : Versions, slug : Slugs, live : BOOLEAN]
Rows == {"none", "live", "deleted"}
\* The status is free text of the request: the value the lists ask for by default, and another.
Statuses == {"ACTIVE", "DRAFT"}
Ops  == {"none", "create", "update", "delete", "newCategory", "editCategory", "dropCategory", "reindex"}
Pcs  == {"new", "save", "variants", "naming", "dropVariants", "dropRow",
         "insertCategory", "saveCategory", "deleteCategory", "index", "done"}
Codes == {"none", "ok", "refused", "notfound", "error"}
Events == [kind : {"created", "updated", "deleted"}, prod : Products, ver : Versions, by : Requests]

NoProduct  == [row |-> "none", status |-> "DRAFT", slug |-> None, ver |-> 0, variants |-> {}]
NoCategory == [row |-> "none", slug |-> None]
NewRequest == [pc |-> "new", op |-> "none", prod |-> None, cat |-> None, slug |-> None,
               withVariants |-> FALSE, ver |-> 0, seen |-> {}, code |-> "none"]
Idle == [at |-> "idle", event |-> None, skip |-> FALSE]

Live(p) == product[p].row = "live"
LiveVariants(p) == {v \in product[p].variants : v.live}
Drop(vs) == {[v EXCEPT !.live = FALSE] : v \in vs}
InFlight == {r \in Requests : http[r].pc \notin {"new", "done"}}

-----------------------------------------------------------------------------
(* What the read endpoints answer.                                          *)

\* categoryRepository.GetBySlug, of the rows that are not deleted.
GetBySlug(s) == {c \in Categories : category[c].row = "live" /\ category[c].slug = s}

\* productWithCategoryName: a product without its category is an error.
CategoryNamed(s) == GetBySlug(s) # {}

\* productRepository.GetByID: the row and the variants that are not deleted.
SelectByID(p) == [found |-> Live(p), child |-> LiveVariants(p)]

\* productService.GetByID.
GetByID(p) == IF SelectByID(p).found /\ CategoryNamed(product[p].slug) THEN "ok" ELSE "notfound"

\* The product page of the shop and the one of the administrator.
GetDetailHome(p) == [code |-> GetByID(p), child |-> SelectByID(p).child]
GetByIDAdmin(p)  == GetDetailHome(p)

\* productRepository.GetAll: the rows with the status the query asks for, ACTIVE if it asks
\* for none. The home page asks for none, an administrator for any or none.
GetAll(asked) ==
  {p \in Products : Live(p) /\ product[p].status = IF asked = "" THEN "ACTIVE" ELSE asked}
GetAllHome == GetAll("")
GetAllAdmin(asked) == GetAll(asked)

\* SearchProducts, of the shop page: the documents, whatever their status, or the rows with
\* the default status when the index does not answer. For each product the version it shows,
\* 0 for a product that is not listed.
SearchES(p) == doc[p]
SearchProducts(answers, p) ==
  IF answers THEN SearchES(p) ELSE IF p \in GetAll("") THEN product[p].ver ELSE 0
GetAllShop(answers, p) == SearchProducts(answers, p)

\* categoryRepository.GetByID, and the administrator's pages of a category, by id and by slug.
CategoryExists(c) == category[c].row = "live"
CategoryByID(c)   == IF CategoryExists(c) THEN {c} ELSE {}
CategoryBySlug(s) == GetBySlug(s)

X_OnlyVariants(c) == {p \in Products : \E v \in LiveVariants(p) : v.slug = category[c].slug}
\* The rows Preload("Products") finds for a category, variants included.
PreloadProducts(c) ==
  {p \in Products : Live(p) /\ product[p].slug = category[c].slug}
    \union {p \in Products : \E v \in LiveVariants(p) : v.slug = category[c].slug}

\* categoryRepository.GetAll, and the administrator's list with the products it counts.
SelectCategories == {c \in Categories : CategoryExists(c)}
CategoryList == {[cat |-> c, products |-> PreloadProducts(c)] : c \in SelectCategories}

-----------------------------------------------------------------------------
(* Requests.                                                               *)

\* What a request writes, or decides by.
Touches(h) == {h.prod, h.slug, IF h.cat = None THEN None ELSE category[h.cat].slug} \ {None}

\* The transactions that hold a connection of the pool.
OpenTransactions == {r \in Requests : http[r].pc \in {"save", "variants", "naming", "dropVariants", "dropRow"}}

Begin(r, h) ==
  /\ http[r].pc = "new"
  /\ http'  = [http EXCEPT ![r] = h]
  /\ raced' = raced \union UNION {Touches(h) \intersect Touches(http[q]) : q \in InFlight}

BeginTransaction(r, h) ==
  /\ Cardinality(OpenTransactions) < MaxOpenConns
  /\ Begin(r, h)

Goto(r, pc) == http' = [http EXCEPT ![r].pc = pc]

\* The answer: the rest of the request no longer matters.
Answer(r, op, code) ==
  http' = [http EXCEPT ![r] = [NewRequest EXCEPT !.pc = "done", !.op = op, !.code = code]]

database == <<product, category, clock, pending, handled>>
search   == <<doc, job, unsettled, faults>>

\* An answer that leaves everything else as it was: a refusal, or a rolled back transaction.
AnswerOnly(r, op, code) ==
  /\ Answer(r, op, code)
  /\ UNCHANGED <<database, search, raced>>

\* CheckToken finds no session, or a customer's.
CheckToken(r, op) == http[r].pc = "new" /\ AnswerOnly(r, op, "refused")

\* The id, the body or a required field is missing.
BadRequest(r, op) == http[r].pc = "new" /\ AnswerOnly(r, op, "refused")

\* The transaction commits the row of its product and the event.
Commit(r, row, kind) ==
  LET h == http[r] IN
  /\ product' = [product EXCEPT ![h.prod] = row]
  /\ pending' = pending \union {[kind |-> kind, prod |-> h.prod, ver |-> h.ver, by |-> r]}
  /\ Answer(r, h.op, "ok")
  /\ UNCHANGED <<category, clock, handled, search, raced>>

-----------------------------------------------------------------------------
(* Locks and constraints of the two tables.                                 *)

\* What the foreign key of category_slug accepts: slugs of deleted categories, too.
KnownSlugs == {category[c].slug : c \in Categories} \ {None}

\* A slug that some row, deleted or not, references.
Referenced(s) == \E p \in Products :
  product[p].row # "none" /\ (product[p].slug = s \/ \E v \in product[p].variants : v.slug = s)

\* A row that an open transaction wrote keeps the slug it references from changing.
SlugLocked(s) == \E q \in Requests : http[q].pc \in {"variants", "naming"} /\ http[q].slug = s

X_NoRowLock(p, r) == FALSE
\* The row of p was written by another transaction that is still open.
RowLocked(p, r) == \E q \in Requests \ {r} : http[q].prod = p /\ http[q].pc \in {"variants", "naming"}

\* Variants of p that another open transaction has deleted.
LockedVariants(p, r) ==
  UNION {http[q].seen : q \in {q \in Requests \ {r} : http[q].prod = p /\ http[q].pc \in {"naming", "dropRow"}}}

-----------------------------------------------------------------------------
(* Products.                                                               *)

\* The transaction of Create up to the insertion of the product and its variants.
InsertProduct(r, p, s, withVariants) ==
  /\ product[p].row = "none" /\ \A q \in InFlight : http[q].prod # p
  /\ IF s \in KnownSlugs
     THEN /\ BeginTransaction(r, [NewRequest EXCEPT !.pc = "naming", !.op = "create", !.prod = p,
                                   !.slug = s, !.withVariants = withVariants, !.ver = clock])
          /\ clock' = clock + 1
          /\ UNCHANGED <<product, category, pending, handled, search>>
     ELSE http[r].pc = "new" /\ AnswerOnly(r, "create", "error")

CreateAdmin(r) ==
  \/ CheckToken(r, "create") \/ BadRequest(r, "create")
  \/ \E p \in Products, s \in Slugs, withVariants \in BOOLEAN : InsertProduct(r, p, s, withVariants)

\* The transaction of Update up to the SELECT; updated_at is taken here, before any lock.
SelectProduct(r, p, s, withVariants) ==
  IF Live(p)
  THEN /\ BeginTransaction(r, [NewRequest EXCEPT !.pc = "save", !.op = "update", !.prod = p,
                                !.slug = s, !.withVariants = withVariants, !.ver = clock])
       /\ clock' = clock + 1
       /\ UNCHANGED <<product, category, pending, handled, search>>
  ELSE http[r].pc = "new" /\ AnswerOnly(r, "update", "error")

EditAdmin(r) ==
  \/ CheckToken(r, "update") \/ BadRequest(r, "update")
  \/ \E p \in Products, s \in Slugs, withVariants \in BOOLEAN : SelectProduct(r, p, s, withVariants)

\* Save writes every column by id. A row deleted since the SELECT is not matched, and is
\* then inserted over the deleted one: the write is the same.
SaveProduct(r) ==
  LET h == http[r] IN
  /\ h.pc = "save"
  /\ ~RowLocked(h.prod, r)
  /\ IF h.slug \in KnownSlugs
     THEN Goto(r, IF h.withVariants THEN "variants" ELSE "naming")
          /\ UNCHANGED <<database, search, raced>>
     ELSE AnswerOnly(r, h.op, "error")

\* The old variants are deleted and the new ones inserted.
ReplaceVariants(r) ==
  LET h == http[r] IN
  /\ h.pc = "variants"
  /\ LiveVariants(h.prod) \intersect LockedVariants(h.prod, r) = {}
  /\ http' = [http EXCEPT ![r].pc = "naming", ![r].seen = LiveVariants(h.prod)]
  /\ UNCHANGED <<database, search, raced>>

\* The row that Create and Update commit, with any status: it is the request's, and nothing
\* reads it before the commit.
Written(h, status, variants) ==
  [row |-> "live", status |-> status, slug |-> h.slug, ver |-> h.ver, variants |-> variants]

X_CommitUnnamed(r) ==
  LET h == http[r] IN
  /\ h.pc = "naming"
  /\ Cardinality(OpenTransactions) < MaxOpenConns
  /\ IF CategoryNamed(h.slug)
     THEN Commit(r, Written(h, "ACTIVE", {}), IF h.op = "create" THEN "created" ELSE "updated")
     ELSE /\ product' = [product EXCEPT ![h.prod] = Written(h, "ACTIVE", {})]
          /\ Answer(r, h.op, "error")
          /\ UNCHANGED <<category, clock, pending, handled, search, raced>>
X_ThirdConnection(r) ==
  LET h == http[r] IN
  /\ h.pc = "naming"
  /\ Cardinality(OpenTransactions) + 1 < MaxOpenConns
  /\ IF CategoryNamed(h.slug)
     THEN Commit(r, Written(h, "ACTIVE", {}), IF h.op = "create" THEN "created" ELSE "updated")
     ELSE AnswerOnly(r, h.op, "error")
\* The transaction of Create and of Update after the writes: the product is read back,
\* productWithCategoryName reads the category on a connection of its own, the event is
\* recorded and the transaction commits; or it is rolled back.
NameAndCommit(r) ==
  LET h == http[r]
      kept == (product[h.prod].variants \ h.seen) \union Drop(h.seen)
      new  == IF h.withVariants THEN {[ver |-> h.ver, slug |-> h.slug, live |-> TRUE]} ELSE {}
  IN
  /\ h.pc = "naming"
  /\ Cardinality(OpenTransactions) < MaxOpenConns
  /\ IF CategoryNamed(h.slug)
     THEN \E status \in Statuses :
            Commit(r, Written(h, status, kept \union new),
                   IF h.op = "create" THEN "created" ELSE "updated")
     ELSE AnswerOnly(r, h.op, "error")

\* The transaction of Delete up to the statement that deletes the variants.
SelectWithChilds(r, p) ==
  IF Live(p)
  THEN /\ BeginTransaction(r, [NewRequest EXCEPT !.pc = "dropVariants", !.op = "delete", !.prod = p,
                                !.seen = LiveVariants(p)])
       /\ UNCHANGED <<database, search>>
  ELSE http[r].pc = "new" /\ AnswerOnly(r, "delete", "notfound")

DeleteAdmin(r) ==
  \/ CheckToken(r, "delete") \/ BadRequest(r, "delete")
  \/ \E p \in Products : SelectWithChilds(r, p)

\* The statement waits for variants another transaction has deleted, and skips them then.
DropVariants(r) ==
  LET h == http[r] IN
  /\ h.pc = "dropVariants"
  /\ h.seen \intersect LockedVariants(h.prod, r) = {}
  /\ http' = [http EXCEPT ![r].pc = "dropRow", ![r].seen = h.seen \intersect LiveVariants(h.prod)]
  /\ UNCHANGED <<database, search, raced>>

X_WrongEventType(r) ==
  LET h == http[r] IN
  /\ h.pc = "dropRow"
  /\ ~RowLocked(h.prod, r)
  /\ Commit(r, [product[h.prod] EXCEPT !.row = "deleted"], "removed")
DropRow(r) ==
  LET h == http[r]
      row == product[h.prod]
  IN
  /\ h.pc = "dropRow"
  /\ ~RowLocked(h.prod, r)
  /\ Commit(r, [row EXCEPT !.row = "deleted", !.variants = (@ \ h.seen) \union Drop(h.seen)], "deleted")

\* An update holds the row and wants the variants, a deletion the other way round.
DeadlockVictim(r) ==
  \E q \in Requests \ {r} :
    LET Holds(u, d) == /\ http[u].pc = "variants" /\ http[d].pc = "dropRow"
                       /\ http[u].prod = http[d].prod
                       /\ http[d].seen \intersect LiveVariants(http[d].prod) # {}
    IN (Holds(r, q) \/ Holds(q, r)) /\ AnswerOnly(r, http[r].op, "error")

-----------------------------------------------------------------------------
(* Categories.                                                             *)

\* A statement fails, for instance the insertion of the event: nothing of it remains.
DatabaseError(r) ==
  /\ http[r].pc \notin {"new", "done", "index"}
  /\ AnswerOnly(r, http[r].op, "error")

\* CreateCategory of the service, up to the check of the slug.
CheckNewSlug(r, s) ==
  IF GetBySlug(s) = {}
  THEN /\ Begin(r, [NewRequest EXCEPT !.pc = "insertCategory", !.op = "newCategory", !.slug = s])
       /\ UNCHANGED <<database, search>>
  ELSE http[r].pc = "new" /\ AnswerOnly(r, "newCategory", "error")

CreateCategory(r) ==
  \/ CheckToken(r, "newCategory") \/ BadRequest(r, "newCategory")
  \/ \E s \in Slugs : CheckNewSlug(r, s)

\* The slug is UNIQUE over all rows, the deleted ones included.
InsertCategory(r) ==
  LET h == http[r] IN
  /\ h.pc = "insertCategory"
  /\ IF h.slug \in KnownSlugs THEN AnswerOnly(r, h.op, "error")
     ELSE \E c \in Categories :
       /\ category[c].row = "none"
       /\ category' = [category EXCEPT ![c] = [row |-> "live", slug |-> h.slug]]
       /\ Answer(r, h.op, "ok")
       /\ UNCHANGED <<product, clock, pending, handled, search, raced>>

\* EditCategory of the service, up to the SELECT of the repository.
CheckEditedSlug(r, c, s) ==
  LET taken == s # category[c].slug /\ GetBySlug(s) # {} IN
  IF CategoryExists(c) /\ ~taken
  THEN /\ Begin(r, [NewRequest EXCEPT !.pc = "saveCategory", !.op = "editCategory", !.cat = c, !.slug = s])
       /\ UNCHANGED <<database, search>>
  ELSE /\ http[r].pc = "new"
       /\ AnswerOnly(r, "editCategory", IF CategoryExists(c) THEN "error" ELSE "notfound")

UpdateCategory(r) ==
  \/ CheckToken(r, "editCategory") \/ BadRequest(r, "editCategory")
  \/ \E c \in Categories, s \in Slugs : CheckEditedSlug(r, c, s)

\* Save of the row, which a deletion in between does not stop. The database refuses a slug
\* in use, and a new slug for a category some product row references.
SaveCategory(r) ==
  LET h == http[r]
      old == category[h.cat].slug
  IN
  /\ h.pc = "saveCategory"
  /\ h.slug = old \/ ~SlugLocked(old)
  /\ IF h.slug # old /\ (h.slug \in KnownSlugs \/ Referenced(old)) THEN AnswerOnly(r, h.op, "error")
     ELSE /\ category' = [category EXCEPT ![h.cat] = [row |-> "live", slug |-> h.slug]]
          /\ Answer(r, h.op, "ok")
          /\ UNCHANGED <<product, clock, pending, handled, search, raced>>

\* DeleteCategory of the repository, up to the test that no product uses the category.
CheckUnused(r, c) ==
  IF CategoryExists(c) /\ PreloadProducts(c) = {}
  THEN /\ Begin(r, [NewRequest EXCEPT !.pc = "deleteCategory", !.op = "dropCategory", !.cat = c])
       /\ UNCHANGED <<database, search>>
  ELSE /\ http[r].pc = "new"
       /\ AnswerOnly(r, "dropCategory", IF CategoryExists(c) THEN "error" ELSE "notfound")

DeleteCategory(r) ==
  \/ CheckToken(r, "dropCategory") \/ BadRequest(r, "dropCategory")
  \/ \E c \in Categories : CheckUnused(r, c)

DropCategory(r) ==
  LET c == http[r].cat IN
  /\ http[r].pc = "deleteCategory"
  /\ category' = [category EXCEPT ![c].row = "deleted"]
  /\ Answer(r, http[r].op, "ok")
  /\ UNCHANGED <<product, clock, pending, handled, search, raced>>

-----------------------------------------------------------------------------
(* The documents of the index.                                              *)

Working(p) == \E w \in Workers : job[w].at = "writing" /\ job[w].event.prod = p
Held == {job[w].event : w \in {w \in Workers : job[w].at = "writing"}}

\* ReindexProducts reads the ACTIVE products, then indexes one after the other, without a
\* test of the version; a product that cannot be indexed is left out. Documents of other
\* products stay.
ReindexProducts(r) ==
  \/ CheckToken(r, "reindex")
  \/ /\ Begin(r, [NewRequest EXCEPT !.pc = "index", !.op = "reindex",
                                    !.seen = {[prod |-> p, ver |-> product[p].ver] : p \in GetAll("ACTIVE")}])
     /\ UNCHANGED <<database, search>>

ReindexOne(r) ==
  LET h == http[r] IN
  /\ h.pc = "index"
  /\ \/ /\ h.seen = {}
        /\ AnswerOnly(r, h.op, "ok")
     \/ \E d \in h.seen :
          LET stale == ~Live(d.prod) \/ product[d.prod].ver # d.ver \/ Working(d.prod) IN
          /\ http' = [http EXCEPT ![r].seen = h.seen \ {d}]
          /\ \/ /\ doc' = [doc EXCEPT ![d.prod] = d.ver]
                /\ unsettled' = unsettled \union (IF stale THEN {d.prod} ELSE {})
                /\ UNCHANGED faults
             \/ /\ faults < MaxFaults
                /\ faults' = faults + 1
                /\ UNCHANGED <<doc, unsettled>>
          /\ UNCHANGED <<database, job, raced>>

\* An event not handled yet, or one the broker delivers again.
Deliverable == (pending \union (IF faults < MaxFaults THEN handled ELSE {})) \ Held
Redelivery(e) == IF e \in pending THEN 0 ELSE 1

\* The order of a product's events is one the version test does not restore.
OutOfOrder(e) ==
  \/ Working(e.prod)
  \/ e.kind # "deleted" /\ \E d \in handled : d.kind = "deleted" /\ d.prod = e.prod

\* getExistingVersionTime, when Get succeeds.
GetExistingVersion(p) == doc[p]

X_SkipExisting(w, e) ==
  /\ job[w] = Idle
  /\ e \in Deliverable /\ e.kind # "deleted"
  /\ job' = [job EXCEPT ![w] = [at |-> "writing", event |-> e, skip |-> doc[e.prod] # 0]]
  /\ faults' = faults + Redelivery(e)
  /\ unsettled' = IF OutOfOrder(e) THEN unsettled \union {e.prod} ELSE unsettled
  /\ UNCHANGED <<database, doc, http, raced>>
\* Handle of ESIndexHandler, up to the answer of Get: the document's version, or an error,
\* which counts as no document.
CompareVersions(w, e) ==
  /\ job[w] = Idle
  /\ e \in Deliverable /\ e.kind # "deleted"
  /\ \E failed \in BOOLEAN :
       /\ faults + Redelivery(e) + (IF failed THEN 1 ELSE 0) <= MaxFaults
       /\ faults' = faults + Redelivery(e) + (IF failed THEN 1 ELSE 0)
       /\ job' = [job EXCEPT ![w] = [at |-> "writing", event |-> e, skip |-> ~failed /\ e.ver < GetExistingVersion(e.prod)]]
       /\ unsettled' = IF failed \/ OutOfOrder(e) THEN unsettled \union {e.prod} ELSE unsettled
  /\ UNCHANGED <<database, doc, http, raced>>

Settle(e) == pending' = pending \ {e} /\ handled' = handled \union {e}

\* The rest of Handle: skip an older event, or index the document whatever it is by now.
IndexDocument(w) ==
  LET e == job[w].event IN
  /\ job[w].at = "writing"
  /\ job' = [job EXCEPT ![w] = Idle]
  /\ \/ /\ doc' = IF job[w].skip THEN doc ELSE [doc EXCEPT ![e.prod] = e.ver]
        /\ Settle(e)
        /\ UNCHANGED faults
     \/ /\ ~job[w].skip /\ faults < MaxFaults
        /\ faults' = faults + 1
        /\ UNCHANGED <<doc, pending, handled>>
  /\ UNCHANGED <<product, category, clock, http, raced, unsettled>>

\* Handle of ESDeleteHandler; no document is a success, too.
DeleteDocument(e) ==
  /\ e \in Deliverable /\ e.kind = "deleted"
  /\ faults' = faults + Redelivery(e)
  /\ doc' = [doc EXCEPT ![e.prod] = 0]
  /\ unsettled' = IF OutOfOrder(e) \/ \E d \in pending : d.prod = e.prod /\ d.kind # "deleted"
                  THEN unsettled \union {e.prod} ELSE unsettled
  /\ Settle(e)
  /\ UNCHANGED <<product, category, clock, http, job, raced>>

-----------------------------------------------------------------------------
\* A catalogue at rest: every document is the product's.
Init ==
  /\ product \in [Products -> {NoProduct} \union
       {[row |-> "live", status |-> status, slug |-> s, ver |-> 1, variants |-> vs] :
          status \in Statuses, s \in Slugs, vs \in SUBSET {[ver |-> 1, slug |-> s, live |-> TRUE] : s \in Slugs}}]
  /\ category \in [Categories -> {NoCategory} \union [row : {"live"}, slug : Slugs]]
  /\ \A p \in Products : \A v \in product[p].variants : v.slug = product[p].slug
  /\ \A c, d \in Categories : c # d /\ category[c].slug = category[d].slug => category[c] = NoCategory
  /\ \A p \in Products : Live(p) => GetBySlug(product[p].slug) # {}
  /\ http      = [r \in Requests |-> NewRequest]
  /\ clock     = 2
  /\ pending   = {}
  /\ handled   = {}
  /\ doc       = [p \in Products |-> IF Live(p) THEN 1 ELSE 0]
  /\ job       = [w \in Workers |-> Idle]
  /\ raced     = {}
  /\ unsettled = {}
  /\ faults    = 0

\* The routes of an administrator.
Receive(r) ==
  \/ CreateAdmin(r) \/ EditAdmin(r) \/ DeleteAdmin(r) \/ ReindexProducts(r)
  \/ CreateCategory(r) \/ UpdateCategory(r) \/ DeleteCategory(r)

\* The steps of a request that has begun.
Proceed(r) ==
  \/ SaveProduct(r) \/ ReplaceVariants(r) \/ NameAndCommit(r)
  \/ DropVariants(r) \/ DropRow(r) \/ DeadlockVictim(r)
  \/ InsertCategory(r) \/ SaveCategory(r) \/ DropCategory(r)
  \/ ReindexOne(r)

Consume ==
  \/ \E w \in Workers : (\E e \in Deliverable : CompareVersions(w, e)) \/ IndexDocument(w)
  \/ \E e \in Deliverable : DeleteDocument(e)

Next ==
  \/ \E r \in Requests : Receive(r) \/ Proceed(r) \/ DatabaseError(r)
  \/ Consume

Spec == Init /\ [][Next]_vars

\* A handler runs until it answers: the database answers its statements, breaks deadlocks
\* of transactions, and hands a free connection to whoever waits for one.
FairSpec == Spec /\ \A r \in Requests : WF_vars(Proceed(r))

-----------------------------------------------------------------------------
(* Properties.                                                             *)

\* Types, and bounds of the counters.
TypeOK ==
  /\ product \in [Products -> [row : Rows, status : Statuses, slug : Slugs \union {None}, ver : Versions,
                             variants : SUBSET Variants]]
  /\ category \in [Categories -> [row : Rows, slug : Slugs \union {None}]]
  /\ \A r \in Requests :
       /\ http[r].pc \in Pcs /\ http[r].op \in Ops /\ http[r].code \in Codes
       /\ http[r].prod \in Products \union {None} /\ http[r].cat \in Categories \union {None}
       /\ http[r].slug \in Slugs \union {None} /\ http[r].ver \in Versions
       /\ http[r].seen \subseteq (Variants \union [prod : Products, ver : Versions])
  /\ clock \in 2 .. 2 + Cardinality(Requests)
  /\ pending \subseteq Events /\ handled \subseteq Events
  /\ doc \in [Products -> Versions]
  /\ \A w \in Workers : job[w] = Idle \/ (job[w].at = "writing" /\ job[w].event \in Events)
  /\ raced \subseteq Products \union Slugs /\ unsettled \subseteq Products
  /\ faults \in 0 .. MaxFaults

\* Update replaces the variants of a product as a whole, also when several updates of it
\* run at once; and no deletion leaves a variant behind, unless an update overlapped it:
\* then the variants the update inserted stay on sale without their product.
VariantsFollowProduct ==
  \A p \in Products :
    /\ \A v, u \in GetDetailHome(p).child : v.ver = u.ver
    /\ product[p].row = "deleted" /\ p \notin raced => LiveVariants(p) = {}

\* A write of a product is answered with success exactly if its event is recorded, and the
\* row is what its latest event says. A deleted product stays deleted, unless an update had
\* read it before: Save then brings the row back.
WritesAreAnnounced ==
  LET recorded == pending \union handled IN
  /\ \A r \in Requests : http[r].pc = "done" /\ http[r].op \in {"create", "update", "delete"} =>
       (http[r].code = "ok" <=> \E e \in recorded : e.by = r)
  /\ \A p \in Products \ raced :
       LET about == {e \in recorded : e.prod = p} IN
       IF \E e \in about : e.kind = "deleted" THEN product[p].row = "deleted"
       ELSE /\ product[p].row # "deleted"
            /\ \A e \in about : e.ver <= product[p].ver
            /\ product[p].ver > 1 => \E e \in about : e.ver = product[p].ver

\* What the lists show can be opened. A category's slug leads to that category; a product's
\* category is there, although categories are renamed and deleted meanwhile, and counts it.
\* Only a category deleted while a product was being moved into it can leave a listed
\* product that answers 404.
ListedPagesOpen ==
  /\ \A l \in CategoryList : CategoryByID(l.cat) = {l.cat} /\ CategoryBySlug(category[l.cat].slug) = {l.cat}
  /\ \A p \in GetAllHome \union UNION {GetAllAdmin(asked) : asked \in Statuses \union {""}} :
       product[p].slug \notin raced =>
         /\ GetDetailHome(p).code = "ok" /\ GetByIDAdmin(p).code = "ok"
         /\ \E l \in CategoryList : p \in l.products

\* When nothing about a product is left to handle, the shop page from the index shows the
\* product as its row is, and no deleted one, although events are delivered in any order and
\* more than once: the skipping of older events does that. Falling back to the rows, it shows
\* those of them that are ACTIVE: the search of the index has no such condition, so a product
\* with another status is on sale until the index fails, and a reindex, which reads the ACTIVE
\* rows only, neither corrects nor removes it. The index does not cope with updates of one
\* product that overlapped (their updated_at need not be in commit order), with two handlers
\* of one product at once, with a failed Get, nor with an update handled after the deletion.
SettledIndexIsCurrent ==
  \A p \in Products \ (raced \union unsettled) :
    (\A e \in pending : e.prod # p) /\ ~Working(p) =>
      /\ GetAllShop(TRUE, p) = IF Live(p) THEN product[p].ver ELSE 0
      /\ GetAllShop(FALSE, p) = IF product[p].status = "ACTIVE" THEN GetAllShop(TRUE, p) ELSE 0

\* Every request is answered, although a transaction holds one connection and waits for a
\* second one, and deletions and updates lock rows in opposite order. It takes one
\* connection more than there are writers: with as many writers as connections all wait.
EveryRequestAnswered ==
  \A r \in Requests : http[r].pc # "new" ~> http[r].pc = "done"

=============================================================================
