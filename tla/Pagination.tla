------------------------------ MODULE Pagination ----------------------------
(***************************************************************************)
(* A client reads a collection (GET /v1/orders or GET /v1/events) page by  *)
(* page, newest first, while requests keep inserting rows into it.         *)
(*                                                                         *)
(* A row is dated by the clock of the request that inserts it, which it    *)
(* reads before its transaction commits, so rows appear in any order of    *)
(* created_at; the rows that one transaction inserts share one created_at. *)
(***************************************************************************)
EXTENDS Integers, FiniteSetsExt

CONSTANTS
    Rows,         \* ids that rows may get
    Times,        \* values of created_at
    MaxPageSize,  \* ApiConfig::max_page_size
    DefaultPageSize, \* ApiConfig::default_page_size
    MaxListLimit, \* MAX_LIST_LIMIT
    Limits,       \* what clients ask for, NoLimit where the parameter is left out
    NoLimit,
    PerRequest    \* bound: rows that one transaction inserts

ASSUME PaginationAssumption ==
    /\ Times \subseteq Nat /\ NoLimit \notin Int /\ Limits \subseteq Int \cup {NoLimit}
    /\ PerRequest \in Nat /\ IsFiniteSet(Rows)
    /\ \E t \in Times : \A u \in Times : u <= t
    /\ {MaxPageSize, MaxListLimit} \subseteq Nat
    /\ DefaultPageSize \in 1 .. MaxPageSize /\ MaxPageSize < MaxListLimit

VARIABLES
    created,   \* created_at of each row, Unborn where there is no row
    client,    \* the collection a client reads and the cursor it holds
    present,   \* history: the rows that were there when the client started
    returned   \* history: how often the client was given each row

vars == <<created, client, present, returned>>

Unborn == 0 - 1
Newest == 1 + Max(Times)     \* no cursor: the page starts with the newest row
Stored == {r \in Rows : created[r] # Unborn}
Rest   == [step |-> "rest"]

Init ==
    /\ created = [r \in Rows |-> Unborn]
    /\ client = Rest
    /\ present = {}
    /\ returned = [r \in Rows |-> 0]

\* A request commits the rows it inserted: an order, or the events it emitted.
Insert(S, t) ==
    /\ S \subseteq Rows \ Stored
    /\ created' = [r \in Rows |-> IF r \in S THEN t ELSE created[r]]
    /\ UNCHANGED <<client, present, returned>>

-----------------------------------------------------------------------------
(* One page. *)

\* ListParams::resolve: the page size, or none where the request is refused.
Resolve(asked) ==
    IF asked = NoLimit THEN {DefaultPageSize}
                       ELSE {asked} \cap 1 .. MaxPageSize

\* PageRequest::fetch_limit: one row past the page.
FetchLimit(limit) == limit + 1

\* Mutant: a backstop equal to the largest page.
BackstopAtPage(list, n) == IF list = "orders" THEN Min({n, MaxPageSize}) ELSE n
\* OrderService::list clamps what it is asked for; /v1/events asks the store.
Backstop(list, n) == IF list = "orders" THEN Min({Max({n, 1}), MaxListLimit}) ELSE n

\* Mutant: the cursor's own row is asked for again.
NotAfter(r, cursor) == created[r] <= cursor
\* The WHERE clause of list_for_merchant.
Before(r, cursor) == created[r] < cursor

\* list_for_merchant: the newest n rows before the cursor.  ORDER BY created_at
\* does not say which of the rows with one created_at come first.
Queried(cursor, n) ==
    LET seen == {r \in Stored : Before(r, cursor)}
    IN  {S \in kSubset(Min({n, Cardinality(seen)}), seen) :
            \A r \in S, q \in seen \ S : created[q] <= created[r]}

\* Every way to truncate the rows of a query to a page of the size asked for.
Pages(fetched, limit) ==
    {K \in kSubset(Min({limit, Cardinality(fetched)}), fetched) :
        \A r \in K, q \in fetched \ K : created[q] <= created[r]}

\* PageRequest::finish: the cursor is that of the last row that is shown.
NextBefore(fetched, kept) == Min({created[r] : r \in kept})

StartWalk(list) ==
    /\ client = Rest
    /\ client' = [step |-> "reading", list |-> list, before |-> Newest]
    /\ present' = Stored
    /\ returned' = [r \in Rows |-> 0]
    /\ UNCHANGED created

\* The client asks for the next page and goes on while next_before is not null.
FetchPage(asked) ==
    /\ client.step = "reading"
    /\ \E limit \in Resolve(asked) :
       \E fetched \in Queried(client.before, Backstop(client.list, FetchLimit(limit))) :
       \E kept \in Pages(fetched, limit) :
          /\ client' = IF Cardinality(fetched) > limit
                       THEN [client EXCEPT !.before = NextBefore(fetched, kept)]
                       ELSE [step |-> "done"]
          /\ returned' = [r \in Rows |-> returned[r] + (IF r \in kept THEN 1 ELSE 0)]
    /\ UNCHANGED <<created, present>>

EndWalk ==
    /\ client.step = "done"
    /\ client' = Rest
    /\ UNCHANGED <<created, present, returned>>

Next ==
    \/ \E S \in SUBSET Rows, t \in Times : Cardinality(S) \in 1 .. PerRequest /\ Insert(S, t)
    \/ \E list \in {"orders", "events"} : StartWalk(list)
    \/ \E asked \in Limits : FetchPage(asked)
    \/ EndWalk

Spec == Init /\ [][Next]_vars

-----------------------------------------------------------------------------
(* Properties. *)

\* Types: a cursor in hand is the created_at of a row, or none.
TypeOK ==
    /\ created \in [Rows -> Times \cup {Unborn}]
    /\ client \in {Rest, [step |-> "done"]}
                  \cup [step : {"reading"}, list : {"orders", "events"},
                        before : {Newest} \cup {created[r] : r \in Stored}]
    /\ present \subseteq Stored
    /\ returned \in [Rows -> Nat]

\* A walk shows no row twice, whatever is inserted between its pages: what the
\* module doc of pagination.rs promises of a cursor and denies of an offset.
NothingTwice == \A r \in Rows : returned[r] <= 1

\* A walk that reached its end has shown every row that was there when it
\* began, but for rows that share their created_at with one it did show (the
\* limitation pagination.rs states): neither the row that is fetched to compute
\* has_more nor the backstop of OrderService::list loses any.
WalkIsComplete ==
    client.step = "done" =>
        \A r \in present : \/ returned[r] > 0
                           \/ \E q \in Rows : returned[q] > 0 /\ created[q] = created[r]
=============================================================================
