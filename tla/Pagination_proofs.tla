-------------------------- MODULE Pagination_proofs --------------------------
(***************************************************************************)
(* A walk shows no row twice and, when it ends, none that was there has    *)
(* been missed: for any table, page size and inserts between the pages.    *)
(*                                                                         *)
(* The cursor divides the rows.  What was shown is not before it, so that  *)
(* the next query cannot return it; and what was there and is not before   *)
(* it was shown, or ties with a row that was.                              *)
(***************************************************************************)
EXTENDS Pagination, FiniteSetTheorems, WellFoundedInduction, TLAPS

Shown(r) == returned[r] > 0
ShownOrTied(r) == Shown(r) \/ \E q \in Rows : Shown(q) /\ created[q] = created[r]
Reading == client.step = "reading"

ShownIsStored == \A r \in Rows : Shown(r) => r \in Stored
NothingShownAhead == Reading => \A r \in Rows : Shown(r) => client.before <= created[r]
NothingMissedBehind ==
    Reading => \A r \in present : client.before <= created[r] => ShownOrTied(r)

WalkInv == /\ TypeOK /\ ShownIsStored /\ NothingShownAhead /\ NothingMissedBehind
           /\ NothingTwice /\ WalkIsComplete

-----------------------------------------------------------------------------
(* Times and the least of them. *)

LEMMA LeastOfNaturals ==
    ASSUME NEW S \in SUBSET Nat, S # {}
    PROVE  Min(S) \in S /\ \A x \in S : Min(S) <= x
<1> DEFINE R == OpToRel(<, Nat)
<1>1. IsWellFoundedOn(R, Nat)
  BY NatLessThanWellFounded
<1>2. \A x, y \in Nat : x < y => <<x, y>> \in R
  BY DEF OpToRel
<1> HIDE DEF R
<1>3. PICK x \in S : \A y \in S : ~(<<y, x>> \in R)
  BY <1>1, WFMin
<1>4. ASSUME NEW y \in S PROVE x <= y
  <2>1. x \in Nat /\ y \in Nat /\ ~(y < x)
    BY <1>2, <1>3
  <2> QED BY <2>1
<1> QED BY <1>3, <1>4 DEF Min

LEMMA NewestIsNew ==
    /\ Newest \in Nat /\ \A t \in Times : t < Newest
    /\ Unborn \notin Times /\ Unborn \in Int /\ Times \subseteq Nat
<1>1. PICK last \in Times : \A u \in Times : u <= last
  BY PaginationAssumption
<1>2. Times \subseteq Nat
  BY PaginationAssumption
<1>3. Max(Times) \in Times /\ \A u \in Times : u <= Max(Times)
  BY <1>1, <1>2 DEF Max
<1> DEFINE latest == Max(Times)
<1> HIDE DEF latest
<1>4. latest \in Nat /\ Newest = 1 + latest /\ \A u \in Times : u <= latest
  BY <1>2, <1>3 DEF Newest, latest
<1>5. Newest \in Nat /\ \A u \in Times : u < Newest
  BY <1>2, <1>4
<1>6. Unborn \in Int /\ Unborn \notin Nat
  BY DEF Unborn
<1> QED BY <1>2, <1>5, <1>6

\* What TypeOK says of the rows and of a cursor.
LEMMA Types ==
    ASSUME TypeOK
    PROVE  /\ \A r \in Stored : r \in Rows /\ created[r] \in Times /\ created[r] \in Nat
           /\ \A r \in Rows : returned[r] \in Nat
           /\ present \subseteq Stored
           /\ Reading => /\ client.before \in Nat /\ client.list \in {"orders", "events"}
                         /\ client = [step |-> "reading", list |-> client.list,
                                      before |-> client.before]
           /\ client.step = "done" => client = [step |-> "done"]
<1>1. \A r \in Stored : r \in Rows /\ created[r] \in Times /\ created[r] \in Nat
  BY NewestIsNew DEF TypeOK, Stored
<1> QED BY <1>1, NewestIsNew DEF TypeOK, Reading, Rest

-----------------------------------------------------------------------------
(* One page. *)

\* The limit of a page, and the backstop, which never cuts it short.
LEMMA PageSizes ==
    ASSUME NEW asked \in Limits, NEW limit \in Resolve(asked), NEW list \in {"orders", "events"}
    PROVE  /\ limit \in Nat /\ limit >= 1
           /\ Backstop(list, FetchLimit(limit)) = limit + 1
<1>1. /\ MaxPageSize \in Int /\ MaxListLimit \in Int
      /\ limit \in 1 .. MaxPageSize /\ MaxPageSize < MaxListLimit
  BY PaginationAssumption DEF Resolve
<1>2. \A a, b \in Int : Max({a, b}) = IF a >= b THEN a ELSE b
  BY DEF Max
<1>3. \A a, b \in Int : Min({a, b}) = IF a <= b THEN a ELSE b
  BY DEF Min
<1>4. Max({limit + 1, 1}) = limit + 1
  BY <1>1, <1>2
<1>5. Min({limit + 1, MaxListLimit}) = limit + 1
  BY <1>1, <1>3
<1> QED BY <1>1, <1>4, <1>5 DEF Backstop, FetchLimit
\* The rows a page keeps are the newest of those before the cursor: whatever is left
\* before the cursor is not newer than the oldest of them.
LEMMA PageRows ==
    ASSUME TypeOK, NEW cursor \in Nat, NEW n \in Nat, NEW limit \in Nat, limit >= 1, n = limit + 1,
           NEW fetched \in Queried(cursor, n), NEW kept \in Pages(fetched, limit)
    PROVE  /\ kept \subseteq Stored
           /\ \A r \in kept : created[r] < cursor
           /\ Cardinality(fetched) > limit =>
                 /\ kept # {}
                 /\ \A r \in Stored \ kept, k \in kept :
                       created[r] < cursor => created[r] <= created[k]
           /\ ~(Cardinality(fetched) > limit) =>
                 \A r \in Stored : created[r] < cursor => r \in kept
<1> DEFINE seen == {r \in Stored : Before(r, cursor)}
<1>1. \A r \in Stored : r \in Rows /\ created[r] \in Nat
  BY Types
<1>2. IsFiniteSet(seen) /\ seen \subseteq Stored /\ \A r \in Stored : r \in seen <=> created[r] < cursor
  <2>1. IsFiniteSet(Rows) /\ seen \subseteq Rows
    BY <1>1, PaginationAssumption
  <2> QED BY <2>1, FS_Subset DEF Before
<1>3. /\ fetched \subseteq seen /\ Cardinality(fetched) = Min({n, Cardinality(seen)})
      /\ \A r \in fetched, q \in seen \ fetched : created[q] <= created[r]
  BY DEF Queried, kSubset
<1> HIDE DEF seen
<1>4. IsFiniteSet(fetched) /\ Cardinality(fetched) \in Nat /\ Cardinality(seen) \in Nat
      /\ (Cardinality(fetched) = Cardinality(seen) => fetched = seen)
  BY <1>2, <1>3, FS_Subset, FS_CardinalityType
<1>5. /\ kept \subseteq fetched /\ Cardinality(kept) = Min({limit, Cardinality(fetched)})
      /\ \A r \in kept, q \in fetched \ kept : created[q] <= created[r]
  BY DEF Pages, kSubset
<1>6. IsFiniteSet(kept) /\ Cardinality(kept) \in Nat
      /\ (Cardinality(kept) = Cardinality(fetched) => kept = fetched)
  BY <1>4, <1>5, FS_Subset, FS_CardinalityType
<1>7. \A a, b \in Nat : Min({a, b}) = IF a <= b THEN a ELSE b
  BY DEF Min
<1>8. kept \subseteq Stored /\ \A r \in kept : created[r] < cursor
  BY <1>2, <1>3, <1>5
<1>9. ASSUME Cardinality(fetched) > limit
      PROVE  /\ kept # {}
             /\ \A r \in Stored \ kept, k \in kept :
                   created[r] < cursor => created[r] <= created[k]
  <2>1. Cardinality(kept) = limit
    BY <1>4, <1>5, <1>7, <1>9
  <2>2. kept # {}
    BY <2>1, FS_EmptySet
  <2>3. ASSUME NEW r \in Stored \ kept, NEW k \in kept, created[r] < cursor
        PROVE  created[r] <= created[k]
    BY <2>3, <1>2, <1>3, <1>5
  <2> QED BY <2>2, <2>3
<1>10. ASSUME ~(Cardinality(fetched) > limit)
       PROVE  \A r \in Stored : created[r] < cursor => r \in kept
  <2>1. Cardinality(kept) = Cardinality(fetched)
    BY <1>4, <1>5, <1>7, <1>10
  <2>2. Cardinality(fetched) = Cardinality(seen)
    BY <1>3, <1>4, <1>7, <1>10
  <2> QED BY <1>2, <1>4, <1>6, <2>1, <2>2
<1> QED BY <1>8, <1>9, <1>10

\* A page is shown: the walk goes on with the oldest of its rows, or ends.
LEMMA FetchPageStep ==
    ASSUME WalkInv, NEW asked \in Limits, FetchPage(asked)
    PROVE  WalkInv'
<1>1. TypeOK /\ Reading /\ UNCHANGED <<created, present>> /\ Stored' = Stored
  BY DEF WalkInv, FetchPage, Reading, Stored
<1> DEFINE Gives(limit, fetched, kept) ==
              /\ client' = IF Cardinality(fetched) > limit
                           THEN [client EXCEPT !.before = NextBefore(fetched, kept)]
                           ELSE [step |-> "done"]
              /\ returned' = [r \in Rows |-> returned[r] + (IF r \in kept THEN 1 ELSE 0)]
           Query(limit) == Queried(client.before, Backstop(client.list, FetchLimit(limit)))
<1>20. PICK limit \in Resolve(asked) : \E fetched \in Query(limit) :
          \E kept \in Pages(fetched, limit) : Gives(limit, fetched, kept)
  BY DEF FetchPage
<1>21. PICK fetched \in Query(limit) : \E kept \in Pages(fetched, limit) : Gives(limit, fetched, kept)
  BY <1>20
<1>2. PICK kept \in Pages(fetched, limit) : Gives(limit, fetched, kept)
  BY <1>21
<1> DEFINE cursor == client.before
           n == Backstop(client.list, FetchLimit(limit))
<1>3. /\ cursor \in Nat /\ client.list \in {"orders", "events"}
      /\ client = [step |-> "reading", list |-> client.list, before |-> cursor]
  BY <1>1, Types
<1>4. limit \in Nat /\ limit >= 1 /\ n = limit + 1
  BY <1>3, PageSizes
<1> DEFINE more == Cardinality(fetched) > limit
<1>5. /\ kept \subseteq Stored
      /\ \A r \in kept : created[r] < cursor
      /\ more => /\ kept # {}
                 /\ \A r \in Stored \ kept, k \in kept :
                       created[r] < cursor => created[r] <= created[k]
      /\ ~more => \A r \in Stored : created[r] < cursor => r \in kept
  BY <1>1, <1>2, <1>3, <1>4, PageRows
<1>6. /\ \A r \in Stored : r \in Rows /\ created[r] \in Nat
      /\ \A r \in Rows : returned[r] \in Nat
      /\ present \subseteq Stored
  BY <1>1, Types
<1> DEFINE oldest == NextBefore(fetched, kept)
<1>7. more => (\E r \in kept : created[r] = oldest) /\ (\A r \in kept : oldest <= created[r])
  <2> SUFFICES ASSUME more
               PROVE  (\E r \in kept : created[r] = oldest) /\ (\A r \in kept : oldest <= created[r])
    OBVIOUS
  <2> DEFINE times == {created[r] : r \in kept}
  <2>1. times \in SUBSET Nat /\ times # {}
    BY <1>5, <1>6
  <2>2. Min(times) \in times /\ \A t \in times : Min(times) <= t
    <3> HIDE DEF times
    <3> QED BY <2>1, LeastOfNaturals
  <2> QED BY <2>2 DEF NextBefore
<1>8. /\ more => client' = [step |-> "reading", list |-> client.list, before |-> oldest]
      /\ ~more => client' = [step |-> "done"]
  <2>1. more => client' = [client EXCEPT !.before = oldest]
    BY <1>2
  <2>2. ~more => client' = [step |-> "done"]
    BY <1>2
  <2> HIDE DEF more, oldest
  <2> QED BY <1>3, <2>1, <2>2
<1> HIDE DEF more, oldest, cursor, n
<1>9. \A r \in Rows : /\ returned'[r] = IF r \in kept THEN returned[r] + 1 ELSE returned[r]
                      /\ Shown(r)' <=> Shown(r) \/ r \in kept
  BY <1>2, <1>6 DEF Shown
<1>10. TypeOK'
  <2>1. returned' \in [Rows -> Nat]
    BY <1>2, <1>6
  <2>2. more => oldest \in {created[r] : r \in Stored}
    BY <1>5, <1>7
  <2>3. client' \in {Rest, [step |-> "done"]}
                    \cup [step : {"reading"}, list : {"orders", "events"},
                          before : {Newest} \cup {created[r] : r \in Stored}]
    BY <1>3, <1>8, <2>2
  <2>4. created \in [Rows -> Times \cup {Unborn}] /\ present \subseteq Stored
    BY <1>1 DEF TypeOK
  <2> QED BY <1>1, <2>1, <2>3, <2>4 DEF TypeOK
<1>11. ShownIsStored'
  BY <1>1, <1>5, <1>9 DEF WalkInv, ShownIsStored
<1>12. ASSUME NEW r \in Rows, Shown(r)
       PROVE  r \in Stored /\ cursor <= created[r] /\ r \notin kept
  <2>1. r \in Stored /\ cursor <= created[r]
    BY <1>1, <1>12 DEF WalkInv, ShownIsStored, NothingShownAhead, cursor
  <2> QED BY <1>3, <1>5, <1>6, <2>1
<1>13. NothingTwice'
  <2> SUFFICES ASSUME NEW r \in Rows PROVE returned'[r] <= 1
    BY DEF NothingTwice
  <2>1. returned[r] <= 1 /\ (r \in kept => ~Shown(r))
    BY <1>12 DEF WalkInv, NothingTwice
  <2> QED BY <1>6, <1>9, <2>1 DEF Shown
<1>14. NothingShownAhead'
  <2> SUFFICES ASSUME more, NEW r \in Rows, Shown(r) \/ r \in kept
               PROVE  oldest <= created[r]
    BY <1>1, <1>8, <1>9 DEF NothingShownAhead, Reading
  <2>1. PICK k \in kept : created[k] = oldest
    BY <1>7
  <2>2. CASE r \in kept
    BY <1>7, <2>2
  <2>3. CASE Shown(r)
    <3>1. cursor <= created[r] /\ created[r] \in Nat
      BY <1>6, <1>12, <2>3
    <3>2. created[k] < cursor /\ created[k] \in Nat
      BY <1>5, <1>6
    <3> QED BY <1>3, <2>1, <3>1, <3>2
  <2> QED BY <2>2, <2>3
<1>15. ASSUME NEW r \in present, cursor <= created[r] PROVE ShownOrTied(r)'
  <2>1. ShownOrTied(r)
    BY <1>1, <1>15 DEF WalkInv, NothingMissedBehind, cursor
  <2> QED BY <1>1, <1>6, <1>9, <2>1 DEF ShownOrTied
<1>16. ASSUME NEW r \in present, created[r] < cursor, ~more \/ oldest <= created[r]
       PROVE  ShownOrTied(r)'
  <2>1. r \in Stored /\ r \in Rows
    BY <1>6
  <2>2. CASE r \in kept
    BY <1>9, <2>1, <2>2 DEF ShownOrTied
  <2>3. CASE r \notin kept
    <3>1. more /\ oldest <= created[r]
      BY <1>5, <1>16, <2>1, <2>3
    <3>2. PICK k \in kept : created[k] = oldest
      BY <1>7, <3>1
    <3>3. created[r] <= created[k]
      BY <1>5, <1>16, <2>1, <2>3, <3>1
    <3>4. created[r] = created[k] /\ k \in Rows
      BY <1>5, <1>6, <2>1, <3>1, <3>2, <3>3
    <3> QED BY <1>1, <1>9, <3>4 DEF ShownOrTied
  <2> QED BY <2>2, <2>3
<1>17. ASSUME NEW r \in present PROVE cursor <= created[r] \/ created[r] < cursor
  BY <1>3, <1>6
<1>18. NothingMissedBehind'
  <2> SUFFICES ASSUME more, NEW r \in present, oldest <= created[r]
               PROVE  ShownOrTied(r)'
    BY <1>1, <1>8 DEF NothingMissedBehind, Reading
  <2> QED BY <1>15, <1>16, <1>17
<1>19. WalkIsComplete'
  <2> SUFFICES ASSUME ~more, NEW r \in present
               PROVE  ShownOrTied(r)'
    BY <1>1, <1>8 DEF WalkIsComplete, ShownOrTied, Shown
  <2> QED BY <1>15, <1>16, <1>17
<1> QED BY <1>10, <1>11, <1>13, <1>14, <1>18, <1>19 DEF WalkInv
-----------------------------------------------------------------------------
(* The other steps. *)

\* A row that is inserted was in nobody's page, and it is no row that the client
\* found when it started.
LEMMA InsertStep ==
    ASSUME WalkInv, NEW S \in SUBSET Rows, NEW t \in Times, Insert(S, t)
    PROVE  WalkInv'
<1>1. /\ S \subseteq Rows \ Stored /\ created' = [r \in Rows |-> IF r \in S THEN t ELSE created[r]]
      /\ UNCHANGED <<client, present, returned>> /\ TypeOK
  BY DEF Insert, WalkInv
<1>2. \A r \in Stored : r \in Rows /\ r \in Stored' /\ created'[r] = created[r]
  BY <1>1 DEF Stored
<1>3. TypeOK'
  <2>1. created' \in [Rows -> Times \cup {Unborn}]
    BY <1>1 DEF TypeOK
  <2>2. {created[r] : r \in Stored} \subseteq {created'[r] : r \in Stored'}
    BY <1>2
  <2>3. client' \in {Rest, [step |-> "done"]}
                    \cup [step : {"reading"}, list : {"orders", "events"},
                          before : {Newest} \cup {created'[r] : r \in Stored'}]
    BY <1>1, <2>2 DEF TypeOK
  <2>4. present' \subseteq Stored' /\ returned' \in [Rows -> Nat]
    BY <1>1, <1>2 DEF TypeOK
  <2> QED BY <2>1, <2>3, <2>4 DEF TypeOK
<1>4. \A r \in Rows : (Shown(r)' <=> Shown(r)) /\ (Shown(r) => r \in Stored)
  BY <1>1 DEF WalkInv, ShownIsStored, Shown
<1>5. ShownIsStored' /\ NothingShownAhead'
  BY <1>1, <1>2, <1>4 DEF WalkInv, ShownIsStored, NothingShownAhead, Reading
<1>6. \A r \in present : r \in Stored
  BY <1>1 DEF TypeOK
<1>7. ASSUME NEW r \in present, ShownOrTied(r) PROVE ShownOrTied(r)'
  <2>1. CASE Shown(r)
    BY <1>2, <1>4, <1>6, <2>1 DEF ShownOrTied
  <2>2. ASSUME NEW q \in Rows, Shown(q), created[q] = created[r] PROVE ShownOrTied(r)'
    BY <1>2, <1>4, <1>6, <2>2 DEF ShownOrTied
  <2> QED BY <1>7, <2>1, <2>2 DEF ShownOrTied
<1>8. NothingMissedBehind'
  BY <1>1, <1>2, <1>6, <1>7 DEF WalkInv, NothingMissedBehind, Reading
<1>9. NothingTwice'
  BY <1>1 DEF WalkInv, NothingTwice
<1>10. WalkIsComplete'
  <2>1. WalkIsComplete <=> (client.step = "done" => \A r \in present : ShownOrTied(r))
    BY DEF WalkIsComplete, ShownOrTied, Shown
  <2>2. WalkIsComplete' <=> (client'.step = "done" => \A r \in present' : ShownOrTied(r)')
    BY DEF WalkIsComplete, ShownOrTied, Shown
  <2> QED BY <1>1, <1>7, <2>1, <2>2 DEF WalkInv
<1> QED BY <1>3, <1>5, <1>8, <1>9, <1>10 DEF WalkInv

\* A client that starts, or rests, has been shown nothing of this walk yet.
LEMMA StartStep ==
    ASSUME WalkInv, NEW list \in {"orders", "events"}, StartWalk(list)
    PROVE  WalkInv'
<1>1. /\ client' = [step |-> "reading", list |-> list, before |-> Newest] /\ present' = Stored
      /\ returned' = [r \in Rows |-> 0] /\ created' = created /\ Stored' = Stored /\ TypeOK
  BY DEF StartWalk, WalkInv, Stored
<1>2. TypeOK'
  BY <1>1 DEF TypeOK
<1>3. client'.step = "reading" /\ client'.before = Newest
  BY <1>1
<1>4. \A r \in Stored : created[r] < Newest /\ created[r] \in Nat /\ Newest \in Nat
  BY <1>1, Types, NewestIsNew
<1>5. NothingMissedBehind'
  BY <1>1, <1>3, <1>4 DEF NothingMissedBehind
<1>6. \A r \in Rows : ~Shown(r)' /\ returned'[r] = 0
  BY <1>1 DEF Shown
<1> QED BY <1>1, <1>2, <1>3, <1>5, <1>6
        DEF WalkInv, ShownIsStored, NothingShownAhead, NothingTwice, WalkIsComplete

LEMMA InitWalk == Init => WalkInv
<1> SUFFICES ASSUME Init PROVE WalkInv
  OBVIOUS
<1>1. TypeOK
  BY DEF Init, TypeOK, Stored, Unborn, Rest
<1>2. client.step = "rest" /\ \A r \in Rows : ~Shown(r) /\ returned[r] = 0
  BY DEF Init, Rest, Shown
<1> QED BY <1>1, <1>2 DEF WalkInv, ShownIsStored, NothingShownAhead, NothingMissedBehind,
                          NothingTwice, WalkIsComplete, Reading

LEMMA NextWalk == WalkInv /\ [Next]_vars => WalkInv'
<1> SUFFICES ASSUME WalkInv, [Next]_vars PROVE WalkInv'
  OBVIOUS
<1>1. CASE UNCHANGED vars
  BY <1>1 DEF vars, WalkInv, TypeOK, ShownIsStored, NothingShownAhead, NothingMissedBehind,
              NothingTwice, WalkIsComplete, Stored, Shown, ShownOrTied, Reading
<1>2. ASSUME NEW S \in SUBSET Rows, NEW t \in Times, Insert(S, t) PROVE WalkInv'
  BY <1>2, InsertStep
<1>3. ASSUME NEW list \in {"orders", "events"}, StartWalk(list) PROVE WalkInv'
  BY <1>3, StartStep
<1>4. ASSUME NEW asked \in Limits, FetchPage(asked) PROVE WalkInv'
  BY <1>4, FetchPageStep
<1>5. CASE EndWalk
  <2>1. client' = Rest /\ UNCHANGED <<created, present, returned>> /\ client'.step = "rest"
    BY <1>5 DEF EndWalk, Rest
  <2>2. TypeOK'
    BY <2>1 DEF WalkInv, TypeOK, Stored
  <2> QED BY <2>1, <2>2 DEF WalkInv, ShownIsStored, NothingShownAhead, NothingMissedBehind,
                            NothingTwice, WalkIsComplete, Reading, Shown, Stored
<1> QED BY <1>1, <1>2, <1>3, <1>4, <1>5 DEF Next

-----------------------------------------------------------------------------
(* The theorems. *)

\* The cursor divides the rows that were shown from those that are still to come.
THEOREM WalkInvariance == Spec => []WalkInv
BY InitWalk, NextWalk, PTL DEF Spec

\* pagination.rs: a cursor shows no row twice, whatever is inserted between the pages.
THEOREM NothingIsShownTwice == Spec => []NothingTwice
<1>1. WalkInv => NothingTwice
  BY DEF WalkInv
<1> QED BY <1>1, WalkInvariance, PTL

\* A walk that ended missed no row that was there when it began, but for ties.
THEOREM WalksAreComplete == Spec => []WalkIsComplete
<1>1. WalkInv => WalkIsComplete
  BY DEF WalkInv
<1> QED BY <1>1, WalkInvariance, PTL
=============================================================================
