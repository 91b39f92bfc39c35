------------------------ MODULE Idempotency_proofs --------------------------
(***************************************************************************)
(* Proofs about Idempotency, for any number of requests, keys and faults.  *)
(***************************************************************************)
EXTENDS Idempotency, TLAPS

-----------------------------------------------------------------------------
(* Types.  A holder stores a row computed from the row it finds, so the    *)
(* types need the fact that it finds its own.                              *)

\* A request's key is a key, its fingerprint one of the fingerprints.
LEMMA RequestTyped ==
    ASSUME NEW r \in Requests
    PROVE  KeyOf[r] \in Keys /\ PrintOf[r] \in Prints /\ r # None
BY IdempotencyAssumption

\* Storing a row of the right shape under a request's key keeps the table typed.
LEMMA WriteTyped ==
    ASSUME TypeOK, NEW r \in Requests, NEW new \in KeyRow, Write(r, new)
    PROVE  row' \in [Keys -> KeyRow]
BY RequestTyped DEF TypeOK, Write

\* A claimed row has the right shape.
LEMMA ClaimTyped ==
    ASSUME TypeOK, NEW r \in Requests, Claim(r)
    PROVE  row' \in [Keys -> KeyRow]
<1>1. [state |-> "in_progress", print |-> PrintOf[r]] \in KeyRow
  BY RequestTyped DEF KeyRow
<1> QED BY <1>1, WriteTyped DEF Claim

\* The row of a request has the right shape.
LEMMA MineTyped ==
    ASSUME TypeOK, NEW r \in Requests
    PROVE  Mine(r) \in KeyRow
BY RequestTyped DEF TypeOK, Mine

\* The initial state has the types.
LEMMA InitTyped == Init => TypeOK
BY IdempotencyAssumption DEF Init, TypeOK, KeyRow, Responses, Kinds, Failure

\* Every step keeps the types.
LEMMA TypeStep == TypeOK /\ KeyHasOneHolder /\ [Next]_vars => TypeOK'
<1> SUFFICES ASSUME TypeOK, KeyHasOneHolder, [Next]_vars PROVE TypeOK'
  OBVIOUS
<1>1. ASSUME NEW r \in Requests, Insert(r) PROVE TypeOK'
  BY <1>1, ClaimTyped DEF Insert, GoTo, TypeOK
<1>2. ASSUME NEW r \in Requests, InsertFails(r) PROVE TypeOK'
  BY <1>2, ClaimTyped, IdempotencyAssumption DEF InsertFails, Tell, GoTo, Fails, TypeOK, Kinds
<1>3. ASSUME NEW r \in Requests, Select(r) PROVE TypeOK'
  <2>1. Mine(r).state = "completed" => Mine(r).response \in Responses
    BY MineTyped DEF KeyRow, NoRow
  <2>2. \A resp \in Responses : resp.kind \in Kinds
    BY DEF Responses
  <2>3. row' = row /\ UNCHANGED <<charged, misreported, faults>> /\ GoTo(r, "answered")
    BY <1>3 DEF Select, Tell, Respond
  <2>4. response' \in [Requests -> Responses]
    BY <1>3, <2>1 DEF Select, Respond, TypeOK
  <2>5. answer' \in [Requests -> Kinds \cup {"none", "in_flight", "mismatch", "no_body", "unknown"}]
    BY <1>3, <2>1, <2>2 DEF Select, Tell, Respond, TypeOK, Kinds
  <2> QED BY <2>3, <2>4, <2>5 DEF GoTo, TypeOK
<1>4. ASSUME NEW r \in Requests, Execute(r) PROVE TypeOK'
  <2>1. {Done(r), Declined(r), Refusal, Failure} \subseteq Responses
    BY DEF Done, Declined, Refusal, Failure, Responses, Kinds
  <2> QED BY <1>4, <2>1 DEF Execute, NextStep, TooBig, GoTo, TypeOK
<1>5. ASSUME NEW r \in Requests, CommitLost(r) PROVE TypeOK'
  <2>1. Failure \in Responses
    BY DEF Failure, Responses, Kinds
  <2> QED BY <1>5, <2>1, IdempotencyAssumption
           DEF CommitLost, NextStep, TooBig, GoTo, Fails, TypeOK
<1>6. ASSUME NEW r \in Requests, Complete(r) PROVE TypeOK'
  <2>1. Completed(r) \in KeyRow
    BY <1>6, RequestTyped DEF Complete, Completed, KeyHasOneHolder, Holds, KeyRow, TypeOK
  <2>2. row' \in [Keys -> KeyRow]
    BY <1>6, <2>1, WriteTyped DEF Complete, TypeOK
  <2>3. response[r].kind \in Kinds
    BY DEF TypeOK, Responses
  <2> QED BY <1>6, <2>2, <2>3, IdempotencyAssumption DEF Complete, Tell, GoTo, Fails, TypeOK
<1>7. ASSUME NEW r \in Requests, Release(r) PROVE TypeOK'
  <2>1. row' \in [Keys -> KeyRow]
    BY <1>7, WriteTyped DEF Release, DropRow, KeyRow, TypeOK
  <2>2. response[r].kind \in Kinds
    BY DEF TypeOK, Responses
  <2> QED BY <1>7, <2>1, <2>2, IdempotencyAssumption DEF Release, TooBig, Tell, GoTo, Fails, TypeOK
<1>8. ASSUME NEW r \in Requests, SelectFails(r) \/ Drop(r) PROVE TypeOK'
  BY <1>8, IdempotencyAssumption DEF SelectFails, Drop, Tell, GoTo, Fails, TypeOK, Kinds
<1>9. ASSUME Crash PROVE TypeOK'
  BY <1>9, IdempotencyAssumption DEF Crash, Fails, TypeOK
<1>10. ASSUME UNCHANGED vars PROVE TypeOK'
  BY <1>10 DEF vars, TypeOK
<1> QED BY <1>1, <1>2, <1>3, <1>4, <1>5, <1>6, <1>7, <1>8, <1>9, <1>10 DEF Next, Advance

-----------------------------------------------------------------------------
(* A key has one holder. *)

\* A step after which no request but those that held a key holds one, and every
\* holder finds the row it found, keeps the keys to their holders.
LEMMA HoldersShrink ==
    ASSUME KeyHasOneHolder,
           \A s \in Requests : Holds(s)' => Holds(s) /\ Mine(s)' = Mine(s)
    PROVE  KeyHasOneHolder'
BY DEF KeyHasOneHolder

\* The key of a holder is not the one that another request holds, or that is free.
LEMMA HeldApart ==
    ASSUME KeyHasOneHolder, NEW s \in Requests, NEW r \in Requests \ {s},
           Holds(s), Holds(r) \/ Absent(r)
    PROVE  KeyOf[s] # KeyOf[r]
<1>1. CASE Holds(r)
  BY <1>1 DEF KeyHasOneHolder
<1>2. CASE Absent(r)
  <2>1. row[KeyOf[s]].state = "in_progress"
    <3>1. Mine(s) = [state |-> "in_progress", print |-> PrintOf[s]]
      BY DEF KeyHasOneHolder
    <3> QED BY <3>1 DEF Mine
  <2>2. row[KeyOf[r]].state = "none"
    BY <1>2 DEF Absent, Mine
  <2> QED BY <2>1, <2>2
<1> QED BY <1>1, <1>2

\* A request that claims a free key is its only holder: a key that is held is not
\* free.
LEMMA InsertHolds ==
    ASSUME TypeOK, KeyHasOneHolder, NEW r \in Requests, Insert(r)
    PROVE  KeyHasOneHolder'
<1>1. CASE Absent(r)
  <2>1. \A s \in Requests \ {r} : Holds(s) => KeyOf[s] # KeyOf[r]
    BY <1>1, HeldApart
  <2>2. \A s \in Requests \ {r} : (Holds(s)' <=> Holds(s)) /\ ~Holds(r)
    BY <1>1 DEF Insert, GoTo, TypeOK, Holds
  <2>3. \A s \in Requests \ {r} : Holds(s) => Mine(s)' = Mine(s)
    BY <1>1, <2>1, RequestTyped DEF Insert, Claim, Write, TypeOK, Mine
  <2>4. Mine(r)' = [state |-> "in_progress", print |-> PrintOf[r]]
    BY <1>1, RequestTyped DEF Insert, Claim, Write, TypeOK, Mine
  <2> QED BY <2>1, <2>2, <2>3, <2>4 DEF KeyHasOneHolder
<1>2. CASE ~Absent(r)
  <2>1. \A s \in Requests : Holds(s)' => Holds(s) /\ Mine(s)' = Mine(s)
    BY <1>2 DEF Insert, GoTo, TypeOK, Holds, Mine
  <2> QED BY <2>1, HoldersShrink
<1> QED BY <1>1, <1>2

\* A request that writes under its key and is answered leaves the other holders,
\* whose keys are others, what they hold.
LEMMA AnsweredHolds ==
    ASSUME TypeOK, KeyHasOneHolder, NEW r \in Requests, GoTo(r, "answered"),
           \/ UNCHANGED row
           \/ (Holds(r) \/ Absent(r)) /\ \E new : Write(r, new)
    PROVE  KeyHasOneHolder'
<1>1. \A s \in Requests : Holds(s)' => Holds(s) /\ s # r
  BY DEF GoTo, TypeOK, Holds
<1>2. \A s \in Requests \ {r} : Holds(s) => Mine(s)' = Mine(s)
  <2> SUFFICES ASSUME NEW s \in Requests \ {r}, Holds(s), Holds(r) \/ Absent(r),
                      NEW new, Write(r, new)
               PROVE  Mine(s)' = Mine(s)
    BY DEF Mine
  <2>1. KeyOf[s] # KeyOf[r]
    BY HeldApart
  <2> QED BY <2>1, RequestTyped DEF Write, Mine, TypeOK
<1> QED BY <1>1, <1>2, HoldersShrink

\* Every step keeps the keys to their holders.
LEMMA HolderStep == TypeOK /\ KeyHasOneHolder /\ [Next]_vars => KeyHasOneHolder'
<1> SUFFICES ASSUME TypeOK, KeyHasOneHolder, [Next]_vars PROVE KeyHasOneHolder'
  OBVIOUS
<1>1. ASSUME NEW r \in Requests, InsertFails(r) PROVE KeyHasOneHolder'
  BY <1>1, AnsweredHolds DEF InsertFails, Tell, Claim
<1>2. ASSUME NEW r \in Requests, Select(r) PROVE KeyHasOneHolder'
  BY <1>2, AnsweredHolds DEF Select, Tell, Respond
<1>3. ASSUME NEW r \in Requests, Execute(r) \/ CommitLost(r) PROVE KeyHasOneHolder'
  <2>1. \A s \in Requests : (Holds(s)' <=> Holds(s)) /\ Mine(s)' = Mine(s)
    BY <1>3 DEF Execute, CommitLost, NextStep, TooBig, GoTo, TypeOK, Holds, Mine
  <2> QED BY <2>1, HoldersShrink
<1>4. ASSUME NEW r \in Requests, Complete(r) PROVE KeyHasOneHolder'
  BY <1>4, AnsweredHolds DEF Complete, Tell, Holds
<1>5. ASSUME NEW r \in Requests, Release(r) PROVE KeyHasOneHolder'
  BY <1>5, AnsweredHolds DEF Release, DropRow, Tell, Holds
<1>6. ASSUME NEW r \in Requests, SelectFails(r) \/ Drop(r) PROVE KeyHasOneHolder'
  BY <1>6, AnsweredHolds DEF SelectFails, Drop, Tell
<1>7. ASSUME Crash PROVE KeyHasOneHolder'
  <2>1. \A s \in Requests : ~Holds(s)' /\ Mine(s)' = Mine(s)
    BY <1>7 DEF Crash, InFlight, Holds, TypeOK, Mine
  <2> QED BY <2>1, HoldersShrink
<1>8. ASSUME UNCHANGED vars PROVE KeyHasOneHolder'
  <2>1. \A s \in Requests : (Holds(s)' <=> Holds(s)) /\ Mine(s)' = Mine(s)
    BY <1>8 DEF vars, Holds, Mine
  <2> QED BY <2>1, HoldersShrink
<1> QED BY <1>1, <1>2, <1>3, <1>4, <1>5, <1>6, <1>7, <1>8, InsertHolds DEF Next, Advance

\* In every reachable state a key that is being served has one holder, which
\* finds in its row what it claimed.
THEOREM KeysHaveHolders == Spec => [](TypeOK /\ KeyHasOneHolder)
<1>1. Init => TypeOK /\ KeyHasOneHolder
  BY InitTyped DEF Init, KeyHasOneHolder, Holds
<1>2. TypeOK /\ KeyHasOneHolder /\ [Next]_vars => (TypeOK /\ KeyHasOneHolder)'
  BY TypeStep, HolderStep
<1> QED BY <1>1, <1>2, PTL DEF Spec

-----------------------------------------------------------------------------
(* A key's work is done once.  ChargesAreExplained is not inductive: that  *)
(* nobody else executes under a key whose work is done rests on the row,   *)
(* which stays until the request that did the work completes it.           *)

\* The row of a key whose work is done and remembered is there, and no request
\* holds the key but the one that did the work, about to complete it.
SpentKeysStay ==
    \A q \in charged \ Forgotten :
        /\ ~Absent(q)
        /\ \A s \in Requests : Holds(s) /\ KeyOf[s] = KeyOf[q] => s = q /\ step[s] = "complete"

\* A request that did its work is past it.
Past == {"complete", "release", "answered"}
WorkersArePast == \A q \in charged : step[q] \in Past

OnceInv == WorkersArePast /\ SpentKeysStay /\ ChargesAreExplained

\* A step that does no work leaves what is remembered as it was.
NoWork ==
    /\ charged' = charged /\ misreported' = misreported
    /\ \A q \in charged : response'[q] = response[q]
LEMMA ForgottenStays ==
    ASSUME NoWork
    PROVE  Forgotten' = Forgotten
BY DEF NoWork, Forgotten, TooBig

\* A step that charges nobody, takes no row away and lets no request hold a key it
\* did not hold keeps the charges explained.
LEMMA ChargesKept ==
    ASSUME TypeOK, OnceInv, NoWork, \A q \in charged : step'[q] \in Past,
           \A q \in charged \ Forgotten : Absent(q)' => Absent(q),
           \A s \in Requests : Holds(s)' =>
              \/ Holds(s) /\ step'[s] = step[s]
              \/ \A q \in charged \ Forgotten : KeyOf[s] # KeyOf[q]
    PROVE  OnceInv'
<1>1. charged' \ Forgotten' = charged \ Forgotten
  BY ForgottenStays DEF NoWork
<1>2. ChargesAreExplained'
  BY <1>1 DEF OnceInv, ChargesAreExplained
<1>3. SpentKeysStay'
  BY <1>1 DEF OnceInv, SpentKeysStay
<1>4. WorkersArePast'
  BY DEF WorkersArePast, NoWork
<1> QED BY <1>2, <1>3, <1>4 DEF OnceInv

\* A request that does its work, told of it or not, found no remembered work under
\* its key, and it is about to complete the key unless its work is forgotten.
LEMMA WorkOnce ==
    ASSUME TypeOK, KeyHasOneHolder, OnceInv, NEW r \in Requests,
           Execute(r) \/ CommitLost(r)
    PROVE  OnceInv'
<1>1. Holds(r) /\ step[r] # "complete"
  BY DEF Execute, CommitLost, Holds
<1>2. \A q \in charged \ Forgotten : KeyOf[q] # KeyOf[r]
  BY <1>1 DEF OnceInv, SpentKeysStay
<1>3. \A s \in Requests \ {r} : (Holds(s)' <=> Holds(s)) /\ step'[s] = step[s]
  BY DEF Execute, CommitLost, GoTo, TypeOK, Holds
<1>4. \A q \in charged' \ Forgotten' :
          \/ q \in charged \ Forgotten
          \/ q = r /\ step'[r] = "complete"
  <2>1. /\ charged' \subseteq charged \cup {r}
        /\ \A q \in Requests \ {r} : response'[q] = response[q]
        /\ misreported \subseteq misreported'
    BY DEF Execute, CommitLost, TypeOK
  <2>2. r \in charged' \ Forgotten' => step'[r] = "complete"
    <3>1. CASE Execute(r)
      <4>1. PICK resp \in {Done(r), Declined(r), Refusal, Failure} :
               /\ response'[r] = resp /\ step'[r] = NextStep(r, resp)
               /\ charged' = IF resp.work = r THEN charged \cup {r} ELSE charged
        BY <3>1 DEF Execute, GoTo, TypeOK
      <4>2. r \notin charged
        BY <3>1 DEF Execute, OnceInv, WorkersArePast, Past
      <4>3. resp.work = r => resp.kind # "failed"
        BY RequestTyped DEF Done, Declined, Refusal, Failure
      <4> QED BY <4>1, <4>2, <4>3 DEF NextStep, TooBig, Forgotten
    <3>2. CASE CommitLost(r)
      BY <3>2 DEF CommitLost, Forgotten
    <3> QED BY <3>1, <3>2
  <2> QED BY <2>1, <2>2 DEF Forgotten, TooBig, TypeOK
<1>5. ChargesAreExplained'
  BY <1>2, <1>4 DEF OnceInv, ChargesAreExplained
<1>6. SpentKeysStay'
  <2> SUFFICES ASSUME NEW q \in charged' \ Forgotten'
               PROVE  /\ ~Absent(q)'
                      /\ \A s \in Requests :
                            Holds(s)' /\ KeyOf[s] = KeyOf[q] => s = q /\ step'[s] = "complete"
    BY DEF SpentKeysStay
  <2>1. row' = row
    BY DEF Execute, CommitLost
  <2>2. CASE q \in charged \ Forgotten
    BY <1>2, <1>3, <2>1, <2>2 DEF OnceInv, SpentKeysStay, Absent, Mine
  <2>3. CASE q = r /\ step'[r] = "complete"
    <3>1. ~Absent(r)
      <4>1. Mine(r) = [state |-> "in_progress", print |-> PrintOf[r]]
        BY <1>1 DEF KeyHasOneHolder
      <4> QED BY <4>1 DEF Absent
    <3>2. \A s \in Requests \ {r} : Holds(s)' => KeyOf[s] # KeyOf[r]
      BY <1>1, <1>3 DEF KeyHasOneHolder
    <3> QED BY <2>1, <2>3, <3>1, <3>2 DEF Absent, Mine
  <2> QED BY <1>4, <2>2, <2>3
<1>7. WorkersArePast'
  <2>1. charged' \subseteq charged \cup {r} /\ charged \subseteq Requests
    BY DEF Execute, CommitLost, TypeOK
  <2>2. step'[r] \in Past /\ \A s \in Requests \ {r} : step'[s] = step[s]
    BY DEF Execute, CommitLost, NextStep, GoTo, TypeOK, Past
  <2> QED BY <2>1, <2>2 DEF OnceInv, WorkersArePast
<1> QED BY <1>5, <1>6, <1>7 DEF OnceInv

\* Only a request that executes does work.
LEMMA OthersDoNoWork ==
    ASSUME TypeOK, OnceInv, NEW r \in Requests,
           Insert(r) \/ InsertFails(r) \/ Select(r) \/ SelectFails(r) \/ Complete(r)
           \/ Release(r) \/ Drop(r) \/ Crash
    PROVE  NoWork
<1>1. CASE Select(r)
  <2>1. r \notin charged
    BY <1>1 DEF Select, OnceInv, WorkersArePast, Past
  <2> QED BY <1>1, <2>1 DEF Select, Tell, Respond, NoWork, TypeOK
<1>2. CASE ~Select(r)
  BY <1>2 DEF Insert, InsertFails, SelectFails, Complete, Release, Drop, Crash, NoWork
<1> QED BY <1>1, <1>2

\* Every step keeps the charges explained.
LEMMA OnceStep == TypeOK /\ KeyHasOneHolder /\ OnceInv /\ [Next]_vars => OnceInv'
<1> SUFFICES ASSUME TypeOK, KeyHasOneHolder, OnceInv, [Next]_vars PROVE OnceInv'
  OBVIOUS
<1>1. ASSUME NEW r \in Requests, Insert(r) PROVE OnceInv'
  <2>1. \A q \in charged \ Forgotten : Absent(q)' => Absent(q)
    BY <1>1, RequestTyped DEF Insert, Claim, Write, Absent, Mine, TypeOK
  <2>2. \A q \in charged \ Forgotten : Absent(r) => KeyOf[r] # KeyOf[q]
    BY DEF OnceInv, SpentKeysStay, Absent, Mine
  <2>3. \A s \in Requests : Holds(s)' =>
            \/ Holds(s) /\ step'[s] = step[s]
            \/ s = r /\ Absent(r)
    BY <1>1 DEF Insert, GoTo, TypeOK, Holds
  <2>4. \A q \in charged : step'[q] \in Past
    BY <1>1 DEF Insert, GoTo, TypeOK, OnceInv, WorkersArePast, Past
  <2> QED BY <1>1, <2>1, <2>2, <2>3, <2>4, ChargesKept DEF Insert, NoWork
<1>2. ASSUME NEW r \in Requests, GoTo(r, "answered"), NoWork,
             \A q \in charged \ Forgotten : Absent(q)' => Absent(q)
      PROVE  OnceInv'
  <2>1. \A s \in Requests : Holds(s)' => Holds(s) /\ step'[s] = step[s]
    BY <1>2 DEF GoTo, TypeOK, Holds
  <2>2. \A q \in charged : step'[q] \in Past
    BY <1>2 DEF GoTo, TypeOK, OnceInv, WorkersArePast, Past
  <2> QED BY <1>2, <2>1, <2>2, ChargesKept
<1>3. ASSUME NEW r \in Requests, InsertFails(r) PROVE OnceInv'
  <2>1. \A q \in charged \ Forgotten : Absent(q)' => Absent(q)
    BY <1>3, RequestTyped DEF InsertFails, Claim, Write, Absent, Mine, TypeOK
  <2> QED BY <1>2, <1>3, <2>1 DEF InsertFails, Tell, NoWork
<1>4. ASSUME NEW r \in Requests, Select(r) PROVE OnceInv'
  BY <1>2, <1>4, OthersDoNoWork DEF Select, Tell, Respond, Absent, Mine
<1>5. ASSUME NEW r \in Requests, Execute(r) \/ CommitLost(r) PROVE OnceInv'
  BY <1>5, WorkOnce
<1>6. ASSUME NEW r \in Requests, Complete(r) PROVE OnceInv'
  <2>1. \A q \in charged \ Forgotten : Absent(q)' => Absent(q)
    BY <1>6, RequestTyped DEF Complete, Completed, Write, Absent, Mine, TypeOK
  <2> QED BY <1>2, <1>6, <2>1 DEF Complete, Tell, NoWork
<1>7. ASSUME NEW r \in Requests, Release(r) PROVE OnceInv'
  <2>1. \A q \in charged \ Forgotten : KeyOf[r] # KeyOf[q]
    BY <1>7 DEF Release, Holds, OnceInv, SpentKeysStay
  <2>2. \A q \in charged \ Forgotten : Mine(q)' = Mine(q)
    BY <1>7, <2>1, RequestTyped DEF Release, DropRow, Write, Mine, TypeOK
  <2> QED BY <1>2, <1>7, <2>2 DEF Release, Tell, Absent, NoWork
<1>8. ASSUME NEW r \in Requests, SelectFails(r) \/ Drop(r) PROVE OnceInv'
  BY <1>2, <1>8 DEF SelectFails, Drop, Tell, Absent, Mine, NoWork
<1>9. ASSUME Crash PROVE OnceInv'
  <2>1. \A s \in Requests : ~Holds(s)'
    BY <1>9 DEF Crash, InFlight, Holds, TypeOK
  <2>2. \A q \in charged : step'[q] \in Past
    BY <1>9 DEF Crash, InFlight, TypeOK, OnceInv, WorkersArePast, Past
  <2> QED BY <1>9, <2>1, <2>2, ChargesKept DEF Crash, Absent, Mine, NoWork
<1>10. ASSUME UNCHANGED vars PROVE OnceInv'
  <2>1. \A s \in Requests : Holds(s)' => Holds(s) /\ step'[s] = step[s]
    BY <1>10 DEF vars, Holds
  <2> QED BY <1>10, <2>1, ChargesKept DEF vars, Absent, Mine, NoWork, OnceInv, WorkersArePast
<1> QED BY <1>1, <1>3, <1>4, <1>5, <1>6, <1>7, <1>8, <1>9, <1>10 DEF Next, Advance

\* In every reachable state, whatever was dropped, lost or killed, two requests did
\* their work under one key only if the commit of one was taken for a failure or
\* its response was too big to keep.
THEOREM WorkIsDoneOnce == Spec => []ChargesAreExplained
<1>1. Init => TypeOK /\ KeyHasOneHolder /\ OnceInv
  <2>1. Init => KeyHasOneHolder
    BY DEF Init, KeyHasOneHolder, Holds
  <2>2. Init => OnceInv
    BY DEF Init, OnceInv, WorkersArePast, SpentKeysStay, ChargesAreExplained
  <2> QED BY <2>1, <2>2, InitTyped
<1>2. TypeOK /\ KeyHasOneHolder /\ OnceInv /\ [Next]_vars
         => (TypeOK /\ KeyHasOneHolder /\ OnceInv)'
  BY TypeStep, HolderStep, OnceStep
<1>3. OnceInv => ChargesAreExplained
  BY DEF OnceInv
<1> QED BY <1>1, <1>2, <1>3, PTL DEF Spec
-----------------------------------------------------------------------------
(* Answers are true.  An answer is copied from the response of a handler,  *)
(* through a row or without one, so each of the three has to be true, and  *)
(* a key that has been answered for must not be worked on again.           *)

\* The work under a key that is still known of.
Remembered(k) == ChargedFor(k) \ Forgotten

\* What a response says of a key, for a request with this fingerprint.
TrueOf(resp, k, print) ==
    /\ resp.kind \in {"done", "declined"} => resp.work \in Remembered(k) /\ PrintOf[resp.work] = print
    /\ resp.kind = "refused" => Remembered(k) = {}

\* A key that nobody holds and nobody can claim.
Spent(k) == row[k].state # "none" /\ \A s \in Requests : Holds(s) => KeyOf[s] # k

ResponsesTrue ==
    \A r \in Requests :
        /\ step[r] = "complete" => TrueOf(response[r], KeyOf[r], PrintOf[r])
        /\ step[r] = "release" => response[r].kind = "failed" \/ TooBig(r, response[r])
RowsTrue ==
    \A k \in Keys : row[k].state = "completed" => TrueOf(row[k].response, k, row[k].print)
Told(r) == answer[r] \in {"done", "declined", "refused"}
ToldTrue ==
    \A r \in Requests : Told(r) =>
        /\ step[r] = "answered" /\ response[r].kind = answer[r]
        /\ TrueOf(response[r], KeyOf[r], PrintOf[r])
        /\ Spent(KeyOf[r])
TruthInv == ResponsesTrue /\ RowsTrue /\ ToldTrue

\* What is told in such states is what AnswersAreTrue asks for.
LEMMA TruthAnswers == TypeOK /\ TruthInv => AnswersAreTrue
<1> SUFFICES ASSUME TypeOK, TruthInv, NEW r \in Requests
             PROVE  /\ answer[r] \in {"done", "declined"} =>
                          /\ response[r].work \in ChargedFor(KeyOf[r]) \ Forgotten
                          /\ PrintOf[response[r].work] = PrintOf[r]
                    /\ answer[r] = "refused" => ChargedFor(KeyOf[r]) \subseteq Forgotten
  BY DEF AnswersAreTrue
<1>1. Told(r) => response[r].kind = answer[r] /\ TrueOf(response[r], KeyOf[r], PrintOf[r])
  BY DEF TruthInv, ToldTrue
<1> QED BY <1>1 DEF Told, TrueOf, Remembered

\* A step that charges nobody does not change what is true of a key.
LEMMA TruthStays ==
    ASSUME NoWork
    PROVE  \A k : Remembered(k)' = Remembered(k)
BY ForgottenStays DEF NoWork, Remembered, ChargedFor

\* A step that answers one request, after which the rows and the answer of that
\* request are true, keeps everything true.
LEMMA AnswerKeepsTruth ==
    ASSUME TypeOK, TruthInv, NEW r \in Requests, GoTo(r, "answered"),
           NoWork,
           \A s \in Requests \ {r} : answer'[s] = answer[s] /\ response'[s] = response[s],
           \A k \in Keys : \/ row'[k] = row[k]
                           \/ k = KeyOf[r] /\ Holds(r)
                           \/ row[k].state = "none" /\ row'[k].state = "in_progress",
           RowsTrue',
           answer'[r] \in {"done", "declined", "refused"} =>
              /\ response'[r].kind = answer'[r]
              /\ TrueOf(response'[r], KeyOf[r], PrintOf[r])
              /\ Spent(KeyOf[r])'
    PROVE  TruthInv'
<1>1. \A s \in Requests : step'[s] = IF s = r THEN "answered" ELSE step[s]
  BY DEF GoTo, TypeOK
<1>2. \A s \in Requests : Holds(s)' => Holds(s) /\ s # r
  BY <1>1 DEF Holds
<1>3. ResponsesTrue'
  BY <1>1, TruthStays DEF TruthInv, ResponsesTrue, TrueOf, TooBig
<1>4. ASSUME NEW s \in Requests \ {r}, Told(s)' PROVE Spent(KeyOf[s])'
  <2>1. Spent(KeyOf[s])
    BY <1>4 DEF TruthInv, ToldTrue, Told
  <2>2. row'[KeyOf[s]].state # "none"
    BY <2>1, RequestTyped DEF Spent
  <2> QED BY <1>2, <2>1, <2>2 DEF Spent
<1>5. ToldTrue'
  BY <1>1, <1>4, TruthStays DEF TruthInv, ToldTrue, Told, TrueOf
<1> QED BY <1>3, <1>5 DEF TruthInv

\* A claim or nothing at all keeps the rows true.
LEMMA ClaimKeepsRows ==
    ASSUME TypeOK, TruthInv, NEW r \in Requests, NoWork,
           (Absent(r) /\ Claim(r)) \/ UNCHANGED row
    PROVE  /\ RowsTrue'
           /\ \A k \in Keys : row'[k] = row[k] \/ (row[k].state = "none" /\ row'[k].state = "in_progress")
<1>1. CASE UNCHANGED row
  BY <1>1, TruthStays DEF TruthInv, RowsTrue, TrueOf
<1>2. CASE Absent(r) /\ Claim(r)
  <2>1. \A k \in Keys : row'[k] = IF k = KeyOf[r]
              THEN [state |-> "in_progress", print |-> PrintOf[r]] ELSE row[k]
    BY <1>2, RequestTyped DEF Claim, Write, TypeOK
  <2>2. RowsTrue'
    BY <2>1, TruthStays DEF TruthInv, RowsTrue, TrueOf
  <2> QED BY <1>2, <2>1, <2>2 DEF Absent, Mine
<1> QED BY <1>1, <1>2

\* A holder that does its work under a key, or is refused, knows that nothing is
\* remembered of the key.
LEMMA WorkIsNews ==
    ASSUME OnceInv, NEW r \in Requests, step[r] = "execute"
    PROVE  Remembered(KeyOf[r]) = {}
BY DEF OnceInv, SpentKeysStay, Holds, Remembered, ChargedFor, Forgotten
\* A request that does its work leaves the other keys as they were, and its own
\* response, if it is to be completed, is true.
LEMMA WorkKeepsTruth ==
    ASSUME TypeOK, KeyHasOneHolder, OnceInv, TruthInv, NEW r \in Requests,
           Execute(r) \/ CommitLost(r)
    PROVE  TruthInv'
<1>1. step[r] = "execute" /\ row' = row /\ answer' = answer
  BY DEF Execute, CommitLost
<1>2. Mine(r).state = "in_progress" /\ Holds(r)
  <2>1. Holds(r)
    BY <1>1 DEF Holds
  <2>2. Mine(r) = [state |-> "in_progress", print |-> PrintOf[r]]
    BY <2>1 DEF KeyHasOneHolder
  <2> QED BY <2>1, <2>2
<1>3. \A s \in Requests \ {r} : step'[s] = step[s] /\ response'[s] = response[s]
  BY DEF Execute, CommitLost, GoTo, TypeOK
<1>4. \A k \in Keys \ {KeyOf[r]} : Remembered(k)' = Remembered(k)
  <2>1. charged \subseteq charged' /\ charged' \subseteq charged \cup {r}
    BY DEF Execute, CommitLost
  <2>2. misreported \subseteq misreported' /\ misreported' \subseteq misreported \cup {r}
    BY DEF Execute, CommitLost
  <2> QED BY <1>3, <2>1, <2>2 DEF Remembered, ChargedFor, Forgotten, TooBig, TypeOK
<1>5. r \notin charged /\ r \notin misreported
  BY <1>1 DEF OnceInv, WorkersArePast, Past, TypeOK
<1>6. Remembered(KeyOf[r]) = {}
  BY <1>1, WorkIsNews
<1>7. step'[r] = "complete" => TrueOf(response[r], KeyOf[r], PrintOf[r])'
  <2>1. CASE Execute(r)
    <3>1. PICK resp \in {Done(r), Declined(r), Refusal, Failure} :
             /\ response'[r] = resp /\ step'[r] = NextStep(r, resp)
             /\ charged' = IF resp.work = r THEN charged \cup {r} ELSE charged
      BY <2>1 DEF Execute, GoTo, TypeOK
    <3>2. misreported' = misreported
      BY <2>1 DEF Execute
    <3>3. CASE resp \in {Done(r), Declined(r)}
      <4>1. resp.work = r /\ resp.kind \in {"done", "declined"}
        BY <3>3 DEF Done, Declined
      <4> SUFFICES ASSUME step'[r] = "complete" PROVE r \in Remembered(KeyOf[r])'
        BY <3>1, <4>1 DEF TrueOf
      <4>2. ~TooBig(r, resp)
        BY <3>1 DEF NextStep
      <4> QED BY <1>5, <3>1, <3>2, <4>1, <4>2 DEF Remembered, ChargedFor, Forgotten, TooBig
    <3>4. CASE resp = Refusal
      <4>1. NoWork
        BY <1>3, <1>5, <3>1, <3>2, <3>4, RequestTyped DEF Refusal, NoWork, TypeOK
      <4> QED BY <1>6, <3>1, <3>4, <4>1, TruthStays DEF TrueOf, Refusal
    <3>5. CASE resp = Failure
      BY <3>1, <3>5 DEF NextStep, Failure
    <3> QED BY <3>1, <3>3, <3>4, <3>5
  <2>2. CASE CommitLost(r)
    BY <2>2 DEF CommitLost, NextStep, Failure, GoTo, TypeOK
  <2> QED BY <2>1, <2>2
<1>8. step'[r] \in {"complete", "release"}
      /\ (step'[r] = "release" => response'[r].kind = "failed" \/ TooBig(r, response'[r]))
  BY DEF Execute, CommitLost, NextStep, GoTo, TypeOK
<1>9. \A s \in Requests \ {r} : Holds(s) => KeyOf[s] \in Keys \ {KeyOf[r]}
  BY <1>2, RequestTyped DEF KeyHasOneHolder
<1>10. ResponsesTrue'
  <2>1. \A s \in Requests \ {r} : step[s] = "complete" => TrueOf(response[s], KeyOf[s], PrintOf[s])'
    BY <1>3, <1>4, <1>9 DEF TruthInv, ResponsesTrue, TrueOf, Holds
  <2>2. charged' \subseteq charged \cup {r}
    BY DEF Execute, CommitLost
  <2> QED BY <1>3, <1>7, <1>8, <2>1, <2>2 DEF TruthInv, ResponsesTrue, TooBig
<1>11. RowsTrue'
  <2>1. row[KeyOf[r]].state = "in_progress"
    BY <1>2 DEF Mine
  <2> QED BY <1>1, <1>4, <2>1 DEF TruthInv, RowsTrue, TrueOf
<1>12. ToldTrue'
  <2> SUFFICES ASSUME NEW s \in Requests, Told(s)
               PROVE  /\ step'[s] = "answered" /\ response'[s].kind = answer'[s]
                      /\ TrueOf(response[s], KeyOf[s], PrintOf[s])'
                      /\ Spent(KeyOf[s])'
    BY <1>1 DEF ToldTrue, Told
  <2>1. /\ step[s] = "answered" /\ response[s].kind = answer[s]
        /\ TrueOf(response[s], KeyOf[s], PrintOf[s]) /\ Spent(KeyOf[s])
    BY DEF TruthInv, ToldTrue
  <2>2. s # r /\ KeyOf[s] \in Keys \ {KeyOf[r]}
    BY <1>1, <1>2, <2>1, RequestTyped DEF Spent
  <2>3. \A q \in Requests : Holds(q)' => Holds(q)
    BY <1>2, <1>3 DEF Holds
  <2> QED BY <1>1, <1>3, <1>4, <2>1, <2>2, <2>3 DEF TrueOf, Spent
<1> QED BY <1>10, <1>11, <1>12 DEF TruthInv

\* Every step keeps what is said true.
LEMMA TruthStep ==
    TypeOK /\ KeyHasOneHolder /\ OnceInv /\ TruthInv /\ [Next]_vars => TruthInv'
<1> SUFFICES ASSUME TypeOK, KeyHasOneHolder, OnceInv, TruthInv, [Next]_vars PROVE TruthInv'
  OBVIOUS
<1>1. ASSUME NEW r \in Requests, Insert(r) PROVE TruthInv'
  <2>1. \A s \in Requests : step'[s] = IF s # r THEN step[s]
                                       ELSE IF Absent(r) THEN "execute" ELSE "select"
    BY <1>1 DEF Insert, GoTo, TypeOK
  <2>2. /\ RowsTrue' /\ NoWork
        /\ \A k \in Keys : row'[k] = row[k] \/ (row[k].state = "none" /\ row'[k].state = "in_progress")
    BY <1>1, ClaimKeepsRows, OthersDoNoWork DEF Insert
  <2>3. ResponsesTrue'
    BY <1>1, <2>1, <2>2, TruthStays DEF Insert, TruthInv, ResponsesTrue, TrueOf, TooBig
  <2>4. ASSUME NEW s \in Requests, Told(s) PROVE Spent(KeyOf[s])' /\ s # r
    <3>1. Spent(KeyOf[s]) /\ step[s] = "answered"
      BY <2>4 DEF TruthInv, ToldTrue
    <3>2. Absent(r) => KeyOf[r] # KeyOf[s]
      BY <3>1 DEF Absent, Mine, Spent
    <3>3. \A q \in Requests : Holds(q)' => Holds(q) \/ (q = r /\ Absent(r))
      BY <2>1 DEF Holds
    <3>4. row'[KeyOf[s]].state # "none"
      BY <2>2, <3>1, RequestTyped DEF Spent
    <3> QED BY <1>1, <3>1, <3>2, <3>3, <3>4 DEF Spent, Insert
  <2>5. ToldTrue'
    BY <1>1, <2>1, <2>2, <2>4, TruthStays DEF Insert, TruthInv, ToldTrue, Told, TrueOf
  <2> QED BY <2>2, <2>3, <2>5 DEF TruthInv
<1>2. ASSUME NEW r \in Requests, InsertFails(r) PROVE TruthInv'
  <2>1. /\ RowsTrue' /\ NoWork
        /\ \A k \in Keys : row'[k] = row[k] \/ (row[k].state = "none" /\ row'[k].state = "in_progress")
    BY <1>2, ClaimKeepsRows, OthersDoNoWork DEF InsertFails
  <2>2. answer'[r] = "failed" /\ \A s \in Requests \ {r} : answer'[s] = answer[s]
    BY <1>2 DEF InsertFails, Tell, TypeOK
  <2> QED BY <1>2, <2>1, <2>2, AnswerKeepsTruth DEF InsertFails, Tell
<1>3. ASSUME NEW r \in Requests, Select(r) PROVE TruthInv'
  <2>1. RowsTrue' /\ row' = row /\ NoWork /\ GoTo(r, "answered")
    BY <1>3, ClaimKeepsRows, OthersDoNoWork DEF Select, Tell, Respond
  <2>2. \A s \in Requests \ {r} : answer'[s] = answer[s] /\ response'[s] = response[s]
    BY <1>3 DEF Select, Tell, Respond, TypeOK
  <2>3. ASSUME answer'[r] \in {"done", "declined", "refused"}
        PROVE  /\ response'[r].kind = answer'[r]
               /\ TrueOf(response'[r], KeyOf[r], PrintOf[r])
               /\ Spent(KeyOf[r])'
    <3>1. /\ Mine(r).state = "completed" /\ SamePrint(r)
          /\ response'[r] = Mine(r).response /\ answer'[r] = Mine(r).response.kind
      BY <1>3, <2>3 DEF Select, Tell, Respond, TypeOK
    <3>2. TrueOf(Mine(r).response, KeyOf[r], Mine(r).print)
      BY <3>1, RequestTyped DEF TruthInv, RowsTrue, Mine
    <3>3. Spent(KeyOf[r])
      <4>1. \A s \in Requests : Holds(s) => Mine(s).state = "in_progress"
        <5>1. \A s \in Requests : Holds(s) => Mine(s) = [state |-> "in_progress", print |-> PrintOf[s]]
          BY DEF KeyHasOneHolder
        <5> QED BY <5>1
      <4> QED BY <3>1, <4>1 DEF Spent, Mine
    <3>4. \A s \in Requests : Holds(s)' => Holds(s)
      BY <2>1 DEF GoTo, TypeOK, Holds
    <3> QED BY <2>1, <3>1, <3>2, <3>3, <3>4 DEF SamePrint, Spent
  <2> QED BY <2>1, <2>2, <2>3, AnswerKeepsTruth
<1>4. ASSUME NEW r \in Requests, Execute(r) \/ CommitLost(r) PROVE TruthInv'
  BY <1>4, WorkKeepsTruth
<1>5. ASSUME NEW r \in Requests, Complete(r) PROVE TruthInv'
  <2>1. Holds(r) /\ TrueOf(response[r], KeyOf[r], PrintOf[r])
    BY <1>5 DEF Complete, Holds, TruthInv, ResponsesTrue
  <2>2. Mine(r) = [state |-> "in_progress", print |-> PrintOf[r]]
    BY <2>1 DEF KeyHasOneHolder
  <2>3. \A k \in Keys : row'[k] = row[k] \/ (k = KeyOf[r] /\ row'[k] = Completed(r))
    BY <1>5, RequestTyped DEF Complete, Write, TypeOK
  <2>4. RowsTrue'
    <3>1. Completed(r) = [state |-> "completed", print |-> PrintOf[r], response |-> response[r]]
      BY <2>2 DEF Completed
    <3>2. NoWork
      BY <1>5, OthersDoNoWork
    <3> QED BY <2>1, <2>3, <3>1, <3>2, TruthStays DEF TruthInv, RowsTrue, TrueOf
  <2>5. Spent(KeyOf[r])'
    <3>1. row'[KeyOf[r]].state # "none"
      BY <2>2, <2>3, RequestTyped DEF Completed, Mine
    <3>2. \A s \in Requests : Holds(s)' => Holds(s) /\ s # r
      BY <1>5 DEF Complete, Tell, GoTo, TypeOK, Holds
    <3> QED BY <2>1, <3>1, <3>2 DEF Spent, KeyHasOneHolder
  <2>6. answer'[r] = response[r].kind /\ \A s \in Requests \ {r} : answer'[s] = answer[s]
    BY <1>5 DEF Complete, Tell, TypeOK
  <2> QED BY <1>5, <2>1, <2>3, <2>4, <2>5, <2>6, AnswerKeepsTruth, OthersDoNoWork DEF Complete, Tell
<1>6. ASSUME NEW r \in Requests, Release(r) PROVE TruthInv'
  <2>1. Holds(r) /\ (response[r].kind = "failed" \/ TooBig(r, response[r]))
    BY <1>6 DEF Release, Holds, TruthInv, ResponsesTrue
  <2>2. \A k \in Keys : row'[k] = row[k] \/ (k = KeyOf[r] /\ row'[k] = NoRow)
    BY <1>6, RequestTyped DEF Release, DropRow, Write, TypeOK
  <2>3. RowsTrue'
    <3>1. NoWork
      BY <1>6, OthersDoNoWork
    <3> QED BY <2>2, <3>1, TruthStays DEF TruthInv, RowsTrue, TrueOf, NoRow
  <2>4. answer'[r] \notin {"done", "declined", "refused"} /\ \A s \in Requests \ {r} : answer'[s] = answer[s]
    BY <1>6, <2>1 DEF Release, Tell, TooBig, TypeOK
  <2> QED BY <1>6, <2>1, <2>2, <2>3, <2>4, AnswerKeepsTruth, OthersDoNoWork DEF Release, Tell
<1>7. ASSUME NEW r \in Requests, SelectFails(r) \/ Drop(r) PROVE TruthInv'
  <2>1. RowsTrue'
    BY <1>7, ClaimKeepsRows, OthersDoNoWork DEF SelectFails, Drop
  <2>2. answer'[r] \in {"failed", "unknown"} /\ \A s \in Requests \ {r} : answer'[s] = answer[s]
    BY <1>7 DEF SelectFails, Drop, Tell, TypeOK
  <2> QED BY <1>7, <2>1, <2>2, AnswerKeepsTruth, OthersDoNoWork DEF SelectFails, Drop, Tell
<1>8. ASSUME Crash PROVE TruthInv'
  <2>0. NoWork
    BY <1>8, OthersDoNoWork DEF Crash
  <2>1. \A s \in Requests : step'[s] = (IF InFlight(s) THEN "answered" ELSE step[s]) /\ ~Holds(s)'
    BY <1>8 DEF Crash, InFlight, Holds, TypeOK
  <2>2. \A s \in Requests : Told(s)' => Told(s) /\ answer'[s] = answer[s] /\ step'[s] = step[s]
    BY <1>8, <2>1 DEF Crash, Told, TypeOK, InFlight
  <2>3. ResponsesTrue'
    BY <1>8, <2>1 DEF Crash, TruthInv, ResponsesTrue, InFlight, TypeOK
  <2>4. RowsTrue'
    BY <1>8, <2>0, TruthStays DEF Crash, TruthInv, RowsTrue, TrueOf
  <2>5. ToldTrue'
    BY <1>8, <2>0, <2>1, <2>2, TruthStays DEF Crash, TruthInv, ToldTrue, TrueOf, Spent
  <2> QED BY <2>3, <2>4, <2>5 DEF TruthInv
<1>9. ASSUME UNCHANGED vars PROVE TruthInv'
  BY <1>9 DEF vars, TruthInv, ResponsesTrue, RowsTrue, ToldTrue, Told, TrueOf, Spent, Holds,
              Remembered, ChargedFor, Forgotten, TooBig
<1> QED BY <1>1, <1>2, <1>3, <1>4, <1>5, <1>6, <1>7, <1>8, <1>9 DEF Next, Advance

\* In every reachable state a success names remembered work, done for the request as
\* it was sent, and a refusal means that none was done: for fresh answers and for
\* replays, whatever was dropped, lost or killed in between.
THEOREM AnswersStayTrue == Spec => []AnswersAreTrue
<1>1. Init => TypeOK /\ KeyHasOneHolder /\ OnceInv /\ TruthInv
  <2>1. Init => KeyHasOneHolder /\ OnceInv
    BY DEF Init, KeyHasOneHolder, Holds, OnceInv, WorkersArePast, SpentKeysStay, ChargesAreExplained
  <2>2. Init => TruthInv
    BY IdempotencyAssumption
       DEF Init, TruthInv, ResponsesTrue, RowsTrue, ToldTrue, Told, NoRow
  <2> QED BY <2>1, <2>2, InitTyped
<1>2. TypeOK /\ KeyHasOneHolder /\ OnceInv /\ TruthInv /\ [Next]_vars
         => (TypeOK /\ KeyHasOneHolder /\ OnceInv /\ TruthInv)'
  BY TypeStep, HolderStep, OnceStep, TruthStep
<1>3. TypeOK /\ TruthInv => AnswersAreTrue
  BY TruthAnswers
<1> QED BY <1>1, <1>2, <1>3, PTL DEF Spec
=============================================================================
