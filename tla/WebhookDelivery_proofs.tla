------------------------ MODULE WebhookDelivery_proofs ------------------------
(***************************************************************************)
(* The job queue and the webhook deliveries that run on it: for any number *)
(* of jobs, endpoints and workers, crashes and lost writes.                *)
(*                                                                         *)
(* First the queue (JobQueue), with workers as late as they like: the      *)
(* claims in hand are told apart by their attempts, and a claim whose row  *)
(* is no longer as the claim left it belongs to a job that the reaper took *)
(* from a living holder.  Hence runs are paid for, and an ended job stays  *)
(* ended unless its holder was overtaken.  Where a batch fits in the lease *)
(* nobody is: a worker still has Len(batch) outcomes to record at most, so *)
(* the claims in its hand are younger than the lease.                      *)
(*                                                                         *)
(* Then the deliveries, where a batch fits in the lease (a conjunct of     *)
(* their invariant): a completed one was taken and is logged,              *)
(* duplicates cost a fault each, and without faults the delivery row keeps *)
(* step with its job.  Whoever handles a job is the only one to hold it,   *)
(* so that nobody else writes its delivery row, which is updated by id     *)
(* alone.                                                                  *)
(***************************************************************************)
EXTENDS WebhookDelivery, SequenceTheorems, FiniteSetTheorems, TLAPS

-----------------------------------------------------------------------------
(* The queue.                                                              *)

Claim == [job : Jobs, attempts : Nat]
Slots(w) == 1 .. Len(batch[w])
JobAt(w, i) == batch[w][i].job

\* The time that n jobs may take, and the part of it that the current one has used
\* up.
TimeOf(n) == n * HandlerTime
Used(w) == IF Occupied(w) THEN since[w] ELSE 0

\* A worker has claims in hand exactly while it works on them.
Busy == \A w \in Workers :
    batch[w] # << >> <=> worker[w] \in {"next_job", "handling", "recording"}

\* A job may be in two hands, but not for the same attempt, ...
ToldApart == \A w, v \in Workers : \A i \in Slots(w), k \in Slots(v) :
    JobAt(w, i) = JobAt(v, k) /\ batch[w][i].attempts = batch[v][k].attempts => w = v /\ i = k

\* ... and every claim in hand was counted.
Issued == \A w \in Workers : \A i \in Slots(w) :
    batch[w][i].attempts >= 1 /\ batch[w][i].attempts <= attempts[JobAt(w, i)]

\* The row of a claim in hand is as the claim left it, unless the reaper took it.
Held == \A w \in Workers : \A i \in Slots(w) : JobAt(w, i) \in overtaken \/
    (state[JobAt(w, i)] = "running" /\ attempts[JobAt(w, i)] = batch[w][i].attempts)

\* The handlers that are still to run fit in what is left of the lease.
InTime == \A w \in Workers : \A i \in Slots(w) :
    age[JobAt(w, i)] + TimeOf(Len(batch[w])) <= TimeOf(BatchSize) + Used(w)

\* The attempts of job j that were claimed and whose handler has not been called:
\* they are not used up.
Waiting(j) == {n \in 1 .. attempts[j] : \E w \in Workers : \E i \in Slots(w) :
    /\ JobAt(w, i) = j /\ batch[w][i].attempts = n
    /\ i > 1 \/ worker[w] = "next_job"}
Unspent == \A j \in Jobs : runs[j] + Cardinality(Waiting(j)) <= attempts[j]

QueueInv == /\ TypeOK /\ Busy /\ ToldApart /\ Issued /\ Held /\ InTime /\ Unspent
            /\ LeasesAreKept /\ RunsAreCounted

-----------------------------------------------------------------------------
(* Arithmetic and types. *)

LEMMA TimeOfStep ==
    ASSUME NEW n \in Nat
    PROVE  /\ TimeOf(n) \in Nat /\ TimeOf(n + 1) = TimeOf(n) + HandlerTime
           /\ HandlerTime \in Nat
  BY QueueAssumption DEF TimeOf

LEMMA TimeOfGrows ==
    ASSUME NEW m \in Nat, NEW n \in Nat, m <= n
    PROVE  TimeOf(m) <= TimeOf(n)
<1>1. n - m \in Nat /\ n = m + (n - m)
  OBVIOUS
<1>2. (n - m) * HandlerTime \in Nat /\ HandlerTime \in Nat
  BY <1>1, QueueAssumption
<1>3. n * HandlerTime = m * HandlerTime + (n - m) * HandlerTime
  BY <1>1, <1>2
<1> QED BY <1>2, <1>3 DEF TimeOf

\* What a worker holds is a sequence of claims.
LEMMA InHandType ==
    ASSUME TypeOK, NEW w \in Workers
    PROVE  /\ batch[w] \in Seq(Claim) /\ Len(batch[w]) \in Nat
           /\ \A i \in Slots(w) : /\ batch[w][i] \in Claim /\ JobAt(w, i) \in Jobs
                                  /\ batch[w][i].attempts \in Nat
           /\ batch[w] # << >> <=> Len(batch[w]) > 0
<1>1. batch[w] \in Seq(Claim)
  BY DEF TypeOK, Claim
<1>2. \A i \in Slots(w) : batch[w][i] \in Claim
  BY <1>1, ElementOfSeq DEF Slots
<1>3. Len(batch[w]) \in Nat /\ (batch[w] # << >> <=> Len(batch[w]) > 0)
  BY <1>1, EmptySeq, LenProperties
<1> QED BY <1>1, <1>2, <1>3 DEF Claim, JobAt

LEMMA AgeTypes ==
    ASSUME TypeOK, NEW w \in Workers, NEW i \in Slots(w)
    PROVE  /\ JobAt(w, i) \in Jobs /\ age[JobAt(w, i)] \in Nat
           /\ TimeOf(Len(batch[w])) \in Nat /\ TimeOf(BatchSize) \in Nat
<1>1. JobAt(w, i) \in Jobs /\ Len(batch[w]) \in Nat /\ BatchSize \in Nat
  BY InHandType, QueueAssumption
<1>2. age \in [Jobs -> 0 .. (LeaseTimeout + 1)] /\ LeaseTimeout \in Nat
  BY QueueAssumption DEF TypeOK
<1>3. age[JobAt(w, i)] \in Nat
  BY <1>1, <1>2
<1> QED BY <1>1, <1>3, TimeOfStep

\* A busy worker's first claim, and what remains of its batch after it.
LEMMA TailSlots ==
    ASSUME TypeOK, NEW w \in Workers, batch[w] # << >>
    PROVE  /\ 1 \in Slots(w) /\ Head(batch[w]) = batch[w][1]
           /\ Tail(batch[w]) \in Seq(Claim)
           /\ Len(Tail(batch[w])) = Len(batch[w]) - 1
           /\ \A i \in 1 .. Len(Tail(batch[w])) :
                 i + 1 \in Slots(w) /\ Tail(batch[w])[i] = batch[w][i + 1]
<1>1. batch[w] \in Seq(Claim) /\ Len(batch[w]) \in Nat /\ Len(batch[w]) > 0
  BY InHandType
<1>2. /\ Tail(batch[w]) \in Seq(Claim)
      /\ Len(Tail(batch[w])) = Len(batch[w]) - 1
      /\ \A i \in 1 .. Len(Tail(batch[w])) : Tail(batch[w])[i] = batch[w][i + 1]
  BY <1>1, HeadTailProperties
<1>3. Head(batch[w]) = batch[w][1]
  BY <1>1
<1> QED BY <1>1, <1>2, <1>3 DEF Slots

\* Where a batch fits in the lease, a claim in hand has not outlived it.
LEMMA HeldIsFresh ==
    ASSUME QueueInv, FitsInLease, NEW w \in Workers, NEW i \in Slots(w)
    PROVE  JobAt(w, i) \notin Stale
<1>1. /\ Len(batch[w]) \in Nat /\ Len(batch[w]) >= 1 /\ JobAt(w, i) \in Jobs
  BY InHandType DEF QueueInv, Slots
<1>2. age[JobAt(w, i)] \in Nat /\ LeaseTimeout \in Nat
  BY <1>1, QueueAssumption DEF QueueInv, TypeOK
<1>3. TimeOf(BatchSize) \in Nat /\ TimeOf(BatchSize) <= LeaseTimeout /\ HandlerTime \in Nat
  BY TimeOfStep, QueueAssumption DEF TimeOf, FitsInLease
<1>4. TimeOf(Len(batch[w])) \in Nat /\ HandlerTime <= TimeOf(Len(batch[w]))
  <2>1. TimeOf(1) = HandlerTime
    BY QueueAssumption DEF TimeOf
  <2> QED BY <1>1, <2>1, TimeOfGrows, TimeOfStep
<1>5. Used(w) \in Nat /\ Used(w) <= HandlerTime
  BY QueueAssumption DEF Used, QueueInv, TypeOK
<1>6. age[JobAt(w, i)] + TimeOf(Len(batch[w])) <= TimeOf(BatchSize) + Used(w)
  BY DEF QueueInv, InTime
<1>7. age[JobAt(w, i)] <= LeaseTimeout
  BY <1>2, <1>3, <1>4, <1>5, <1>6
<1> QED BY <1>1, <1>2, <1>7 DEF Stale

\* A job that no reaper took from its holder is running, and in one hand.
LEMMA InOneHand ==
    ASSUME QueueInv, NEW w \in Workers, NEW i \in Slots(w), JobAt(w, i) \notin overtaken
    PROVE  /\ JobAt(w, i) \in Jobs /\ state[JobAt(w, i)] = "running"
           /\ attempts[JobAt(w, i)] = batch[w][i].attempts
           /\ \A v \in Workers : \A k \in Slots(v) : JobAt(v, k) = JobAt(w, i) => v = w /\ k = i
<1>1. \A v \in Workers : \A k \in Slots(v) : JobAt(v, k) = JobAt(w, i) =>
         attempts[JobAt(w, i)] = batch[v][k].attempts
  BY DEF QueueInv, Held
<1>2. \A v \in Workers : \A k \in Slots(v) : JobAt(v, k) = JobAt(w, i) => v = w /\ k = i
  BY <1>1 DEF QueueInv, ToldApart
<1> QED BY <1>1, <1>2, InHandType DEF QueueInv, Held

-----------------------------------------------------------------------------
(* The attempts that are not used up. *)

LEMMA WaitingIsFinite ==
    ASSUME TypeOK, NEW j \in Jobs
    PROVE  /\ attempts[j] \in Nat /\ runs[j] \in Nat
           /\ IsFiniteSet(Waiting(j)) /\ Cardinality(Waiting(j)) \in Nat
<1>1. attempts[j] \in Nat /\ runs[j] \in Nat
  BY DEF TypeOK
<1>2. IsFiniteSet(1 .. attempts[j])
  BY <1>1, FS_Interval
<1>3. IsFiniteSet(Waiting(j))
  BY <1>2, FS_Subset DEF Waiting
<1> QED BY <1>1, <1>3, FS_CardinalityType

\* No handler is called, and a new attempt may wait.
LEMMA UnspentKept ==
    ASSUME QueueInv, TypeOK', runs' = runs,
           \A j \in Jobs : \/ attempts'[j] = attempts[j] /\ Waiting(j)' \subseteq Waiting(j)
                           \/ /\ attempts'[j] = attempts[j] + 1
                              /\ Waiting(j)' \subseteq Waiting(j) \cup {attempts'[j]}
    PROVE  Unspent'
<1> SUFFICES ASSUME NEW j \in Jobs
             PROVE  runs'[j] + Cardinality(Waiting(j)') <= attempts'[j]
  BY DEF Unspent
<1>1. /\ attempts[j] \in Nat /\ runs[j] \in Nat
      /\ IsFiniteSet(Waiting(j)) /\ Cardinality(Waiting(j)) \in Nat
  BY WaitingIsFinite DEF QueueInv
<1>2. Cardinality(Waiting(j)') \in Nat /\ attempts'[j] \in Nat
  <2>1. /\ attempts'[j] \in Nat
    BY DEF TypeOK
  <2>2. IsFiniteSet(1 .. attempts'[j])
    BY <2>1, FS_Interval
  <2>3. Waiting(j)' \subseteq 1 .. attempts'[j]
    BY DEF Waiting
  <2>4. IsFiniteSet(Waiting(j)')
    BY <2>2, <2>3, FS_Subset
  <2> QED BY <2>1, <2>4, FS_CardinalityType
<1>3. runs[j] + Cardinality(Waiting(j)) <= attempts[j]
  BY DEF QueueInv, Unspent
<1>4. CASE attempts'[j] = attempts[j] /\ Waiting(j)' \subseteq Waiting(j)
  <2>1. Cardinality(Waiting(j)') <= Cardinality(Waiting(j))
    BY <1>1, <1>4, FS_Subset
  <2> QED BY <1>1, <1>2, <1>3, <1>4, <2>1
<1>5. CASE attempts'[j] = attempts[j] + 1 /\ Waiting(j)' \subseteq Waiting(j) \cup {attempts'[j]}
  <2>0. /\ IsFiniteSet(Waiting(j) \cup {attempts'[j]})
        /\ Cardinality(Waiting(j) \cup {attempts'[j]}) =
              IF attempts'[j] \in Waiting(j) THEN Cardinality(Waiting(j)) ELSE Cardinality(Waiting(j)) + 1
    BY <1>1, FS_AddElement
  <2>1. /\ IsFiniteSet(Waiting(j) \cup {attempts'[j]})
        /\ Cardinality(Waiting(j) \cup {attempts'[j]}) <= Cardinality(Waiting(j)) + 1
        /\ Cardinality(Waiting(j) \cup {attempts'[j]}) \in Nat
    BY <1>1, <2>0
  <2>2. Cardinality(Waiting(j)') <= Cardinality(Waiting(j) \cup {attempts'[j]})
    BY <1>5, <2>1, FS_Subset
  <2> QED BY <1>1, <1>2, <1>3, <1>5, <2>1, <2>2
<1> QED BY <1>4, <1>5

\* Claims that stay, or are let go of, leave no more attempts waiting.
LEMMA UnspentFrame ==
    ASSUME QueueInv, TypeOK', UNCHANGED <<attempts, runs>>,
           \A v \in Workers : \A i \in Slots(v)' :
              \E k \in Slots(v) : /\ batch'[v][i] = batch[v][k]
                                  /\ i > 1 \/ worker'[v] = "next_job" => k > 1 \/ worker[v] = "next_job"
    PROVE  Unspent'
<1>1. \A j \in Jobs : Waiting(j)' \subseteq Waiting(j)
  <2> SUFFICES ASSUME NEW j \in Jobs, NEW n \in Waiting(j)'
               PROVE  n \in Waiting(j)
    OBVIOUS
  <2>0. PICK v \in Workers : \E i \in Slots(v)' :
           /\ batch'[v][i].job = j /\ batch'[v][i].attempts = n
           /\ i > 1 \/ worker'[v] = "next_job"
    BY DEF Waiting, JobAt
  <2>1. PICK i \in Slots(v)' :
           /\ batch'[v][i].job = j /\ batch'[v][i].attempts = n
           /\ i > 1 \/ worker'[v] = "next_job"
    BY <2>0
  <2>2. PICK k \in Slots(v) : /\ batch'[v][i] = batch[v][k]
                              /\ k > 1 \/ worker[v] = "next_job"
    BY <2>1
  <2>3. n \in 1 .. attempts[j]
    BY DEF Waiting
  <2> QED BY <2>1, <2>2, <2>3 DEF Waiting, JobAt
<1> QED BY <1>1, UnspentKept

-----------------------------------------------------------------------------
(* What a claim does. *)

\* The rows of a claim were due and are told apart.
LEMMA BatchRows ==
    ASSUME TypeOK, NEW q \in Batches(Reaped)
    PROVE  /\ q \in Seq(Jobs) /\ Len(q) \in 0 .. BatchSize
           /\ \A i \in 1 .. Len(q) : /\ q[i] \in Jobs /\ q[i] \in InBatch(q)
                                     /\ Reaped[q[i]] = "pending"
           /\ \A i, k \in 1 .. Len(q) : q[i] = q[k] => i = k
<1>1. PICK n \in 0 .. BatchSize : q \in [1 .. n -> Due(Reaped)]
  BY DEF Batches
<1>2. n \in Nat /\ BatchSize \in Nat
  BY <1>1, QueueAssumption
<1>3. Due(Reaped) \subseteq Jobs
  BY DEF Due
<1>4. q \in [1 .. n -> Jobs]
  BY <1>1, <1>3
<1>5. q \in Seq(Jobs) /\ Len(q) = n
  BY <1>2, <1>4
<1>6. \A i \in 1 .. Len(q) : q[i] \in Due(Reaped)
  BY <1>1, <1>5
<1>7. \A i, k \in 1 .. Len(q) : i < k => q[i] # q[k]
  BY DEF Batches, IsOldestFirst
<1>8. \A i, k \in 1 .. Len(q) : q[i] = q[k] => i = k
  BY <1>2, <1>5, <1>7
<1> QED BY <1>2, <1>5, <1>6, <1>8 DEF Due, InBatch

\* The reaper takes a job from its holder only if it says so; where a batch fits in
\* the lease, it takes none.
LEMMA ReapTakes ==
    ASSUME QueueInv, Reap
    PROVE  /\ overtaken \subseteq overtaken' /\ overtaken' \subseteq Jobs /\ LeasesAreKept'
           /\ \A v \in Workers : \A i \in Slots(v) :
                 JobAt(v, i) \notin overtaken' => JobAt(v, i) \notin Stale
<1>1. overtaken \subseteq overtaken' /\ overtaken' \subseteq Jobs
  BY DEF Reap, Stale, QueueInv, TypeOK
<1>2. \A v \in Workers : \A i \in Slots(v) : JobAt(v, i) \in Stale => JobAt(v, i) \in overtaken'
  BY DEF Reap, InHand, Slots, JobAt
<1>3. ASSUME FitsInLease PROVE overtaken' = {}
  <2>1. overtaken = {}
    BY <1>3 DEF QueueInv, LeasesAreKept
  <2>2. ASSUME NEW j \in Stale, NEW v \in Workers, NEW c \in InHand(v), c.job = j PROVE FALSE
    <3>1. PICK i \in Slots(v) : c = batch[v][i]
      BY <2>2 DEF InHand, Slots
    <3> QED BY <1>3, <2>2, <3>1, HeldIsFresh DEF JobAt
  <2> QED BY <2>1, <2>2 DEF Reap
<1>4. LeasesAreKept'
  BY <1>3 DEF LeasesAreKept, FitsInLease
<1> QED BY <1>1, <1>2, <1>4

\* Neither the reaper nor a claim touches a job in somebody's hand, unless the reaper
\* took it.
LEMMA ClaimMissesHeld ==
    ASSUME QueueInv, Reap, NEW q \in Batches(Reaped), NEW v \in Workers, NEW i \in Slots(v),
           JobAt(v, i) \notin overtaken'
    PROVE  JobAt(v, i) \notin InBatch(q) /\ Claimed(Reaped, q)[JobAt(v, i)] = "running"
<1>1. Reaped[JobAt(v, i)] = "running" /\ JobAt(v, i) \in Jobs
  BY ReapTakes, InOneHand DEF Reaped
<1>2. \A k \in 1 .. Len(q) : Reaped[q[k]] = "pending"
  BY BatchRows DEF QueueInv
<1> QED BY <1>1, <1>2 DEF InBatch, Claimed

\* The types of the rows after a claim, and the bound that the CHECK keeps.
LEMMA ClaimTypes ==
    ASSUME QueueInv, NEW q \in Batches(Reaped), ClaimFits(q),
           state' = Claimed(Reaped, q),
           attempts' = [j \in Jobs |-> attempts[j] + IF j \in InBatch(q) THEN 1 ELSE 0],
           age' = [j \in Jobs |-> IF j \in InBatch(q) THEN 0 ELSE age[j]],
           runs' = runs
    PROVE  /\ state' \in [Jobs -> {"none", "pending", "running", "completed", "dead"}]
           /\ attempts' \in [Jobs -> Nat]
           /\ age' \in [Jobs -> 0 .. (LeaseTimeout + 1)]
           /\ \A j \in Jobs : attempts'[j] \in {attempts[j], attempts[j] + 1}
           /\ RunsAreCounted'
<1>1. \A j \in Jobs : attempts[j] \in Nat /\ runs[j] \in Nat /\ MaxAttempts[j] \in Nat
  BY QueueAssumption DEF QueueInv, TypeOK
<1>2. \A j \in InBatch(q) : j \in Jobs
  BY BatchRows DEF QueueInv, InBatch
<1>3. \A j \in Jobs : attempts'[j] = IF j \in InBatch(q) THEN attempts[j] + 1 ELSE attempts[j]
  BY <1>1
<1>4. state' \in [Jobs -> {"none", "pending", "running", "completed", "dead"}]
  BY DEF QueueInv, TypeOK, Claimed, Reaped
<1>5. attempts' \in [Jobs -> Nat]
  BY <1>1
<1>6. age' \in [Jobs -> 0 .. (LeaseTimeout + 1)]
  BY QueueAssumption DEF QueueInv, TypeOK
<1>7. RunsAreCounted'
  BY <1>1, <1>2, <1>3 DEF QueueInv, RunsAreCounted, ClaimFits
<1> QED BY <1>3, <1>4, <1>5, <1>6, <1>7

\* A claim that commits, heard of or not, leaves the claims in hand as they were,
\* unless the reaper took them.
LEMMA ClaimFrame ==
    ASSUME QueueInv, Reap, NEW q \in Batches(Reaped), ClaimFits(q),
           state' = Claimed(Reaped, q),
           attempts' = [j \in Jobs |-> attempts[j] + IF j \in InBatch(q) THEN 1 ELSE 0],
           age' = [j \in Jobs |-> IF j \in InBatch(q) THEN 0 ELSE age[j]],
           NEW v \in Workers, NEW i \in Slots(v)
    PROVE  /\ batch[v][i].attempts >= 1 /\ batch[v][i].attempts <= attempts'[JobAt(v, i)]
           /\ JobAt(v, i) \in overtaken' \/
                 /\ state'[JobAt(v, i)] = "running"
                 /\ attempts'[JobAt(v, i)] = batch[v][i].attempts
           /\ age'[JobAt(v, i)] + TimeOf(Len(batch[v])) <= TimeOf(BatchSize) + Used(v)
<1>1. /\ JobAt(v, i) \in Jobs /\ batch[v][i].attempts \in Nat
      /\ attempts[JobAt(v, i)] \in Nat
  BY InHandType DEF QueueInv, TypeOK
<1>2. batch[v][i].attempts >= 1 /\ batch[v][i].attempts <= attempts[JobAt(v, i)]
  BY DEF QueueInv, Issued
<1>3. attempts'[JobAt(v, i)] \in {attempts[JobAt(v, i)], attempts[JobAt(v, i)] + 1}
  BY <1>1
<1>4. ASSUME JobAt(v, i) \notin overtaken'
      PROVE  state'[JobAt(v, i)] = "running" /\ attempts'[JobAt(v, i)] = batch[v][i].attempts
  <2>1. JobAt(v, i) \notin InBatch(q) /\ Claimed(Reaped, q)[JobAt(v, i)] = "running"
    BY <1>4, ClaimMissesHeld
  <2>2. attempts[JobAt(v, i)] = batch[v][i].attempts
    BY <1>4, ReapTakes, InOneHand
  <2> QED BY <1>1, <2>1, <2>2
<1>5. age'[JobAt(v, i)] + TimeOf(Len(batch[v])) <= TimeOf(BatchSize) + Used(v)
  <2>1. age[JobAt(v, i)] + TimeOf(Len(batch[v])) <= TimeOf(BatchSize) + Used(v)
    BY DEF QueueInv, InTime
  <2>2. age'[JobAt(v, i)] \in {0, age[JobAt(v, i)]}
    BY <1>1
  <2>3. Used(v) \in Nat
    BY QueueAssumption DEF Used, QueueInv, TypeOK
  <2>4. /\ age[JobAt(v, i)] \in Nat /\ TimeOf(Len(batch[v])) \in Nat /\ TimeOf(BatchSize) \in Nat
    BY AgeTypes DEF QueueInv
  <2> QED BY <2>1, <2>2, <2>3, <2>4
<1> QED BY <1>1, <1>2, <1>3, <1>4, <1>5

\* A claim that commits unheard of puts its jobs into nobody's hand.
LEMMA TickLostStep ==
    ASSUME QueueInv, NEW w \in Workers, TickLost(w)
    PROVE  QueueInv'
<1>1. PICK q \in Batches(Reaped) :
         /\ ClaimFits(q)
         /\ state' = Claimed(Reaped, q)
         /\ attempts' = [j \in Jobs |-> attempts[j] + IF j \in InBatch(q) THEN 1 ELSE 0]
         /\ age' = [j \in Jobs |-> IF j \in InBatch(q) THEN 0 ELSE age[j]]
  BY DEF TickLost
<1>2. /\ faults' = faults + 1 /\ faults < MaxFaults /\ Reap
      /\ UNCHANGED <<runIn, worker, batch, since, outcome, runs>>
  BY DEF TickLost, local
<1>3. /\ state' \in [Jobs -> {"none", "pending", "running", "completed", "dead"}]
      /\ attempts' \in [Jobs -> Nat] /\ age' \in [Jobs -> 0 .. (LeaseTimeout + 1)]
      /\ RunsAreCounted'
      /\ \A j \in Jobs : attempts'[j] \in {attempts[j], attempts[j] + 1}
  BY <1>1, <1>2, ClaimTypes
<1>4. TypeOK' /\ LeasesAreKept'
  <2>1. faults' \in 0 .. MaxFaults
    BY <1>2, QueueAssumption DEF QueueInv, TypeOK
  <2>2. overtaken' \subseteq Jobs /\ LeasesAreKept'
    BY <1>2, ReapTakes
  <2> QED BY <1>2, <1>3, <2>1, <2>2 DEF QueueInv, TypeOK
<1>5. \A v \in Workers : \A i \in Slots(v) :
           /\ batch[v][i].attempts >= 1 /\ batch[v][i].attempts <= attempts'[JobAt(v, i)]
           /\ JobAt(v, i) \in overtaken' \/
                 /\ state'[JobAt(v, i)] = "running"
                 /\ attempts'[JobAt(v, i)] = batch[v][i].attempts
           /\ age'[JobAt(v, i)] + TimeOf(Len(batch[v])) <= TimeOf(BatchSize) + Used(v)
  BY <1>1, <1>2, ClaimFrame
<1>6. Busy' /\ ToldApart'
  BY <1>2 DEF QueueInv, Busy, ToldApart, Slots, JobAt
<1>7. Issued' /\ Held'
  BY <1>2, <1>5 DEF Issued, Held, Slots, JobAt
<1>8. InTime'
  BY <1>2, <1>5 DEF InTime, Slots, JobAt, Used, Occupied, TimeOf
<1>9. Unspent'
  <2>1. ASSUME NEW j \in Jobs, NEW n \in Waiting(j)' PROVE n \in Waiting(j)
    <3>0. PICK v \in Workers : \E i \in Slots(v) :
            /\ JobAt(v, i) = j /\ batch[v][i].attempts = n /\ (i > 1 \/ worker[v] = "next_job")
      BY <1>2, <2>1 DEF Waiting, JobAt, Slots
    <3>1. PICK i \in Slots(v) :
            /\ JobAt(v, i) = j /\ batch[v][i].attempts = n /\ (i > 1 \/ worker[v] = "next_job")
      BY <3>0
    <3>2. n >= 1 /\ n <= attempts[j] /\ n \in Nat /\ attempts[j] \in Nat
      BY <3>1, InHandType DEF QueueInv, Issued, TypeOK
    <3> QED BY <3>1, <3>2 DEF Waiting
  <2> QED BY <1>2, <1>3, <1>4, <2>1, UnspentKept
<1> QED BY <1>3, <1>4, <1>6, <1>7, <1>8, <1>9 DEF QueueInv

\* A claim puts the rows it wrote into the hand of its worker.
LEMMA ClaimStep ==
    ASSUME QueueInv, NEW w \in Workers, worker[w] = "sleeping", Reap,
           NEW q \in Batches(Reaped), q # << >>, ClaimFits(q),
           state' = Claimed(Reaped, q),
           attempts' = [j \in Jobs |-> attempts[j] + IF j \in InBatch(q) THEN 1 ELSE 0],
           age' = [j \in Jobs |-> IF j \in InBatch(q) THEN 0 ELSE age[j]],
           batch' = [batch EXCEPT ![w] =
                        [i \in 1 .. Len(q) |-> [job |-> q[i], attempts |-> attempts[q[i]] + 1]]],
           worker' = [worker EXCEPT ![w] = "next_job"],
           UNCHANGED <<runIn, since, outcome, runs, faults>>
    PROVE  QueueInv'
<1> DEFINE given == [i \in 1 .. Len(q) |-> [job |-> q[i], attempts |-> attempts[q[i]] + 1]]
<1>1. /\ Len(q) \in Nat /\ Len(q) <= BatchSize /\ Len(q) > 0
      /\ \A i \in 1 .. Len(q) : q[i] \in Jobs /\ q[i] \in InBatch(q)
      /\ \A i, k \in 1 .. Len(q) : q[i] = q[k] => i = k
  <2>1. q \in Seq(Jobs) /\ Len(q) \in 0 .. BatchSize
    BY BatchRows DEF QueueInv
  <2>2. Len(q) > 0
    BY <2>1, EmptySeq
  <2> QED BY <2>1, <2>2, BatchRows, QueueAssumption DEF QueueInv
<1>2. /\ given \in Seq(Claim) /\ Len(given) = Len(q) /\ given # << >>
      /\ \A i \in 1 .. Len(q) : given[i].job = q[i] /\ given[i].attempts = attempts[q[i]] + 1
  <2>1. \A i \in 1 .. Len(q) : [job |-> q[i], attempts |-> attempts[q[i]] + 1] \in Claim
    BY <1>1 DEF QueueInv, TypeOK, Claim
  <2>2. given \in [1 .. Len(q) -> Claim]
    BY <2>1
  <2>3. given \in Seq(Claim) /\ Len(given) = Len(q)
    BY <1>1, <2>2
  <2>4. Len(<< >>) = 0
    BY EmptySeq
  <2>5. given # << >>
    <3> HIDE DEF given
    <3> QED BY <1>1, <2>3, <2>4
  <2> QED BY <2>3, <2>5
<1> HIDE DEF given
<1>3. /\ batch'[w] = given /\ worker'[w] = "next_job"
      /\ \A v \in Workers \ {w} : batch'[v] = batch[v] /\ worker'[v] = worker[v]
      /\ batch' \in [Workers -> Seq(Claim)] /\ worker' \in [Workers -> WorkerState]
  BY <1>2 DEF QueueInv, TypeOK, Claim, WorkerState, given
<1>4. /\ state' \in [Jobs -> {"none", "pending", "running", "completed", "dead"}]
      /\ attempts' \in [Jobs -> Nat] /\ age' \in [Jobs -> 0 .. (LeaseTimeout + 1)]
      /\ RunsAreCounted'
      /\ \A j \in Jobs : attempts'[j] \in {attempts[j], attempts[j] + 1}
  BY ClaimTypes
<1>5. TypeOK' /\ LeasesAreKept'
  <2>1. overtaken' \subseteq Jobs /\ LeasesAreKept'
    BY ReapTakes
  <2> QED BY <1>3, <1>4, <2>1 DEF QueueInv, TypeOK, Claim
<1>6. \A i \in 1 .. Len(q) : /\ state'[q[i]] = "running" /\ age'[q[i]] = 0
                             /\ attempts'[q[i]] = attempts[q[i]] + 1
                             /\ attempts[q[i]] \in Nat
  BY <1>1 DEF Claimed, QueueInv, TypeOK
\* The worker's new claims ...
<1>7. ASSUME NEW i \in Slots(w)'
      PROVE  /\ i \in 1 .. Len(q) /\ JobAt(w, i)' = q[i] /\ JobAt(w, i)' \in Jobs
             /\ batch'[w][i].attempts = attempts[JobAt(w, i)'] + 1
             /\ batch'[w][i].attempts = attempts'[JobAt(w, i)']
             /\ state'[JobAt(w, i)'] = "running" /\ age'[JobAt(w, i)'] = 0
             /\ attempts[JobAt(w, i)'] \in Nat
  <2>1. i \in 1 .. Len(q) /\ batch'[w][i].job = q[i] /\ batch'[w][i].attempts = attempts[q[i]] + 1
    BY <1>2, <1>3 DEF Slots
  <2>2. JobAt(w, i)' = q[i]
    BY <2>1 DEF JobAt
  <2> QED BY <2>1, <2>2, <1>1, <1>6
\* ... and those in other hands.
<1>8. ASSUME NEW v \in Workers \ {w}, NEW i \in Slots(v)'
      PROVE  /\ i \in Slots(v) /\ JobAt(v, i)' = JobAt(v, i) /\ batch'[v] = batch[v]
             /\ Used(v)' = Used(v)
             /\ batch[v][i].attempts \in Nat /\ JobAt(v, i) \in Jobs
             /\ batch[v][i].attempts >= 1
             /\ batch[v][i].attempts <= attempts[JobAt(v, i)]
             /\ batch[v][i].attempts <= attempts'[JobAt(v, i)]
             /\ JobAt(v, i) \in overtaken' \/
                   (state'[JobAt(v, i)] = "running" /\ attempts'[JobAt(v, i)] = batch[v][i].attempts)
             /\ age'[JobAt(v, i)] + TimeOf(Len(batch[v])) <= TimeOf(BatchSize) + Used(v)
  <2>1. i \in Slots(v) /\ JobAt(v, i)' = JobAt(v, i) /\ batch'[v] = batch[v] /\ Used(v)' = Used(v)
    BY <1>3, <1>8 DEF Slots, JobAt, Used, Occupied
  <2>2. batch[v][i].attempts \in Nat /\ JobAt(v, i) \in Jobs
    BY <2>1, InHandType DEF QueueInv
  <2>3. batch[v][i].attempts <= attempts[JobAt(v, i)]
    BY <2>1 DEF QueueInv, Issued
  <2> QED BY <2>1, <2>2, <2>3, ClaimFrame
<1>9. Busy'
  BY <1>2, <1>3 DEF QueueInv, Busy
<1>10. ToldApart'
  <2> SUFFICES ASSUME NEW v \in Workers, NEW u \in Workers,
                      NEW i \in Slots(v)', NEW k \in Slots(u)', JobAt(v, i)' = JobAt(u, k)',
                      batch'[v][i].attempts = batch'[u][k].attempts
               PROVE  v = u /\ i = k
    BY DEF ToldApart
  <2>1. CASE v = w /\ u = w
    <3>1. i \in 1 .. Len(q) /\ k \in 1 .. Len(q) /\ q[i] = q[k]
      BY <2>1, <1>7
    <3> QED BY <2>1, <3>1, <1>1
  <2>2. CASE v # w /\ u # w
    BY <2>2, <1>8 DEF QueueInv, ToldApart
  <2>3. CASE v = w /\ u # w
    <3>1. batch'[v][i].attempts = attempts[JobAt(v, i)'] + 1 /\ attempts[JobAt(v, i)'] \in Nat
      BY <2>3, <1>7
    <3>2. batch'[u][k].attempts <= attempts[JobAt(u, k)']
      BY <2>3, <1>8
    <3> QED BY <3>1, <3>2
  <2>4. CASE v # w /\ u = w
    <3>1. batch'[u][k].attempts = attempts[JobAt(u, k)'] + 1 /\ attempts[JobAt(u, k)'] \in Nat
      BY <2>4, <1>7
    <3>2. batch'[v][i].attempts <= attempts[JobAt(v, i)']
      BY <2>4, <1>8
    <3> QED BY <3>1, <3>2
  <2> QED BY <2>1, <2>2, <2>3, <2>4
<1>11. Issued' /\ Held'
  <2> SUFFICES ASSUME NEW v \in Workers, NEW i \in Slots(v)'
               PROVE  /\ batch'[v][i].attempts >= 1
                      /\ batch'[v][i].attempts <= attempts'[JobAt(v, i)']
                      /\ JobAt(v, i)' \in overtaken' \/
                            (state'[JobAt(v, i)'] = "running" /\ attempts'[JobAt(v, i)'] = batch'[v][i].attempts)
    BY DEF Issued, Held
  <2>1. CASE v = w
    <3>1. i \in Slots(w)' /\ batch'[v][i].attempts = attempts'[JobAt(v, i)']
      BY <2>1, <1>7
    <3>2. attempts'[JobAt(v, i)'] = attempts[JobAt(v, i)'] + 1 /\ attempts[JobAt(v, i)'] \in Nat
      BY <2>1, <3>1, <1>7
    <3>3. state'[JobAt(v, i)'] = "running"
      BY <2>1, <3>1, <1>7
    <3> HIDE DEF JobAt
    <3> QED BY <3>1, <3>2, <3>3
  <2>2. CASE v # w
    BY <2>2, <1>8
  <2> QED BY <2>1, <2>2
<1>12. InTime'
  <2> SUFFICES ASSUME NEW v \in Workers, NEW i \in Slots(v)'
               PROVE  age'[JobAt(v, i)'] + TimeOf(Len(batch'[v])) <= TimeOf(BatchSize) + Used(v)'
    BY DEF InTime, TimeOf
  <2>1. CASE v = w
    <3>1. Used(w)' = 0 /\ TimeOf(Len(q)) <= TimeOf(BatchSize) /\ TimeOf(Len(q)) \in Nat
      BY <1>1, <1>3, TimeOfGrows, TimeOfStep, QueueAssumption DEF Used, Occupied
    <3>2. TimeOf(BatchSize) \in Nat
      BY TimeOfStep, QueueAssumption
    <3>3. Len(batch'[w]) = Len(q) /\ age'[JobAt(w, i)'] = 0
      BY <2>1, <1>2, <1>3, <1>7
    <3> QED BY <2>1, <3>1, <3>2, <3>3
  <2>2. CASE v # w
    BY <2>2, <1>8
  <2> QED BY <2>1, <2>2
<1>13. Unspent'
  <2>1. ASSUME NEW j \in Jobs, NEW n \in Waiting(j)'
        PROVE  n \in Waiting(j) \/ (attempts'[j] = attempts[j] + 1 /\ n = attempts'[j])
    <3>0. PICK v \in Workers : \E i \in Slots(v)' :
            /\ JobAt(v, i)' = j /\ batch'[v][i].attempts = n /\ (i > 1 \/ worker'[v] = "next_job")
      BY DEF Waiting
    <3>1. PICK i \in Slots(v)' :
            /\ JobAt(v, i)' = j /\ batch'[v][i].attempts = n /\ (i > 1 \/ worker'[v] = "next_job")
      BY <3>0
    <3>2. CASE v = w
      BY <3>1, <3>2, <1>7
    <3>3. CASE v # w
      <4>1. v \in Workers \ {w} /\ i \in Slots(v)'
        BY <3>1, <3>3
      <4>2. i \in Slots(v) /\ JobAt(v, i) = j /\ batch[v][i].attempts = n /\ worker'[v] = worker[v]
        BY <3>1, <4>1, <1>3, <1>8
      <4>3. n \in Nat /\ n >= 1 /\ n <= attempts[j] /\ attempts[j] \in Nat
        BY <4>1, <4>2, <1>8 DEF QueueInv, TypeOK
      <4>4. n \in 1 .. attempts[j] /\ (i > 1 \/ worker[v] = "next_job")
        BY <3>1, <4>2, <4>3
      <4>5. \E u \in Workers : \E k \in Slots(u) :
               /\ JobAt(u, k) = j /\ batch[u][k].attempts = n
               /\ k > 1 \/ worker[u] = "next_job"
        BY <4>1, <4>2, <4>4
      <4>6. n \in Waiting(j)
        BY <4>4, <4>5 DEF Waiting
      <4> QED BY <4>6
    <3> QED BY <3>2, <3>3
  <2>2. \A j \in Jobs : \/ attempts'[j] = attempts[j] /\ Waiting(j)' \subseteq Waiting(j)
                        \/ /\ attempts'[j] = attempts[j] + 1
                           /\ Waiting(j)' \subseteq Waiting(j) \cup {attempts'[j]}
    <3> SUFFICES ASSUME NEW j \in Jobs
                 PROVE  \/ attempts'[j] = attempts[j] /\ Waiting(j)' \subseteq Waiting(j)
                        \/ /\ attempts'[j] = attempts[j] + 1
                           /\ Waiting(j)' \subseteq Waiting(j) \cup {attempts'[j]}
      OBVIOUS
    <3>1. attempts[j] \in Nat
      BY DEF QueueInv, TypeOK
    <3> QED BY <1>4, <2>1, <3>1
  <2> QED BY <1>5, <2>2, UnspentKept
<1> QED BY <1>4, <1>5, <1>9, <1>10, <1>11, <1>12, <1>13 DEF QueueInv

\* The reaper by itself: the claims that it takes from their holders are overtaken.
LEMMA ReapStep ==
    ASSUME QueueInv, state' = Reaped, Reap,
           UNCHANGED <<runIn, attempts, age, worker, batch, since, outcome, runs, faults>>
    PROVE  QueueInv'
<1>1. overtaken \subseteq overtaken' /\ overtaken' \subseteq Jobs /\ LeasesAreKept'
  BY ReapTakes
<1>2. TypeOK'
  BY <1>1 DEF QueueInv, TypeOK, Reaped
<1>3. \A v \in Workers : \A i \in Slots(v) : JobAt(v, i) \in overtaken' \/
         (state'[JobAt(v, i)] = "running" /\ attempts[JobAt(v, i)] = batch[v][i].attempts)
  BY ReapTakes, InOneHand DEF Reaped
<1>4. Held'
  BY <1>3 DEF Held, Slots, JobAt
<1>5. Busy' /\ ToldApart' /\ Issued' /\ InTime' /\ RunsAreCounted'
  BY DEF QueueInv, Busy, ToldApart, Issued, InTime, RunsAreCounted, Slots, JobAt, Used, Occupied, TimeOf
<1>6. Unspent'
  BY <1>2, UnspentFrame DEF Slots
<1> QED BY <1>1, <1>2, <1>4, <1>5, <1>6 DEF QueueInv

LEMMA TickStep ==
    ASSUME QueueInv, NEW w \in Workers, Tick(w)
    PROVE  QueueInv'
<1>1. worker[w] = "sleeping" /\ Reap /\ UNCHANGED <<runIn, since, outcome, runs, faults>>
  BY DEF Tick
<1>2. CASE state' = Reaped /\ UNCHANGED <<attempts, age, batch, worker>>
  BY <1>1, <1>2, ReapStep
<1>3. ASSUME NEW q \in Batches(Reaped), q # << >>, ClaimFits(q),
             state' = Claimed(Reaped, q),
             attempts' = [j \in Jobs |-> attempts[j] + IF j \in InBatch(q) THEN 1 ELSE 0],
             age' = [j \in Jobs |-> IF j \in InBatch(q) THEN 0 ELSE age[j]],
             batch' = [batch EXCEPT ![w] =
                          [i \in 1 .. Len(q) |-> [job |-> q[i], attempts |-> attempts[q[i]] + 1]]],
             worker' = [worker EXCEPT ![w] = "next_job"]
      PROVE  QueueInv'
  BY <1>1, <1>3, ClaimStep
<1> QED BY <1>2, <1>3 DEF Tick

-----------------------------------------------------------------------------
(* The other steps of a worker. *)

\* A new row is in nobody's hand.
LEMMA EnqueueStep ==
    ASSUME QueueInv, NEW j \in Jobs, NEW delay \in Nat, Enqueue(j, delay)
    PROVE  QueueInv'
<1>1. /\ state[j] = "none" /\ state' = [state EXCEPT ![j] = "pending"]
      /\ runIn' = [runIn EXCEPT ![j] = delay]
      /\ UNCHANGED <<attempts, age, worker, batch, since, outcome, runs, overtaken, faults>>
  BY DEF Enqueue, local
<1>2. TypeOK'
  BY <1>1, QueueAssumption DEF QueueInv, TypeOK
<1>3. \A v \in Workers : \A i \in Slots(v) : JobAt(v, i) \in overtaken \/
         (state'[JobAt(v, i)] = "running" /\ attempts[JobAt(v, i)] = batch[v][i].attempts)
  BY <1>1, InOneHand DEF QueueInv, TypeOK
<1>4. Held'
  BY <1>1, <1>3 DEF Held, Slots, JobAt
<1>5. Busy' /\ ToldApart' /\ Issued' /\ InTime' /\ LeasesAreKept' /\ RunsAreCounted'
  BY <1>1 DEF QueueInv, Busy, ToldApart, Issued, InTime, LeasesAreKept, RunsAreCounted, Slots, JobAt,
              Used, Occupied, TimeOf, FitsInLease
<1>6. Unspent'
  BY <1>1, <1>2, UnspentFrame DEF Slots
<1> QED BY <1>2, <1>4, <1>5, <1>6 DEF QueueInv

\* The attempt of the claim pays for the run of its handler.
LEMMA ExecuteStep ==
    ASSUME QueueInv, NEW w \in Workers, Execute(w)
    PROVE  QueueInv'
<1>1. /\ worker[w] = "next_job" /\ batch[w] # << >>
      /\ since' = [since EXCEPT ![w] = 0]
      /\ UNCHANGED <<state, runIn, attempts, age, batch, overtaken, faults>>
  BY DEF Execute, rows, QueueInv, Busy
<1>2. 1 \in Slots(w) /\ Job(w) = JobAt(w, 1) /\ Job(w) \in Jobs
  BY <1>1, TailSlots, InHandType DEF QueueInv, Job, JobAt
<1>3. \/ /\ worker' = [worker EXCEPT ![w] = "handling"]
         /\ runs' = [runs EXCEPT ![Job(w)] = @ + 1] /\ outcome' = outcome
      \/ /\ worker' = [worker EXCEPT ![w] = "recording"]
         /\ runs' = runs /\ outcome' = [outcome EXCEPT ![w] = "permanent"]
  BY DEF Execute, GoTo
<1>4. TypeOK'
  <2>1. since' \in [Workers -> 0 .. HandlerTime]
    BY <1>1, QueueAssumption DEF QueueInv, TypeOK
  <2>2. runs' \in [Jobs -> Nat] /\ outcome' \in [Workers -> Outcomes] /\ worker' \in [Workers -> WorkerState]
    <3>1. /\ outcome \in [Workers -> Outcomes] /\ "permanent" \in Outcomes
          /\ worker \in [Workers -> WorkerState] /\ {"handling", "recording"} \subseteq WorkerState
          /\ runs \in [Jobs -> Nat]
      BY DEF QueueInv, TypeOK, Outcomes, WorkerState
    <3>2. outcome' \in [Workers -> Outcomes] /\ worker' \in [Workers -> WorkerState]
      BY <1>3, <3>1
    <3>3. runs' \in [Jobs -> Nat]
      BY <1>2, <1>3, <3>1
    <3> QED BY <3>2, <3>3
  <2> QED BY <1>1, <2>1, <2>2 DEF QueueInv, TypeOK
<1>5. \A v \in Workers \ {w} : worker'[v] = worker[v]
  BY <1>3 DEF QueueInv, TypeOK
<1>6. worker'[w] \in {"handling", "recording"}
  BY <1>3 DEF QueueInv, TypeOK
<1>7. Busy' /\ ToldApart' /\ Issued' /\ Held' /\ LeasesAreKept'
  <2>1. Busy'
    BY <1>1, <1>5, <1>6 DEF QueueInv, Busy
  <2>2. ToldApart' /\ Issued' /\ Held' /\ LeasesAreKept'
    BY <1>1 DEF QueueInv, ToldApart, Issued, Held, LeasesAreKept, FitsInLease, Slots, JobAt
  <2> QED BY <2>1, <2>2
<1>8. InTime'
  <2>1. Used(w) = 0 /\ Used(w)' \in Nat
    BY <1>1, <1>6, QueueAssumption DEF Used, Occupied, QueueInv, TypeOK
  <2>2. \A v \in Workers \ {w} : Used(v)' = Used(v)
    BY <1>1, <1>5 DEF Used, Occupied, QueueInv, TypeOK
  <2> SUFFICES ASSUME NEW v \in Workers, NEW i \in Slots(v)
               PROVE  age[JobAt(v, i)] + TimeOf(Len(batch[v])) <= TimeOf(BatchSize) + Used(v)'
    BY <1>1 DEF InTime, Slots, JobAt, TimeOf
  <2>3. age[JobAt(v, i)] + TimeOf(Len(batch[v])) <= TimeOf(BatchSize) + Used(v)
    BY DEF QueueInv, InTime
  <2>4. age[JobAt(v, i)] \in Nat /\ TimeOf(Len(batch[v])) \in Nat /\ TimeOf(BatchSize) \in Nat
    BY AgeTypes DEF QueueInv
  <2> QED BY <2>1, <2>2, <2>3, <2>4
<1>9. \A j \in Jobs : runs'[j] = IF runs' # runs /\ j = Job(w) THEN runs[j] + 1 ELSE runs[j]
  BY <1>2, <1>3 DEF QueueInv, TypeOK
\* The attempt of the claim waits no longer.
<1> DEFINE n == batch[w][1].attempts
<1>10. n \in Waiting(Job(w))
  <2>1. n \in Nat /\ n >= 1 /\ n <= attempts[Job(w)] /\ attempts[Job(w)] \in Nat
    BY <1>2, InHandType DEF QueueInv, Issued, TypeOK
  <2>2. n \in 1 .. attempts[Job(w)]
    BY <2>1
  <2> QED BY <1>1, <1>2, <2>2 DEF Waiting
<1>11. ASSUME NEW j \in Jobs, NEW m \in Waiting(j)'
       PROVE  m \in Waiting(j) /\ (j = Job(w) => m # n)
  <2>0. PICK v \in Workers : \E i \in Slots(v) :
          /\ JobAt(v, i) = j /\ batch[v][i].attempts = m /\ (i > 1 \/ worker'[v] = "next_job")
    BY <1>1, <1>11 DEF Waiting, JobAt, Slots
  <2>1. PICK i \in Slots(v) :
          /\ JobAt(v, i) = j /\ batch[v][i].attempts = m /\ (i > 1 \/ worker'[v] = "next_job")
    BY <2>0
  <2>2. ~(v = w /\ i = 1)
    BY <1>6, <2>1
  <2>3. i > 1 \/ worker[v] = "next_job"
    BY <1>1, <1>5, <2>1
  <2>4. m \in 1 .. attempts[j]
    BY <1>1, <1>11 DEF Waiting
  <2>5. m \in Waiting(j)
    BY <2>1, <2>3, <2>4 DEF Waiting
  <2>6. j = Job(w) => m # n
    BY <1>2, <2>1, <2>2 DEF QueueInv, ToldApart
  <2> QED BY <2>5, <2>6
<1> HIDE DEF n
<1>12. Unspent'
  <2> SUFFICES ASSUME NEW j \in Jobs
               PROVE  runs'[j] + Cardinality(Waiting(j)') <= attempts'[j]
    BY DEF Unspent
  <2>1. /\ attempts[j] \in Nat /\ runs[j] \in Nat
        /\ IsFiniteSet(Waiting(j)) /\ Cardinality(Waiting(j)) \in Nat
        /\ runs[j] + Cardinality(Waiting(j)) <= attempts[j]
    BY WaitingIsFinite DEF QueueInv, Unspent
  <2>2. CASE j # Job(w)
    <3>1. Waiting(j)' \subseteq Waiting(j)
      BY <1>11
    <3>2. /\ Cardinality(Waiting(j)') <= Cardinality(Waiting(j)) /\ IsFiniteSet(Waiting(j)')
      BY <2>1, <3>1, FS_Subset
    <3>3. Cardinality(Waiting(j)') \in Nat
      BY <3>2, FS_CardinalityType
    <3> QED BY <1>1, <1>9, <2>1, <2>2, <3>2, <3>3
  <2>3. CASE j = Job(w)
    <3>1. Waiting(j)' \subseteq Waiting(j) \ {n}
      BY <1>11, <2>3
    <3>2. /\ IsFiniteSet(Waiting(j) \ {n})
          /\ Cardinality(Waiting(j) \ {n}) = Cardinality(Waiting(j)) - 1
      BY <1>10, <2>1, <2>3, FS_RemoveElement
    <3>3. /\ Cardinality(Waiting(j)') <= Cardinality(Waiting(j) \ {n}) /\ IsFiniteSet(Waiting(j)')
      BY <3>1, <3>2, FS_Subset
    <3>4. Cardinality(Waiting(j)') \in Nat
      BY <3>3, FS_CardinalityType
    <3>5. runs'[j] \in {runs[j], runs[j] + 1}
      BY <1>9
    <3> QED BY <1>1, <2>1, <3>2, <3>3, <3>4, <3>5
  <2> QED BY <2>2, <2>3
<1>13. RunsAreCounted'
  <2> SUFFICES ASSUME NEW j \in Jobs PROVE runs'[j] <= attempts'[j] /\ attempts'[j] <= MaxAttempts[j]
    BY DEF RunsAreCounted
  <2>1. /\ IsFiniteSet(Waiting(j)) /\ attempts[j] <= MaxAttempts[j]
    BY WaitingIsFinite DEF QueueInv, RunsAreCounted
  <2>2. Waiting(j)' \subseteq Waiting(j)
    BY <1>11
  <2>3. Cardinality(Waiting(j)') \in Nat
    BY <2>1, <2>2, FS_Subset, FS_CardinalityType
  <2>4. runs'[j] \in Nat /\ attempts'[j] \in Nat
    BY <1>4 DEF TypeOK
  <2>5. runs'[j] + Cardinality(Waiting(j)') <= attempts'[j]
    BY <1>12 DEF Unspent
  <2> QED BY <1>1, <2>1, <2>3, <2>4, <2>5
<1> QED BY <1>4, <1>7, <1>8, <1>12, <1>13 DEF QueueInv

\* A handler returns, and may have met a fault.
LEMMA ReturnStep ==
    ASSUME QueueInv, NEW w \in Workers, NEW result \in Outcomes, Returns(w, result),
           faults' \in 0 .. MaxFaults
    PROVE  QueueInv'
<1>1. /\ worker[w] = "handling" /\ worker' = [worker EXCEPT ![w] = "recording"]
      /\ outcome' = [outcome EXCEPT ![w] = result]
      /\ UNCHANGED <<state, runIn, attempts, age, batch, since, runs, overtaken>>
  BY DEF Returns, GoTo, rows
<1>2. TypeOK'
  BY <1>1 DEF QueueInv, TypeOK, WorkerState
<1>3. worker'[w] = "recording" /\ \A v \in Workers \ {w} : worker'[v] = worker[v]
  BY <1>1 DEF QueueInv, TypeOK
<1>4. Busy' /\ ToldApart' /\ Issued' /\ Held' /\ LeasesAreKept' /\ RunsAreCounted'
  BY <1>1, <1>3 DEF QueueInv, Busy, ToldApart, Issued, Held, LeasesAreKept, FitsInLease,
                    RunsAreCounted, Slots, JobAt
<1>5. InTime'
  BY <1>1, <1>3 DEF QueueInv, InTime, Slots, JobAt, Used, Occupied, TimeOf
<1>6. Unspent'
  BY <1>1, <1>2, <1>3, UnspentFrame DEF Slots
<1> QED BY <1>2, <1>4, <1>5, <1>6 DEF QueueInv

\* A worker that stops lets go of its claims; their rows stay running.
LEMMA StopStep ==
    ASSUME QueueInv, NEW w \in Workers, Panic(w) \/ Crash(w) \/ Restart(w)
    PROVE  QueueInv'
<1>1. /\ batch'[w] = << >> /\ worker'[w] \in {"dead", "down", "sleeping"}
      /\ \A v \in Workers \ {w} : batch'[v] = batch[v] /\ worker'[v] = worker[v]
      /\ batch' \in [Workers -> Seq(Claim)] /\ worker' \in [Workers -> WorkerState]
      /\ faults' \in 0 .. MaxFaults
      /\ UNCHANGED <<state, runIn, attempts, age, since, outcome, runs, overtaken>>
  <2>0. << >> \in Seq(Claim)
    BY EmptySeq
  <2>1. CASE Panic(w)
    BY <2>0, <2>1 DEF Panic, GoTo, rows, QueueInv, TypeOK, WorkerState, Claim
  <2>2. CASE Crash(w)
    <3>1. /\ batch' = [batch EXCEPT ![w] = << >>] /\ worker' = [worker EXCEPT ![w] = "down"]
          /\ faults < MaxFaults /\ faults' = faults + 1
          /\ UNCHANGED <<state, runIn, attempts, age, since, outcome, runs, overtaken>>
      BY <2>2 DEF Crash, GoTo, rows
    <3>2. faults' \in 0 .. MaxFaults
      BY <3>1, QueueAssumption DEF QueueInv, TypeOK
    <3>3. batch \in [Workers -> Seq(Claim)] /\ worker \in [Workers -> WorkerState]
          /\ "down" \in WorkerState
      BY DEF QueueInv, TypeOK, Claim, WorkerState
    <3> QED BY <2>0, <3>1, <3>2, <3>3
  <2>3. CASE Restart(w)
    <3>1. batch[w] = << >>
      BY <2>3 DEF Restart, QueueInv, Busy
    <3> QED BY <2>3, <3>1 DEF Restart, GoTo, rows, QueueInv, TypeOK, WorkerState, Claim
  <2> QED BY <2>1, <2>2, <2>3
<1>2. TypeOK'
  BY <1>1 DEF QueueInv, TypeOK, Claim
<1>3. Slots(w)' = {}
  BY <1>1, EmptySeq DEF Slots
<1>4. Busy'
  BY <1>1 DEF QueueInv, Busy
<1>5. \A v \in Workers \ {w} : /\ Slots(v)' = Slots(v) /\ Used(v)' = Used(v)
                               /\ Len(batch'[v]) = Len(batch[v])
                               /\ \A i \in Slots(v) : JobAt(v, i)' = JobAt(v, i)
  BY <1>1 DEF Slots, Used, Occupied, JobAt
<1>6. ASSUME NEW v \in Workers, NEW i \in Slots(v)'
      PROVE  v # w /\ i \in Slots(v) /\ JobAt(v, i)' = JobAt(v, i) /\ batch'[v] = batch[v]
             /\ worker'[v] = worker[v]
  BY <1>1, <1>3, <1>5
<1>7. ToldApart'
  BY <1>6 DEF QueueInv, ToldApart
<1>8. Issued' /\ Held'
  <2>1. UNCHANGED <<state, attempts, overtaken>>
    BY <1>1
  <2>2. \A v \in Workers : \A i \in Slots(v)' :
          i \in Slots(v) /\ JobAt(v, i)' = JobAt(v, i) /\ batch'[v] = batch[v]
    BY <1>6
  <2>3. Issued'
    BY <2>1, <2>2 DEF QueueInv, Issued
  <2>4. Held'
    BY <2>1, <2>2 DEF QueueInv, Held
  <2> QED BY <2>3, <2>4
<1>9. LeasesAreKept' /\ RunsAreCounted'
  BY <1>1 DEF QueueInv, LeasesAreKept, FitsInLease, RunsAreCounted
<1>10. Unspent'
  BY <1>1, <1>2, <1>6, UnspentFrame
<1>11. InTime'
  BY <1>1, <1>3, <1>5 DEF QueueInv, InTime, TimeOf
<1> QED BY <1>2, <1>4, <1>7, <1>8, <1>9, <1>10, <1>11 DEF QueueInv

\* A worker turns to its next claim: the job it is done with took its time, and its
\* row may hold any verdict by now.
LEMMA AdvanceStep ==
    ASSUME QueueInv, TypeOK', NEW w \in Workers, worker[w] = "recording", NextJob(w),
           \A j \in Jobs \ {Job(w)} : state'[j] = state[j],
           UNCHANGED <<attempts, age, since, runs, overtaken>>
    PROVE  Busy' /\ ToldApart' /\ Issued' /\ Held' /\ InTime' /\ Unspent'
<1>1. batch[w] # << >>
  BY DEF QueueInv, Busy
<1>2. /\ batch'[w] = Tail(batch[w])
      /\ worker'[w] = IF Len(batch[w]) = 1 THEN "sleeping" ELSE "next_job"
      /\ \A v \in Workers \ {w} : batch'[v] = batch[v] /\ worker'[v] = worker[v]
  BY DEF NextJob, GoTo, QueueInv, TypeOK
<1>3. /\ 1 \in Slots(w) /\ Job(w) = JobAt(w, 1)
      /\ Tail(batch[w]) \in Seq(Claim) /\ Len(batch[w]) \in Nat
      /\ Len(Tail(batch[w])) = Len(batch[w]) - 1
      /\ \A i \in 1 .. Len(Tail(batch[w])) :
            i + 1 \in Slots(w) /\ Tail(batch[w])[i] = batch[w][i + 1]
  BY <1>1, TailSlots, InHandType DEF QueueInv, Job, JobAt
<1>4. ASSUME NEW v \in Workers, NEW i \in Slots(v)'
      PROVE  IF v = w THEN i + 1 \in Slots(v) /\ batch'[v][i] = batch[v][i + 1] /\ i \in Nat /\ i >= 1
                      ELSE i \in Slots(v) /\ batch'[v][i] = batch[v][i]
  <2>1. CASE v = w
    <3>1. i \in 1 .. Len(Tail(batch[w])) /\ Len(Tail(batch[w])) \in Nat
      BY <2>1, <1>2, <1>3, LenProperties DEF Slots
    <3>2. i + 1 \in Slots(w) /\ batch'[w][i] = batch[w][i + 1]
      BY <3>1, <1>2, <1>3
    <3> QED BY <2>1, <3>1, <3>2
  <2>2. CASE v # w
    BY <2>2, <1>2 DEF Slots
  <2> QED BY <2>1, <2>2
<1> DEFINE Was(v, i) == IF v = w THEN i + 1 ELSE i
<1>5. ASSUME NEW v \in Workers, NEW i \in Slots(v)'
      PROVE  /\ Was(v, i) \in Slots(v) /\ batch'[v][i] = batch[v][Was(v, i)]
             /\ JobAt(v, i)' = JobAt(v, Was(v, i))
             /\ v = w => Was(v, i) > 1 /\ Was(v, i) = i + 1 /\ i \in Nat
             /\ v # w => Was(v, i) = i
  BY <1>4 DEF JobAt
<1> HIDE DEF Was
<1>6. Busy'
  <2>1. Tail(batch[w]) # << >> <=> Len(batch[w]) # 1
    <3>1. Tail(batch[w]) # << >> <=> Len(Tail(batch[w])) # 0
      BY <1>3, EmptySeq
    <3> QED BY <1>3, <3>1
  <2> QED BY <1>2, <2>1 DEF QueueInv, Busy
<1>7. ToldApart'
  <2> SUFFICES ASSUME NEW v \in Workers, NEW u \in Workers,
                      NEW i \in Slots(v)', NEW k \in Slots(u)', JobAt(v, i)' = JobAt(u, k)',
                      batch'[v][i].attempts = batch'[u][k].attempts
               PROVE  v = u /\ i = k
    BY DEF ToldApart
  <2>1. v = u /\ Was(v, i) = Was(u, k)
    BY <1>5 DEF QueueInv, ToldApart
  <2> QED BY <1>5, <2>1
<1>8. ASSUME NEW v \in Workers, NEW i \in Slots(v)', JobAt(v, i)' \notin overtaken
      PROVE  /\ JobAt(v, i)' # Job(w) /\ JobAt(v, i)' \in Jobs
             /\ state'[JobAt(v, i)'] = "running"
             /\ attempts'[JobAt(v, i)'] = batch'[v][i].attempts
  <2>1. ~(v = w /\ Was(v, i) = 1) /\ JobAt(v, Was(v, i)) \notin overtaken
    BY <1>5, <1>8
  <2>2. JobAt(v, Was(v, i)) # Job(w)
    BY <1>3, <1>5, <2>1, InOneHand
  <2>3. /\ JobAt(v, Was(v, i)) \in Jobs
        /\ state[JobAt(v, Was(v, i))] = "running"
        /\ attempts[JobAt(v, Was(v, i))] = batch[v][Was(v, i)].attempts
    BY <1>5, <2>1, InOneHand
  <2> QED BY <1>5, <2>2, <2>3
<1>9. Held' /\ Issued'
  <2>1. Held'
    BY <1>8 DEF Held
  <2>2. Issued'
    BY <1>5 DEF QueueInv, Issued
  <2> QED BY <2>1, <2>2
<1>10. InTime'
  <2> SUFFICES ASSUME NEW v \in Workers, NEW i \in Slots(v)'
               PROVE  age'[JobAt(v, i)'] + TimeOf(Len(batch'[v])) <= TimeOf(BatchSize) + Used(v)'
    BY DEF InTime, TimeOf
  <2>1. age[JobAt(v, Was(v, i))] + TimeOf(Len(batch[v])) <= TimeOf(BatchSize) + Used(v)
    BY <1>5 DEF QueueInv, InTime
  <2>2. CASE v # w
    <3>1. Used(v)' = Used(v) /\ batch'[v] = batch[v]
      BY <2>2, <1>2 DEF Used, Occupied
    <3> QED BY <2>1, <3>1, <1>5
  <2>3. CASE v = w
    <3>1. Used(v) \in Nat /\ Used(v) <= HandlerTime /\ Used(v)' = 0
      BY <2>3, <1>2, QueueAssumption DEF Used, Occupied, QueueInv, TypeOK
    <3>2. Len(batch'[v]) \in Nat /\ Len(batch[v]) = Len(batch'[v]) + 1
      <4>1. Len(Tail(batch[w])) \in Nat
        BY <1>3, LenProperties
      <4> QED BY <2>3, <1>2, <1>3, <4>1
    <3>3. /\ TimeOf(Len(batch[v])) = TimeOf(Len(batch'[v])) + HandlerTime
          /\ TimeOf(Len(batch'[v])) \in Nat /\ HandlerTime \in Nat /\ TimeOf(BatchSize) \in Nat
      BY <3>2, TimeOfStep, QueueAssumption
    <3>4. age[JobAt(v, Was(v, i))] \in Nat
      BY <1>5, AgeTypes DEF QueueInv
    <3>5. age[JobAt(v, Was(v, i))] + TimeOf(Len(batch'[v])) <= TimeOf(BatchSize)
      BY <2>1, <3>1, <3>3, <3>4
    <3> QED BY <1>5, <3>1, <3>3, <3>4, <3>5
  <2> QED BY <2>2, <2>3
<1>11. Unspent'
  <2>1. \A v \in Workers : \A i \in Slots(v)' :
           \E k \in Slots(v) : /\ batch'[v][i] = batch[v][k]
                               /\ i > 1 \/ worker'[v] = "next_job" => k > 1 \/ worker[v] = "next_job"
    BY <1>2, <1>5
  <2> QED BY <2>1, UnspentFrame
<1> QED BY <1>6, <1>7, <1>9, <1>10, <1>11

LEMMA RecordStep ==
    ASSUME QueueInv, NEW w \in Workers, Record(w) \/ RecordLost(w)
    PROVE  QueueInv'
<1>1. /\ worker[w] = "recording" /\ NextJob(w)
      /\ UNCHANGED <<attempts, age, since, outcome, runs, overtaken>>
  BY DEF Record, RecordLost, rows
<1>2. /\ batch[w] # << >> /\ Job(w) \in Jobs
      /\ Tail(batch[w]) \in Seq(Claim) /\ Head(batch[w]).attempts \in Nat
  BY <1>1, TailSlots, InHandType DEF QueueInv, Busy, Job, JobAt
<1>3. /\ state' \in [Jobs -> {"none", "pending", "running", "completed", "dead"}]
      /\ runIn' \in [Jobs -> Int] /\ faults' \in 0 .. MaxFaults
      /\ \A j \in Jobs \ {Job(w)} : state'[j] = state[j]
  <2>1. CASE RecordLost(w)
    BY <2>1, QueueAssumption DEF RecordLost, rows, QueueInv, TypeOK
  <2>2. CASE Record(w)
    <3>1. Verdict(outcome[w], Head(batch[w]).attempts) \in {"completed", "dead", "pending"}
      BY DEF Verdict, QueueInv, TypeOK, Outcomes
    <3>2. RetryDelay(Head(batch[w]).attempts) \in Int
      <4>1. Len(Ladder) \in Nat /\ \A n \in 1 .. Len(Ladder) : Ladder[n] \in Nat
        BY QueueAssumption, LenProperties, ElementOfSeq
      <4> QED BY <1>2, <4>1 DEF RetryDelay
    <3>3. AtLeast(-Overdue, RetryDelay(Head(batch[w]).attempts) - since[w]) \in Int
      <4>1. since[w] \in Int /\ -Overdue \in Int
        BY QueueAssumption DEF QueueInv, TypeOK
      <4> QED BY <3>2, <4>1 DEF AtLeast
    <3> QED BY <2>2, <3>1, <3>3, <1>2 DEF Record, QueueInv, TypeOK
  <2> QED BY <2>1, <2>2
<1>4. batch' \in [Workers -> Seq(Claim)] /\ worker' \in [Workers -> WorkerState]
  BY <1>1, <1>2 DEF NextJob, GoTo, QueueInv, TypeOK, Claim, WorkerState
<1>5. TypeOK'
  BY <1>1, <1>3, <1>4 DEF QueueInv, TypeOK, Claim
<1>6. Busy' /\ ToldApart' /\ Issued' /\ Held' /\ InTime' /\ Unspent'
  BY <1>1, <1>3, <1>5, AdvanceStep
<1>7. RunsAreCounted' /\ LeasesAreKept'
  BY <1>1 DEF QueueInv, RunsAreCounted, LeasesAreKept, FitsInLease
<1> QED BY <1>5, <1>6, <1>7 DEF QueueInv

\* A claim grows older only while its worker is at a job, and no more than that job.
LEMMA PassStep ==
    ASSUME QueueInv, Pass
    PROVE  QueueInv'
<1>1. /\ \A w \in Workers : worker[w] # "next_job" /\ (Occupied(w) => since[w] < HandlerTime)
      /\ runIn' = [j \in Jobs |-> IF state[j] = "pending" THEN AtLeast(-Overdue, runIn[j] - 1)
                                                          ELSE runIn[j]]
      /\ age' = [j \in Jobs |-> IF state[j] = "running" /\ age[j] <= LeaseTimeout
                                THEN age[j] + 1 ELSE age[j]]
      /\ since' = [w \in Workers |-> IF Occupied(w) THEN since[w] + 1 ELSE since[w]]
      /\ UNCHANGED <<state, attempts, worker, batch, outcome, runs, overtaken, faults>>
  BY DEF Pass
<1>2. TypeOK'
  <2>1. runIn' \in [Jobs -> Int]
    BY <1>1, QueueAssumption DEF QueueInv, TypeOK, AtLeast
  <2>2. age' \in [Jobs -> 0 .. (LeaseTimeout + 1)]
    BY <1>1, QueueAssumption DEF QueueInv, TypeOK
  <2>3. since' \in [Workers -> 0 .. HandlerTime]
    BY <1>1, QueueAssumption DEF QueueInv, TypeOK
  <2> QED BY <1>1, <2>1, <2>2, <2>3 DEF QueueInv, TypeOK
<1>3. Busy' /\ ToldApart' /\ Issued' /\ Held' /\ LeasesAreKept' /\ RunsAreCounted'
  BY <1>1 DEF QueueInv, Busy, ToldApart, Issued, Held, LeasesAreKept, FitsInLease, RunsAreCounted,
              Slots, JobAt
<1>4. Unspent'
  BY <1>1, <1>2, UnspentFrame DEF Slots
<1>5. InTime'
  <2> SUFFICES ASSUME NEW v \in Workers, NEW i \in Slots(v)
               PROVE  age'[JobAt(v, i)] + TimeOf(Len(batch[v])) <= TimeOf(BatchSize) + Used(v)'
    BY <1>1 DEF InTime, Slots, JobAt, TimeOf
  <2>1. Occupied(v)
    <3>1. batch[v] # << >>
      BY InHandType DEF QueueInv, Slots
    <3> QED BY <1>1, <3>1 DEF QueueInv, Busy, Occupied
  <2>2. since[v] \in Nat /\ Used(v) = since[v] /\ Used(v)' = since[v] + 1
    BY <1>1, <2>1 DEF Used, Occupied, QueueInv, TypeOK
  <2>3. age[JobAt(v, i)] + TimeOf(Len(batch[v])) <= TimeOf(BatchSize) + Used(v)
    BY DEF QueueInv, InTime
  <2>4. /\ JobAt(v, i) \in Jobs /\ age[JobAt(v, i)] \in Nat
        /\ TimeOf(Len(batch[v])) \in Nat /\ TimeOf(BatchSize) \in Nat
    BY AgeTypes DEF QueueInv
  <2>5. age'[JobAt(v, i)] \in {age[JobAt(v, i)], age[JobAt(v, i)] + 1}
    BY <1>1, <2>4
  <2> QED BY <2>2, <2>3, <2>4, <2>5
<1> QED BY <1>2, <1>3, <1>4, <1>5 DEF QueueInv

-----------------------------------------------------------------------------
(* The theorems. *)

LEMMA InitQueue == Init => QueueInv
<1> SUFFICES ASSUME Init PROVE QueueInv
  OBVIOUS
<1>1. << >> \in Seq(Claim) /\ Len(<< >>) = 0
  BY EmptySeq
<1>2. TypeOK
  BY <1>1, QueueAssumption DEF Init, TypeOK, Claim, WorkerState, Outcomes
<1>3. \A w \in Workers : Slots(w) = {} /\ batch[w] = << >> /\ worker[w] = "sleeping"
  BY <1>1 DEF Init, Slots
<1>4. RunsAreCounted /\ LeasesAreKept
  BY QueueAssumption DEF Init, RunsAreCounted, LeasesAreKept
<1>5. Unspent
  <2>1. \A j \in Jobs : Waiting(j) = {}
    BY <1>3 DEF Waiting
  <2>2. Cardinality({}) = 0
    BY FS_EmptySet
  <2>3. \A j \in Jobs : runs[j] = 0 /\ attempts[j] = 0
    BY DEF Init
  <2>4. \A j \in Jobs : runs[j] + Cardinality(Waiting(j)) = 0
    BY <2>1, <2>2, <2>3
  <2> QED BY <2>3, <2>4 DEF Unspent
<1> QED BY <1>2, <1>3, <1>4, <1>5 DEF QueueInv, Busy, ToldApart, Issued, Held, InTime

LEMMA NextQueue == QueueInv /\ [Next]_vars => QueueInv'
<1> SUFFICES ASSUME QueueInv, [Next]_vars PROVE QueueInv'
  OBVIOUS
<1>1. CASE UNCHANGED vars
  <2>1. UNCHANGED <<state, runIn, attempts, age, worker, batch, since, outcome, runs, overtaken, faults>>
    BY <1>1 DEF vars, rows, local
  <2>2. TypeOK'
    BY <2>1 DEF QueueInv, TypeOK
  <2>3. Busy' /\ ToldApart' /\ Issued' /\ Held' /\ LeasesAreKept' /\ RunsAreCounted'
    BY <2>1 DEF QueueInv, Busy, ToldApart, Issued, Held, LeasesAreKept, FitsInLease,
                RunsAreCounted, Slots, JobAt
  <2>4. InTime'
    BY <2>1 DEF QueueInv, InTime, Slots, JobAt, Used, Occupied, TimeOf
  <2>5. Unspent'
    BY <2>1, <2>2, UnspentFrame DEF Slots
  <2> QED BY <2>2, <2>3, <2>4, <2>5 DEF QueueInv
<1>2. ASSUME NEW j \in Jobs, NEW delay \in Delays, Enqueue(j, delay) PROVE QueueInv'
  BY <1>2, EnqueueStep, QueueAssumption
<1>3. ASSUME NEW w \in Workers, WorkerStep(w) \/ Fault(w) \/ Restart(w) PROVE QueueInv'
  <2>1. ASSUME NEW result \in Outcomes, Handle(w, result) PROVE QueueInv'
    BY <2>1, ReturnStep DEF Handle, QueueInv, TypeOK
  <2> QED BY <1>3, <2>1, TickStep, TickLostStep, ExecuteStep, StopStep, RecordStep
          DEF WorkerStep, Fault
<1>4. CASE Pass
  BY <1>4, PassStep
<1> QED BY <1>1, <1>2, <1>3, <1>4 DEF Next

\* The rows of the claims in hand are leased to their holders, but for the jobs that
\* the reaper took from them.
THEOREM QueueInvariance == Spec => []QueueInv
BY InitQueue, NextQueue, PTL DEF Spec

\* If a batch fits in the lease, the reaper takes no job from a worker that is alive.
THEOREM LeasesStayKept == Spec => []LeasesAreKept
<1>1. QueueInv => LeasesAreKept
  BY DEF QueueInv
<1> QED BY <1>1, QueueInvariance, PTL

\* No job is in the hands of two workers, although its row lock is gone, unless the
\* reaper took it from one; however long a handler takes.
THEOREM ClaimsStayExclusive == Spec => []ClaimsAreExclusive
<1>1. QueueInv => ClaimsAreExclusive
  <2> SUFFICES ASSUME QueueInv PROVE ClaimsAreExclusive
    OBVIOUS
  <2>1. ASSUME NEW w \in Workers, NEW v \in Workers, w # v,
               NEW c \in InHand(w), NEW d \in InHand(v), c.job = d.job
        PROVE  c.job \in overtaken
    <3>1. PICK i \in Slots(w) : c = batch[w][i]
      BY DEF InHand, Slots
    <3>2. PICK k \in Slots(v) : d = batch[v][k]
      BY DEF InHand, Slots
    <3> QED BY <2>1, <3>1, <3>2, InOneHand DEF JobAt
  <2>2. ASSUME NEW w \in Workers, NEW c \in InHand(w)
        PROVE  c.job \in overtaken \/ (state[c.job] = "running" /\ attempts[c.job] = c.attempts)
    <3>1. PICK i \in Slots(w) : c = batch[w][i]
      BY DEF InHand, Slots
    <3> QED BY <3>1 DEF QueueInv, Held, JobAt
  <2> QED BY <2>1, <2>2 DEF ClaimsAreExclusive
<1> QED BY <1>1, QueueInvariance, PTL

\* Each run of a handler was paid for by an attempt, and attempts stay within the
\* CHECK of the table, however late the workers are.
THEOREM RunsStayCounted == Spec => []RunsAreCounted
<1>1. QueueInv => RunsAreCounted
  BY DEF QueueInv
<1> QED BY <1>1, QueueInvariance, PTL

\* An outcome that is written by id alone revives no job that has ended, unless the
\* reaper took the job from a holder that was alive and late.
THEOREM EndedStaysEnded == Spec => EndedIsFinal
<1>1. QueueInv /\ [Next]_vars =>
        [\A j \in Jobs : Ended(j) /\ j \notin overtaken => state'[j] = state[j]]_vars
  <2> SUFFICES ASSUME QueueInv, Next, NEW j \in Jobs, Ended(j), j \notin overtaken
               PROVE  state'[j] = state[j]
    OBVIOUS
  <2>1. ASSUME NEW i \in Jobs, NEW delay \in Delays, Enqueue(i, delay) PROVE state'[j] = state[j]
    BY <2>1 DEF Enqueue, Ended, QueueInv, TypeOK
  <2>2. ASSUME NEW w \in Workers, Tick(w) \/ TickLost(w) PROVE state'[j] = state[j]
    <3>1. Reaped[j] = state[j]
      BY DEF Reaped, Stale, Ended
    <3>2. ASSUME NEW q \in Batches(Reaped) PROVE Claimed(Reaped, q)[j] = state[j]
      <4>1. j \notin InBatch(q)
        BY <3>1, BatchRows DEF InBatch, Ended, QueueInv
      <4> QED BY <3>1, <4>1 DEF Claimed
    <3> QED BY <2>2, <3>1, <3>2 DEF Tick, TickLost
  <2>3. ASSUME NEW w \in Workers, Record(w) PROVE state'[j] = state[j]
    <3>1. worker[w] = "recording" /\ batch[w] # << >>
      BY <2>3 DEF Record, QueueInv, Busy
    <3>2. 1 \in Slots(w) /\ Job(w) = JobAt(w, 1)
      BY <3>1, TailSlots DEF QueueInv, Job, JobAt
    <3>3. Job(w) \in overtaken \/ state[Job(w)] = "running"
      BY <3>2, InOneHand
    <3> QED BY <2>3, <3>3 DEF Record, Ended, QueueInv, TypeOK
  <2>4. CASE Pass
    BY <2>4 DEF Pass
  <2>5. ASSUME NEW w \in Workers, WorkerStep(w) \/ Fault(w) \/ Restart(w) PROVE state'[j] = state[j]
    BY <2>2, <2>3, <2>5 DEF WorkerStep, Fault, Execute, Handle, Returns, Panic, RecordLost,
                            Crash, Restart, rows
  <2> QED BY <2>1, <2>4, <2>5 DEF Next
<1> QED BY <1>1, QueueInvariance, PTL DEF Spec, EndedIsFinal

-----------------------------------------------------------------------------
(* The deliveries. *)

\* A worker is in the handler exactly while it handles a job.
PhaseFits == \A w \in Workers : Delivers(w) <=> phase[w] # "idle"

\* The endpoint has taken the event of job j, and its worker or its row knows.
Done(w, result) == worker[w] = "recording" /\ outcome[w] = result
KnowsTaken(w) == At(w, "delivered") \/ Done(w, "ok")
Known(j) == state[j] = "completed" \/ \E w \in Workers : KnowsTaken(w) /\ Job(w) = j

TakenOnce == \A j \in Jobs :
    /\ Known(j) => received[j] > 0
    /\ received[j] <= faults + IF Known(j) THEN 1 ELSE 0
LoggedBefore ==
    /\ \A j \in Jobs : state[j] = "completed" => status[j] = "delivered"
    /\ \A w \in Workers : Done(w, "ok") => status[Job(w)] = "delivered"

DeliveryInv == FitsInLease /\ QueueInv /\ DeliveryTypeOK /\ PhaseFits /\ TakenOnce /\ LoggedBefore

\* While nothing has failed: a running job is in somebody's hand, ...
Owned == \A j \in Jobs : state[j] = "running" =>
    \E w \in Workers : \E i \in Slots(w) : JobAt(w, i) = j

\* ... its row waits for the attempt that its claim has begun, ...
Waits(j) == attempt[j] = attempts[j] /\ status[j] \in {"pending", "failed"}
RowsWait == \A w \in Workers : \A i \in Slots(w) :
    i > 1 \/ worker[w] # "recording" => Waits(JobAt(w, i))
SeenIsCurrent == \A w \in Workers :
    Delivers(w) /\ phase[w] # "load" => seen[w] = attempts[Job(w)]

\* ... or tells already what the queue is about to record, ...
RowTells(w) ==
    LET j == Job(w)
        n == attempts[j]
    IN  CASE outcome[w] = "ok"        -> attempt[j] = n /\ status[j] = "delivered"
          [] outcome[w] = "permanent" -> attempt[j] = n /\ status[j] = "dead"
          [] outcome[w] = "retryable" -> attempt[j] = NextAttempt(n) /\ status[j] = RowStatus(n)
RowsTell == \A w \in Workers : worker[w] = "recording" => RowTells(w)

\* ... and a job that waits has a rung of the ladder behind it.
OnLadder == \A j \in Jobs : state[j] = "pending" => attempts[j] <= Len(Ladder)
Unborn == \A j \in Jobs : state[j] = "none" => attempts[j] = 0 /\ attempt[j] = 1

InStep == Lockstep /\ Owned /\ RowsWait /\ SeenIsCurrent /\ RowsTell /\ OnLadder
StepInv == Unborn /\ (faults = 0 => InStep)
-----------------------------------------------------------------------------
(* The queue underneath. *)

\* Where a batch fits in the lease, a claim in hand has its row to itself.
LEMMA LeasedClaim ==
    ASSUME QueueInv, FitsInLease, NEW w \in Workers, NEW i \in Slots(w)
    PROVE  /\ JobAt(w, i) \in Jobs /\ state[JobAt(w, i)] = "running"
           /\ JobAt(w, i) \notin Stale
           /\ attempts[JobAt(w, i)] = batch[w][i].attempts
           /\ \A v \in Workers : \A k \in Slots(v) : JobAt(v, k) = JobAt(w, i) => v = w /\ k = i
<1>1. JobAt(w, i) \notin overtaken
  BY DEF QueueInv, LeasesAreKept
<1> QED BY <1>1, InOneHand, HeldIsFresh

\* The job a worker is at is held by nobody else, at the attempt it was claimed for.
LEMMA AtHead ==
    ASSUME QueueInv, FitsInLease, NEW w \in Workers,
           worker[w] \in {"next_job", "handling", "recording"}
    PROVE  /\ 1 \in Slots(w) /\ Job(w) = JobAt(w, 1) /\ Job(w) \in Jobs
           /\ state[Job(w)] = "running"
           /\ attempts[Job(w)] \in Nat /\ Head(batch[w]).attempts = attempts[Job(w)]
           /\ \A v \in Workers : \A i \in Slots(v) : JobAt(v, i) = Job(w) => v = w /\ i = 1
<1>1. batch[w] # << >>
  BY DEF QueueInv, Busy
<1>2. 1 \in Slots(w) /\ Head(batch[w]) = batch[w][1] /\ Job(w) = JobAt(w, 1)
  BY <1>1, TailSlots DEF QueueInv, Job, JobAt
<1>3. JobAt(w, 1) \in Jobs /\ attempts[JobAt(w, 1)] \in Nat
  BY <1>2, InHandType DEF QueueInv, TypeOK
<1> QED BY <1>2, <1>3, LeasedClaim

\* Two workers are never at the same job.
LEMMA HeadsApart ==
    ASSUME QueueInv, FitsInLease, NEW w \in Workers, NEW v \in Workers, w # v,
           worker[w] \in {"next_job", "handling", "recording"},
           worker[v] \in {"next_job", "handling", "recording"}
    PROVE  Job(w) # Job(v)
BY AtHead

\* A handler that stays where it is leaves the queue alone, but for the faults.
LEMMA StaysStep ==
    ASSUME QueueInv, NEW w \in Workers, Stays(w), faults' \in 0 .. MaxFaults
    PROVE  QueueInv'
<1>1. UNCHANGED <<state, runIn, attempts, age, worker, batch, since, outcome, runs, overtaken>>
  BY DEF Stays, rows, local
<1>2. TypeOK'
  BY <1>1 DEF QueueInv, TypeOK
<1>3. Busy' /\ ToldApart' /\ Issued' /\ Held' /\ LeasesAreKept' /\ RunsAreCounted'
  BY <1>1 DEF QueueInv, Busy, ToldApart, Issued, Held, LeasesAreKept, FitsInLease,
              RunsAreCounted, Slots, JobAt
<1>4. InTime'
  BY <1>1 DEF QueueInv, InTime, Slots, JobAt, Used, Occupied, TimeOf
<1>5. Unspent'
  BY <1>1, <1>2, UnspentFrame DEF Slots
<1> QED BY <1>2, <1>3, <1>4, <1>5 DEF QueueInv

\* Every step of the delivery is one of the queue's, as far as the queue is concerned.
LEMMA QueueUnderDelivery ==
    ASSUME QueueInv, [DeliveryNext]_allVars
    PROVE  QueueInv'
<1>0. /\ faults \in 0 .. MaxFaults /\ MaxFaults \in Nat
      /\ "ok" \in Outcomes /\ "retryable" \in Outcomes /\ "permanent" \in Outcomes
  BY QueueAssumption DEF QueueInv, TypeOK, Outcomes
<1>1. ASSUME faults' = faults \/ Fails PROVE faults' \in 0 .. MaxFaults
  BY <1>0, <1>1 DEF Fails
<1>2. CASE UNCHANGED queue
  <2>1. UNCHANGED vars
    BY <1>2 DEF queue, vars
  <2> QED BY <2>1, NextQueue
<1>3. ASSUME NEW j \in Jobs, Emit(j) PROVE QueueInv'
  BY <1>3, EnqueueStep DEF Emit
<1>4. ASSUME NEW w \in Workers,
             Load(w) \/ Accepted(w) \/ Refused(w) \/ AnswerLost(w)
      PROVE  QueueInv'
  <2>1. Stays(w) /\ faults' \in 0 .. MaxFaults
    BY <1>1, <1>4 DEF Load, Accepted, Refused, AnswerLost
  <2> QED BY <2>1, StaysStep
<1>5. ASSUME NEW w \in Workers,
             LoadFails(w) \/ StoreDisabled(w) \/ StoreDelivered(w) \/ StoreFailed(w)
      PROVE  QueueInv'
  <2>1. PICK result \in Outcomes : Returns(w, result) /\ faults' \in 0 .. MaxFaults
    BY <1>0, <1>1, <1>5 DEF LoadFails, StoreDisabled, StoreDelivered, StoreFailed
  <2> QED BY <2>1, ReturnStep
<1>6. ASSUME NEW w \in Workers, Begin(w) \/ Dies(w) \/ Revive(w) PROVE QueueInv'
  BY <1>6, ExecuteStep, StopStep DEF Begin, Dies, Revive
<1>7. ASSUME NEW w \in Workers, Tick(w) \/ Record(w) \/ TickLost(w) \/ RecordLost(w)
      PROVE  QueueInv'
  BY <1>7, TickStep, RecordStep, TickLostStep
<1>8. CASE Wait
  BY <1>8, PassStep DEF Wait
<1> QED BY <1>2, <1>3, <1>4, <1>5, <1>6, <1>7, <1>8
        DEF DeliveryNext, DeliverStep, DeliverFault, DisableEndpoint, allVars

\* The types of what the delivery adds.
LEMMA DeliveryTypes ==
    ASSUME FitsInLease, QueueInv, DeliveryTypeOK, [DeliveryNext]_allVars
    PROVE  DeliveryTypeOK'
<1> DEFINE Statuses == {"none", "pending", "failed", "delivered", "dead"}
           Steps == {"idle", "load", "send", "disabled", "delivered", "failed"}
           Typed == /\ status' \in [Jobs -> Statuses] /\ attempt' \in [Jobs -> Nat]
                    /\ active' \subseteq Endpoints /\ phase' \in [Workers -> Steps]
                    /\ seen' \in [Workers -> Nat] /\ received' \in [Jobs -> Nat]
<1>1. /\ status \in [Jobs -> Statuses] /\ attempt \in [Jobs -> Nat] /\ active \subseteq Endpoints
      /\ phase \in [Workers -> Steps] /\ seen \in [Workers -> Nat] /\ received \in [Jobs -> Nat]
  BY DEF DeliveryTypeOK
<1>2. ASSUME UNCHANGED <<delivery, handler>> PROVE Typed
  BY <1>1, <1>2 DEF delivery, handler
<1>3. ASSUME NEW j \in Jobs, Emit(j) PROVE Typed
  BY <1>1, <1>3 DEF Emit, handler
<1>4. ASSUME NEW e \in Endpoints, DisableEndpoint(e) PROVE Typed
  BY <1>1, <1>4 DEF DisableEndpoint, handler
<1>5. ASSUME NEW w \in Workers, Begin(w) \/ Dies(w) PROVE Typed
  BY <1>1, <1>5 DEF Begin, Dies, Enter, delivery
<1>6. ASSUME NEW w \in Workers, Delivers(w),
             Load(w) \/ LoadFails(w) \/ Accepted(w) \/ Refused(w) \/ AnswerLost(w)
      PROVE  Typed
  <2>1. Job(w) \in Jobs /\ attempt[Job(w)] \in Nat
    BY <1>1, <1>6, AtHead DEF Delivers
  <2>2. CASE Load(w)
    BY <1>1, <2>1, <2>2 DEF Load, Enter, delivery
  <2>3. CASE LoadFails(w) \/ Refused(w)
    BY <1>1, <2>3 DEF LoadFails, Refused, Enter, delivery
  <2>4. CASE Accepted(w) \/ AnswerLost(w)
    <3>1. received' = [received EXCEPT ![Job(w)] = @ + 1] /\ UNCHANGED <<delivery, seen>>
      BY <2>4 DEF Accepted, AnswerLost
    <3>2. received' \in [Jobs -> Nat]
      BY <1>1, <2>1, <3>1
    <3>3. phase' \in [Workers -> Steps]
      BY <1>1, <2>4 DEF Accepted, AnswerLost, Enter
    <3> QED BY <1>1, <3>1, <3>2, <3>3 DEF delivery
  <2> QED BY <1>6, <2>2, <2>3, <2>4
<1>7. ASSUME NEW w \in Workers, Delivers(w),
             StoreDisabled(w) \/ StoreDelivered(w) \/ StoreFailed(w)
      PROVE  Typed
  <2>1. Job(w) \in Jobs /\ seen[w] \in Nat /\ NextAttempt(seen[w]) \in Nat
        /\ RowStatus(seen[w]) \in Statuses
    BY <1>1, <1>7, AtHead DEF Delivers, NextAttempt, RowStatus
  <2>2. status' \in [Jobs -> Statuses] /\ attempt' \in [Jobs -> Nat]
    <3>1. PICK r \in Statuses, n \in Nat : RecordAttempt(Job(w), r, n) \/ Stored(Job(w), r, n)
      BY <1>7, <2>1 DEF StoreDisabled, StoreDelivered, StoreFailed
    <3> QED BY <1>1, <2>1, <3>1 DEF RecordAttempt, Stored
  <2>3. phase' \in [Workers -> Steps] /\ UNCHANGED <<active, seen, received>>
    BY <1>1, <1>7 DEF StoreDisabled, StoreDelivered, StoreFailed, Enter
  <2> QED BY <1>1, <2>2, <2>3
<1>8. Typed
  <2> HIDE DEF Typed
  <2>1. ASSUME NEW w \in Workers, DeliverStep(w) \/ DeliverFault(w) \/ Revive(w) PROVE Typed
    BY <1>2, <1>5, <1>6, <1>7, <2>1
       DEF DeliverStep, DeliverFault, Revive, Apart, At, Load, LoadFails, Accepted, Refused,
           AnswerLost, StoreDisabled, StoreDelivered, StoreFailed
  <2>2. CASE Wait \/ UNCHANGED allVars
    BY <1>2, <2>2 DEF Wait, Apart, allVars
  <2> QED BY <1>3, <1>4, <2>1, <2>2 DEF DeliveryNext
<1>9. TypeOK'
  BY QueueUnderDelivery DEF QueueInv
<1> QED BY <1>8, <1>9 DEF DeliveryTypeOK

LEMMA InvTypes ==
    ASSUME DeliveryInv
    PROVE  /\ FitsInLease /\ QueueInv /\ faults \in Nat
           /\ state \in [Jobs -> {"none", "pending", "running", "completed", "dead"}]
           /\ attempts \in [Jobs -> Nat] /\ worker \in [Workers -> WorkerState]
           /\ batch \in [Workers -> Seq(Claim)] /\ outcome \in [Workers -> Outcomes]
           /\ status \in [Jobs -> {"none", "pending", "failed", "delivered", "dead"}]
           /\ attempt \in [Jobs -> Nat] /\ received \in [Jobs -> Nat] /\ seen \in [Workers -> Nat]
           /\ phase \in [Workers -> {"idle", "load", "send", "disabled", "delivered", "failed"}]
<1>1. FitsInLease /\ QueueInv /\ DeliveryTypeOK /\ TypeOK
  BY DEF DeliveryInv, QueueInv
<1>2. faults \in Nat
  BY <1>1, QueueAssumption DEF TypeOK
<1> QED BY <1>1, <1>2 DEF TypeOK, DeliveryTypeOK, Claim

-----------------------------------------------------------------------------
(* What is known to be taken. *)

\* Nobody takes an event in this step.  Who knows of one afterwards knew before; and
\* the knowledge passes from the worker to the row, or a fault has lost it.
LEMMA TakenFrame ==
    ASSUME DeliveryInv, faults' \in {faults, faults + 1}, received' = received,
           \A v \in Workers : KnowsTaken(v)' => KnowsTaken(v) /\ Job(v)' = Job(v),
           \A j \in Jobs : state'[j] = "completed" => Known(j),
           faults' = faults =>
              /\ \A j \in Jobs : state[j] = "completed" => state'[j] = "completed"
              /\ \A v \in Workers : KnowsTaken(v) =>
                    (KnowsTaken(v)' /\ Job(v)' = Job(v)) \/ state'[Job(v)] = "completed"
    PROVE  TakenOnce'
<1> SUFFICES ASSUME NEW j \in Jobs
             PROVE  /\ Known(j)' => received[j] > 0
                    /\ received[j] <= faults' + IF Known(j)' THEN 1 ELSE 0
  BY DEF TakenOnce
<1>1. /\ Known(j) => received[j] > 0
      /\ received[j] <= faults + IF Known(j) THEN 1 ELSE 0
      /\ received[j] \in Nat /\ faults \in Nat
  BY QueueAssumption DEF DeliveryInv, TakenOnce, DeliveryTypeOK, QueueInv, TypeOK
<1>2. Known(j)' => Known(j)
  BY DEF Known
<1>3. faults' = faults => (Known(j) => Known(j)')
  BY DEF Known
<1> QED BY <1>1, <1>2, <1>3

\* The log is left alone, and what is completed or about to be was so before.
LEMMA LogFrame ==
    ASSUME DeliveryInv, status' = status,
           \A j \in Jobs : state'[j] = "completed" =>
              state[j] = "completed" \/ \E w \in Workers : Done(w, "ok") /\ Job(w) = j,
           \A v \in Workers : Done(v, "ok")' => Done(v, "ok") /\ Job(v)' = Job(v)
    PROVE  LoggedBefore'
BY DEF DeliveryInv, LoggedBefore

\* A tick neither ends a job nor brings one back.
LEMMA TickEndsNothing ==
    ASSUME QueueInv, NEW w \in Workers, Tick(w) \/ TickLost(w), NEW j \in Jobs
    PROVE  /\ state'[j] = "completed" <=> state[j] = "completed"
           /\ state[j] = "none" => state'[j] = "none"
           /\ state'[j] = "none" => state[j] = "none"
<1>1. /\ Reaped[j] = IF j \in Stale THEN "pending" ELSE state[j]
      /\ j \in Stale => state[j] = "running"
  BY DEF Reaped, Stale
<1>2. ASSUME NEW q \in Batches(Reaped)
      PROVE  Claimed(Reaped, q)[j] = Reaped[j]
             \/ (Reaped[j] = "pending" /\ Claimed(Reaped, q)[j] = "running")
  <2>1. j \in InBatch(q) => Reaped[j] = "pending"
    BY BatchRows DEF InBatch, QueueInv
  <2> QED BY <2>1 DEF Claimed
<1>3. state' = Reaped \/ \E q \in Batches(Reaped) : state' = Claimed(Reaped, q)
  BY DEF Tick, TickLost
<1> QED BY <1>1, <1>2, <1>3

\* The steps in which the queue works for itself.
LEMMA QueueSteps ==
    ASSUME DeliveryInv, NEW w \in Workers, UNCHANGED <<phase, seen, received>>, status' = status,
           Tick(w) \/ TickLost(w) \/ Record(w) \/ RecordLost(w) \/ Restart(w)
    PROVE  PhaseFits' /\ TakenOnce' /\ LoggedBefore'
<1>1. /\ worker \in [Workers -> WorkerState] /\ FitsInLease /\ QueueInv /\ batch \in [Workers -> Seq(Claim)]
      /\ state \in [Jobs -> {"none", "pending", "running", "completed", "dead"}]
  BY DEF DeliveryInv, QueueInv, TypeOK, Claim
<1>2. /\ \A v \in Workers \ {w} : worker'[v] = worker[v] /\ batch'[v] = batch[v]
      /\ worker[w] \notin {"handling"} /\ worker'[w] \notin {"handling", "recording"}
      /\ outcome' = outcome
  BY <1>1 DEF Tick, TickLost, Record, RecordLost, Restart, NextJob, GoTo, rows, local
<1>3. PhaseFits'
  BY <1>2 DEF DeliveryInv, PhaseFits, Delivers
<1>4. /\ \A v \in Workers \ {w} :
            /\ KnowsTaken(v)' <=> KnowsTaken(v)
            /\ Done(v, "ok")' <=> Done(v, "ok")
            /\ Job(v)' = Job(v)
      /\ ~KnowsTaken(w)' /\ ~Done(w, "ok")'
  BY <1>2 DEF KnowsTaken, At, Delivers, Done, Job
<1>5. CASE Tick(w) \/ TickLost(w)
  <2>1. ~KnowsTaken(w) /\ faults' \in {faults, faults + 1}
    BY <1>5 DEF Tick, TickLost, KnowsTaken, At, Delivers, Done
  <2>2. \A j \in Jobs : state'[j] = "completed" <=> state[j] = "completed"
    BY <1>1, <1>5, TickEndsNothing
  <2>3. TakenOnce'
    BY <1>4, <2>1, <2>2, TakenFrame DEF Known
  <2> QED BY <1>3, <1>4, <2>2, <2>3, LogFrame
<1>6. CASE RecordLost(w) \/ Restart(w)
  <2>1. state' = state /\ faults' \in {faults, faults + 1}
        /\ (faults' = faults => ~KnowsTaken(w))
    <3>1. CASE RecordLost(w)
      BY <3>1, QueueAssumption DEF RecordLost, rows, DeliveryInv, QueueInv, TypeOK
    <3>2. CASE Restart(w)
      BY <3>2 DEF Restart, rows, KnowsTaken, At, Delivers, Done
    <3> QED BY <1>6, <3>1, <3>2
  <2>2. TakenOnce'
    BY <1>4, <2>1, TakenFrame DEF Known
  <2> QED BY <1>3, <1>4, <2>1, <2>2, LogFrame
<1>7. CASE Record(w)
  <2>1. worker[w] = "recording" /\ faults' = faults
        /\ state' = [state EXCEPT ![Job(w)] = Verdict(outcome[w], Head(batch[w]).attempts)]
    BY <1>7 DEF Record
  <2>2. Job(w) \in Jobs /\ state[Job(w)] = "running"
    BY <1>1, <2>1, AtHead
  <2>3. outcome[w] \in Outcomes
    BY DEF DeliveryInv, QueueInv, TypeOK
  <2>4. Verdict(outcome[w], Head(batch[w]).attempts) = "completed" <=> outcome[w] = "ok"
    BY <2>3 DEF Verdict, Outcomes
  <2>5. /\ \A j \in Jobs \ {Job(w)} : state'[j] = state[j]
        /\ state'[Job(w)] = "completed" <=> outcome[w] = "ok"
    BY <1>1, <2>1, <2>2, <2>4
  <2>6. Done(w, "ok") <=> outcome[w] = "ok"
    BY <2>1 DEF Done
  <2>7. KnowsTaken(w) <=> outcome[w] = "ok"
    BY <2>1, <2>6 DEF KnowsTaken, At, Delivers
  <2>8. \A j \in Jobs : state'[j] = "completed" =>
           state[j] = "completed" \/ (Done(w, "ok") /\ Job(w) = j)
    BY <2>5, <2>6
  <2>9. \A j \in Jobs : state'[j] = "completed" => Known(j)
    BY <2>6, <2>7, <2>8 DEF Known
  <2>10. \A j \in Jobs : state[j] = "completed" => state'[j] = "completed"
    BY <2>2, <2>5
  <2>11. TakenOnce'
    BY <1>4, <2>1, <2>5, <2>7, <2>9, <2>10, TakenFrame
  <2> QED BY <1>3, <1>4, <2>8, <2>11, LogFrame
<1> QED BY <1>5, <1>6, <1>7
\* A job that is emitted was in nobody's hand.
LEMMA EmitStep ==
    ASSUME DeliveryInv, NEW j \in Jobs, Emit(j)
    PROVE  PhaseFits' /\ TakenOnce' /\ LoggedBefore'
<1>1. /\ state[j] = "none" /\ state' = [state EXCEPT ![j] = "pending"]
      /\ status' = [status EXCEPT ![j] = "pending"]
      /\ UNCHANGED <<worker, batch, outcome, faults, phase, received>>
  BY DEF Emit, Enqueue, local, handler
<1>2. \A i \in Jobs : state'[i] = IF i = j THEN "pending" ELSE state[i]
  BY <1>1 DEF DeliveryInv, QueueInv, TypeOK
<1>3. \A i \in Jobs \ {j} : status'[i] = status[i]
  BY <1>1 DEF DeliveryInv, DeliveryTypeOK
<1>4. \A v \in Workers : /\ KnowsTaken(v)' <=> KnowsTaken(v)
                         /\ Done(v, "ok")' <=> Done(v, "ok")
                         /\ Job(v)' = Job(v)
                         /\ Delivers(v)' <=> Delivers(v)
  BY <1>1 DEF KnowsTaken, At, Delivers, Done, Job
<1>5. PhaseFits'
  BY <1>1, <1>4 DEF DeliveryInv, PhaseFits
<1>6. TakenOnce'
  BY <1>1, <1>2, <1>4, TakenFrame DEF Known
<1>7. ASSUME NEW v \in Workers, Done(v, "ok") PROVE Job(v) \in Jobs \ {j}
  BY <1>1, <1>7, AtHead DEF DeliveryInv, Done
<1>8. LoggedBefore'
  BY <1>1, <1>2, <1>3, <1>4, <1>7 DEF DeliveryInv, LoggedBefore
<1> QED BY <1>5, <1>6, <1>8

\* A worker turns to a job, or dies.
LEMMA BeginOrDie ==
    ASSUME DeliveryInv, NEW w \in Workers, Begin(w) \/ Dies(w)
    PROVE  PhaseFits' /\ TakenOnce' /\ LoggedBefore'
<1>1. /\ worker \in [Workers -> WorkerState] /\ batch \in [Workers -> Seq(Claim)]
      /\ phase \in [Workers -> {"idle", "load", "send", "disabled", "delivered", "failed"}]
      /\ FitsInLease /\ QueueInv /\ faults \in Nat /\ outcome \in [Workers -> Outcomes]
  BY InvTypes
<1>2. CASE Begin(w)
  <2>1. worker[w] = "next_job"
    BY <1>2 DEF Begin, Execute
  <2>2. Job(w) \in Handled
    BY <1>1, <2>1, AtHead, DeliveryAssumption
  <2>3. /\ worker' = [worker EXCEPT ![w] = "handling"] /\ phase' = [phase EXCEPT ![w] = "load"]
        /\ UNCHANGED <<state, batch, outcome, faults, status, received>>
    BY <1>2, <2>2 DEF Begin, Execute, GoTo, Enter, rows, delivery
  <2>4. \A v \in Workers : /\ KnowsTaken(v)' <=> KnowsTaken(v)
                           /\ Done(v, "ok")' <=> Done(v, "ok")
                           /\ Job(v)' = Job(v)
    BY <1>1, <2>1, <2>3 DEF KnowsTaken, At, Delivers, Done, Job
  <2>5. PhaseFits'
    BY <1>1, <2>3 DEF DeliveryInv, PhaseFits, Delivers
  <2>6. TakenOnce'
    BY <2>3, <2>4, TakenFrame DEF Known
  <2>7. LoggedBefore'
    BY <2>3, <2>4, LogFrame
  <2> QED BY <2>5, <2>6, <2>7
<1>3. CASE Dies(w)
  <2>1. /\ worker' = [worker EXCEPT ![w] = "down"] /\ phase' = [phase EXCEPT ![w] = "idle"]
        /\ batch' = [batch EXCEPT ![w] = << >>] /\ faults' = faults + 1
        /\ UNCHANGED <<state, outcome, status, received>>
    BY <1>3 DEF Dies, Crash, GoTo, Enter, rows, delivery
  <2>2. /\ \A v \in Workers \ {w} : /\ KnowsTaken(v)' <=> KnowsTaken(v)
                                    /\ Done(v, "ok")' <=> Done(v, "ok")
                                    /\ Job(v)' = Job(v)
        /\ ~KnowsTaken(w)' /\ ~Done(w, "ok")'
    BY <1>1, <2>1 DEF KnowsTaken, At, Delivers, Done, Job
  <2>3. PhaseFits'
    BY <1>1, <2>1 DEF DeliveryInv, PhaseFits, Delivers
  <2>4. faults' # faults
    BY <1>1, <2>1
  <2>5. TakenOnce'
    BY <2>1, <2>2, <2>4, TakenFrame DEF Known
  <2>6. LoggedBefore'
    BY <2>1, <2>2, LogFrame
  <2> QED BY <2>3, <2>5, <2>6
<1> QED BY <1>2, <1>3

\* The handler moves on: only taking the event changes what is known.
LEMMA SendStep ==
    ASSUME DeliveryInv, NEW w \in Workers,
           Load(w) \/ Accepted(w) \/ Refused(w) \/ AnswerLost(w)
    PROVE  PhaseFits' /\ TakenOnce' /\ LoggedBefore'
<1>1. /\ Delivers(w) /\ worker[w] = "handling" /\ phase[w] \in {"load", "send"}
      /\ UNCHANGED <<state, worker, batch, outcome, status>>
  BY DEF Load, Accepted, Refused, AnswerLost, At, Delivers, Stays, rows, local, delivery
<1>2. PICK step \in {"send", "disabled", "delivered", "failed"} :
         /\ phase' = [phase EXCEPT ![w] = step]
         /\ step = "delivered" <=> Accepted(w)
  <2>1. "load" # "send"
    OBVIOUS
  <2>2. CASE Load(w)
    BY <2>1, <2>2 DEF Load, Accepted, At, Enter
  <2>3. CASE Accepted(w)
    BY <2>3 DEF Accepted, Enter
  <2>4. ASSUME Refused(w) \/ AnswerLost(w), ~Accepted(w)
        PROVE  phase' = [phase EXCEPT ![w] = "failed"]
    BY <2>4 DEF Refused, AnswerLost, Enter
  <2> QED BY <2>2, <2>3, <2>4
<1>3. /\ phase \in [Workers -> {"idle", "load", "send", "disabled", "delivered", "failed"}]
      /\ FitsInLease /\ QueueInv /\ faults \in Nat /\ received \in [Jobs -> Nat]
  BY InvTypes
<1>4. PhaseFits'
  BY <1>1, <1>2, <1>3 DEF DeliveryInv, PhaseFits, Delivers
<1>5. /\ \A v \in Workers : /\ v # w => (KnowsTaken(v)' <=> KnowsTaken(v))
                            /\ Done(v, "ok")' <=> Done(v, "ok")
                            /\ Job(v)' = Job(v)
      /\ ~KnowsTaken(w) /\ (KnowsTaken(w)' <=> Accepted(w))
  BY <1>1, <1>2, <1>3 DEF KnowsTaken, At, Delivers, Done, Job
<1>6. LoggedBefore'
  BY <1>1, <1>5, LogFrame
<1>7. CASE Load(w) \/ (Refused(w) /\ ~Accepted(w))
  <2>1. faults' = faults /\ received' = received /\ ~Accepted(w)
    BY <1>7 DEF Load, Refused, Accepted, At
  <2>2. TakenOnce'
    BY <1>1, <1>5, <2>1, TakenFrame DEF Known
  <2> QED BY <1>4, <1>6, <2>2
<1>8. CASE Accepted(w) \/ (AnswerLost(w) /\ ~Accepted(w))
  <2>1. /\ received' = [received EXCEPT ![Job(w)] = @ + 1]
        /\ faults' = IF Accepted(w) THEN faults ELSE faults + 1
    BY <1>8 DEF Accepted, AnswerLost, Fails
  <2>2. Job(w) \in Jobs /\ ~Known(Job(w))
    <3>1. Job(w) \in Jobs /\ state[Job(w)] = "running"
      BY <1>1, <1>3, AtHead
    <3>2. ASSUME NEW v \in Workers, KnowsTaken(v), v # w PROVE Job(v) # Job(w)
      BY <1>1, <1>3, <3>2, HeadsApart DEF KnowsTaken, At, Delivers, Done
    <3> QED BY <1>5, <3>1, <3>2 DEF Known
  <2>3. ASSUME NEW j \in Jobs
        PROVE  /\ received'[j] = IF j = Job(w) THEN received[j] + 1 ELSE received[j]
               /\ received[j] \in Nat
               /\ Known(j)' <=> Known(j) \/ (Accepted(w) /\ j = Job(w))
    <3>1. Known(j)' <=> Known(j) \/ (Accepted(w) /\ j = Job(w))
      BY <1>1, <1>5 DEF Known
    <3> QED BY <1>3, <2>1, <2>2, <3>1
  <2>4. ASSUME NEW j \in Jobs
        PROVE  /\ Known(j)' => received'[j] > 0
               /\ received'[j] <= faults' + IF Known(j)' THEN 1 ELSE 0
    <3>1. /\ Known(j) => received[j] > 0
          /\ received[j] <= faults + IF Known(j) THEN 1 ELSE 0
      BY DEF DeliveryInv, TakenOnce
    <3> QED BY <1>3, <2>1, <2>2, <2>3, <3>1
  <2>5. TakenOnce'
    BY <2>4 DEF TakenOnce
  <2> QED BY <1>4, <1>6, <2>5
<1> QED BY <1>7, <1>8

\* The handler returns: a delivery that is not reported as such has met a fault.
LEMMA StoreStep ==
    ASSUME DeliveryInv, NEW w \in Workers,
           LoadFails(w) \/ StoreDisabled(w) \/ StoreDelivered(w) \/ StoreFailed(w)
    PROVE  PhaseFits' /\ TakenOnce' /\ LoggedBefore'
<1>1. /\ worker[w] = "handling" /\ phase' = [phase EXCEPT ![w] = "idle"] /\ received' = received
  BY DEF LoadFails, StoreDisabled, StoreDelivered, StoreFailed, At, Delivers, Enter
<1>2. PICK result \in Outcomes :
         /\ Returns(w, result) /\ faults' \in {faults, faults + 1}
         /\ result = "ok" => At(w, "delivered") /\ RecordAttempt(Job(w), "delivered", seen[w])
         /\ At(w, "delivered") /\ faults' = faults => result = "ok"
  <2>1. "ok" \in Outcomes /\ "permanent" \in Outcomes /\ "retryable" \in Outcomes
        /\ "ok" # "permanent" /\ "ok" # "retryable" /\ faults + 1 # faults
    BY QueueAssumption DEF Outcomes, DeliveryInv, QueueInv, TypeOK
  <2>2. CASE StoreDelivered(w)
    BY <2>1, <2>2 DEF StoreDelivered, Fails
  <2>3. CASE LoadFails(w) \/ StoreDisabled(w) \/ StoreFailed(w)
    BY <2>1, <2>3 DEF LoadFails, StoreDisabled, StoreFailed, Fails, At
  <2> QED BY <2>2, <2>3
<1>3. /\ worker' = [worker EXCEPT ![w] = "recording"] /\ outcome' = [outcome EXCEPT ![w] = result]
      /\ UNCHANGED <<state, batch>>
  BY <1>2 DEF Returns, GoTo, rows
<1>4. /\ phase \in [Workers -> {"idle", "load", "send", "disabled", "delivered", "failed"}]
      /\ FitsInLease /\ QueueInv /\ faults \in Nat /\ worker \in [Workers -> WorkerState]
      /\ outcome \in [Workers -> Outcomes]
      /\ status \in [Jobs -> {"none", "pending", "failed", "delivered", "dead"}]
  BY InvTypes
<1>5. PhaseFits'
  BY <1>1, <1>3, <1>4 DEF DeliveryInv, PhaseFits, Delivers
<1>6. /\ \A v \in Workers : /\ v # w => /\ KnowsTaken(v)' <=> KnowsTaken(v)
                                        /\ Done(v, "ok")' <=> Done(v, "ok")
                            /\ Job(v)' = Job(v)
      /\ KnowsTaken(w) <=> At(w, "delivered")
      /\ KnowsTaken(w)' <=> result = "ok"
      /\ Done(w, "ok")' <=> result = "ok"
  BY <1>1, <1>3, <1>4 DEF KnowsTaken, At, Delivers, Done, Job
<1>7. TakenOnce'
  BY <1>1, <1>2, <1>3, <1>6, TakenFrame DEF Known
<1>8. Job(w) \in Jobs /\ state[Job(w)] = "running"
  BY <1>1, <1>4, AtHead
<1>9. /\ \A j \in Jobs \ {Job(w)} : status'[j] = status[j]
      /\ result = "ok" => status'[Job(w)] = "delivered"
  <2>1. status' = status \/ \E r : status' = [status EXCEPT ![Job(w)] = r]
    BY DEF LoadFails, StoreDisabled, StoreDelivered, StoreFailed, RecordAttempt, Stored, delivery
  <2> QED BY <1>2, <1>4, <1>8, <2>1 DEF RecordAttempt
<1>10. ASSUME NEW v \in Workers, Done(v, "ok"), v # w PROVE Job(v) \in Jobs \ {Job(w)}
  BY <1>1, <1>4, <1>10, AtHead, HeadsApart DEF Done
<1>11. LoggedBefore'
  BY <1>3, <1>6, <1>8, <1>9, <1>10 DEF DeliveryInv, LoggedBefore
<1> QED BY <1>5, <1>7, <1>11
-----------------------------------------------------------------------------
(* The theorems about what was delivered. *)

LEMMA InitDelivery == FitsInLease /\ DeliveryInit => DeliveryInv
<1> SUFFICES ASSUME FitsInLease, DeliveryInit PROVE DeliveryInv
  OBVIOUS
<1>1. QueueInv
  BY InitQueue DEF DeliveryInit
<1>2. DeliveryTypeOK
  BY <1>1 DEF DeliveryInit, DeliveryTypeOK, QueueInv
<1>3. /\ \A w \in Workers : worker[w] = "sleeping" /\ phase[w] = "idle"
      /\ \A j \in Jobs : state[j] = "none" /\ received[j] = 0
      /\ faults = 0
  BY DEF DeliveryInit, Init
<1>4. PhaseFits
  BY <1>3 DEF PhaseFits, Delivers
<1>5. TakenOnce /\ LoggedBefore
  BY <1>3 DEF TakenOnce, LoggedBefore, Known, KnowsTaken, At, Delivers, Done
<1> QED BY <1>1, <1>2, <1>4, <1>5 DEF DeliveryInv

LEMMA NextDelivery == DeliveryInv /\ [DeliveryNext]_allVars => DeliveryInv'
<1> SUFFICES ASSUME DeliveryInv, [DeliveryNext]_allVars PROVE DeliveryInv'
  OBVIOUS
<1>1. QueueInv' /\ DeliveryTypeOK'
  BY QueueUnderDelivery, DeliveryTypes DEF DeliveryInv
<1> DEFINE Kept == PhaseFits' /\ TakenOnce' /\ LoggedBefore'
<1>2. ASSUME UNCHANGED <<state, worker, batch, outcome, faults, status, phase, received>>
      PROVE  Kept
  <2>1. \A v \in Workers : /\ KnowsTaken(v)' <=> KnowsTaken(v)
                           /\ Done(v, "ok")' <=> Done(v, "ok")
                           /\ Job(v)' = Job(v)
    BY <1>2 DEF KnowsTaken, At, Delivers, Done, Job
  <2>2. TakenOnce'
    BY <1>2, <2>1, TakenFrame DEF Known
  <2>3. LoggedBefore'
    BY <1>2, <2>1, LogFrame
  <2> QED BY <1>2, <2>2, <2>3 DEF DeliveryInv, PhaseFits, Delivers
<1>3. ASSUME NEW e \in Endpoints, DisableEndpoint(e) PROVE Kept
  <2>1. UNCHANGED <<state, worker, batch, outcome, faults, status, phase, received>>
    BY <1>3 DEF DisableEndpoint, queue, rows, local, handler
  <2> QED BY <1>2, <2>1
<1>4. ASSUME Wait PROVE Kept
  <2>1. UNCHANGED <<state, worker, batch, outcome, faults, status, phase, received>>
    BY <1>4 DEF Wait, Pass, Apart, delivery, handler
  <2> QED BY <1>2, <2>1
<1>5. ASSUME UNCHANGED allVars PROVE Kept
  <2>1. UNCHANGED <<state, worker, batch, outcome, faults, status, phase, received>>
    BY <1>5 DEF allVars, queue, rows, local, delivery, handler
  <2> QED BY <1>2, <2>1
<1>6. ASSUME NEW j \in Jobs, Emit(j) PROVE Kept
  BY <1>6, EmitStep
<1>7. ASSUME NEW w \in Workers, DeliverStep(w) \/ DeliverFault(w) \/ Revive(w) PROVE Kept
  <2>1. CASE Apart /\ (Tick(w) \/ TickLost(w) \/ Record(w) \/ RecordLost(w) \/ Restart(w))
    <3>1. UNCHANGED <<phase, seen, received>> /\ status' = status
      BY <2>1 DEF Apart, delivery, handler
    <3> QED BY <2>1, <3>1, QueueSteps
  <2> HIDE DEF Kept
  <2>2. CASE Begin(w) \/ Dies(w)
    BY <2>2, BeginOrDie DEF Kept
  <2>3. CASE Load(w) \/ Accepted(w) \/ Refused(w) \/ AnswerLost(w)
    BY <2>3, SendStep DEF Kept
  <2>4. CASE LoadFails(w) \/ StoreDisabled(w) \/ StoreDelivered(w) \/ StoreFailed(w)
    BY <2>4, StoreStep DEF Kept
  <2> QED BY <1>7, <2>1, <2>2, <2>3, <2>4 DEF DeliverStep, DeliverFault, Revive
<1>8. Kept
  <2> HIDE DEF Kept
  <2> QED BY <1>3, <1>4, <1>5, <1>6, <1>7 DEF DeliveryNext
<1> QED BY <1>1, <1>8 DEF DeliveryInv, FitsInLease

\* Where a batch fits in the lease: the queue keeps its invariant under the handler, a
\* worker that knows of a delivery has had one, and each duplicate has a fault behind it.
THEOREM DeliveryInvariance == FitsInLease /\ DeliverySpec => []DeliveryInv
BY InitDelivery, NextDelivery, PTL DEF DeliverySpec

\* A completed job means the endpoint took the event and the log says so, if a batch
\* fits in the lease: a late worker may log its failure over the delivery of another.
THEOREM CompletedWasAccepted == FitsInLease /\ DeliverySpec => []CompletedMeansAccepted
<1>1. DeliveryInv => CompletedMeansAccepted
  BY DEF DeliveryInv, TakenOnce, LoggedBefore, CompletedMeansAccepted, Known
<1> QED BY <1>1, DeliveryInvariance, PTL

\* An endpoint gets an event more than once only where something failed, if a batch fits
\* in the lease: a late worker sends what another has sent.
THEOREM DuplicatesStayExplained == FitsInLease /\ DeliverySpec => []DuplicatesAreExplained
<1>1. DeliveryInv => DuplicatesAreExplained
  <2> SUFFICES ASSUME DeliveryInv, NEW j \in Jobs PROVE received[j] <= 1 + faults
    BY DEF DuplicatesAreExplained
  <2>1. received[j] <= faults + IF Known(j) THEN 1 ELSE 0
    BY DEF DeliveryInv, TakenOnce
  <2> QED BY <2>1, InvTypes
<1> QED BY <1>1, DeliveryInvariance, PTL
-----------------------------------------------------------------------------
(* The delivery row and its job, while nothing fails. *)

\* A step that touches neither the rows nor the hands keeps them in step.
LEMMA StepFrame ==
    ASSUME DeliveryInv, InStep, UNCHANGED <<state, attempts, batch, status, attempt>>,
           \A v \in Workers : worker'[v] = "recording" <=> worker[v] = "recording",
           \A v \in Workers : worker[v] = "recording" => outcome'[v] = outcome[v],
           \A v \in Workers : Delivers(v)' /\ phase'[v] # "load" =>
              \/ Delivers(v) /\ phase[v] # "load" /\ seen'[v] = seen[v]
              \/ seen'[v] = attempts[Job(v)]
    PROVE  InStep'
<1>1. Lockstep' /\ OnLadder' /\ Owned'
  BY DEF InStep, Lockstep, InLockstep, OnLadder, Owned, Slots, JobAt
<1>2. RowsWait'
  BY DEF InStep, RowsWait, Waits, Slots, JobAt
<1>3. SeenIsCurrent'
  BY DEF InStep, SeenIsCurrent, Job
<1>4. RowsTell'
  BY DEF InStep, RowsTell, RowTells, Job
<1> QED BY <1>1, <1>2, <1>3, <1>4 DEF InStep

\* A new row names the first attempt.
LEMMA EmitInStep ==
    ASSUME DeliveryInv, InStep, Unborn, NEW j \in Jobs, Emit(j)
    PROVE  InStep'
<1>1. /\ state[j] = "none" /\ state' = [state EXCEPT ![j] = "pending"]
      /\ status' = [status EXCEPT ![j] = "pending"]
      /\ UNCHANGED <<attempts, worker, batch, outcome, attempt, phase, seen>>
  BY DEF Emit, Enqueue, local, handler
<1>2. /\ \A i \in Jobs \ {j} : state'[i] = state[i] /\ status'[i] = status[i]
      /\ state'[j] = "pending" /\ status'[j] = "pending"
  BY <1>1, InvTypes
<1>3. attempts[j] = 0 /\ attempt[j] = 1 /\ Len(Ladder) \in Nat
  BY <1>1, QueueAssumption, LenProperties DEF Unborn
<1>4. Lockstep' /\ OnLadder'
  BY <1>1, <1>2, <1>3 DEF InStep, Lockstep, InLockstep, OnLadder
<1>5. ASSUME NEW v \in Workers, NEW i \in Slots(v)
      PROVE  JobAt(v, i) \in Jobs \ {j}
  BY <1>1, LeasedClaim DEF DeliveryInv
<1>6. Owned'
  BY <1>1, <1>2 DEF InStep, Owned, Slots, JobAt
<1>7. RowsWait'
  BY <1>1, <1>2, <1>5 DEF InStep, RowsWait, Waits, Slots, JobAt
<1>8. SeenIsCurrent'
  BY <1>1 DEF InStep, SeenIsCurrent, Delivers, Job
<1>9. ASSUME NEW v \in Workers, worker[v] = "recording"
      PROVE  Job(v)' = Job(v) /\ status'[Job(v)] = status[Job(v)]
  <2>1. Job(v) \in Jobs \ {j}
    BY <1>5, <1>9, AtHead DEF DeliveryInv
  <2> QED BY <1>1, <1>2, <2>1 DEF Job
<1>10. RowsTell'
  BY <1>1, <1>9 DEF InStep, RowsTell, RowTells
<1> QED BY <1>4, <1>6, <1>7, <1>8, <1>10 DEF InStep

\* Nothing is stale, since every running job is in a hand; a claim makes the attempt
\* that the row names already.
LEMMA TickInStep ==
    ASSUME DeliveryInv, InStep, NEW w \in Workers, Tick(w),
           UNCHANGED <<status, attempt, phase, seen>>
    PROVE  InStep'
<1>1. Stale = {} /\ Reaped = state
  <2>1. Stale = {}
    BY LeasedClaim DEF DeliveryInv, InStep, Owned, Stale
  <2> QED BY <2>1, InvTypes DEF Reaped
<1>2. PICK q \in Batches(Reaped) :
         /\ ClaimFits(q) /\ q # << >>
         /\ state' = Claimed(Reaped, q)
         /\ attempts' = [j \in Jobs |-> attempts[j] + IF j \in InBatch(q) THEN 1 ELSE 0]
         /\ batch' = [batch EXCEPT ![w] =
                         [i \in 1 .. Len(q) |-> [job |-> q[i], attempts |-> attempts[q[i]] + 1]]]
         /\ worker' = [worker EXCEPT ![w] = "next_job"]
  BY <1>1 DEF Tick
<1>3. worker[w] = "sleeping" /\ outcome' = outcome /\ FitsInLease /\ QueueInv
  BY DEF Tick, DeliveryInv
<1>4. /\ q \in Seq(Jobs) /\ Len(q) \in Nat
      /\ \A i \in 1 .. Len(q) : q[i] \in Jobs /\ state[q[i]] = "pending"
      /\ \A j : j \in InBatch(q) <=> \E i \in 1 .. Len(q) : q[i] = j
  <2>1. /\ q \in Seq(Jobs) /\ Len(q) \in 0 .. BatchSize /\ BatchSize \in Nat
        /\ \A i \in 1 .. Len(q) : q[i] \in Jobs /\ Reaped[q[i]] = "pending"
    BY <1>3, BatchRows, QueueAssumption DEF QueueInv
  <2>2. \A i \in 1 .. Len(q) : state[q[i]] = "pending"
    BY <1>1, <2>1 DEF Reaped
  <2> QED BY <2>1, <2>2 DEF InBatch
<1>5. /\ Slots(w)' = 1 .. Len(q) /\ \A i \in 1 .. Len(q) : JobAt(w, i)' = q[i]
      /\ worker'[w] = "next_job"
      /\ \A v \in Workers \ {w} :
            Slots(v)' = Slots(v) /\ batch'[v] = batch[v] /\ worker'[v] = worker[v]
  <2> DEFINE given == [i \in 1 .. Len(q) |-> [job |-> q[i], attempts |-> attempts[q[i]] + 1]]
  <2>1. Len(given) = Len(q) /\ \A i \in 1 .. Len(q) : given[i].job = q[i]
    BY <1>4
  <2> HIDE DEF given
  <2>2. batch'[w] = given /\ \A v \in Workers \ {w} : batch'[v] = batch[v]
    BY <1>2, InvTypes DEF given
  <2> QED BY <1>2, <2>1, <2>2, InvTypes DEF Slots, JobAt
<1>6. Slots(w) = {}
  BY <1>3, EmptySeq DEF QueueInv, Busy, Slots
<1>7. \A j \in Jobs : /\ j \in InBatch(q) => state'[j] = "running" /\ attempts'[j] = attempts[j] + 1
                      /\ j \notin InBatch(q) => state'[j] = state[j] /\ attempts'[j] = attempts[j]
  BY <1>1, <1>2, InvTypes DEF Claimed
<1>8. ASSUME NEW v \in Workers, NEW i \in Slots(v)
      PROVE  /\ JobAt(v, i) \in Jobs \ InBatch(q)
             /\ attempts'[JobAt(v, i)] = attempts[JobAt(v, i)]
  <2>1. Reap
    BY DEF Tick
  <2>2. overtaken' = {}
    BY <1>3, <2>1, ReapTakes DEF LeasesAreKept, FitsInLease
  <2>3. JobAt(v, i) \in Jobs \ InBatch(q)
    BY <1>3, <2>1, <2>2, ClaimMissesHeld, LeasedClaim
  <2> QED BY <1>7, <2>3
<1>9. Lockstep' /\ OnLadder'
  BY <1>7 DEF InStep, Lockstep, InLockstep, OnLadder
<1>10. Owned'
  <2> SUFFICES ASSUME NEW j \in Jobs, state'[j] = "running"
               PROVE  \E v \in Workers : \E i \in Slots(v)' : JobAt(v, i)' = j
    BY DEF Owned
  <2>1. CASE j \in InBatch(q)
    BY <2>1, <1>4, <1>5
  <2>2. CASE j \notin InBatch(q)
    <3>1. PICK v \in Workers : \E i \in Slots(v) : JobAt(v, i) = j
      BY <2>2, <1>7 DEF InStep, Owned
    <3>2. v # w
      BY <3>1, <1>6
    <3> QED BY <3>1, <3>2, <1>5 DEF JobAt
  <2> QED BY <2>1, <2>2
<1>11. RowsWait'
  <2> SUFFICES ASSUME NEW v \in Workers, NEW i \in Slots(v)', i > 1 \/ worker'[v] # "recording"
               PROVE  attempt[JobAt(v, i)'] = attempts'[JobAt(v, i)']
                      /\ status[JobAt(v, i)'] \in {"pending", "failed"}
    BY DEF RowsWait, Waits
  <2>1. CASE v = w
    <3>1. JobAt(v, i)' = q[i] /\ q[i] \in Jobs /\ q[i] \in InBatch(q) /\ state[q[i]] = "pending"
      BY <2>1, <1>4, <1>5
    <3>2. attempt[q[i]] = attempts[q[i]] + 1 /\ status[q[i]] \in {"pending", "failed"}
      BY <3>1 DEF InStep, Lockstep, InLockstep
    <3> QED BY <3>1, <3>2, <1>7
  <2>2. CASE v # w
    BY <2>2, <1>5, <1>8 DEF InStep, RowsWait, Waits, JobAt
  <2> QED BY <2>1, <2>2
<1>12. ASSUME NEW v \in Workers, worker'[v] \in {"handling", "recording"}
       PROVE  v # w /\ worker'[v] = worker[v] /\ Job(v)' = Job(v)
              /\ attempts'[Job(v)] = attempts[Job(v)]
  <2>1. v # w /\ worker'[v] = worker[v] /\ Job(v)' = Job(v)
    BY <1>5, <1>12 DEF Job
  <2>2. 1 \in Slots(v) /\ Job(v) = JobAt(v, 1)
    BY <2>1, <1>3, <1>12, AtHead
  <2> QED BY <2>1, <2>2, <1>8
<1>13. SeenIsCurrent'
  BY <1>12 DEF InStep, SeenIsCurrent, Delivers
<1>14. RowsTell'
  BY <1>3, <1>12 DEF InStep, RowsTell, RowTells
<1> QED BY <1>9, <1>10, <1>11, <1>13, <1>14 DEF InStep
\* The queue records what the row tells already.
LEMMA RecordInStep ==
    ASSUME DeliveryInv, InStep, NEW w \in Workers, Record(w),
           UNCHANGED <<status, attempt, phase, seen>>
    PROVE  InStep'
<1> DEFINE j == Job(w)
           verdict == Verdict(outcome[w], attempts[j])
<1>1. worker[w] = "recording" /\ NextJob(w) /\ outcome' = outcome /\ attempts' = attempts /\ FitsInLease /\ QueueInv
  BY DEF Record, DeliveryInv
<1>2. /\ j \in Jobs /\ attempts[j] \in Nat /\ state[j] = "running"
      /\ Head(batch[w]).attempts = attempts[j] /\ batch[w] # << >>
      /\ 1 \in Slots(w) /\ j = JobAt(w, 1)
      /\ \A v \in Workers : \A i \in Slots(v) : JobAt(v, i) = j => v = w /\ i = 1
  BY <1>1, AtHead DEF QueueInv, Busy
<1>3. state'[j] = verdict /\ \A k \in Jobs \ {j} : state'[k] = state[k]
  BY <1>2, InvTypes DEF Record
<1>4. /\ batch'[w] = Tail(batch[w])
      /\ worker'[w] \in {"sleeping", "next_job"}
      /\ \A v \in Workers \ {w} : batch'[v] = batch[v] /\ worker'[v] = worker[v]
  BY <1>1, InvTypes DEF NextJob, GoTo
<1>5. /\ Len(Tail(batch[w])) = Len(batch[w]) - 1 /\ Len(batch[w]) \in Nat
      /\ \A i \in 1 .. Len(Tail(batch[w])) :
            i + 1 \in Slots(w) /\ Tail(batch[w])[i] = batch[w][i + 1]
  BY <1>1, <1>2, TailSlots, InHandType DEF QueueInv
<1>6. ASSUME NEW i \in Slots(w)'
      PROVE  i + 1 \in Slots(w) /\ JobAt(w, i)' = JobAt(w, i + 1) /\ i + 1 > 1
  BY <1>4, <1>5 DEF Slots, JobAt
<1>7. ASSUME NEW i \in Slots(w), i # 1
      PROVE  i - 1 \in Slots(w)' /\ JobAt(w, i - 1)' = JobAt(w, i)
  <2>1. i - 1 \in 1 .. Len(Tail(batch[w])) /\ (i - 1) + 1 = i
    BY <1>5, <1>7 DEF Slots
  <2> QED BY <1>4, <1>5, <2>1 DEF Slots, JobAt
<1>8. Len(Ladder) \in Nat
  BY QueueAssumption, LenProperties
<1>9. /\ outcome[w] \in Outcomes /\ RowTells(w)
      /\ verdict \in {"completed", "dead", "pending"}
      /\ verdict = "pending" => attempts[j] <= Len(Ladder)
      /\ verdict = "pending" => attempt[j] = attempts[j] + 1 /\ status[j] = "failed"
      /\ verdict = "completed" => attempt[j] = attempts[j] /\ status[j] = "delivered"
      /\ verdict = "dead" => attempt[j] = attempts[j] /\ status[j] = "dead"
  <2>1. outcome[w] \in Outcomes /\ RowTells(w)
    BY <1>1, InvTypes DEF InStep, RowsTell
  <2>2. CASE outcome[w] = "ok"
    BY <2>1, <2>2 DEF RowTells, Verdict
  <2>3. CASE outcome[w] = "permanent"
    BY <2>1, <2>3 DEF RowTells, Verdict
  <2>4. CASE outcome[w] = "retryable"
    <3>1. attempt[j] = NextAttempt(attempts[j]) /\ status[j] = RowStatus(attempts[j])
      BY <2>1, <2>4 DEF RowTells
    <3>2. verdict = IF Retries(attempts[j]) THEN "pending" ELSE "dead"
      BY <2>4 DEF Verdict
    <3>3. Retries(attempts[j]) => attempts[j] <= Len(Ladder)
      BY <1>2, <1>8 DEF Retries
    <3> QED BY <2>1, <3>1, <3>2, <3>3 DEF NextAttempt, RowStatus
  <2> QED BY <2>1, <2>2, <2>3, <2>4 DEF Outcomes
<1> HIDE DEF verdict, j
<1>10. Lockstep' /\ OnLadder'
  <2>1. ASSUME NEW k \in Jobs PROVE InLockstep(k)' /\ (state'[k] = "pending" => attempts[k] <= Len(Ladder))
    <3>1. CASE k = j
      BY <3>1, <1>1, <1>3, <1>9 DEF InLockstep
    <3>2. CASE k # j
      BY <3>2, <1>1, <1>3 DEF InStep, Lockstep, OnLadder, InLockstep
    <3> QED BY <3>1, <3>2
  <2> QED BY <2>1, <1>1 DEF Lockstep, OnLadder
<1>11. Owned'
  <2> SUFFICES ASSUME NEW k \in Jobs, state'[k] = "running"
               PROVE  \E v \in Workers : \E i \in Slots(v)' : JobAt(v, i)' = k
    BY DEF Owned
  <2>1. k # j
    BY <1>3, <1>9
  <2>2. PICK v \in Workers : \E i \in Slots(v) : JobAt(v, i) = k
    BY <2>1, <1>3 DEF InStep, Owned
  <2>3. PICK i \in Slots(v) : JobAt(v, i) = k
    BY <2>2
  <2>4. CASE v = w
    BY <2>1, <2>3, <2>4, <1>2, <1>7
  <2>5. CASE v # w
    BY <2>3, <2>5, <1>4 DEF Slots, JobAt
  <2> QED BY <2>4, <2>5
<1>12. RowsWait'
  <2> SUFFICES ASSUME NEW v \in Workers, NEW i \in Slots(v)', i > 1 \/ worker'[v] # "recording"
               PROVE  Waits(JobAt(v, i)')
    BY <1>1 DEF RowsWait, Waits
  <2>1. CASE v = w
    BY <2>1, <1>6 DEF InStep, RowsWait
  <2>2. CASE v # w
    BY <2>2, <1>4 DEF InStep, RowsWait, Slots, JobAt
  <2> QED BY <2>1, <2>2
<1>13. SeenIsCurrent'
  BY <1>1, <1>4 DEF InStep, SeenIsCurrent, Delivers, Job
<1>14. RowsTell'
  BY <1>1, <1>4 DEF InStep, RowsTell, RowTells, Job
<1> QED BY <1>10, <1>11, <1>12, <1>13, <1>14 DEF InStep

\* The handler stores what the queue is about to record.
LEMMA StoreInStep ==
    ASSUME DeliveryInv, InStep, NEW w \in Workers, faults' = faults,
           StoreDisabled(w) \/ StoreDelivered(w) \/ StoreFailed(w)
    PROVE  InStep'
<1> DEFINE j == Job(w)
           n == attempts[j]
<1>1. /\ worker[w] = "handling" /\ FitsInLease /\ QueueInv
      /\ phase[w] \in {"disabled", "delivered", "failed"} /\ Delivers(w)
      /\ faults' # faults + 1
  BY InvTypes DEF StoreDisabled, StoreDelivered, StoreFailed, At, Delivers
<1>2. seen[w] = n
  BY <1>1 DEF InStep, SeenIsCurrent
<1>3. PICK result \in Outcomes :
         /\ Returns(w, result)
         /\ result = "ok" => RecordAttempt(j, "delivered", n)
         /\ result = "permanent" => RecordAttempt(j, "dead", n)
         /\ result = "retryable" => RecordAttempt(j, RowStatus(n), NextAttempt(n))
  <2>1. /\ "ok" \in Outcomes /\ "permanent" \in Outcomes /\ "retryable" \in Outcomes
        /\ "ok" # "permanent" /\ "ok" # "retryable" /\ "permanent" # "retryable"
    BY DEF Outcomes
  <2>2. CASE StoreDisabled(w)
    BY <1>1, <1>2, <2>1, <2>2 DEF StoreDisabled, Fails
  <2>3. CASE StoreDelivered(w)
    BY <1>1, <1>2, <2>1, <2>3 DEF StoreDelivered, Fails
  <2>4. CASE StoreFailed(w)
    BY <1>1, <1>2, <2>1, <2>4 DEF StoreFailed, Fails
  <2> QED BY <2>2, <2>3, <2>4
<1>4. /\ worker'[w] = "recording" /\ outcome'[w] = result
      /\ \A v \in Workers \ {w} : worker'[v] = worker[v] /\ outcome'[v] = outcome[v]
      /\ UNCHANGED <<state, attempts, batch>>
      /\ \A v \in Workers \ {w} : phase'[v] = phase[v] /\ seen'[v] = seen[v]
  <2>1. UNCHANGED seen /\ phase' = [phase EXCEPT ![w] = "idle"]
    BY DEF StoreDisabled, StoreDelivered, StoreFailed, Enter
  <2> QED BY <1>3, <2>1, InvTypes DEF Returns, GoTo, rows
<1>5. /\ j \in Jobs /\ n \in Nat /\ state[j] = "running"
      /\ 1 \in Slots(w) /\ j = JobAt(w, 1)
      /\ \A v \in Workers : \A i \in Slots(v) : JobAt(v, i) = j => v = w /\ i = 1
  BY <1>1, AtHead
<1>6. /\ \A k \in Jobs \ {j} : status'[k] = status[k] /\ attempt'[k] = attempt[k]
      /\ result = "ok" => status'[j] = "delivered" /\ attempt'[j] = n
      /\ result = "permanent" => status'[j] = "dead" /\ attempt'[j] = n
      /\ result = "retryable" => status'[j] = RowStatus(n) /\ attempt'[j] = NextAttempt(n)
  BY <1>3, <1>5, InvTypes DEF RecordAttempt, Outcomes
<1> HIDE DEF n, j
<1>7. Lockstep' /\ OnLadder' /\ Owned'
  <2>1. OnLadder' /\ Owned'
    BY <1>4 DEF InStep, OnLadder, Owned, Slots, JobAt
  <2>2. ASSUME NEW k \in Jobs PROVE InLockstep(k)'
    <3>1. CASE k = j
      BY <3>1, <1>4, <1>5 DEF InLockstep
    <3>2. CASE k # j
      BY <3>2, <1>4, <1>6 DEF InStep, Lockstep, InLockstep
    <3> QED BY <3>1, <3>2
  <2> QED BY <2>1, <2>2 DEF Lockstep
<1>8. RowsWait'
  <2> SUFFICES ASSUME NEW v \in Workers, NEW i \in Slots(v), i > 1 \/ worker'[v] # "recording"
               PROVE  Waits(JobAt(v, i))'
    BY <1>4 DEF RowsWait, Slots, JobAt, Waits
  <2>1. ~(v = w /\ i = 1) /\ (i > 1 \/ worker[v] # "recording")
    BY <1>1, <1>4
  <2>2. JobAt(v, i) \in Jobs \ {j} /\ JobAt(v, i)' = JobAt(v, i)
    BY <1>1, <1>4, <1>5, <2>1, LeasedClaim DEF JobAt
  <2>3. Waits(JobAt(v, i))
    BY <2>1 DEF InStep, RowsWait
  <2> QED BY <1>4, <1>6, <2>2, <2>3 DEF Waits
<1>9. SeenIsCurrent'
  BY <1>4 DEF InStep, SeenIsCurrent, Delivers, Job
<1>10. ASSUME NEW v \in Workers, worker'[v] = "recording" PROVE RowTells(v)'
  <2>1. CASE v = w
    <3>1. Job(v)' = j /\ attempts'[j] = n
      BY <2>1, <1>4 DEF Job, j, n
    <3>2. outcome'[v] = result /\ result \in Outcomes
      BY <2>1, <1>4
    <3> QED BY <1>6, <3>1, <3>2 DEF RowTells, Outcomes
  <2>2. CASE v # w
    <3>1. worker[v] = "recording" /\ RowTells(v) /\ Job(v)' = Job(v)
      BY <2>2, <1>4, <1>10 DEF InStep, RowsTell, Job
    <3>2. Job(v) \in Jobs \ {j}
      BY <2>2, <3>1, <1>1, AtHead, HeadsApart DEF j
    <3>3. status'[Job(v)] = status[Job(v)] /\ attempt'[Job(v)] = attempt[Job(v)]
      BY <1>6, <3>2
    <3>4. outcome'[v] = outcome[v] /\ attempts' = attempts
      BY <2>2, <1>4
    <3> QED BY <3>1, <3>3, <3>4 DEF RowTells
  <2> QED BY <2>1, <2>2
<1>11. RowsTell'
  BY <1>10 DEF RowsTell
<1> QED BY <1>7, <1>8, <1>9, <1>11 DEF InStep
\* Nobody touches the row of an event that was not emitted.
LEMMA UnbornStep ==
    ASSUME DeliveryInv, Unborn, [DeliveryNext]_allVars
    PROVE  Unborn'
<1> SUFFICES ASSUME NEW k \in Jobs, state'[k] = "none"
             PROVE  state[k] = "none" /\ attempts'[k] = attempts[k] /\ attempt'[k] = attempt[k]
  BY DEF Unborn
<1> DEFINE Same == state[k] = "none" /\ attempts'[k] = attempts[k] /\ attempt'[k] = attempt[k]
<1>1. FitsInLease /\ QueueInv
  BY DEF DeliveryInv
<1>2. ASSUME UNCHANGED <<state, attempts, attempt>> PROVE Same
  BY <1>2
<1>3. ASSUME NEW j \in Jobs, Emit(j) PROVE Same
  BY <1>3, InvTypes DEF Emit, Enqueue
<1>4. ASSUME NEW w \in Workers, Tick(w) \/ TickLost(w), Apart PROVE Same
  <2>1. state[k] = "none"
    BY <1>1, <1>4, TickEndsNothing
  <2>2. Reaped[k] = "none"
    BY <2>1 DEF Reaped, Stale
  <2>3. \A q \in Batches(Reaped) : k \notin InBatch(q)
    BY <1>1, <2>2, BatchRows DEF InBatch, QueueInv
  <2>4. attempts'[k] = attempts[k]
    BY <1>4, <2>3, InvTypes DEF Tick, TickLost
  <2> QED BY <1>4, <2>1, <2>4 DEF Apart, delivery
<1>5. ASSUME NEW w \in Workers, Record(w), Apart PROVE Same
  <2>1. Job(w) \in Jobs /\ outcome[w] \in Outcomes
    BY <1>1, <1>5, AtHead, InvTypes DEF Record
  <2>2. Verdict(outcome[w], Head(batch[w]).attempts) # "none"
    BY <2>1 DEF Verdict, Outcomes
  <2> QED BY <1>5, <2>1, <2>2, InvTypes DEF Record, Apart, delivery
<1>6. ASSUME NEW w \in Workers, StoreDisabled(w) \/ StoreDelivered(w) \/ StoreFailed(w) PROVE Same
  <2>1. Job(w) \in Jobs /\ state[Job(w)] = "running" /\ UNCHANGED <<state, attempts>>
    BY <1>1, <1>6, AtHead
       DEF StoreDisabled, StoreDelivered, StoreFailed, At, Delivers, Returns, rows
  <2>2. attempt' = attempt \/ \E n : attempt' = [attempt EXCEPT ![Job(w)] = n]
    BY <1>6 DEF StoreDisabled, StoreDelivered, StoreFailed, RecordAttempt, Stored
  <2> QED BY <2>1, <2>2, InvTypes
<1>7. ASSUME NEW w \in Workers, DeliverStep(w) \/ DeliverFault(w) \/ Revive(w) PROVE Same
  <2>1. ASSUME RecordLost(w) \/ Restart(w), Apart PROVE Same
    BY <2>1, <1>2 DEF RecordLost, Restart, rows, Apart, delivery
  <2>2. ASSUME Begin(w) \/ Dies(w) PROVE Same
    BY <2>2, <1>2 DEF Begin, Dies, Execute, Crash, rows, delivery
  <2>3. ASSUME Load(w) \/ Accepted(w) \/ Refused(w) \/ AnswerLost(w) PROVE Same
    BY <2>3, <1>2 DEF Load, Accepted, Refused, AnswerLost, Stays, rows, delivery
  <2>4. ASSUME LoadFails(w) PROVE Same
    BY <2>4, <1>2 DEF LoadFails, Returns, rows, delivery
  <2> HIDE DEF Same
  <2> QED BY <1>4, <1>5, <1>6, <1>7, <2>1, <2>2, <2>3, <2>4 DEF DeliverStep, DeliverFault, Revive
<1>8. ASSUME NEW e \in Endpoints, DisableEndpoint(e) PROVE Same
  BY <1>8, <1>2 DEF DisableEndpoint, queue, rows
<1>9. ASSUME Wait \/ UNCHANGED allVars PROVE Same
  BY <1>9, <1>2 DEF Wait, Pass, Apart, allVars, queue, rows, delivery
<1> HIDE DEF Same
<1>10. Same
  BY <1>3, <1>7, <1>8, <1>9 DEF DeliveryNext
<1> QED BY <1>10 DEF Same

\* A step that is no fault keeps the rows in step; a fault is never forgotten.
LEMMA NextStep == DeliveryInv /\ StepInv /\ [DeliveryNext]_allVars => StepInv'
<1> SUFFICES ASSUME DeliveryInv, StepInv, [DeliveryNext]_allVars PROVE StepInv'
  OBVIOUS
<1>1. Unborn' /\ Unborn
  BY UnbornStep DEF StepInv
<1> SUFFICES ASSUME faults' = 0 PROVE InStep'
  BY <1>1 DEF StepInv
<1>2. faults \in Nat /\ FitsInLease /\ QueueInv
  BY InvTypes
<1>3. faults' = faults \/ faults' = faults + 1
  <2>1. ASSUME NEW w \in Workers, DeliverStep(w) \/ DeliverFault(w) \/ Revive(w)
        PROVE  faults' = faults \/ faults' = faults + 1
    <3>1. CASE DeliverStep(w)
      BY <3>1 DEF DeliverStep, Begin, Load, StoreDisabled, Accepted, Refused, StoreDelivered,
                  StoreFailed, Fails, Execute, Tick, Record
    <3>2. CASE DeliverFault(w) \/ Revive(w)
      BY <3>2 DEF DeliverFault, Revive, LoadFails, AnswerLost, Dies, Fails, Crash, TickLost,
                  RecordLost, Restart
    <3> QED BY <2>1, <3>1, <3>2
  <2>2. ASSUME NEW j \in Jobs, Emit(j) PROVE faults' = faults
    BY <2>2 DEF Emit, Enqueue
  <2>3. ASSUME NEW e \in Endpoints, DisableEndpoint(e) PROVE faults' = faults
    BY <2>3 DEF DisableEndpoint, queue
  <2>4. CASE Wait \/ UNCHANGED allVars
    BY <2>4 DEF Wait, Pass, allVars, queue
  <2> QED BY <2>1, <2>2, <2>3, <2>4 DEF DeliveryNext
<1>4. faults = 0 /\ faults' = faults /\ InStep /\ faults' # faults + 1
  BY <1>2, <1>3 DEF StepInv
<1>5. ASSUME UNCHANGED <<state, attempts, batch, status, attempt, worker, outcome, phase, seen>>
      PROVE  InStep'
  <2>1. \A v \in Workers : Delivers(v)' <=> Delivers(v)
    BY <1>5 DEF Delivers
  <2> QED BY <1>4, <1>5, <2>1, StepFrame
<1>6. ASSUME NEW j \in Jobs, Emit(j) PROVE InStep'
  BY <1>1, <1>4, <1>6, EmitInStep
<1>7. ASSUME NEW e \in Endpoints, DisableEndpoint(e) PROVE InStep'
  BY <1>5, <1>7 DEF DisableEndpoint, queue, rows, local, handler
<1>8. CASE Wait \/ UNCHANGED allVars
  BY <1>5, <1>8 DEF Wait, Pass, Apart, allVars, queue, rows, local, delivery, handler
<1>9. ASSUME NEW w \in Workers, Begin(w) PROVE InStep'
  <2>1. worker[w] = "next_job"
    BY <1>9 DEF Begin, Execute
  <2>2. Job(w) \in Handled
    BY <1>2, <2>1, AtHead, DeliveryAssumption
  <2>3. /\ worker' = [worker EXCEPT ![w] = "handling"] /\ phase' = [phase EXCEPT ![w] = "load"]
        /\ UNCHANGED <<state, attempts, batch, outcome, status, attempt, seen>>
    BY <1>9, <2>2 DEF Begin, Execute, GoTo, Enter, rows, delivery
  <2>4. /\ worker'[w] = "handling" /\ phase'[w] = "load"
        /\ \A v \in Workers \ {w} : worker'[v] = worker[v] /\ phase'[v] = phase[v]
    BY <2>3, InvTypes
  <2>5. \A v \in Workers : Delivers(v)' /\ phase'[v] # "load" => Delivers(v) /\ phase[v] # "load"
    BY <2>4 DEF Delivers
  <2> QED BY <1>4, <2>1, <2>3, <2>4, <2>5, StepFrame
<1>10. ASSUME NEW w \in Workers, Load(w) \/ Accepted(w) \/ Refused(w) PROVE InStep'
  <2>1. /\ UNCHANGED <<state, attempts, batch, status, attempt, worker, outcome>>
        /\ \A v \in Workers \ {w} : phase'[v] = phase[v] /\ seen'[v] = seen[v]
        /\ Delivers(w)
    BY <1>10, InvTypes DEF Load, Accepted, Refused, At, Stays, rows, local, delivery, Enter
  <2>2. 1 \in Slots(w) /\ Job(w) = JobAt(w, 1) /\ Job(w) \in Jobs
    BY <1>2, <2>1, AtHead DEF Delivers
  <2>3. seen'[w] = attempts[Job(w)] \/ (phase[w] # "load" /\ seen'[w] = seen[w])
    <3>1. CASE Load(w)
      <4>1. Waits(JobAt(w, 1))
        BY <1>4, <2>1, <2>2 DEF InStep, RowsWait, Delivers
      <4>2. seen'[w] = attempt[Job(w)]
        BY <3>1, InvTypes DEF Load
      <4> QED BY <2>2, <4>1, <4>2 DEF Waits
    <3>2. CASE Accepted(w) \/ Refused(w)
      BY <3>2 DEF Accepted, Refused, At
    <3> QED BY <1>10, <3>1, <3>2
  <2>4. \A v \in Workers : Delivers(v)' <=> Delivers(v)
    BY <2>1 DEF Delivers
  <2> QED BY <1>4, <2>1, <2>3, <2>4, StepFrame
<1>11. ASSUME NEW w \in Workers, Tick(w) \/ Record(w), Apart PROVE InStep'
  BY <1>4, <1>11, TickInStep, RecordInStep DEF Apart, delivery, handler
<1>12. ASSUME NEW w \in Workers, StoreDisabled(w) \/ StoreDelivered(w) \/ StoreFailed(w)
       PROVE  InStep'
  BY <1>4, <1>12, StoreInStep
<1>13. ASSUME NEW w \in Workers, Revive(w) PROVE InStep'
  <2>1. /\ worker' = [worker EXCEPT ![w] = "sleeping"] /\ worker[w] = "down"
        /\ UNCHANGED <<state, attempts, batch, outcome, status, attempt, phase, seen>>
    BY <1>13 DEF Revive, Restart, GoTo, Apart, rows, delivery, handler
  <2>2. \A v \in Workers : /\ Delivers(v)' <=> Delivers(v)
                           /\ worker'[v] = "recording" <=> worker[v] = "recording"
    BY <2>1, InvTypes DEF Delivers
  <2> QED BY <1>4, <2>1, <2>2, StepFrame
<1>14. ASSUME NEW w \in Workers, DeliverFault(w) PROVE FALSE
  BY <1>4, <1>14 DEF DeliverFault, LoadFails, AnswerLost, Dies, Fails, Crash, TickLost, RecordLost
<1> QED BY <1>6, <1>7, <1>8, <1>9, <1>10, <1>11, <1>12, <1>13, <1>14 DEF DeliveryNext, DeliverStep

\* While nothing fails and batches fit in the lease, a job in hand has a row that waits for its attempt, and what
\* the handler stores is what the queue records.
THEOREM StepInvariance == FitsInLease /\ DeliverySpec => []StepInv
<1>1. DeliveryInit => StepInv
  <2> SUFFICES ASSUME DeliveryInit PROVE StepInv
    OBVIOUS
  <2>1. /\ \A j \in Jobs : state[j] = "none" /\ attempts[j] = 0 /\ attempt[j] = 1
        /\ \A w \in Workers : worker[w] = "sleeping" /\ batch[w] = << >>
    BY DEF DeliveryInit, Init
  <2>2. \A w \in Workers : Slots(w) = {}
    BY <2>1, EmptySeq DEF Slots
  <2> QED BY <2>1, <2>2 DEF StepInv, Unborn, InStep, Lockstep, InLockstep, Owned, RowsWait,
                            SeenIsCurrent, RowsTell, OnLadder, Delivers
<1> QED BY <1>1, NextStep, DeliveryInvariance, PTL DEF DeliverySpec

\* webhooks/worker.rs: the delivery row and its job stay in lockstep, as long as nothing
\* but the endpoint fails and batches fit in the lease.
THEOREM LockstepHolds == FitsInLease /\ DeliverySpec => []LockstepWithoutFaults
<1>1. StepInv => LockstepWithoutFaults
  BY DEF StepInv, InStep, LockstepWithoutFaults
<1> QED BY <1>1, StepInvariance, PTL

\* As long as nothing fails and batches fit in the lease, a pending row never fails the
\* batch it is claimed in: the ladder ends before the CHECK on attempts.
THEOREM PendingStaysClaimable == FitsInLease /\ DeliverySpec => []PendingCanBeClaimed
<1>1. DeliveryInv /\ StepInv => PendingCanBeClaimed
  <2> SUFFICES ASSUME DeliveryInv, StepInv, faults = 0, NEW j \in Jobs, state[j] = "pending"
               PROVE  attempts[j] < MaxAttempts[j]
    BY DEF PendingCanBeClaimed
  <2>1. attempts[j] <= Len(Ladder) /\ MaxAttempts[j] = Len(Ladder) + 1
    BY DeliveryAssumption DEF StepInv, InStep, OnLadder
  <2>2. attempts[j] \in Nat /\ Len(Ladder) \in Nat
    BY InvTypes, QueueAssumption, LenProperties
  <2> QED BY <2>1, <2>2
<1> QED BY <1>1, DeliveryInvariance, StepInvariance, PTL
===============================================================================
