------------------------------ MODULE JobQueue ------------------------------
(***************************************************************************)
(* The background job queue: the jobs table and the workers that claim its *)
(* rows, run a handler for each and record the outcome.                    *)
(*                                                                         *)
(* Time is relative: runIn counts down to run_at, age counts up from       *)
(* locked_at, and since[w] is the time since worker w read the clock for   *)
(* the job it executes.  One tick reads the clock once and its statements  *)
(* are taken to run at that instant.                                       *)
(***************************************************************************)
EXTENDS Integers, Sequences, FiniteSets

CONSTANTS
    Jobs, Workers,
    Handled,       \* jobs whose kind has a registered handler
    BadPayloads,   \* jobs on which the handler panics
    Ladder,        \* LADDER_SECS: delay after attempt 1, 2, ...
    MaxAttempts,   \* max_attempts of each job, as enqueued
    Delays,        \* how far in the future jobs are enqueued
    BatchSize,     \* WorkerConfig::batch_size
    LeaseTimeout,  \* WorkerConfig::lease_timeout
    HandlerTime,   \* the longest from the clock reading of a job to its outcome in
                   \* its row: the send timeout and the waits for a connection
    Overdue,       \* bound: run_at is told apart up to this far in the past
    MaxFaults      \* bound: crashes and failed writes in one behaviour

ASSUME QueueAssumption ==
    /\ Handled \subseteq Jobs /\ BadPayloads \subseteq Jobs
    /\ Ladder \in Seq(Nat) /\ MaxAttempts \in [Jobs -> Nat]
    /\ BatchSize \in Nat \ {0} /\ Delays \subseteq Nat
    /\ {LeaseTimeout, HandlerTime, Overdue, MaxFaults} \subseteq Nat

\* A batch is through before its lease expires.  Nothing in the code sees to it: a
\* property that needs it says so, and the others hold of slow workers too.
FitsInLease == BatchSize * HandlerTime <= LeaseTimeout

VARIABLES
    state,     \* jobs.state; "none" before the enqueuing transaction commits
    runIn,     \* run_at - now
    attempts,  \* jobs.attempts
    age,       \* now - locked_at of a running job
    worker,    \* what each worker is doing
    batch,     \* claimed jobs it still has to execute, as RETURNING gave them
    since,     \* now - the clock reading of the job it executes
    outcome,   \* what the handler returned
    runs,      \* history: times each job was handed to its handler
    overtaken, \* history: jobs whose lease was reaped with the claim still in hand
    faults     \* history: faults so far

rows  == <<state, runIn, attempts, age>>
local == <<worker, batch, since, outcome>>
vars  == <<rows, local, runs, overtaken, faults>>

Outcomes == {"ok", "retryable", "permanent"}
WorkerState == {"sleeping", "next_job", "handling", "recording", "dead", "down"}

Init ==
    /\ state = [j \in Jobs |-> "none"]
    /\ runIn = [j \in Jobs |-> 0]
    /\ attempts = [j \in Jobs |-> 0]
    /\ age = [j \in Jobs |-> 0]
    /\ worker = [w \in Workers |-> "sleeping"]
    /\ batch = [w \in Workers |-> << >>]
    /\ since = [w \in Workers |-> 0]
    /\ outcome = [w \in Workers |-> "ok"]
    /\ runs = [j \in Jobs |-> 0]
    /\ overtaken = {}
    /\ faults = 0

-----------------------------------------------------------------------------
\* job::enqueue, at the commit of the transaction that needs the job.
Enqueue(j, delay) ==
    /\ state[j] = "none"
    /\ state' = [state EXCEPT ![j] = "pending"]
    /\ runIn' = [runIn EXCEPT ![j] = delay]
    /\ UNCHANGED <<attempts, age, local, runs, overtaken, faults>>

\* scheduler::next_retry_at: the delay after a failed attempt, none when the
\* ladder is exhausted.
\* Mutant: one attempt too many.
RetriesOnceMore(n) == n <= Len(Ladder) + 1
Retries(n) == n < 1 \/ n <= Len(Ladder)
RetryDelay(n) == IF n < 1 \/ n > Len(Ladder) THEN 0 ELSE Ladder[n]

\* job::reap_stale_leases, an UPDATE of its own.
Stale == {j \in Jobs : state[j] = "running" /\ age[j] > LeaseTimeout}
Reaped == [j \in Jobs |-> IF j \in Stale THEN "pending" ELSE state[j]]

\* The claims a worker has in hand, and what the reaper does to them: it looks at
\* locked_at alone, so the holder may be alive and late.
InHand(w) == {batch[w][i] : i \in 1..Len(batch[w])}
Reap == overtaken' = overtaken \cup {j \in Stale : \E w \in Workers : \E c \in InHand(w) : c.job = j}

\* job::claim_batch: the oldest due rows, at most BatchSize of them.
\* Mutants: it asks for rows that nobody runs; it leaves the state out, as if the
\* rows of others were locked.
DueUnlessRunning(s) == {j \in Jobs : s[j] \notin {"none", "running"} /\ runIn[j] <= 0}
DueUnlessEnded(s) == {j \in Jobs : s[j] \in {"pending", "running"} /\ runIn[j] <= 0}
Due(s) == {j \in Jobs : s[j] = "pending" /\ runIn[j] <= 0}
IsOldestFirst(q) ==
    \A i, k \in 1..Len(q) : i < k => q[i] # q[k] /\ runIn[q[i]] <= runIn[q[k]]
Batches(s) ==
    {q \in UNION {[1..n -> Due(s)] : n \in 0..BatchSize} :
        /\ IsOldestFirst(q)
        /\ Len(q) = IF Cardinality(Due(s)) < BatchSize THEN Cardinality(Due(s)) ELSE BatchSize
        /\ \A i \in 1..Len(q), j \in Due(s) \ {q[k] : k \in 1..Len(q)} : runIn[q[i]] <= runIn[j]}
InBatch(q) == {q[i] : i \in 1..Len(q)}

\* CHECK (attempts <= max_attempts): one row over its bound fails the UPDATE.
\* Mutant: the constraint is missing.
ClaimAlways(q) == TRUE
ClaimFits(q) == \A j \in InBatch(q) : attempts[j] + 1 <= MaxAttempts[j]

Claimed(s, q) == [j \in Jobs |-> IF j \in InBatch(q) THEN "running" ELSE s[j]]

\* Worker::tick up to the commit of the claim.  The claimed rows come back with
\* the attempt count the claim wrote.
Tick(w) ==
    /\ worker[w] = "sleeping"
    /\ \E q \in Batches(Reaped) :
          \/ /\ q # << >> /\ ClaimFits(q)
             /\ state' = Claimed(Reaped, q)
             /\ attempts' = [j \in Jobs |-> attempts[j] + IF j \in InBatch(q) THEN 1 ELSE 0]
             /\ age' = [j \in Jobs |-> IF j \in InBatch(q) THEN 0 ELSE age[j]]
             /\ batch' = [batch EXCEPT ![w] =
                             [i \in 1..Len(q) |-> [job |-> q[i], attempts |-> attempts[q[i]] + 1]]]
             /\ worker' = [worker EXCEPT ![w] = "next_job"]
          \/ /\ q = << >> \/ ~ClaimFits(q)
             /\ Stale # {}
             /\ state' = Reaped
             /\ UNCHANGED <<attempts, age, batch, worker>>
    /\ Reap
    /\ UNCHANGED <<runIn, since, outcome, runs, faults>>

\* The claim commits and the worker does not hear of it (tick: "failed to commit
\* claim"), or dies before the first job.
TickLost(w) ==
    /\ worker[w] = "sleeping" /\ faults < MaxFaults
    /\ \E q \in Batches(Reaped) :
          /\ q # << >> /\ ClaimFits(q)
          /\ state' = Claimed(Reaped, q)
          /\ attempts' = [j \in Jobs |-> attempts[j] + IF j \in InBatch(q) THEN 1 ELSE 0]
          /\ age' = [j \in Jobs |-> IF j \in InBatch(q) THEN 0 ELSE age[j]]
    /\ Reap
    /\ faults' = faults + 1
    /\ UNCHANGED <<runIn, local, runs>>

Job(w) == Head(batch[w]).job
GoTo(w, step) == worker' = [worker EXCEPT ![w] = step]
NextJob(w) ==
    /\ batch' = [batch EXCEPT ![w] = Tail(@)]
    /\ GoTo(w, IF Len(batch[w]) = 1 THEN "sleeping" ELSE "next_job")

\* Worker::execute reads the clock and looks for a handler; a job of a kind
\* nobody registered fails for good.
Execute(w) ==
    /\ worker[w] = "next_job"
    /\ since' = [since EXCEPT ![w] = 0]
    /\ IF Job(w) \in Handled
       THEN /\ GoTo(w, "handling")
            /\ runs' = [runs EXCEPT ![Job(w)] = @ + 1]
            /\ UNCHANGED outcome
       ELSE /\ GoTo(w, "recording")
            /\ outcome' = [outcome EXCEPT ![w] = "permanent"]
            /\ UNCHANGED runs
    /\ UNCHANGED <<rows, batch, overtaken, faults>>

\* The handler returns.
Returns(w, result) ==
    /\ worker[w] = "handling" /\ Job(w) \notin BadPayloads
    /\ outcome' = [outcome EXCEPT ![w] = result]
    /\ GoTo(w, "recording")
    /\ UNCHANGED <<rows, batch, since, runs, overtaken>>
Handle(w, result) == Returns(w, result) /\ UNCHANGED faults

\* The handler panics: `unconstrained` catches nothing, so the panic unwinds
\* through execute, tick and run and ends the worker's task.
Panic(w) ==
    /\ worker[w] = "handling" /\ Job(w) \in BadPayloads
    /\ GoTo(w, "dead")
    /\ batch' = [batch EXCEPT ![w] = << >>]
    /\ UNCHANGED <<rows, since, outcome, runs, overtaken, faults>>

\* Mutant: a retryable failure is always put back.
VerdictForever(result, n) ==
    CASE result = "ok" -> "completed" [] result = "permanent" -> "dead" [] OTHER -> "pending"
\* job::complete and job::fail_and_reschedule: an UPDATE by id alone.
Verdict(result, n) ==
    CASE result = "ok"        -> "completed"
      [] result = "permanent" -> "dead"
      [] result = "retryable" -> IF Retries(n) THEN "pending" ELSE "dead"
AtLeast(low, x) == IF x < low THEN low ELSE x
Record(w) ==
    LET j == Job(w)
        n == Head(batch[w]).attempts
        verdict == Verdict(outcome[w], n)
    IN  /\ worker[w] = "recording"
        /\ state' = [state EXCEPT ![j] = verdict]
        /\ runIn' = IF verdict = "pending"
                    THEN [runIn EXCEPT ![j] = AtLeast(-Overdue, RetryDelay(n) - since[w])]
                    ELSE runIn
        /\ NextJob(w)
        /\ UNCHANGED <<attempts, age, since, outcome, runs, overtaken, faults>>

\* The UPDATE fails; execute logs or ignores it and goes on.
RecordLost(w) ==
    /\ worker[w] = "recording" /\ faults < MaxFaults
    /\ faults' = faults + 1
    /\ NextJob(w)
    /\ UNCHANGED <<rows, since, outcome, runs, overtaken>>

\* The process dies at any point and is started again.
Crash(w) ==
    /\ worker[w] \in {"next_job", "handling", "recording", "dead"} /\ faults < MaxFaults
    /\ faults' = faults + 1
    /\ GoTo(w, "down")
    /\ batch' = [batch EXCEPT ![w] = << >>]
    /\ UNCHANGED <<rows, since, outcome, runs, overtaken>>
Restart(w) ==
    /\ worker[w] = "down"
    /\ GoTo(w, "sleeping")
    /\ UNCHANGED <<rows, batch, since, outcome, runs, overtaken, faults>>

\* One unit of time passes, unless a job has used up its time or a worker has a job
\* to turn to.
Occupied(w) == worker[w] \in {"handling", "recording"}
Pass ==
    /\ \A w \in Workers : /\ worker[w] # "next_job"
                          /\ Occupied(w) => since[w] < HandlerTime
    /\ runIn' = [j \in Jobs |-> IF state[j] = "pending" THEN AtLeast(-Overdue, runIn[j] - 1)
                                                        ELSE runIn[j]]
    /\ age' = [j \in Jobs |-> IF state[j] = "running" /\ age[j] <= LeaseTimeout
                              THEN age[j] + 1 ELSE age[j]]
    /\ since' = [w \in Workers |-> IF Occupied(w) THEN since[w] + 1 ELSE since[w]]
    /\ <<runIn, age, since>>' # <<runIn, age, since>>
    /\ UNCHANGED <<state, attempts, worker, batch, outcome, runs, overtaken, faults>>

-----------------------------------------------------------------------------
WorkerStep(w) == \/ Tick(w) \/ Execute(w) \/ Panic(w) \/ Record(w)
                 \/ \E result \in Outcomes : Handle(w, result)
Fault(w) == TickLost(w) \/ RecordLost(w) \/ Crash(w)
Next == \/ \E j \in Jobs, delay \in Delays : Enqueue(j, delay)
        \/ \E w \in Workers : WorkerStep(w) \/ Fault(w) \/ Restart(w)
        \/ Pass

Spec == Init /\ [][Next]_vars

\* The runtime keeps polling every worker and time passes; the supervisor
\* restarts a process that died.
FairSpec == /\ Spec /\ WF_vars(Pass)
            /\ \A w \in Workers : WF_vars(WorkerStep(w)) /\ WF_vars(Restart(w))

-----------------------------------------------------------------------------
(* Properties. *)

\* Every variable holds a value of its shape.
TypeOK ==
    /\ state \in [Jobs -> {"none", "pending", "running", "completed", "dead"}]
    /\ runIn \in [Jobs -> Int] /\ attempts \in [Jobs -> Nat]
    /\ age \in [Jobs -> 0..(LeaseTimeout + 1)]
    /\ worker \in [Workers -> WorkerState]
    /\ batch \in [Workers -> Seq([job : Jobs, attempts : Nat])]
    /\ since \in [Workers -> 0..HandlerTime] /\ outcome \in [Workers -> Outcomes]
    /\ runs \in [Jobs -> Nat] /\ overtaken \subseteq Jobs /\ faults \in 0..MaxFaults

\* Where a batch fits in the lease, the reaper takes no job from a worker that is
\* alive: only crashed holders lose their claims (store/job.rs: "a crashed worker's
\* jobs can later be reclaimed by the reaper").
LeasesAreKept == FitsInLease => overtaken = {}

\* Workers hold disjoint sets of jobs, and a held job is still leased to its
\* holder at the attempt it was claimed for, although the row lock is gone since
\* the claim committed (queue/worker.rs: "the lease is what protects the claimed
\* rows, not the lock"): unless the reaper has overtaken the job's holder.
ClaimsAreExclusive ==
    /\ \A w, v \in Workers : w # v =>
          {c.job : c \in InHand(w)} \cap {c.job : c \in InHand(v)} \subseteq overtaken
    /\ \A w \in Workers : \A c \in InHand(w) : c.job \in overtaken \/
          (state[c.job] = "running" /\ attempts[c.job] = c.attempts)

\* Each run of a handler was paid for by an attempt, and attempts stay within the
\* bound the jobs table checks, whatever crashes or is late in between.
RunsAreCounted == \A j \in Jobs : runs[j] <= attempts[j] /\ attempts[j] <= MaxAttempts[j]

\* While nothing crashes and no write is lost, a pending row can be claimed without
\* breaking the CHECK on attempts, so it cannot fail the batch it is claimed in.
PendingCanBeClaimed ==
    faults = 0 => \A j \in Jobs : state[j] = "pending" => attempts[j] < MaxAttempts[j]

\* complete and fail_and_reschedule update by id alone, where a test says that "Dead
\* jobs are never claimed again" (store/job.rs:372).  Crashes, lost claims and lost
\* outcomes still never revive a job that has ended: that takes a worker that is alive
\* and was late enough for the reaper to overtake it.
Ended(j) == state[j] \in {"completed", "dead"}
EndedIsFinal ==
    [][\A j \in Jobs : Ended(j) /\ j \notin overtaken => state'[j] = state[j]]_vars

\* store/job.rs: a job whose lease expired "goes back to pending so another worker
\* can pick it up".
AbandonedJobsRunAgain ==
    \A j \in Jobs : j \in Stale ~> Ended(j) \/ (state[j] = "running" /\ age[j] <= LeaseTimeout)

\* queue/worker.rs: "Panics don't kill the worker ... one bad payload can't take the
\* queue down": the jobs with good payloads still settle.
GoodJobsSettle == \A j \in Jobs \ BadPayloads : state[j] # "none" ~> Ended(j)
=============================================================================
