--------------------------- MODULE WebhookDelivery ---------------------------
(***************************************************************************)
(* Webhook delivery: the job handler that sends an event to a merchant's   *)
(* endpoint, on top of the job queue that runs it.                         *)
(*                                                                         *)
(* A job stands for its delivery row too: engine::event::emit inserts the  *)
(* two together, one delivery and one job for each endpoint of an event.   *)
(* The queue's Handle is opened up into the statements of the handler.     *)
(***************************************************************************)
EXTENDS JobQueue

CONSTANTS
    Endpoints,
    EndpointOf     \* the endpoint of each delivery

ASSUME DeliveryAssumption ==
    /\ EndpointOf \in [Jobs -> Endpoints]
    /\ Handled = Jobs /\ BadPayloads = {}
    /\ \A j \in Jobs : MaxAttempts[j] = Len(Ladder) + 1   \* scheduler::MAX_ATTEMPTS

VARIABLES
    status,    \* webhook_deliveries.status, "none" before the row exists
    attempt,   \* webhook_deliveries.attempt
    active,    \* endpoints whose disabled_at is null
    phase,     \* where each handling worker is in deliver
    seen,      \* the attempt the handler read with the delivery row
    received   \* history: times the endpoint took the event

queue    == <<rows, local, runs, overtaken, faults>>
delivery == <<status, attempt, active>>
handler  == <<phase, seen, received>>
allVars  == <<queue, delivery, handler>>

DeliveryInit ==
    /\ Init
    /\ status = [j \in Jobs |-> "none"]
    /\ attempt = [j \in Jobs |-> 1]
    /\ active = Endpoints
    /\ phase = [w \in Workers |-> "idle"]
    /\ seen = [w \in Workers |-> 0]
    /\ received = [j \in Jobs |-> 0]

-----------------------------------------------------------------------------
\* engine::event::emit, at the commit of the engine's transaction; the job is due
\* at once.  The active endpoints were read before that transaction began, so this
\* one may be disabled by now.
Emit(j) ==
    /\ Enqueue(j, 0)
    /\ status' = [status EXCEPT ![j] = "pending"]
    /\ UNCHANGED <<attempt, active, handler>>

\* DELETE /v1/webhook_endpoints/:id; nothing enables an endpoint again.
DisableEndpoint(e) ==
    /\ e \in active
    /\ active' = active \ {e}
    /\ UNCHANGED <<queue, status, attempt, handler>>

Fails == faults < MaxFaults /\ faults' = faults + 1
Delivers(w) == worker[w] = "handling"
At(w, step) == Delivers(w) /\ phase[w] = step
Enter(w, step) == phase' = [phase EXCEPT ![w] = step]
Stays(w) == UNCHANGED <<rows, local, runs, overtaken>>

\* webhook_delivery::record_attempt: an UPDATE by id alone.
RecordAttempt(j, newStatus, newAttempt) ==
    /\ status' = [status EXCEPT ![j] = newStatus]
    /\ attempt' = [attempt EXCEPT ![j] = newAttempt]

\* A statement succeeds; or it fails, and then it may have taken effect or not.
Stored(j, newStatus, newAttempt) ==
    \/ RecordAttempt(j, newStatus, newAttempt)
    \/ UNCHANGED <<status, attempt>>

\* The handler has loaded the event, the endpoint and the delivery row.
Load(w) ==
    /\ At(w, "load")
    /\ seen' = [seen EXCEPT ![w] = attempt[Job(w)]]
    /\ Enter(w, IF EndpointOf[Job(w)] \in active THEN "send" ELSE "disabled")
    /\ Stays(w) /\ UNCHANGED <<faults, delivery, received>>

\* One of the three reads fails, whatever the error: the job fails for good.
LoadFails(w) ==
    /\ At(w, "load")
    /\ Fails /\ Returns(w, "permanent")
    /\ Enter(w, "idle")
    /\ UNCHANGED <<delivery, seen, received>>

\* Mutant: a disabled endpoint leaves the delivery row as it is.
LeaveRow(w) ==
    /\ At(w, "disabled")
    /\ Handle(w, "permanent") /\ Enter(w, "idle")
    /\ UNCHANGED <<delivery, seen, received>>
\* The endpoint was disabled after the job was enqueued; a failure to say so in
\* the row is ignored.
StoreDisabled(w) ==
    /\ At(w, "disabled")
    /\ \/ RecordAttempt(Job(w), "dead", seen[w]) /\ UNCHANGED faults
       \/ Fails /\ Stored(Job(w), "dead", seen[w])
    /\ Returns(w, "permanent")
    /\ Enter(w, "idle")
    /\ UNCHANGED <<active, seen, received>>

\* delivery::send: the endpoint takes the event and answers 2xx, ...
Accepted(w) ==
    /\ At(w, "send")
    /\ received' = [received EXCEPT ![Job(w)] = @ + 1]
    /\ Enter(w, "delivered")
    /\ Stays(w) /\ UNCHANGED <<faults, delivery, seen>>

\* Mutant: a 2xx other than 200 counts as a failure.
OnlyPlainOk(w) ==
    /\ At(w, "send")
    /\ received' = [received EXCEPT ![Job(w)] = @ + 1]
    /\ Enter(w, "failed")
    /\ Stays(w) /\ UNCHANGED <<faults, delivery, seen>>
\* ... it answers otherwise or is not reached, ...
Refused(w) ==
    /\ At(w, "send")
    /\ Enter(w, "failed")
    /\ Stays(w) /\ UNCHANGED <<faults, delivery, seen, received>>

\* ... or it takes the event and its answer is lost or late.
AnswerLost(w) ==
    /\ At(w, "send")
    /\ Fails
    /\ received' = [received EXCEPT ![Job(w)] = @ + 1]
    /\ Enter(w, "failed")
    /\ Stays(w) /\ UNCHANGED <<delivery, seen>>

\* Mutant: the outcome of a delivery is ignored when it cannot be stored.
CompleteAnyway(w) ==
    /\ At(w, "delivered")
    /\ \/ RecordAttempt(Job(w), "delivered", seen[w]) /\ UNCHANGED faults
       \/ Fails /\ Stored(Job(w), "delivered", seen[w])
    /\ Returns(w, "ok")
    /\ Enter(w, "idle")
    /\ UNCHANGED <<active, seen, received>>
StoreDelivered(w) ==
    /\ At(w, "delivered")
    /\ \/ /\ RecordAttempt(Job(w), "delivered", seen[w]) /\ UNCHANGED faults
          /\ Returns(w, "ok")
       \/ /\ Fails /\ Stored(Job(w), "delivered", seen[w])
          /\ Returns(w, "retryable")
    /\ Enter(w, "idle")
    /\ UNCHANGED <<active, seen, received>>

\* The row mirrors the queue's ladder.
\* Mutant: the row keeps its attempt.
NextSame(n) == n
NextAttempt(n) == IF Retries(n) THEN n + 1 ELSE n
RowStatus(n) == IF Retries(n) THEN "failed" ELSE "dead"
StoreFailed(w) ==
    /\ At(w, "failed")
    /\ \/ RecordAttempt(Job(w), RowStatus(seen[w]), NextAttempt(seen[w])) /\ UNCHANGED faults
       \/ Fails /\ Stored(Job(w), RowStatus(seen[w]), NextAttempt(seen[w]))
    /\ Returns(w, "retryable")
    /\ Enter(w, "idle")
    /\ UNCHANGED <<active, seen, received>>

\* The steps of the queue around the handler.
Apart == UNCHANGED <<delivery, handler>>
Begin(w) == /\ Execute(w) /\ Enter(w, "load")
            /\ UNCHANGED <<delivery, seen, received>>
Dies(w)  == /\ Crash(w) /\ Enter(w, "idle")
            /\ UNCHANGED <<delivery, seen, received>>
Revive(w) == Restart(w) /\ Apart

\* The HTTP request takes time, and so does the wait for a connection to record
\* the outcome, which stands for the waits of the handler's own statements.
Wait ==
    /\ \A w \in Workers : Delivers(w) => phase[w] = "send"
    /\ Pass /\ Apart

DeliverStep(w) ==
    \/ Begin(w) \/ Load(w) \/ StoreDisabled(w)
    \/ Accepted(w) \/ Refused(w)
    \/ StoreDelivered(w) \/ StoreFailed(w)
    \/ (Tick(w) \/ Record(w)) /\ Apart
DeliverFault(w) ==
    \/ LoadFails(w) \/ AnswerLost(w) \/ Dies(w)
    \/ (TickLost(w) \/ RecordLost(w)) /\ Apart
DeliveryNext ==
    \/ \E j \in Jobs : Emit(j)
    \/ \E e \in Endpoints : DisableEndpoint(e)
    \/ \E w \in Workers : DeliverStep(w) \/ DeliverFault(w) \/ Revive(w)
    \/ Wait

DeliverySpec == DeliveryInit /\ [][DeliveryNext]_allVars

\* As FairSpec of the queue: the runtime polls a worker, time passes, and a dead
\* process is restarted.
FairDeliverySpec ==
    /\ DeliverySpec /\ WF_allVars(Wait)
    /\ \A w \in Workers : WF_allVars(DeliverStep(w)) /\ WF_allVars(Revive(w))

-----------------------------------------------------------------------------
(* Properties. *)

\* Every variable holds a value of its shape.
DeliveryTypeOK ==
    /\ TypeOK
    /\ status \in [Jobs -> {"none", "pending", "failed", "delivered", "dead"}]
    /\ attempt \in [Jobs -> Nat] /\ active \subseteq Endpoints
    /\ phase \in [Workers -> {"idle", "load", "send", "disabled", "delivered", "failed"}]
    /\ seen \in [Workers -> Nat] /\ received \in [Jobs -> Nat]

\* A completed job means the merchant's endpoint took the event and the log that
\* the merchant reads says so, whatever failed on the way.
CompletedMeansAccepted ==
    \A j \in Jobs : state[j] = "completed" => received[j] > 0 /\ status[j] = "delivered"

\* An endpoint gets an event more than once only where something failed: a lost
\* answer, a lost write or a crash costs at most one duplicate each.
DuplicatesAreExplained == \A j \in Jobs : received[j] <= 1 + faults

\* webhooks/worker.rs: the delivery row and its job "stay in lockstep": the row
\* names the attempt the next claim will make, and ends as the job ends.
InLockstep(j) ==
    CASE state[j] = "pending"   -> attempt[j] = attempts[j] + 1 /\ status[j] \in {"pending", "failed"}
      [] state[j] = "completed" -> attempt[j] = attempts[j] /\ status[j] = "delivered"
      [] state[j] = "dead"      -> attempt[j] = attempts[j] /\ status[j] = "dead"
      [] OTHER                  -> TRUE
Lockstep == \A j \in Jobs : InLockstep(j)

\* While nothing fails but the merchant's endpoint, the lockstep holds.
LockstepWithoutFaults == faults = 0 => Lockstep

\* While nothing fails but the merchant's endpoint, every event that was emitted
\* is delivered or given up, and the delivery log says which.
DeliveriesSettle ==
    [](faults = 0) =>
        \A j \in Jobs : status[j] # "none" ~> status[j] \in {"delivered", "dead"} /\ Ended(j)
=============================================================================
