----------------------------- MODULE Idempotency -----------------------------
(***************************************************************************)
(* Idempotency keys: the middleware around every mutating request under    *)
(* /v1 and the rows of idempotency_keys it keeps.                          *)
(*                                                                         *)
(* The handler behind it is one step: its work is one transaction of the   *)
(* engine.  A request without the header never meets this code.            *)
(***************************************************************************)
EXTENDS Naturals

CONSTANTS
    Requests,      \* HTTP requests, a client's retries each being one
    Keys,          \* (merchant, Idempotency-Key) pairs
    Prints,        \* fingerprints of method, path and body
    KeyOf, PrintOf,
    Large,         \* requests whose success is too big a response to be recorded
    None,
    MaxFaults      \* bound: failures in one behaviour

ASSUME IdempotencyAssumption ==
    /\ KeyOf \in [Requests -> Keys] /\ PrintOf \in [Requests -> Prints]
    /\ Large \subseteq Requests /\ None \notin Requests /\ MaxFaults \in Nat

VARIABLES
    row,          \* idempotency_keys
    step,         \* the statement each request runs next
    response,     \* what its handler returned
    answer,       \* what its client was told
    charged,      \* history: requests whose handler committed its work
    misreported,  \* history: those of them whose commit looked like a failure
    faults        \* history: failures so far

vars == <<row, step, response, answer, charged, misreported, faults>>

\* A response carries the work it reports: the request that did it.
Kinds == {"done", "declined", "refused", "failed"}
Responses == [kind : Kinds, work : Requests \cup {None}]
Done(r) == [kind |-> "done", work |-> r]
Declined(r) == [kind |-> "declined", work |-> r]
Refusal == [kind |-> "refused", work |-> None]
Failure == [kind |-> "failed", work |-> None]
NoRow   == [state |-> "none"]

Mine(r) == row[KeyOf[r]]

Init ==
    /\ row = [k \in Keys |-> NoRow]
    /\ step = [r \in Requests |-> "insert"]
    /\ response = [r \in Requests |-> Failure]
    /\ answer = [r \in Requests |-> "none"]
    /\ charged = {} /\ misreported = {}
    /\ faults = 0

-----------------------------------------------------------------------------
GoTo(r, next) == step' = [step EXCEPT ![r] = next]
Write(r, new) == row' = [row EXCEPT ![KeyOf[r]] = new]
Fails == faults < MaxFaults /\ faults' = faults + 1

\* The client gets its answer; a replay or a fresh response also carries work.
Tell(r, what) ==
    /\ answer' = [answer EXCEPT ![r] = what]
    /\ GoTo(r, "answered")
Respond(r, resp) == Tell(r, resp.kind) /\ response' = [response EXCEPT ![r] = resp]

\* idempotency::acquire: INSERT ... ON CONFLICT DO NOTHING.
\* Mutant: an earlier row is taken over, as an upsert would.
Upsert(r) == TRUE
Absent(r) == Mine(r).state = "none"
Claim(r) == Write(r, [state |-> "in_progress", print |-> PrintOf[r]])
Insert(r) ==
    /\ step[r] = "insert"
    /\ IF Absent(r) THEN Claim(r) /\ GoTo(r, "execute")
                    ELSE GoTo(r, "select") /\ UNCHANGED row
    /\ UNCHANGED <<response, answer, charged, misreported, faults>>

\* The INSERT reports an error, having taken effect or not: 503.
InsertFails(r) ==
    /\ step[r] = "insert" /\ Fails
    /\ \/ Absent(r) /\ Claim(r)
       \/ UNCHANGED row
    /\ Tell(r, "failed")
    /\ UNCHANGED <<response, charged, misreported>>

\* acquire reads the row that was in its way; it may be gone by now (503).
\* Mutant: a reused key is served whatever the request.
SamePrintAlways(r) == TRUE
SamePrint(r) == Mine(r).print = PrintOf[r]
Select(r) ==
    /\ step[r] = "select"
    /\ \/ /\ Mine(r).state = "none"
          /\ Tell(r, "failed") /\ UNCHANGED response
       \/ /\ Mine(r).state = "in_progress"
          /\ Tell(r, "in_flight") /\ UNCHANGED response
       \/ /\ Mine(r).state = "completed" /\ SamePrint(r)
          /\ Respond(r, Mine(r).response)
       \/ /\ Mine(r).state = "completed" /\ ~SamePrint(r)
          /\ Tell(r, "mismatch") /\ UNCHANGED response
    /\ UNCHANGED <<row, charged, misreported, faults>>

\* The SELECT fails: 503, and the row was never this request's.
SelectFails(r) ==
    /\ step[r] = "select" /\ Fails
    /\ Tell(r, "failed")
    /\ UNCHANGED <<row, response, charged, misreported>>

\* The handler runs: it commits its work, which may be the record of a decline (a
\* 402, never big), refuses the request with a 4xx, or fails with a 5xx.
\* record: a 5xx or an oversized response is not worth keeping.
TooBig(r, resp) == r \in Large /\ resp.kind = "done"
NextStep(r, resp) == IF resp.kind = "failed" \/ TooBig(r, resp) THEN "release" ELSE "complete"
Execute(r) ==
    /\ step[r] = "execute"
    /\ \E resp \in {Done(r), Declined(r), Refusal, Failure} :
          /\ response' = [response EXCEPT ![r] = resp]
          /\ charged' = IF resp.work = r THEN charged \cup {r} ELSE charged
          /\ GoTo(r, NextStep(r, resp))
    /\ UNCHANGED <<row, answer, misreported, faults>>

\* The engine's COMMIT takes effect and its acknowledgement is lost: a 5xx.
CommitLost(r) ==
    /\ step[r] = "execute" /\ Fails
    /\ charged' = charged \cup {r} /\ misreported' = misreported \cup {r}
    /\ response' = [response EXCEPT ![r] = Failure]
    /\ GoTo(r, NextStep(r, Failure))
    /\ UNCHANGED <<row, answer>>

\* record: the response is stored for the replays, and a failure to store it is
\* only logged.
Completed(r) == [state |-> "completed", print |-> Mine(r).print, response |-> response[r]]
Complete(r) ==
    /\ step[r] = "complete"
    /\ \/ Write(r, Completed(r)) /\ UNCHANGED faults
       \/ Fails /\ UNCHANGED row
    /\ Tell(r, response[r].kind)
    /\ UNCHANGED <<response, charged, misreported>>

\* release: the row goes, unless the DELETE fails, which is only logged.  An
\* oversized response has lost its body.
\* Mutant: the row stays.
KeepRow(r) == UNCHANGED row
DropRow(r) == IF Mine(r).state = "in_progress" THEN Write(r, NoRow) ELSE UNCHANGED row
Release(r) ==
    /\ step[r] = "release"
    /\ \/ DropRow(r) /\ UNCHANGED faults
       \/ Fails /\ UNCHANGED row
    /\ Tell(r, IF TooBig(r, response[r]) THEN "no_body" ELSE response[r].kind)
    /\ UNCHANGED <<response, charged, misreported>>

\* The future of a request is dropped between two of its statements: its time is
\* up (timeout::enforce, 504), its client hung up, or its handler panicked.
InFlight(r) == step[r] \in {"select", "execute", "complete", "release"}
Drop(r) ==
    /\ InFlight(r) /\ Fails
    /\ Tell(r, "unknown")
    /\ UNCHANGED <<row, response, charged, misreported>>

\* The process dies with every request it serves.
Crash ==
    /\ Fails
    /\ \E r \in Requests : InFlight(r)
    /\ step' = [r \in Requests |-> IF InFlight(r) THEN "answered" ELSE step[r]]
    /\ answer' = [r \in Requests |-> IF InFlight(r) THEN "unknown" ELSE answer[r]]
    /\ UNCHANGED <<row, response, charged, misreported>>

Advance(r) == Select(r) \/ Execute(r) \/ Complete(r) \/ Release(r)
Next ==
    \/ \E r \in Requests : \/ Insert(r) \/ InsertFails(r) \/ Advance(r)
                           \/ SelectFails(r) \/ CommitLost(r) \/ Drop(r)
    \/ Crash

Spec == Init /\ [][Next]_vars

\* A request that was sent is polled to its end; nobody has to send one.
FairSpec == Spec /\ \A r \in Requests : WF_vars(Advance(r))

-----------------------------------------------------------------------------
(* Properties. *)

\* Every variable holds a value of its shape.
KeyRow == {NoRow} \cup [state : {"in_progress"}, print : Prints]
          \cup [state : {"completed"}, print : Prints, response : Responses]
TypeOK ==
    /\ row \in [Keys -> KeyRow]
    /\ step \in [Requests -> {"insert", "select", "execute", "complete", "release", "answered"}]
    /\ response \in [Requests -> Responses]
    /\ answer \in [Requests -> Kinds \cup {"none", "in_flight", "mismatch", "no_body", "unknown"}]
    /\ misreported \subseteq charged /\ charged \subseteq Requests
    /\ faults \in 0..MaxFaults

\* complete and release name the key alone, yet no request ever completes or
\* releases the key of another one: the row is its holder's as long as it runs.
Holds(r) == step[r] \in {"execute", "complete", "release"}
KeyHasOneHolder ==
    \A r \in Requests : Holds(r) =>
        /\ Mine(r) = [state |-> "in_progress", print |-> PrintOf[r]]
        /\ \A s \in Requests \ {r} : Holds(s) => KeyOf[s] # KeyOf[r]

\* The work behind a key is done once: only a commit that was taken for a failure
\* or a response too big to keep allows it again, whatever is dropped, lost or
\* killed besides.
ChargedFor(k) == {r \in charged : KeyOf[r] = k}
Forgotten == misreported \cup {r \in charged : TooBig(r, response[r])}
ChargesAreExplained ==
    \A r, s \in charged \ Forgotten : KeyOf[r] = KeyOf[s] => r = s

\* What clients are told is true: a success or a decline names committed work done under
\* their key for the request they sent, the same for all of them; a refusal means that
\* no work was done under the key, but for work whose record was given up.
AnswersAreTrue ==
    \A r \in Requests :
        /\ answer[r] \in {"done", "declined"} =>
              /\ response[r].work \in ChargedFor(KeyOf[r]) \ Forgotten
              /\ PrintOf[response[r].work] = PrintOf[r]
        /\ answer[r] = "refused" => ChargedFor(KeyOf[r]) \subseteq Forgotten

\* A request that holds a key gives it up, completed or released, if nothing fails.
KeysSettle ==
    [](faults = 0) =>
        \A k \in Keys : row[k].state = "in_progress" ~> row[k].state # "in_progress"

\* middleware/idempotency.rs: a row left in_progress is swept by the 24h expiry.
KeysAreSwept ==
    \A k \in Keys : row[k].state = "in_progress" ~> row[k].state # "in_progress"
=============================================================================
