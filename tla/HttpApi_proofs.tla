---------------------------- MODULE HttpApi_proofs ----------------------------
(***************************************************************************)
(* What the API promises of its answers, for any traffic, keys, tenants    *)
(* and failures.                                                           *)
(*                                                                         *)
(* The invariant follows a request through the layers: what each of them   *)
(* has established when the next one runs, who holds a row of the key      *)
(* store while it works, and whose response a kept row holds.              *)
(*                                                                         *)
(* Then that the layers implement Idempotency, and what follows for the    *)
(* requests that name a key.                                               *)
(***************************************************************************)
EXTENDS HttpApi, FiniteSetTheorems, TLAPS

Prints == {Fingerprint(r) : r \in Requests}
Row == [state : {"none"}] \cup [state : {"in_progress"}, print : Prints]
       \cup [state : {"completed"}, print : Prints, response : Response]
Stages == Serving \cup {"unsent", "answered"}

TypeOK ==
    /\ stage \in [Requests -> Stages]
    /\ caller \in [Requests -> DOMAIN ApiKeys \cup {None}]
    /\ existing \in [Requests -> Nat]
    /\ returned \in [Requests -> Response \cup {None}]
    /\ answer \in [Requests -> Response \cup {None}]
    /\ rows \in [Merchants \X KeyNames -> Row]
    /\ IsFiniteSet(active) /\ IsFiniteSet(late)
    /\ wrote \in [Requests -> Merchants \cup {None}]
    /\ hit \in [Requests -> Stages \cup {None}]
    /\ late \subseteq Requests /\ claimed \subseteq Requests
    /\ faults \in Nat /\ keyFaults \in Nat

\* What a layer has established when the next one runs.
Working == {"handler", "read", "work"}
Authorized(r) == Authentic(r) /\ caller[r] = TokenOf(r).key
Layered(r) ==
    /\ stage[r] = "probe" => q(r).route = "health"
    /\ stage[r] = "auth" => q(r).route \in DOMAIN Routes
    /\ stage[r] \in {"insert", "select", "record"} \cup Working =>
          Authorized(r) /\ q(r).route \in DOMAIN Routes
    /\ stage[r] = "insert" => Guarded(r)
    /\ stage[r] \in {"select", "record"} => r \in claimed
    /\ r \in claimed =>
          Authorized(r) /\ Guarded(r) /\ stage[r] \in {"select", "record", "answered"} \cup Working
    /\ stage[r] \in {"read", "work"} => Refusal(r) = "ok"
    /\ stage[r] = "work" /\ q(r).route = "endpoints_create" => existing[r] < Cap

\* A write comes last, and a failure of the database ends the work.
WroteLast(r) ==
    /\ wrote[r] # None =>
          /\ stage[r] \in {"record", "answered"} /\ Authorized(r)
          /\ Refusal(r) = "ok" /\ wrote[r] = Merchant(r)
    /\ r \in late => wrote[r] # None
    /\ hit[r] # None => stage[r] \in {"record", "answered"}

\* A response made for r, and one that tells what r has done.
Own(r, resp) ==
    /\ resp.by = r /\ ~resp.replayed /\ resp.bodyId \in {None, RequestIdOf(r)}
    /\ resp.of # None => Authorized(r) /\ resp.of = Merchant(r)
Tells(r, resp) ==
    /\ resp.status \in 400..499 \cup {503} /\ ~resp.payment => wrote[r] = None
    /\ resp.status = 201 \/ resp.payment => wrote[r] = Merchant(r)
    /\ hit[r] \notin {None, "record"} => resp.status >= 500

Handled(r) ==
    At(r, "record") =>
        /\ returned[r] \in Response /\ Own(r, returned[r]) /\ Tells(r, returned[r])
        /\ returned[r].retryAfter => returned[r].status >= 500

\* The request that r repeats.
Repeats(r, b) ==
    /\ b # r /\ {b, r} \subseteq claimed /\ Answered(b)
    /\ SlotOf(b) = SlotOf(r) /\ Fingerprint(b) = Fingerprint(r)
Replied(r) ==
    Answered(r) =>
        /\ IF answer[r].replayed
           THEN /\ Repeats(r, answer[r].by) /\ wrote[r] = None /\ hit[r] = None
                /\ answer[r].status = returned[answer[r].by].status
                /\ answer[r].of \in {None, Merchant(r)}
           ELSE Own(r, answer[r]) /\ Tells(r, answer[r])
        /\ answer[r].challenge = Challenge(r, answer[r].status)
        /\ answer[r].id = IF q(r).route = "preflight" THEN None ELSE RequestIdOf(r)
        /\ q(r).route = "preflight" => answer[r].bodyId = None

\* A row in progress is in at most one hand, and a completed one holds what the
\* request that claimed it returned.
Holding(r) == r \in claimed /\ stage[r] \in Working \cup {"record"}
HeldInProgress ==
    \A r \in Requests : Holding(r) =>
        Mine(r).state = "in_progress" /\ Mine(r).print = Fingerprint(r)
HeldInOneHand ==
    \A r, s \in Requests : Holding(r) /\ Holding(s) /\ SlotOf(r) = SlotOf(s) => r = s
KeptFrom(k, b) ==
    /\ b \in claimed /\ Answered(b) /\ SlotOf(b) = k /\ Fingerprint(b) = rows[k].print
    /\ rows[k].response = returned[b] /\ returned[b].of \in {None, Merchant(b)}
    /\ returned[b].status < 500 /\ ~returned[b].retryAfter
KeptAsReturned ==
    \A k \in Merchants \X KeyNames :
        rows[k].state = "completed" => KeptFrom(k, rows[k].response.by)

RequestInv(r) == Layered(r) /\ WroteLast(r) /\ Handled(r) /\ Replied(r)
RequestsInv == \A r \in Requests : RequestInv(r)
RowsInv == HeldInProgress /\ HeldInOneHand /\ KeptAsReturned
ApiInv == TypeOK /\ RequestsInv /\ RowsInv /\ EndpointsAreBounded
-----------------------------------------------------------------------------
(* Routes, codes and answers. *)

LEMMA RouteFacts ==
    \A n \in DOMAIN Routes :
        /\ Routes[n].verb \in {"GET", "POST", "PUT", "DELETE"}
        /\ n \in DOMAIN Fallbacks
           \/ (Routes[n].ok \in {200, 201} /\ (Routes[n].verb = "GET" => Routes[n].ok = 200))
<1> DEFINE Good(t) == \A n \in DOMAIN t :
        t[n].verb \in {"GET", "POST", "PUT", "DELETE"} /\ t[n].ok \in {200, 201}
        /\ (t[n].verb = "GET" => t[n].ok = 200)
<1>1. Good(OrderRoutes)
  BY DEF OrderRoutes
<1>2. Good(PaymentRoutes)
  BY DEF PaymentRoutes
<1>3. Good(RefundRoutes)
  BY DEF RefundRoutes
<1>4. Good(EventRoutes)
  BY DEF EventRoutes
<1>5. Good(EndpointRoutes)
  BY DEF EndpointRoutes
<1>6. \A n \in DOMAIN Fallbacks : Fallbacks[n].verb \in {"POST", "PUT"}
  BY DEF Fallbacks
<1>7. ASSUME NEW f, NEW g, Good(f), Good(g) PROVE Good(Merge(f, g))
  BY <1>7 DEF Merge
<1> DEFINE resources == Merge(OrderRoutes, Merge(PaymentRoutes, RefundRoutes))
<1> DEFINE all == Merge(resources, Merge(EventRoutes, EndpointRoutes))
<1>8. Good(all)
  <2> HIDE DEF Good
  <2>1. Good(Merge(PaymentRoutes, RefundRoutes)) /\ Good(Merge(EventRoutes, EndpointRoutes))
    BY <1>2, <1>3, <1>4, <1>5, <1>7
  <2>2. Good(resources)
    BY <1>1, <1>7, <2>1
  <2> HIDE DEF resources
  <2> QED BY <1>7, <2>1, <2>2
<1>9. Routes = Merge(all, Fallbacks)
  BY DEF Routes
<1> HIDE DEF all
<1> QED BY <1>6, <1>8, <1>9 DEF Merge

LEMMA ErrorFields ==
    ASSUME NEW r \in Requests, NEW code \in DOMAIN ErrorStatus
    PROVE  /\ Error(r, code) \in Response
           /\ Error(r, code).status = ErrorStatus[code]
           /\ Error(r, code).status \in 400..599 /\ Error(r, code).status \in Nat
           /\ Error(r, code).of = None /\ Error(r, code).by = r
           /\ ~Error(r, code).payment /\ ~Error(r, code).replayed
           /\ Error(r, code).bodyId = RequestIdOf(r)
           /\ (Error(r, code).retryAfter <=> code \in AdvisesRetry)
<1>1. ErrorStatus[code] \in 400..599
  BY DEF ErrorStatus
<1>2. ErrorStatus[code] \in Nat
  BY <1>1
<1>3. code \in Codes /\ "none" \in Challenges
  BY DEF Codes, Challenges
<1>4. RequestIdOf(r) \in Ids /\ None \in Ids
  BY DEF Ids
<1>5. Error(r, code) \in Response
  BY <1>2, <1>3, <1>4 DEF Error, Response
<1>6. /\ Error(r, code).status = ErrorStatus[code]
      /\ Error(r, code).of = None /\ Error(r, code).by = r
      /\ ~Error(r, code).payment /\ ~Error(r, code).replayed
      /\ Error(r, code).bodyId = RequestIdOf(r)
      /\ (Error(r, code).retryAfter <=> code \in AdvisesRetry)
  BY DEF Error
<1> QED BY <1>1, <1>2, <1>5, <1>6

LEMMA DeclinedFields ==
    ASSUME NEW r \in Requests, NEW m \in Merchants
    PROVE  /\ Declined(r, m) \in Response
           /\ Declined(r, m).status = 402 /\ Declined(r, m).of = m /\ Declined(r, m).by = r
           /\ Declined(r, m).payment /\ ~Declined(r, m).replayed
           /\ Declined(r, m).bodyId = RequestIdOf(r) /\ ~Declined(r, m).retryAfter
<1>1. "card" \in DOMAIN ErrorStatus /\ ErrorStatus["card"] = 402 /\ "card" \notin AdvisesRetry
  BY DEF ErrorStatus, AdvisesRetry
<1> DEFINE e == Error(r, "card")
<1>2. e \in Response
  BY <1>1, ErrorFields
<1>3. /\ e.status = ErrorStatus["card"] /\ e.by = r
      /\ ~e.replayed /\ (e.retryAfter <=> "card" \in AdvisesRetry)
      /\ e.bodyId = RequestIdOf(r)
  BY <1>1, ErrorFields
<1>4. Declined(r, m) = [e EXCEPT !.payment = TRUE, !.of = m]
  BY DEF Declined
<1> HIDE DEF e
<1>5. Declined(r, m) \in Response
  BY <1>2, <1>4 DEF Response
<1>6. /\ Declined(r, m).status = e.status /\ Declined(r, m).by = e.by
      /\ Declined(r, m).of = m /\ Declined(r, m).payment
      /\ Declined(r, m).replayed = e.replayed /\ Declined(r, m).retryAfter = e.retryAfter
      /\ Declined(r, m).bodyId = e.bodyId
  BY <1>2, <1>4 DEF Response
<1> QED BY <1>1, <1>3, <1>5, <1>6

LEMMA SuccessFields ==
    ASSUME NEW r \in Requests, NEW status \in Nat, NEW m \in Merchants \cup {None}
    PROVE  /\ Success(r, status, m) \in Response
           /\ Success(r, status, m).status = status /\ Success(r, status, m).of = m
           /\ Success(r, status, m).by = r /\ ~Success(r, status, m).payment
           /\ ~Success(r, status, m).replayed /\ Success(r, status, m).bodyId = None
           /\ ~Success(r, status, m).retryAfter
<1>1. None \in Ids /\ "ok" \in Codes /\ "none" \in Challenges
  BY DEF Ids, Codes, Challenges
<1>2. Success(r, status, m) \in Response
  BY <1>1 DEF Success, Response
<1>3. /\ Success(r, status, m).status = status /\ Success(r, status, m).of = m
      /\ Success(r, status, m).by = r /\ ~Success(r, status, m).payment
      /\ ~Success(r, status, m).replayed /\ Success(r, status, m).bodyId = None
      /\ ~Success(r, status, m).retryAfter
  BY DEF Success
<1> QED BY <1>2, <1>3

\* What a handler can refuse with: no code that asks for a retry, nor one of the keys.
Refusals == DOMAIN ErrorStatus \ (AdvisesRetry \cup {"key_reused"})
LEMMA CodesAreKnown ==
    ASSUME NEW r \in Requests
    PROVE  /\ GuardError(r) \in Refusals \cup {"ok"}
           /\ Refusal(r) \in Refusals \cup {"ok"}
           /\ \A e \in EngineErrors(r) : OfEngineError(e) \in Refusals
           /\ OfEngineError("08006") = "internal" /\ "internal" \in Refusals
           /\ {"invalid_request", "not_found", "card"} \subseteq Refusals
<1>1. {"invalid_request", "not_found", "card", "internal", "forbidden", "payload_too_large",
       "unsupported_media_type", "conflict", "unknown_endpoint", "method_not_allowed"}
      \subseteq Refusals
  BY DEF Refusals, ErrorStatus, AdvisesRetry
<1>2. GuardError(r) \in Refusals \cup {"ok"}
  BY <1>1 DEF GuardError
<1>3. JsonError[q(r).body] \in Refusals \cup {"ok"}
  BY <1>1, TrafficAssumption DEF JsonError
<1>4. Extracted(r) \in Refusals \cup {"ok"}
  BY <1>1, <1>3 DEF Extracted, QueryError, PathError
<1>5. q(r).route \in DOMAIN Fallbacks => q(r).route \in Refusals
  BY <1>1 DEF Fallbacks
<1>6. Refusal(r) \in Refusals \cup {"ok"}
  BY <1>1, <1>4, <1>5 DEF Refusal, InvalidAs
<1>7. \A e \in EngineErrors(r) : e \in {"validation", "23505", "card", "transition"}
  BY DEF EngineErrors
<1>8. \A e \in {"validation", "23505", "card", "transition"} : OfEngineError(e) \in Refusals
  BY <1>1 DEF OfEngineError, OfStoreError, StoreErrorOf
<1>9. OfEngineError("08006") = "internal"
  BY DEF OfEngineError, OfStoreError, StoreErrorOf
<1> QED BY <1>1, <1>2, <1>6, <1>7, <1>8, <1>9

\* What a handler has established when it goes on.
LEMMA AcceptedIs ==
    ASSUME NEW r \in Requests, Refusal(r) = "ok"
    PROVE  q(r).route \notin DOMAIN Fallbacks /\ Holds(r, route(r).scope)
<1>1. q(r).route \in DOMAIN Fallbacks => q(r).route # "ok"
  BY DEF Fallbacks
<1>2. ~Holds(r, route(r).scope) => Refusal(r) # "ok"
  BY <1>1 DEF Refusal
<1>3. q(r).route \in DOMAIN Fallbacks => Refusal(r) # "ok"
  BY <1>1 DEF Refusal
<1> QED BY <1>2, <1>3

-----------------------------------------------------------------------------
(* Answering and returning. *)

Sent(r, resp) ==
    /\ Answered(r)
    /\ answer[r].status = resp.status /\ answer[r].of = resp.of /\ answer[r].by = resp.by
    /\ answer[r].payment = resp.payment /\ answer[r].bodyId = resp.bodyId
    /\ answer[r].retryAfter = resp.retryAfter /\ answer[r].replayed = resp.replayed
    /\ answer[r].challenge = Challenge(r, answer[r].status)
    /\ answer[r].id = IF q(r).route = "preflight" THEN None ELSE RequestIdOf(r)

\* The step answers r with resp, or hands resp to the layer that records it.
StageOfOthers(r) ==
    /\ stage' \in [Requests -> Stages] /\ answer' \in [Requests -> Response \cup {None}]
    /\ \A s \in Requests \ {r} : stage'[s] = stage[s] /\ answer'[s] = answer[s]

LEMMA GoToFields ==
    ASSUME TypeOK, NEW r \in Requests, NEW to \in Stages, GoTo(r, to), UNCHANGED answer
    PROVE  StageOfOthers(r) /\ stage'[r] = to
BY DEF TypeOK, GoTo, StageOfOthers

LEMMA ReplyFields ==
    ASSUME TypeOK, NEW r \in Requests, NEW resp \in Response, Reply(r, resp)
    PROVE  StageOfOthers(r) /\ stage'[r] = "answered" /\ Sent(r, resp)'
<1> DEFINE id == IF q(r).route = "preflight" THEN None ELSE RequestIdOf(r)
<1> DEFINE challenge == Challenge(r, resp.status)
<1>1. id \in Ids /\ challenge \in Challenges
  BY DEF Ids, Challenge, Challenges
<1> DEFINE sent == [resp EXCEPT !.challenge = challenge, !.id = id]
<1>2. answer' = [answer EXCEPT ![r] = sent] /\ stage' = [stage EXCEPT ![r] = "answered"]
  BY DEF Reply, GoTo
<1> HIDE DEF id, challenge
<1>3. sent \in Response
  BY <1>1 DEF Response
<1>4. /\ sent.status = resp.status /\ sent.of = resp.of /\ sent.by = resp.by
      /\ sent.payment = resp.payment /\ sent.bodyId = resp.bodyId
      /\ sent.retryAfter = resp.retryAfter /\ sent.replayed = resp.replayed
      /\ sent.challenge = challenge /\ sent.id = id
  BY DEF Response
<1> HIDE DEF sent
<1>5. "answered" \in Stages
  BY DEF Stages
<1>6. StageOfOthers(r) /\ stage'[r] = "answered" /\ answer'[r] = sent
  BY <1>2, <1>3, <1>5 DEF StageOfOthers, TypeOK
<1>7. answer[r]'.challenge = Challenge(r, answer[r]'.status)
  BY <1>4, <1>6 DEF challenge
<1> QED BY <1>4, <1>6, <1>7 DEF Sent, Answered, At, id

LEMMA ReturnFields ==
    ASSUME TypeOK, NEW r \in Requests, NEW resp \in Response, Return(r, resp)
    PROVE  /\ StageOfOthers(r)
           /\ returned' \in [Requests -> Response \cup {None}] /\ returned'[r] = resp
           /\ \A s \in Requests \ {r} : returned'[s] = returned[s]
           /\ r \in claimed => stage'[r] = "record"
           /\ r \notin claimed => stage'[r] = "answered" /\ Sent(r, resp)'
<1>1. /\ returned' \in [Requests -> Response \cup {None}] /\ returned'[r] = resp
      /\ \A s \in Requests \ {r} : returned'[s] = returned[s]
  BY DEF TypeOK, Return
<1>2. CASE r \in claimed
  <2>1. GoTo(r, "record") /\ UNCHANGED answer
    BY <1>2 DEF Return
  <2>2. "record" \in Stages
    BY DEF Stages, Serving
  <2> QED BY <1>1, <1>2, <2>1, <2>2, GoToFields
<1>3. CASE r \notin claimed
  <2>1. Reply(r, resp)
    BY <1>3 DEF Return
  <2> QED BY <1>1, <1>3, <2>1, ReplyFields
<1> QED BY <1>2, <1>3

\* An answer of its own that tells what the request did.
LEMMA SentIsReplied ==
    ASSUME NEW r \in Requests, NEW resp, Sent(r, resp)', Own(r, resp)', Tells(r, resp)',
           q(r).route # "preflight" \/ resp.bodyId = None
    PROVE  Replied(r)'
<1>1. ~answer[r]'.replayed
  BY DEF Sent, Own
<1>2. Own(r, answer[r])' /\ Tells(r, answer[r])'
  BY DEF Sent, Own, Tells
<1> QED BY <1>1, <1>2 DEF Replied, Sent

\* What an error tells: nothing has been written.
LEMMA ErrorTells ==
    ASSUME NEW r \in Requests, NEW code \in DOMAIN ErrorStatus,
           wrote'[r] = None \/ ErrorStatus[code] \in {500, 504},
           hit'[r] \in {None, "record"} \/ ErrorStatus[code] >= 500
    PROVE  Own(r, Error(r, code))' /\ Tells(r, Error(r, code))'
<1> DEFINE e == Error(r, code)
<1>1. /\ e.status = ErrorStatus[code] /\ e.status \in 400..599
      /\ e.of = None /\ e.by = r /\ ~e.payment /\ ~e.replayed /\ e.bodyId = RequestIdOf(r)
  BY ErrorFields
<1> HIDE DEF e
<1>2. Own(r, e)'
  BY <1>1 DEF Own
<1>3. Tells(r, e)'
  BY <1>1 DEF Tells
<1> QED BY <1>2, <1>3 DEF e

-----------------------------------------------------------------------------
(* What a step of r does to the requests, and the ways in which it can end. *)

\* A step of r leaves the others alone, and r's key is resolved before it claims.
Moves(r) ==
    /\ StageOfOthers(r) /\ stage[r] # "answered"
    /\ caller' \in [Requests -> DOMAIN ApiKeys \cup {None}]
    /\ existing' \in [Requests -> Nat]
    /\ returned' \in [Requests -> Response \cup {None}]
    /\ wrote' \in [Requests -> Merchants \cup {None}]
    /\ hit' \in [Requests -> Stages \cup {None}]
    /\ claimed' \in {claimed, claimed \cup {r}} /\ late' \in {late, late \cup {r}}
    /\ r \in claimed => caller'[r] = caller[r]
    /\ \A s \in Requests \ {r} :
          /\ caller'[s] = caller[s] /\ existing'[s] = existing[s]
          /\ returned'[s] = returned[s] /\ wrote'[s] = wrote[s] /\ hit'[s] = hit[s]

LEMMA QuietMoves ==
    ASSUME TypeOK, NEW r \in Requests, StageOfOthers(r), stage[r] # "answered",
           UNCHANGED <<caller, existing, returned, wrote, late>>,
           claimed' \in {claimed, claimed \cup {r}}, UNCHANGED hit \/ Hit(r)
    PROVE  Moves(r)
<1>1. hit' \in [Requests -> Stages \cup {None}] /\ \A s \in Requests \ {r} : hit'[s] = hit[s]
  BY DEF TypeOK, Hit
<1> QED BY <1>1 DEF TypeOK, Moves

LEMMA CallerStays ==
    ASSUME NEW r \in Requests, caller'[r] = caller[r]
    PROVE  /\ Refusal(r)' = Refusal(r) /\ Merchant(r)' = Merchant(r)
           /\ SlotOf(r)' = SlotOf(r) /\ Authorized(r)' = Authorized(r)
<1>1. Merchant(r)' = Merchant(r)
  BY DEF Merchant
<1>2. Refusal(r)' = Refusal(r)
  BY DEF Refusal, Holds
<1> QED BY <1>1, <1>2 DEF SlotOf, Authorized

LEMMA AuthorizedIs ==
    ASSUME NEW r \in Requests, Authorized(r)
    PROVE  /\ HasAuthority(r) /\ caller[r] \in DOMAIN ApiKeys
           /\ Merchant(r) \in Merchants /\ Merchant(r) # None
           /\ Merchant(r) = ApiKeys[TokenOf(r).key].merchant
<1>1. Resolves(TokenOf(r)) /\ Len(q(r).auth) = 1 /\ caller[r] = TokenOf(r).key
  BY DEF Authorized, Authentic, Bearer
<1>2. /\ caller[r] \in DOMAIN ApiKeys /\ ~ApiKeys[caller[r]].revoked
      /\ ApiKeys[caller[r]].kind = "secret"
  BY <1>1 DEF Resolves
<1>3. ApiKeys[caller[r]].merchant \in Merchants
  BY <1>2, HttpApiAssumption
<1>4. None \notin Merchants
  BY HttpApiAssumption
<1> QED BY <1>1, <1>2, <1>3, <1>4 DEF HasAuthority, Merchant

LEMMA ServedIsNoPreflight ==
    ASSUME NEW r \in Requests, Layered(r), stage[r] \in Serving
    PROVE  q(r).route # "preflight"
<1>1. "preflight" \notin DOMAIN Routes
  BY DEF Routes, Merge, OrderRoutes, PaymentRoutes, RefundRoutes, EventRoutes, EndpointRoutes,
         Fallbacks
<1>2. stage[r] = "probe" \/ q(r).route \in DOMAIN Routes
  BY DEF Layered, Serving, Working
<1> QED BY <1>1, <1>2 DEF Layered

\* r is answered with a response of its own.
LEMMA Ends ==
    ASSUME NEW r \in Requests, RequestInv(r), NEW resp,
           Sent(r, resp)', Own(r, resp)', Tells(r, resp)',
           q(r).route # "preflight" \/ resp.bodyId = None, UNCHANGED <<wrote, late>>,
           r \in claimed' => Authorized(r)' /\ Guarded(r),
           wrote[r] # None => caller'[r] = caller[r]
    PROVE  RequestInv(r)'
<1>1. Replied(r)'
  BY SentIsReplied
<1>2. stage'[r] = "answered"
  BY DEF Sent, Answered, At
<1>3. Layered(r)'
  BY <1>2 DEF Layered, Working
<1>4. WroteLast(r)'
  BY <1>2, CallerStays DEF RequestInv, WroteLast
<1>5. Handled(r)'
  BY <1>2 DEF Handled, At
<1> QED BY <1>1, <1>3, <1>4, <1>5 DEF RequestInv

\* r is answered with an error.
LEMMA EndsInError ==
    ASSUME NEW r \in Requests, RequestInv(r), NEW code \in DOMAIN ErrorStatus,
           stage[r] \in Serving, Sent(r, Error(r, code))', UNCHANGED <<wrote, late>>,
           r \in claimed' => Authorized(r)' /\ Guarded(r),
           wrote[r] # None => caller'[r] = caller[r],
           wrote[r] = None \/ ErrorStatus[code] \in {500, 504},
           hit'[r] \in {None, "record"} \/ ErrorStatus[code] >= 500
    PROVE  RequestInv(r)'
<1>1. q(r).route # "preflight"
  BY ServedIsNoPreflight DEF RequestInv
<1>2. Own(r, Error(r, code))' /\ Tells(r, Error(r, code))'
  BY ErrorTells
<1> QED BY <1>1, <1>2, Ends

\* r goes on to the next layer or statement.
LEMMA GoesOn ==
    ASSUME NEW r \in Requests, RequestInv(r), stage[r] \notin {"record", "answered"},
           stage'[r] \notin {"record", "answered"}, UNCHANGED <<wrote, late, hit>>, Layered(r)'
    PROVE  RequestInv(r)'
<1>1. WroteLast(r)'
  BY DEF RequestInv, WroteLast
<1>2. Handled(r)' /\ Replied(r)'
  BY DEF Handled, Replied, At, Answered
<1> QED BY <1>1, <1>2 DEF RequestInv

\* The handler of r returns.
LEMMA Returns ==
    ASSUME TypeOK, NEW r \in Requests, RequestInv(r), stage[r] \in Working,
           NEW resp \in Response, Return(r, resp), Own(r, resp)', Tells(r, resp)',
           resp.retryAfter => resp.status >= 500, UNCHANGED <<caller, claimed>>,
           wrote'[r] = None \/ (wrote'[r] = Merchant(r) /\ Refusal(r) = "ok"),
           r \in late' => wrote'[r] # None
    PROVE  RequestInv(r)'
<1>1. Authorized(r) /\ (r \in claimed => Guarded(r)) /\ q(r).route # "preflight"
  BY ServedIsNoPreflight DEF RequestInv, Layered, Working, Serving
<1>2. /\ Refusal(r)' = Refusal(r) /\ Merchant(r)' = Merchant(r) /\ Authorized(r)'
      /\ q(r).route \in DOMAIN Routes
  BY <1>1, CallerStays DEF RequestInv, Layered
<1>3. stage'[r] \in {"record", "answered"} /\ (stage'[r] = "record" => r \in claimed)
  BY ReturnFields
<1>4. Layered(r)'
  BY <1>1, <1>2, <1>3 DEF Layered, Working
<1>5. WroteLast(r)'
  BY <1>2, <1>3 DEF WroteLast
<1>6. Handled(r)' /\ Replied(r)'
  <2>1. CASE r \in claimed
    <3>1. stage'[r] = "record" /\ returned'[r] = resp
      BY <2>1, ReturnFields
    <3> QED BY <3>1 DEF Handled, Replied, At, Answered
  <2>2. CASE r \notin claimed
    <3>1. stage'[r] = "answered" /\ Sent(r, resp)'
      BY <2>2, ReturnFields
    <3>2. Replied(r)'
      BY <1>1, <3>1, SentIsReplied
    <3> QED BY <3>1, <3>2 DEF Handled, At
  <2> QED BY <2>1, <2>2
<1> QED BY <1>4, <1>5, <1>6 DEF RequestInv

-----------------------------------------------------------------------------
(* The steps of a request, one by one. *)

LEMMA SendStep ==
    ASSUME TypeOK, NEW r \in Requests, RequestInv(r), Send(r)
    PROVE  Moves(r) /\ RequestInv(r)'
<1>1. /\ stage[r] = "unsent" /\ r \notin claimed /\ wrote[r] = None /\ hit[r] = None
      /\ UNCHANGED <<caller, existing, returned, wrote, late, hit, claimed>>
  BY DEF Send, At, noFault, RequestInv, Layered, WroteLast, Working
<1>2. CASE q(r).route \in {"preflight", "live"}
  <2> DEFINE resp == Success(r, 200, None)
  <2>1. Reply(r, resp)
    BY <1>2 DEF Send
  <2>2. /\ resp \in Response /\ resp.bodyId = None /\ resp.by = r /\ resp.of = None
        /\ resp.status = 200 /\ ~resp.replayed /\ ~resp.payment
    BY SuccessFields
  <2> HIDE DEF resp
  <2>3. StageOfOthers(r) /\ Sent(r, resp)'
    BY <2>1, <2>2, ReplyFields
  <2>4. Own(r, resp)' /\ Tells(r, resp)'
    BY <1>1, <2>2 DEF Own, Tells
  <2> QED BY <1>1, <2>2, <2>3, <2>4, QuietMoves, Ends
<1>3. CASE q(r).route = "nowhere"
  <2> DEFINE resp == Error(r, "unknown_endpoint")
  <2>1. Reply(r, resp)
    BY <1>3 DEF Send
  <2>2. "unknown_endpoint" \in DOMAIN ErrorStatus
    BY DEF ErrorStatus
  <2>3. resp \in Response /\ Own(r, resp)' /\ Tells(r, resp)'
    BY <1>1, <2>2, ErrorFields, ErrorTells
  <2> HIDE DEF resp
  <2>4. StageOfOthers(r) /\ Sent(r, resp)'
    BY <2>1, <2>3, ReplyFields
  <2> QED BY <1>1, <1>3, <2>3, <2>4, QuietMoves, Ends
<1>4. CASE q(r).route \notin {"preflight", "live", "nowhere"}
  <2> DEFINE to == IF q(r).route = "health" THEN "probe" ELSE "auth"
  <2>1. GoTo(r, to) /\ UNCHANGED answer
    BY <1>4 DEF Send
  <2>2. to \in Stages /\ to \in {"probe", "auth"}
    BY DEF Stages, Serving
  <2>3. StageOfOthers(r) /\ stage'[r] = to
    BY <2>1, <2>2, GoToFields
  <2>4. q(r).route \in DOMAIN Routes \cup {"health"}
    BY <1>4, TrafficAssumption
  <2>5. Layered(r)'
    BY <1>1, <2>2, <2>3, <2>4 DEF Layered, Working
  <2> HIDE DEF to
  <2> QED BY <1>1, <2>2, <2>3, <2>5, QuietMoves, GoesOn
<1> QED BY <1>2, <1>3, <1>4

LEMMA ProbeStep ==
    ASSUME TypeOK, NEW r \in Requests, RequestInv(r), Probe(r)
    PROVE  Moves(r) /\ RequestInv(r)'
<1> DEFINE fine == Success(r, 200, None)
<1> DEFINE down == [Success(r, 503, None) EXCEPT !.code = "database_unreachable"]
<1>1. /\ stage[r] = "probe" /\ r \notin claimed /\ wrote[r] = None /\ hit[r] = None
      /\ UNCHANGED <<caller, existing, returned, wrote, late, claimed>>
      /\ (UNCHANGED hit /\ Reply(r, fine)) \/ (Hit(r) /\ Reply(r, down))
  BY DEF Probe, At, noFault, RequestInv, Layered, WroteLast, Working
<1>2. /\ fine \in Response /\ fine.bodyId = None /\ fine.by = r /\ fine.of = None
      /\ fine.status = 200 /\ ~fine.replayed /\ ~fine.payment
  BY SuccessFields
<1>3. "database_unreachable" \in Codes
  BY DEF Codes
<1>4. /\ down \in Response /\ down.bodyId = None /\ down.by = r /\ down.of = None
      /\ down.status = 503 /\ ~down.replayed /\ ~down.payment
  <2> DEFINE s == Success(r, 503, None)
  <2>1. /\ s \in Response /\ s.bodyId = None /\ s.by = r /\ s.of = None
        /\ s.status = 503 /\ ~s.replayed /\ ~s.payment
    BY SuccessFields
  <2> HIDE DEF s
  <2>2. [s EXCEPT !.code = "database_unreachable"] \in Response
    BY <1>3, <2>1 DEF Response
  <2> QED BY <2>1, <2>2 DEF Response, s
<1> HIDE DEF fine, down
<1>5. CASE UNCHANGED hit /\ Reply(r, fine)
  <2>1. StageOfOthers(r) /\ Sent(r, fine)'
    BY <1>2, <1>5, ReplyFields
  <2>2. Own(r, fine)' /\ Tells(r, fine)'
    BY <1>1, <1>2, <1>5 DEF Own, Tells
  <2> QED BY <1>1, <1>2, <1>5, <2>1, <2>2, QuietMoves, Ends
<1>6. CASE Hit(r) /\ Reply(r, down)
  <2>1. StageOfOthers(r) /\ Sent(r, down)'
    BY <1>4, <1>6, ReplyFields
  <2>2. Own(r, down)' /\ Tells(r, down)'
    BY <1>1, <1>4, <1>6 DEF Own, Tells
  <2> QED BY <1>1, <1>4, <1>6, <2>1, <2>2, QuietMoves, Ends
<1> QED BY <1>1, <1>5, <1>6

LEMMA AuthenticateStep ==
    ASSUME TypeOK, NEW r \in Requests, RequestInv(r), Authenticate(r)
    PROVE  Moves(r) /\ RequestInv(r)'
<1>1. /\ stage[r] = "auth" /\ r \notin claimed /\ wrote[r] = None /\ hit[r] = None
      /\ UNCHANGED <<existing, returned, wrote, late, hit, claimed>>
      /\ q(r).route \in DOMAIN Routes /\ stage[r] \in Serving
  BY DEF Authenticate, At, noFault, RequestInv, Layered, WroteLast, Working, Serving
<1>2. CASE ~Authentic(r) /\ Reply(r, Error(r, "unauthorized")) /\ UNCHANGED caller
  <2>1. "unauthorized" \in DOMAIN ErrorStatus
    BY DEF ErrorStatus
  <2>2. StageOfOthers(r) /\ Sent(r, Error(r, "unauthorized"))'
    BY <1>2, <2>1, ErrorFields, ReplyFields
  <2> QED BY <1>1, <1>2, <2>1, <2>2, QuietMoves, EndsInError
<1>3. CASE Authentic(r) /\ caller' = [caller EXCEPT ![r] = TokenOf(r).key]
  <2>1. TokenOf(r).key \in DOMAIN ApiKeys
    BY <1>3 DEF Authentic, Resolves
  <2>2. /\ caller' \in [Requests -> DOMAIN ApiKeys \cup {None}] /\ Authorized(r)'
        /\ \A s \in Requests \ {r} : caller'[s] = caller[s]
    BY <1>3, <2>1 DEF TypeOK, Authorized
  <2>3. StageOfOthers(r) => Moves(r)
    BY <1>1, <2>2 DEF TypeOK, Moves
  <2>4. CASE GuardError(r) # "ok" /\ Reply(r, Error(r, GuardError(r)))
    <3>1. GuardError(r) \in DOMAIN ErrorStatus
      BY <2>4, CodesAreKnown DEF Refusals
    <3>2. StageOfOthers(r) /\ Sent(r, Error(r, GuardError(r)))'
      BY <2>4, <3>1, ErrorFields, ReplyFields
    <3> QED BY <1>1, <2>3, <3>1, <3>2, EndsInError
  <2>5. CASE GoTo(r, IF Guarded(r) THEN "insert" ELSE "handler") /\ UNCHANGED answer
    <3> DEFINE to == IF Guarded(r) THEN "insert" ELSE "handler"
    <3>1. to \in Stages
      BY DEF Stages, Serving
    <3>2. StageOfOthers(r) /\ stage'[r] = to
      BY <2>5, <3>1, GoToFields
    <3>3. Layered(r)'
      BY <1>1, <2>2, <3>2 DEF Layered, Working
    <3> QED BY <1>1, <2>3, <3>2, <3>3, GoesOn
  <2> QED BY <1>3, <2>4, <2>5, <1>1 DEF Authenticate, Authentic
<1> QED BY <1>2, <1>3 DEF Authenticate

LEMMA AuthenticateFailsStep ==
    ASSUME TypeOK, NEW r \in Requests, RequestInv(r), AuthenticateFails(r)
    PROVE  Moves(r) /\ RequestInv(r)'
<1>1. /\ stage[r] = "auth" /\ r \notin claimed /\ wrote[r] = None /\ stage[r] \in Serving
      /\ UNCHANGED <<caller, existing, returned, wrote, late, claimed>> /\ Hit(r)
      /\ Reply(r, Error(r, "unavailable"))
  BY DEF AuthenticateFails, Outage, At, RequestInv, Layered, WroteLast, Working, Serving
<1>2. "unavailable" \in DOMAIN ErrorStatus /\ ErrorStatus["unavailable"] = 503
  BY DEF ErrorStatus
<1>3. StageOfOthers(r) /\ Sent(r, Error(r, "unavailable"))'
  BY <1>1, <1>2, ErrorFields, ReplyFields
<1> QED BY <1>1, <1>2, <1>3, QuietMoves, EndsInError

\* The row of a request that is past the check of its key, and its response.
LEMMA SlotIs ==
    ASSUME TypeOK, NEW r \in Requests, Authorized(r), Guarded(r)
    PROVE  /\ SlotOf(r) \in Merchants \X KeyNames /\ Mine(r) \in Row
           /\ Mine(r).state \in {"none", "in_progress", "completed"}
           /\ Mine(r).state = "completed" => Mine(r).response \in Response
<1>1. q(r).key.name \in KeyNames
  BY TrafficAssumption DEF Guarded, HasKey
<1>2. SlotOf(r) \in Merchants \X KeyNames
  BY <1>1, AuthorizedIs DEF SlotOf
<1>3. Mine(r) \in Row
  BY <1>2 DEF TypeOK, Mine
<1> QED BY <1>2, <1>3 DEF Row

LEMMA InsertStep ==
    ASSUME TypeOK, NEW r \in Requests, RequestInv(r), Insert(r)
    PROVE  Moves(r) /\ RequestInv(r)'
<1>1. /\ stage[r] = "insert" /\ r \notin claimed /\ Authorized(r) /\ Guarded(r)
      /\ UNCHANGED <<caller, existing, returned, wrote, late, hit>>
      /\ claimed' = claimed \cup {r} /\ q(r).route \in DOMAIN Routes
  BY DEF Insert, At, noFault, RequestInv, Layered, Working
<1>2. PICK to \in {"handler", "select"} : GoTo(r, to) /\ UNCHANGED answer
  BY DEF Insert
<1>3. to \in Stages
  BY DEF Stages, Serving
<1>4. StageOfOthers(r) /\ stage'[r] = to
  BY <1>2, <1>3, GoToFields
<1>5. Layered(r)'
  BY <1>1, <1>4, CallerStays DEF Layered, Working
<1> QED BY <1>1, <1>4, <1>5, QuietMoves, GoesOn

LEMMA InsertFailsStep ==
    ASSUME TypeOK, NEW r \in Requests, RequestInv(r), InsertFails(r)
    PROVE  Moves(r) /\ RequestInv(r)'
<1>1. /\ stage[r] = "insert" /\ Authorized(r) /\ Guarded(r) /\ wrote[r] = None
      /\ UNCHANGED <<caller, existing, returned, wrote, late>> /\ Hit(r)
      /\ claimed' = claimed \cup {r} /\ stage[r] \in Serving
      /\ Reply(r, Error(r, "unavailable"))
  BY DEF InsertFails, At, RequestInv, Layered, WroteLast, Working, Serving
<1>2. "unavailable" \in DOMAIN ErrorStatus /\ ErrorStatus["unavailable"] = 503
  BY DEF ErrorStatus
<1>3. StageOfOthers(r) /\ Sent(r, Error(r, "unavailable"))'
  BY <1>1, <1>2, ErrorFields, ReplyFields
<1> QED BY <1>1, <1>2, <1>3, CallerStays, QuietMoves, EndsInError

\* A replay repeats what the request that claimed the row has returned.
LEMMA ReplayStep ==
    ASSUME TypeOK, NEW r \in Requests, RequestInv(r), KeptAsReturned, Select(r), Replay(r),
           Mine(r).state = "completed", Mine(r).print = Fingerprint(r)
    PROVE  Moves(r) /\ RequestInv(r)'
<1>1. /\ stage[r] = "select" /\ r \in claimed /\ Authorized(r) /\ Guarded(r)
      /\ wrote[r] = None /\ hit[r] = None /\ r \notin late /\ q(r).route # "preflight"
      /\ UNCHANGED <<caller, existing, wrote, late, hit, claimed>>
  BY ServedIsNoPreflight
  DEF Select, At, noFault, RequestInv, Layered, WroteLast, Working, Serving
<1>2. PICK kept \in Response : kept = Mine(r).response /\ KeptFrom(SlotOf(r), kept.by)
  BY <1>1, SlotIs DEF KeptAsReturned, Mine
<1>3. PICK b \in Requests : b = kept.by
  BY <1>2 DEF Response
<1>4. /\ b \in Requests /\ b # r /\ b \in claimed /\ Answered(b) /\ SlotOf(b) = SlotOf(r)
      /\ Fingerprint(b) = Fingerprint(r) /\ kept = returned[b] /\ kept.of \in {None, Merchant(b)}
  BY <1>3, <1>1, <1>2 DEF KeptFrom, Answered, At, Mine
<1>5. Merchant(b) = Merchant(r)
  BY <1>4 DEF SlotOf
<1> DEFINE resp == [kept EXCEPT !.replayed = TRUE, !.retryAfter = FALSE]
<1>6. returned' = [returned EXCEPT ![r] = resp] /\ Reply(r, resp)
  BY <1>2 DEF Replay
<1>7. /\ resp \in Response /\ resp.replayed /\ resp.status = kept.status /\ resp.by = b
      /\ resp.of = kept.of
  BY <1>3, <1>2 DEF Response
<1> HIDE DEF resp
<1>8. StageOfOthers(r) /\ stage'[r] = "answered" /\ Sent(r, resp)'
  BY <1>6, <1>7, ReplyFields
<1>9. /\ returned' \in [Requests -> Response \cup {None}]
      /\ \A s \in Requests \ {r} : returned'[s] = returned[s]
  BY <1>6, <1>7 DEF TypeOK
<1>10. Moves(r)
  BY <1>1, <1>8, <1>9 DEF TypeOK, Moves
<1>11. Repeats(r, b)'
  <2>1. SlotOf(b)' = SlotOf(b) /\ SlotOf(r)' = SlotOf(r)
    BY <1>1 DEF SlotOf, Merchant
  <2>2. stage'[b] = stage[b]
    BY <1>4, <1>8 DEF StageOfOthers
  <2> QED BY <1>1, <1>4, <2>1, <2>2 DEF Repeats, Answered, At
<1>12. Replied(r)'
  <2>1. answer[r]'.replayed /\ answer[r]'.by = b /\ answer[r]'.of = kept.of
    BY <1>7, <1>8 DEF Sent
  <2>2. answer[r]'.status = returned'[b].status
    BY <1>4, <1>7, <1>8, <1>9 DEF Sent
  <2>3. Merchant(r)' = Merchant(r)
    BY <1>1 DEF Merchant
  <2>4. answer[r]'.of \in {None, Merchant(r)'}
    BY <1>4, <1>5, <2>1, <2>3
  <2> QED BY <1>1, <1>8, <1>11, <2>1, <2>2, <2>4 DEF Replied, Sent
<1>13. Layered(r)' /\ WroteLast(r)' /\ Handled(r)'
  BY <1>1, <1>8, CallerStays DEF Layered, WroteLast, Handled, At, Working
<1> QED BY <1>10, <1>12, <1>13 DEF RequestInv

LEMMA SelectStep ==
    ASSUME TypeOK, NEW r \in Requests, RequestInv(r), KeptAsReturned, Select(r)
    PROVE  Moves(r) /\ RequestInv(r)'
<1>1. CASE Mine(r).state = "completed" /\ Mine(r).print = Fingerprint(r) /\ Replay(r)
  BY <1>1, ReplayStep
<1>2. ASSUME NEW code \in {"unavailable", "key_in_flight", "key_reused"},
             Reply(r, Error(r, code)), UNCHANGED returned
      PROVE  Moves(r) /\ RequestInv(r)'
  <2>1. /\ stage[r] = "select" /\ r \in claimed /\ Authorized(r) /\ Guarded(r)
        /\ wrote[r] = None /\ hit[r] = None /\ stage[r] \in Serving
        /\ UNCHANGED <<caller, existing, wrote, late, hit, claimed>>
    BY DEF Select, At, noFault, RequestInv, Layered, WroteLast, Working, Serving
  <2>2. code \in DOMAIN ErrorStatus
    BY DEF ErrorStatus
  <2>3. StageOfOthers(r) /\ Sent(r, Error(r, code))'
    BY <1>2, <2>2, ErrorFields, ReplyFields
  <2> QED BY <1>2, <2>1, <2>2, <2>3, CallerStays, QuietMoves, EndsInError
<1> QED BY <1>1, <1>2 DEF Select

LEMMA SelectFailsStep ==
    ASSUME TypeOK, NEW r \in Requests, RequestInv(r), SelectFails(r)
    PROVE  Moves(r) /\ RequestInv(r)'
<1>1. /\ stage[r] = "select" /\ Authorized(r) /\ Guarded(r) /\ wrote[r] = None
      /\ UNCHANGED <<caller, existing, returned, wrote, late, claimed>> /\ Hit(r)
      /\ stage[r] \in Serving /\ r \in claimed /\ Reply(r, Error(r, "unavailable"))
  BY DEF SelectFails, At, RequestInv, Layered, WroteLast, Working, Serving
<1>2. "unavailable" \in DOMAIN ErrorStatus /\ ErrorStatus["unavailable"] = 503
  BY DEF ErrorStatus
<1>3. StageOfOthers(r) /\ Sent(r, Error(r, "unavailable"))'
  BY <1>1, <1>2, ErrorFields, ReplyFields
<1> QED BY <1>1, <1>2, <1>3, CallerStays, QuietMoves, EndsInError

LEMMA RecordStep ==
    ASSUME TypeOK, NEW r \in Requests, RequestInv(r), Record(r)
    PROVE  Moves(r) /\ RequestInv(r)'
<1>1. /\ stage[r] = "record" /\ r \in claimed /\ Authorized(r) /\ Guarded(r)
      /\ UNCHANGED <<caller, existing, returned, wrote, late, claimed>>
      /\ UNCHANGED hit \/ Hit(r)
      /\ Reply(r, Recorded(r)) /\ Own(r, returned[r]) /\ Tells(r, returned[r])
      /\ returned[r] \in Response /\ q(r).route # "preflight"
  BY ServedIsNoPreflight
  DEF Record, RecordFailed, At, noFault, RequestInv, Layered, Handled, Working, Serving
<1>2. hit'[r] = hit[r] \/ hit'[r] = "record"
  BY <1>1 DEF TypeOK, Hit
<1>3. "no_body" \in Codes
  BY DEF Codes
<1>4. Recorded(r) \in Response
  BY <1>1, <1>3 DEF Recorded, Response
<1>5. PICK resp \in Response : resp = Recorded(r)
  BY <1>4
<1>6. /\ resp.status = returned[r].status /\ resp.by = returned[r].by
      /\ resp.payment = returned[r].payment /\ resp.bodyId = returned[r].bodyId
      /\ resp.replayed = returned[r].replayed /\ resp.of \in {None, returned[r].of}
  BY <1>1, <1>5 DEF Recorded, Response
<1>7. StageOfOthers(r) /\ stage'[r] = "answered" /\ Sent(r, resp)'
  BY <1>1, <1>5, ReplyFields
<1>8. Own(r, resp)'
  BY <1>1, <1>6, CallerStays DEF Own
<1>9. Tells(r, resp)'
  BY <1>1, <1>2, <1>6, CallerStays DEF Tells
<1> QED BY <1>1, <1>7, <1>8, <1>9, CallerStays, QuietMoves, Ends

\* A handler that has not written yet refuses.
LEMMA HandlerRefuses ==
    ASSUME TypeOK, NEW r \in Requests, RequestInv(r), stage[r] \in Working,
           NEW code \in Refusals, Return(r, Error(r, code)),
           UNCHANGED <<caller, claimed, wrote, late>>,
           hit'[r] \in {None, "record"} \/ ErrorStatus[code] >= 500
    PROVE  RequestInv(r)'
<1>1. code \in DOMAIN ErrorStatus /\ code \notin AdvisesRetry
  BY DEF Refusals
<1>2. wrote'[r] = None /\ r \notin late'
  BY DEF RequestInv, WroteLast, Working
<1>3. Error(r, code) \in Response /\ ~Error(r, code).retryAfter
  BY <1>1, ErrorFields
<1>4. Own(r, Error(r, code))' /\ Tells(r, Error(r, code))'
  BY <1>1, <1>2, ErrorTells
<1> QED BY <1>2, <1>3, <1>4, Returns

\* Moves, for a step that returns from the handler or goes on.
LEMMA HandlerMoves ==
    ASSUME TypeOK, NEW r \in Requests, StageOfOthers(r), stage[r] \in Working,
           UNCHANGED <<caller, claimed>>, UNCHANGED hit \/ Hit(r),
           existing' \in [Requests -> Nat], returned' \in [Requests -> Response \cup {None}],
           wrote' \in [Requests -> Merchants \cup {None}], late' \in {late, late \cup {r}},
           \A s \in Requests \ {r} :
               existing'[s] = existing[s] /\ returned'[s] = returned[s] /\ wrote'[s] = wrote[s]
    PROVE  Moves(r)
<1>1. hit' \in [Requests -> Stages \cup {None}] /\ \A s \in Requests \ {r} : hit'[s] = hit[s]
  BY DEF TypeOK, Hit
<1>2. stage[r] # "answered"
  BY DEF Working
<1> QED BY <1>1, <1>2 DEF TypeOK, Moves

LEMMA HandleStep ==
    ASSUME TypeOK, NEW r \in Requests, RequestInv(r), Handle(r)
    PROVE  Moves(r) /\ RequestInv(r)'
<1>1. /\ stage[r] = "handler" /\ stage[r] \in Working /\ hit[r] = None
      /\ UNCHANGED <<caller, existing, wrote, late, hit, claimed>>
      /\ existing \in [Requests -> Nat] /\ wrote \in [Requests -> Merchants \cup {None}]
  BY DEF Handle, At, noFault, RequestInv, WroteLast, Working, TypeOK
<1>2. CASE Refusal(r) # "ok" /\ Return(r, Error(r, Refusal(r)))
  <2>1. PICK code \in Refusals : code = Refusal(r)
    BY <1>2, CodesAreKnown
  <2>2. Return(r, Error(r, code)) /\ Error(r, code) \in Response
    BY <1>2, <2>1, ErrorFields DEF Refusals
  <2>3. Moves(r)
    BY <1>1, <2>2, ReturnFields, HandlerMoves
  <2> QED BY <1>1, <2>2, <2>3, HandlerRefuses
<1>3. CASE /\ Refusal(r) = "ok" /\ UNCHANGED <<returned, answer>>
           /\ GoTo(r, IF q(r).route \in ReadsFirst THEN "read" ELSE "work")
  <2> DEFINE to == IF q(r).route \in ReadsFirst THEN "read" ELSE "work"
  <2>1. to \in Stages /\ (to = "work" => q(r).route # "endpoints_create")
    BY DEF Stages, Serving, ReadsFirst
  <2>2. StageOfOthers(r) /\ stage'[r] = to
    BY <1>3, <2>1, GoToFields
  <2>3. Refusal(r)' = "ok" /\ Authorized(r)' = Authorized(r)
    BY <1>1, <1>3, CallerStays
  <2>4. Layered(r)'
    BY <1>1, <2>1, <2>2, <2>3 DEF RequestInv, Layered, Working
  <2>5. Moves(r)
    BY <1>1, <1>3, <2>2, HandlerMoves DEF TypeOK
  <2> QED BY <1>1, <2>2, <2>4, <2>5, GoesOn
<1> QED BY <1>2, <1>3 DEF Handle

LEMMA ActiveIsFinite ==
    ASSUME TypeOK, NEW m
    PROVE  IsFiniteSet(ActiveOf(m)) /\ Cardinality(ActiveOf(m)) \in Nat
<1>1. IsFiniteSet(ActiveOf(m))
  BY FS_Subset DEF TypeOK, ActiveOf
<1> QED BY <1>1, FS_CardinalityType

LEMMA ReadStep ==
    ASSUME TypeOK, NEW r \in Requests, RequestInv(r), Read(r)
    PROVE  Moves(r) /\ RequestInv(r)'
<1>1. /\ stage[r] = "read" /\ stage[r] \in Working /\ hit[r] = None /\ Authorized(r)
      /\ Refusal(r) = "ok" /\ wrote[r] = None /\ r \notin late
      /\ UNCHANGED <<caller, wrote, late, hit, claimed>>
      /\ wrote \in [Requests -> Merchants \cup {None}]
  BY DEF Read, At, noFault, RequestInv, Layered, WroteLast, Working, TypeOK
<1>2. /\ existing' \in [Requests -> Nat]
      /\ \A s \in Requests \ {r} : existing'[s] = existing[s]
      /\ q(r).route = "endpoints_create" /\ HasRoom(Merchant(r)) => existing'[r] < Cap
  <2>1. CASE UNCHANGED existing /\ q(r).route # "endpoints_create"
    BY <2>1 DEF TypeOK
  <2>2. CASE CountEndpoints(r)
    BY <2>2, ActiveIsFinite DEF CountEndpoints, HasRoom, TypeOK
  <2> QED BY <2>1, <2>2 DEF Read, ReadOrder, FindEndpoint
<1>3. ASSUME NEW code \in {"not_found", "card", "invalid_request"}, Return(r, Error(r, code))
      PROVE  Moves(r) /\ RequestInv(r)'
  <2>1. code \in Refusals /\ code \in DOMAIN ErrorStatus
    BY CodesAreKnown DEF Refusals
  <2>2. Error(r, code) \in Response
    BY <2>1, ErrorFields
  <2>3. Moves(r)
    BY <1>1, <1>2, <1>3, <2>2, ReturnFields, HandlerMoves
  <2> QED BY <1>1, <1>3, <2>1, <2>3, HandlerRefuses
<1>4. ASSUME GoTo(r, "work"), UNCHANGED <<returned, answer>>,
             q(r).route = "endpoints_create" => HasRoom(Merchant(r))
      PROVE  Moves(r) /\ RequestInv(r)'
  <2>1. "work" \in Stages
    BY DEF Stages, Serving
  <2>2. StageOfOthers(r) /\ stage'[r] = "work"
    BY <1>4, <2>1, GoToFields
  <2>3. Refusal(r)' = "ok" /\ Authorized(r)' = Authorized(r)
    BY <1>1, CallerStays
  <2>4. Layered(r)'
    BY <1>1, <1>2, <1>4, <2>2, <2>3 DEF RequestInv, Layered, Working
  <2>5. Moves(r)
    BY <1>1, <1>2, <1>4, <2>2, HandlerMoves DEF TypeOK
  <2> QED BY <1>1, <2>2, <2>4, <2>5, GoesOn
<1>5. ASSUME Return(r, Disabled(r))
      PROVE  Moves(r) /\ RequestInv(r)'
  <2>1. PICK m \in Merchants : m = Merchant(r)
    BY <1>1, AuthorizedIs
  <2> DEFINE resp == Success(r, 200, m)
  <2>2. /\ resp \in Response /\ resp.bodyId = None /\ resp.by = r /\ resp.of = m
        /\ resp.status = 200 /\ ~resp.replayed /\ ~resp.payment /\ ~resp.retryAfter
    BY SuccessFields
  <2>3. Return(r, resp)
    BY <1>5, <2>1 DEF Disabled
  <2> HIDE DEF resp
  <2>4. Merchant(r)' = m /\ Authorized(r)'
    BY <1>1, <2>1, CallerStays
  <2>5. Own(r, resp)' /\ Tells(r, resp)'
    BY <1>1, <2>2, <2>4 DEF Own, Tells
  <2>6. Moves(r)
    BY <1>1, <1>2, <2>2, <2>3, ReturnFields, HandlerMoves
  <2> QED BY <1>1, <2>2, <2>3, <2>5, <2>6, Returns
<1>6. CASE ReadOrder(r)
  BY <1>3, <1>4, <1>6 DEF ReadOrder
<1>7. CASE CountEndpoints(r)
  BY <1>3, <1>4, <1>7 DEF CountEndpoints
<1>8. CASE FindEndpoint(r)
  BY <1>3, <1>4, <1>5, <1>8 DEF FindEndpoint
<1> QED BY <1>6, <1>7, <1>8 DEF Read

\* What a write commits: it is the caller's, and it comes once.
LEMMA EffectIs ==
    ASSUME TypeOK, NEW r \in Requests, RequestInv(r), At(r, "work"), Found(r), Effect(r)
    PROVE  /\ wrote' \in [Requests -> Merchants \cup {None}] /\ wrote'[r] = Merchant(r)
           /\ \A s \in Requests \ {r} : wrote'[s] = wrote[s]
           /\ late' \in {late, late \cup {r}} /\ Touched(r) = Merchant(r)
<1>1. Authorized(r)
  BY DEF RequestInv, Layered, Working, At
<1>2. Touched(r) = Merchant(r) /\ Merchant(r) \in Merchants
  BY <1>1, AuthorizedIs DEF Touched, Found, Owned
<1>3. wrote' = [wrote EXCEPT ![r] = Merchant(r)]
  BY <1>2 DEF Effect
<1>4. late' \in {late, late \cup {r}}
  <2>1. CASE q(r).route = "endpoints_create"
    BY <2>1 DEF Effect
  <2>2. CASE q(r).route = "endpoints_disable"
    BY <2>2 DEF Effect
  <2>3. CASE q(r).route \notin {"endpoints_create", "endpoints_disable"}
    BY <2>3 DEF Effect
  <2> QED BY <2>1, <2>2, <2>3
<1> QED BY <1>2, <1>3, <1>4 DEF TypeOK

LEMMA WorkStep ==
    ASSUME TypeOK, NEW r \in Requests, RequestInv(r), Work(r)
    PROVE  Moves(r) /\ RequestInv(r)'
<1>1. /\ stage[r] = "work" /\ stage[r] \in Working /\ hit[r] = None /\ Authorized(r)
      /\ Refusal(r) = "ok" /\ wrote[r] = None /\ r \notin late /\ At(r, "work")
      /\ q(r).route \in DOMAIN Routes
      /\ UNCHANGED <<caller, existing, hit, claimed>>
      /\ existing \in [Requests -> Nat] /\ wrote \in [Requests -> Merchants \cup {None}]
  BY DEF Work, At, noFault, RequestInv, Layered, WroteLast, Working, TypeOK
<1>2. PICK m \in Merchants : m = Merchant(r)
  BY <1>1, AuthorizedIs
<1>3. Merchant(r)' = m /\ Authorized(r)' /\ m # None
  BY <1>1, <1>2, CallerStays, AuthorizedIs
<1>4. q(r).route \notin DOMAIN Fallbacks
  BY <1>1, AcceptedIs
<1>5. PICK ok \in {200, 201} : ok = route(r).ok /\ (~Mutating(r) => ok = 200)
  BY <1>1, <1>4, RouteFacts DEF route, Mutating
<1>6. ASSUME NEW code \in Refusals, Return(r, Error(r, code)), noEffect
      PROVE  Moves(r) /\ RequestInv(r)'
  <2>1. Error(r, code) \in Response
    BY <1>6, ErrorFields DEF Refusals
  <2>2. Moves(r)
    BY <1>1, <1>6, <2>1, ReturnFields, HandlerMoves DEF noEffect
  <2> QED BY <1>1, <1>6, <2>2, HandlerRefuses DEF noEffect
<1>7. CASE Missing(r) \/ RefusedByEngine(r)
  BY <1>6, <1>7, CodesAreKnown DEF Missing, RefusedByEngine
<1> DEFINE resp == Success(r, ok, m)
<1>8. /\ resp \in Response /\ resp.bodyId = None /\ resp.by = r /\ resp.of = m
      /\ resp.status = ok /\ ~resp.replayed /\ ~resp.payment /\ ~resp.retryAfter
  BY SuccessFields
<1>9. CASE Shows(r)
  <2>1. Touched(r) = m
    BY <1>2, <1>9 DEF Shows, Found, Owned, Touched
  <2>2. Return(r, resp) /\ UNCHANGED <<wrote, late>> /\ ok = 200
    BY <1>5, <1>9, <2>1 DEF Shows, noEffect
  <2> HIDE DEF resp
  <2>3. Own(r, resp)' /\ Tells(r, resp)'
    BY <1>1, <1>3, <1>8, <2>2 DEF Own, Tells
  <2>4. Moves(r)
    BY <1>1, <1>8, <2>2, ReturnFields, HandlerMoves
  <2> QED BY <1>1, <1>8, <2>2, <2>3, <2>4, Returns
<1>10. ASSUME Found(r), Effect(r), NEW made \in Response, Return(r, made),
              made.bodyId \in {None, RequestIdOf(r)}, made.by = r, made.of = m,
              ~made.replayed, ~made.retryAfter, made.status \in {200, 201} \/ made.payment
       PROVE  Moves(r) /\ RequestInv(r)'
  <2>1. /\ wrote' \in [Requests -> Merchants \cup {None}] /\ wrote'[r] = m
        /\ \A s \in Requests \ {r} : wrote'[s] = wrote[s]
        /\ late' \in {late, late \cup {r}}
    BY <1>1, <1>2, <1>10, EffectIs
  <2>2. Own(r, made)' /\ Tells(r, made)'
    BY <1>1, <1>3, <1>10, <2>1 DEF Own, Tells
  <2>3. Moves(r)
    BY <1>1, <1>10, <2>1, ReturnFields, HandlerMoves
  <2> QED BY <1>1, <1>2, <1>3, <1>10, <2>1, <2>2, <2>3, Returns
<1>11. CASE Performs(r)
  <2>1. Found(r) /\ Effect(r) /\ Touched(r) = m
    BY <1>1, <1>2, <1>11, EffectIs DEF Performs
  <2>2. PICK made \in Successes(r) : Return(r, made)
    BY <1>11 DEF Performs
  <2>3. made \in {Success(r, ok, m), Declined(r, m)}
    BY <1>5, <2>1, <2>2 DEF Successes
  <2>4. CASE made = Success(r, ok, m)
    <3> HIDE DEF resp
    <3> QED BY <1>8, <1>10, <2>1, <2>2, <2>4 DEF resp
  <2>5. CASE made = Declined(r, m)
    BY <1>10, <2>1, <2>2, <2>5, DeclinedFields
  <2> QED BY <2>3, <2>4, <2>5
<1> HIDE DEF resp
<1> QED BY <1>7, <1>9, <1>11 DEF Work

LEMMA WorkFailsStep ==
    ASSUME TypeOK, NEW r \in Requests, RequestInv(r), WorkFails(r)
    PROVE  Moves(r) /\ RequestInv(r)'
<1>1. /\ stage[r] \in {"read", "work"} /\ stage[r] \in Working /\ Authorized(r) /\ Hit(r)
      /\ Refusal(r) = "ok" /\ wrote[r] = None /\ r \notin late
      /\ UNCHANGED <<caller, existing, claimed>>
      /\ existing \in [Requests -> Nat] /\ wrote \in [Requests -> Merchants \cup {None}]
  BY DEF WorkFails, RequestInv, Layered, WroteLast, Working, TypeOK
<1> DEFINE e == Error(r, "internal")
<1>2. "internal" \in DOMAIN ErrorStatus /\ ErrorStatus["internal"] = 500
  BY DEF ErrorStatus
<1>3. Return(r, e)
  BY CodesAreKnown DEF WorkFails
<1>4. e \in Response /\ e.status = 500
  BY <1>2, ErrorFields
<1>5. /\ wrote' \in [Requests -> Merchants \cup {None}]
      /\ \A s \in Requests \ {r} : wrote'[s] = wrote[s]
      /\ late' \in {late, late \cup {r}}
      /\ wrote'[r] = None \/ wrote'[r] = Merchant(r)
      /\ r \in late' => wrote'[r] # None
  <2>1. CASE noEffect
    BY <1>1, <2>1 DEF noEffect
  <2>2. CASE At(r, "work") /\ Found(r) /\ Effect(r)
    BY <1>1, <2>2, EffectIs, AuthorizedIs
  <2> QED BY <2>1, <2>2 DEF WorkFails
<1>6. Own(r, e)' /\ Tells(r, e)'
  BY <1>2, ErrorTells
<1> HIDE DEF e
<1>7. Moves(r)
  BY <1>1, <1>3, <1>4, <1>5, ReturnFields, HandlerMoves
<1> QED BY <1>1, <1>3, <1>4, <1>5, <1>6, <1>7, Returns

LEMMA TimeoutStep ==
    ASSUME TypeOK, NEW r \in Requests, RequestInv(r), Timeout(r)
    PROVE  Moves(r) /\ RequestInv(r)'
<1>1. /\ stage[r] \in Serving /\ stage[r] # "answered" /\ Reply(r, Error(r, "timeout"))
      /\ UNCHANGED <<caller, existing, returned, wrote, hit, late, claimed>>
      /\ r \in claimed => Authorized(r) /\ Guarded(r)
  BY DEF Timeout, Serving, RequestInv, Layered
<1>2. "timeout" \in DOMAIN ErrorStatus /\ ErrorStatus["timeout"] = 504
  BY DEF ErrorStatus
<1>3. StageOfOthers(r) /\ Sent(r, Error(r, "timeout"))'
  BY <1>1, <1>2, ErrorFields, ReplyFields
<1> QED BY <1>1, <1>2, <1>3, CallerStays, QuietMoves, EndsInError

LEMMA PanicStep ==
    ASSUME TypeOK, NEW r \in Requests, RequestInv(r), Panic(r)
    PROVE  Moves(r) /\ RequestInv(r)'
<1>1. /\ stage[r] \in Serving /\ stage[r] # "answered" /\ Reply(r, Error(r, "internal"))
      /\ UNCHANGED <<caller, existing, returned, wrote, hit, late, claimed>>
      /\ r \in claimed => Authorized(r) /\ Guarded(r)
  BY DEF Panic, Serving, RequestInv, Layered
<1>2. "internal" \in DOMAIN ErrorStatus /\ ErrorStatus["internal"] = 500
  BY DEF ErrorStatus
<1>3. StageOfOthers(r) /\ Sent(r, Error(r, "internal"))'
  BY <1>1, <1>2, ErrorFields, ReplyFields
<1> QED BY <1>1, <1>2, <1>3, CallerStays, QuietMoves, EndsInError

LEMMA RequestStep ==
    ASSUME TypeOK, KeptAsReturned, NEW r \in Requests, RequestInv(r), Send(r) \/ Proceed(r)
    PROVE  Moves(r) /\ RequestInv(r)'
BY SendStep, ProbeStep, AuthenticateStep, AuthenticateFailsStep, InsertStep, InsertFailsStep,
   SelectStep, SelectFailsStep, RecordStep, HandleStep, ReadStep, WorkStep, WorkFailsStep,
   TimeoutStep, PanicStep DEF Proceed

\* The other requests keep what they have.
LEMMA OthersKeep ==
    ASSUME TypeOK, RequestsInv, NEW r \in Requests, Moves(r), NEW s \in Requests \ {r}
    PROVE  /\ RequestInv(s)' /\ SlotOf(s)' = SlotOf(s) /\ Mine(s)' = rows'[SlotOf(s)]
           /\ Holding(s)' = Holding(s)
<1>1. /\ stage'[s] = stage[s] /\ caller'[s] = caller[s] /\ existing'[s] = existing[s]
      /\ returned'[s] = returned[s] /\ answer'[s] = answer[s] /\ wrote'[s] = wrote[s]
      /\ hit'[s] = hit[s] /\ (s \in claimed' <=> s \in claimed) /\ (s \in late' <=> s \in late)
  BY DEF Moves, StageOfOthers
<1>2. /\ Refusal(s)' = Refusal(s) /\ Merchant(s)' = Merchant(s)
      /\ SlotOf(s)' = SlotOf(s) /\ Authorized(s)' = Authorized(s)
  BY <1>1, CallerStays
<1>3. Layered(s)' /\ WroteLast(s)'
  BY <1>1, <1>2 DEF RequestsInv, RequestInv, Layered, WroteLast, Working
<1>4. Handled(s)'
  <2>1. Handled(s)
    BY DEF RequestsInv, RequestInv
  <2>2. Own(s, returned[s])' <=> Own(s, returned[s])
    BY <1>1, <1>2 DEF Own
  <2>3. Tells(s, returned[s])' <=> Tells(s, returned[s])
    BY <1>1, <1>2 DEF Tells
  <2> QED BY <1>1, <2>1, <2>2, <2>3 DEF Handled, At
<1>5. ASSUME NEW b, Repeats(s, b)
      PROVE  Repeats(s, b)' /\ returned'[b] = returned[b]
  <2>1. b \in Requests \ {r} /\ b \in claimed
    BY <1>5 DEF Repeats, Answered, At, Moves, TypeOK
  <2>2. /\ stage'[b] = stage[b] /\ caller'[b] = caller[b] /\ returned'[b] = returned[b]
        /\ b \in claimed'
    BY <2>1 DEF Moves, StageOfOthers
  <2>3. SlotOf(b)' = SlotOf(b) /\ b \in Requests
    BY <2>1, <2>2, CallerStays
  <2> QED BY <1>1, <1>2, <1>5, <2>2, <2>3 DEF Repeats, Answered, At
<1>6. Replied(s)'
  <2>1. CASE Answered(s) /\ answer[s].replayed
    <3>1. /\ Repeats(s, answer[s].by) /\ wrote[s] = None /\ hit[s] = None
          /\ answer[s].status = returned[answer[s].by].status
          /\ answer[s].of \in {None, Merchant(s)}
          /\ answer[s].challenge = Challenge(s, answer[s].status)
          /\ answer[s].id = IF q(s).route = "preflight" THEN None ELSE RequestIdOf(s)
          /\ q(s).route = "preflight" => answer[s].bodyId = None
      BY <2>1 DEF RequestsInv, RequestInv, Replied
    <3>2. PICK b : b = answer[s].by
      OBVIOUS
    <3>3. Repeats(s, b)' /\ returned'[b] = returned[b] /\ answer'[s].by = b
      BY <1>1, <1>5, <3>1, <3>2
    <3> QED BY <1>1, <1>2, <2>1, <3>1, <3>2, <3>3 DEF Replied
  <2>2. CASE Answered(s) /\ ~answer[s].replayed
    BY <1>1, <1>2, <2>2 DEF RequestsInv, RequestInv, Replied, Own, Tells, Answered, At
  <2>3. CASE ~Answered(s)
    BY <1>1, <2>3 DEF Replied, Answered, At
  <2> QED BY <2>1, <2>2, <2>3
<1>7. Holding(s)' = Holding(s)
  BY <1>1 DEF Holding
<1> QED BY <1>2, <1>3, <1>4, <1>6, <1>7 DEF RequestInv, Mine

-----------------------------------------------------------------------------
(* The rows of the key store. *)

\* A kept row stays what it is while its own statement is not run.
LEMMA KeptStays ==
    ASSUME TypeOK, RequestsInv, KeptAsReturned, NEW r \in Requests, Moves(r),
           NEW k \in Merchants \X KeyNames, rows[k].state = "completed", rows'[k] = rows[k]
    PROVE  KeptFrom(k, rows[k].response.by)'
<1>1. PICK b : b = rows[k].response.by
  OBVIOUS
<1>2. KeptFrom(k, b)
  BY <1>1 DEF KeptAsReturned
<1>3. b \in Requests \ {r}
  BY <1>2 DEF KeptFrom, Answered, At, Moves, TypeOK
<1>4. /\ stage'[b] = stage[b] /\ caller'[b] = caller[b] /\ returned'[b] = returned[b]
      /\ b \in claimed'
  BY <1>2, <1>3 DEF Moves, StageOfOthers, KeptFrom
<1>5. SlotOf(b)' = SlotOf(b) /\ Merchant(b)' = Merchant(b)
  BY <1>3, <1>4, CallerStays
<1>6. KeptFrom(k, b)'
  BY <1>2, <1>4, <1>5 DEF KeptFrom, Answered, At
<1> QED BY <1>1, <1>6

LEMMA RowsUntouched ==
    ASSUME TypeOK, RequestsInv, RowsInv, NEW r \in Requests, Moves(r), UNCHANGED rows,
           Holding(r)' => Holding(r)
    PROVE  RowsInv'
<1>1. ASSUME NEW s \in Requests, Holding(s)' PROVE Holding(s) /\ SlotOf(s)' = SlotOf(s)
  <2>1. CASE s = r
    <3>1. caller'[r] = caller[r]
      BY <1>1, <2>1 DEF Moves, Holding
    <3> QED BY <1>1, <2>1, <3>1, CallerStays
  <2>2. CASE s # r
    BY <1>1, <2>2, OthersKeep
  <2> QED BY <2>1, <2>2
<1>2. HeldInProgress'
  BY <1>1 DEF RowsInv, HeldInProgress, Mine
<1>3. HeldInOneHand'
  BY <1>1 DEF RowsInv, HeldInOneHand
<1>4. KeptAsReturned'
  BY KeptStays DEF RowsInv, KeptAsReturned
<1> QED BY <1>2, <1>3, <1>4 DEF RowsInv

\* Claim takes a row that is in no hand.
LEMMA ClaimStep ==
    ASSUME TypeOK, RequestsInv, RowsInv, NEW r \in Requests, Moves(r), caller'[r] = caller[r],
           Authorized(r), Guarded(r), Mine(r).state = "none", Claim(r)
    PROVE  RowsInv' /\ rows' \in [Merchants \X KeyNames -> Row]
<1>1. PICK slot \in Merchants \X KeyNames : slot = SlotOf(r)
  BY SlotIs
<1>2. SlotOf(r)' = slot
  BY <1>1, CallerStays
<1> DEFINE row == [state |-> "in_progress", print |-> Fingerprint(r)]
<1>3. row \in Row
  BY DEF Row, Prints
<1>4. rows' = [rows EXCEPT ![slot] = row] /\ rows \in [Merchants \X KeyNames -> Row]
  BY <1>1 DEF Claim, TypeOK
<1>5. row.state = "in_progress" /\ row.print = Fingerprint(r)
  OBVIOUS
<1> HIDE DEF row
<1>6. /\ rows' \in [Merchants \X KeyNames -> Row] /\ rows'[slot] = row
      /\ \A k \in (Merchants \X KeyNames) \ {slot} : rows'[k] = rows[k]
  BY <1>3, <1>4
<1>7. ASSUME NEW s \in Requests \ {r}, Holding(s)'
      PROVE  /\ Holding(s) /\ SlotOf(s)' = SlotOf(s) /\ SlotOf(s) # slot
             /\ SlotOf(s) \in Merchants \X KeyNames
  <2>1. Holding(s) /\ SlotOf(s)' = SlotOf(s)
    BY <1>7, OthersKeep
  <2>2. Authorized(s) /\ Guarded(s)
    BY <2>1 DEF RequestsInv, RequestInv, Layered, Holding
  <2>3. SlotOf(s) # slot
    BY <1>1, <2>1 DEF RowsInv, HeldInProgress, Mine
  <2> QED BY <2>1, <2>2, <2>3, SlotIs
<1>8. HeldInProgress'
  BY <1>2, <1>5, <1>6, <1>7 DEF RowsInv, HeldInProgress, Mine
<1>9. HeldInOneHand'
  BY <1>2, <1>7 DEF RowsInv, HeldInOneHand
<1>10. KeptAsReturned'
  BY <1>5, <1>6, KeptStays DEF RowsInv, KeptAsReturned
<1> QED BY <1>6, <1>8, <1>9, <1>10 DEF RowsInv

\* Record gives its row up: free, or completed with what r has returned.
LEMMA RecordRows ==
    ASSUME TypeOK, RequestsInv, RowsInv, NEW r \in Requests, Moves(r), Record(r)
    PROVE  RowsInv' /\ rows' \in [Merchants \X KeyNames -> Row]
<1>1. /\ stage[r] = "record" /\ Holding(r) /\ r \in claimed /\ Authorized(r) /\ Guarded(r)
      /\ UNCHANGED <<caller, returned, claimed>> /\ Own(r, returned[r])
      /\ returned[r] \in Response /\ (returned[r].retryAfter => returned[r].status >= 500)
      /\ stage'[r] = "answered"
  BY DEF Record, At, RequestsInv, RequestInv, Layered, Handled, Holding, Reply, GoTo, TypeOK
<1>2. ~Holding(r)'
  BY <1>1 DEF Holding, Working
<1>3. PICK slot \in Merchants \X KeyNames : slot = SlotOf(r)
  BY <1>1, SlotIs
<1>4. rows[slot].state = "in_progress" /\ rows[slot].print = Fingerprint(r)
  BY <1>1, <1>3 DEF RowsInv, HeldInProgress, Mine
<1>5. CASE UNCHANGED rows
  BY <1>2, <1>5, RowsUntouched DEF TypeOK
<1>6. ASSUME NEW row \in Row, rows' = [rows EXCEPT ![slot] = row],
             row.state = "completed" => KeptFrom(slot, row.response.by)'
      PROVE  RowsInv' /\ rows' \in [Merchants \X KeyNames -> Row]
  <2>1. /\ rows' \in [Merchants \X KeyNames -> Row] /\ rows'[slot] = row
        /\ \A k \in (Merchants \X KeyNames) \ {slot} : rows'[k] = rows[k]
    BY <1>6 DEF TypeOK
  <2>2. ASSUME NEW s \in Requests, Holding(s)'
        PROVE  /\ s # r /\ Holding(s) /\ SlotOf(s)' = SlotOf(s) /\ SlotOf(s) # slot
               /\ SlotOf(s) \in Merchants \X KeyNames
    <3>1. s # r
      BY <1>2, <2>2
    <3>2. Holding(s) /\ SlotOf(s)' = SlotOf(s)
      BY <2>2, <3>1, OthersKeep
    <3>3. Authorized(s) /\ Guarded(s)
      BY <3>2 DEF RequestsInv, RequestInv, Layered, Holding
    <3>4. SlotOf(s) # slot
      BY <1>1, <1>3, <3>1, <3>2 DEF RowsInv, HeldInOneHand
    <3> QED BY <3>1, <3>2, <3>3, <3>4, SlotIs
  <2>3. HeldInProgress'
    BY <2>1, <2>2 DEF RowsInv, HeldInProgress, Mine
  <2>4. HeldInOneHand'
    BY <2>2 DEF RowsInv, HeldInOneHand
  <2>5. KeptAsReturned'
    BY <1>6, <2>1, KeptStays DEF RowsInv, KeptAsReturned
  <2> QED BY <2>1, <2>3, <2>4, <2>5 DEF RowsInv
<1>7. CASE rows' = [rows EXCEPT ![slot] = [state |-> "none"]]
  <2>1. [state |-> "none"] \in Row
    BY DEF Row
  <2> QED BY <1>6, <1>7, <2>1
<1>8. CASE ~Releases(r) /\ Kept(r)
  <2> DEFINE row == [state |-> "completed", print |-> Fingerprint(r), response |-> returned[r]]
  <2>1. PICK kept \in Row : kept = row
    BY <1>1 DEF Row, Prints
  <2>2. rows' = [rows EXCEPT ![slot] = kept]
    BY <1>3, <1>4, <1>8, <2>1 DEF Kept, Mine
  <2>3. kept.response = returned[r] /\ kept.print = Fingerprint(r) /\ kept.response.by = r
    BY <1>1, <2>1 DEF Own
  <2>4. rows'[slot] = kept
    BY <2>2 DEF TypeOK
  <2>5. returned[r].status < 500 /\ ~returned[r].retryAfter
    BY <1>1, <1>8 DEF Releases, Response
  <2>6. SlotOf(r)' = slot /\ Merchant(r)' = Merchant(r)
    BY <1>1, <1>3, CallerStays
  <2>7. KeptFrom(slot, r)'
    BY <1>1, <2>3, <2>4, <2>5, <2>6 DEF KeptFrom, Answered, At, Own
  <2> HIDE DEF row
  <2> QED BY <1>6, <2>2, <2>3, <2>7
<1> QED BY <1>3, <1>4, <1>5, <1>7, <1>8 DEF Record, Freed, Mine

-----------------------------------------------------------------------------
(* The endpoints of a merchant. *)

Overtaken(m) == {r \in late : Merchant(r) = m}
Bounded(m) == Cardinality(ActiveOf(m)) <= Cap + Cardinality(Overtaken(m))

LEMMA OvertakenIsFinite ==
    ASSUME TypeOK, NEW m
    PROVE  IsFiniteSet(Overtaken(m)) /\ Cardinality(Overtaken(m)) \in Nat
<1>1. IsFiniteSet(Overtaken(m))
  BY FS_Subset DEF TypeOK, Overtaken
<1> QED BY <1>1, FS_CardinalityType

\* Only authentication sets the caller, and nobody is late before it.
LEMMA LateKeepTheirMerchants ==
    ASSUME TypeOK, RequestsInv, NEW r \in Requests, Moves(r), UNCHANGED caller \/ stage[r] = "auth"
    PROVE  \A s \in late : Merchant(s)' = Merchant(s)
<1>1. ASSUME NEW s \in late PROVE caller'[s] = caller[s]
  <2>1. s \in Requests /\ stage[s] # "auth"
    <3>1. s \in Requests
      BY DEF TypeOK
    <3> QED BY <3>1 DEF RequestsInv, RequestInv, WroteLast
  <2> QED BY <2>1 DEF Moves
<1> QED BY <1>1, CallerStays DEF TypeOK

\* The counts after a step that registers nothing.
LEMMA BoundedWithFewer ==
    ASSUME TypeOK, RequestsInv, EndpointsAreBounded, NEW r \in Requests, Moves(r),
           UNCHANGED caller \/ stage[r] = "auth", UNCHANGED late, active' \subseteq active
    PROVE  EndpointsAreBounded' /\ IsFiniteSet(active') /\ IsFiniteSet(late')
<1>1. IsFiniteSet(active') /\ IsFiniteSet(late')
  BY FS_Subset DEF TypeOK
<1>2. ASSUME NEW m \in Merchants PROVE Bounded(m)'
  <2>1. Overtaken(m)' = Overtaken(m)
    BY LateKeepTheirMerchants DEF Overtaken
  <2>2. ActiveOf(m)' \in SUBSET ActiveOf(m)
    BY DEF ActiveOf
  <2>3. /\ Cardinality(ActiveOf(m)') <= Cardinality(ActiveOf(m))
        /\ IsFiniteSet(ActiveOf(m)')
    BY <2>2, ActiveIsFinite, FS_Subset
  <2>4. Cardinality(ActiveOf(m)') \in Nat
    BY <2>3, FS_CardinalityType
  <2>5. Cardinality(ActiveOf(m)) <= Cap + Cardinality(Overtaken(m))
    BY DEF EndpointsAreBounded, Overtaken
  <2> QED BY <2>1, <2>3, <2>4, <2>5, ActiveIsFinite, OvertakenIsFinite, HttpApiAssumption
      DEF Bounded
<1> QED BY <1>1, <1>2 DEF EndpointsAreBounded, Bounded, Overtaken

\* The counts after a registration, overtaken or not.
LEMMA BoundedWithOneMore ==
    ASSUME TypeOK, RequestsInv, EndpointsAreBounded, NEW r \in Requests, Moves(r),
           UNCHANGED caller, At(r, "work"), q(r).route = "endpoints_create", Effect(r)
    PROVE  EndpointsAreBounded' /\ IsFiniteSet(active') /\ IsFiniteSet(late')
<1> DEFINE mine == Merchant(r)
<1> DEFINE new == <<mine, r>>
<1> DEFINE overtaken == existing[r] # Cardinality(ActiveOf(mine))
<1>1. active' = active \cup {new} /\ late' = IF overtaken THEN late \cup {r} ELSE late
  BY DEF Effect
<1>2. r \notin late /\ existing[r] < Cap
  BY DEF RequestsInv, RequestInv, Layered, WroteLast, At
<1>3. IsFiniteSet(active') /\ IsFiniteSet(late')
  BY <1>1, FS_AddElement DEF TypeOK
<1>4. \A s \in Requests : Merchant(s)' = Merchant(s)
  BY DEF Merchant
<1>5. ASSUME NEW m \in Merchants, m # mine PROVE Bounded(m)'
  <2>1. new[1] # m
    BY <1>5
  <2> HIDE DEF new
  <2>2. ActiveOf(m)' = ActiveOf(m)
    BY <1>1, <2>1 DEF ActiveOf
  <2>3. Overtaken(m)' = Overtaken(m)
    BY <1>1, <1>4, <1>5 DEF Overtaken, TypeOK
  <2>4. Cardinality(ActiveOf(m)) <= Cap + Cardinality(Overtaken(m))
    BY DEF EndpointsAreBounded, Overtaken
  <2> QED BY <2>2, <2>3, <2>4 DEF Bounded
<1>7. ASSUME NEW m \in Merchants, m = mine PROVE Bounded(m)'
  <2>1. new[1] = m
    BY <1>7
  <2> HIDE DEF new
  <2>2. ActiveOf(m)' = ActiveOf(m) \cup {new}
    BY <1>1, <2>1 DEF ActiveOf
  <2>3. /\ Cardinality(ActiveOf(m)') <= Cardinality(ActiveOf(m)) + 1
        /\ Cardinality(ActiveOf(m)') \in Nat
    <3>1. /\ IsFiniteSet(ActiveOf(m)) /\ Cardinality(ActiveOf(m)) \in Nat
      BY ActiveIsFinite
    <3>2. Cardinality(ActiveOf(m) \cup {new})
          = IF new \in ActiveOf(m) THEN Cardinality(ActiveOf(m)) ELSE Cardinality(ActiveOf(m)) + 1
      BY <3>1, FS_AddElement
    <3> QED BY <2>2, <3>1, <3>2
  <2>4. Cardinality(ActiveOf(m)) <= Cap + Cardinality(Overtaken(m))
    BY DEF EndpointsAreBounded, Overtaken
  <2>5. CASE overtaken
    <3>1. Overtaken(m)' = Overtaken(m) \cup {r} /\ r \notin Overtaken(m)
      BY <1>1, <1>2, <1>4, <1>7, <2>5 DEF Overtaken, TypeOK
    <3>2. Cardinality(Overtaken(m)') = Cardinality(Overtaken(m)) + 1
      BY <3>1, OvertakenIsFinite, FS_AddElement
    <3> QED BY <2>3, <2>4, <3>2, ActiveIsFinite, OvertakenIsFinite, HttpApiAssumption
        DEF Bounded
  <2>6. CASE ~overtaken
    <3>1. Overtaken(m)' = Overtaken(m)
      BY <1>1, <1>4, <2>6 DEF Overtaken, TypeOK
    <3>2. Cardinality(ActiveOf(m)) < Cap
      BY <1>2, <1>7, <2>6
    <3> QED BY <2>3, <3>1, <3>2, ActiveIsFinite, OvertakenIsFinite, HttpApiAssumption
        DEF Bounded
  <2> QED BY <2>5, <2>6
<1> QED BY <1>3, <1>5, <1>7 DEF EndpointsAreBounded, Bounded, Overtaken

LEMMA EndpointsStep ==
    ASSUME TypeOK, RequestsInv, EndpointsAreBounded, NEW r \in Requests, Moves(r),
           Send(r) \/ Proceed(r)
    PROVE  EndpointsAreBounded' /\ IsFiniteSet(active') /\ IsFiniteSet(late')
<1>1. CASE UNCHANGED <<active, late>> /\ (UNCHANGED caller \/ stage[r] = "auth")
  BY <1>1, BoundedWithFewer
<1>2. CASE At(r, "work") /\ UNCHANGED caller /\ Effect(r)
  <2>1. CASE q(r).route = "endpoints_create"
    BY <1>2, <2>1, BoundedWithOneMore
  <2>2. CASE q(r).route = "endpoints_disable"
    BY <1>2, <2>2, BoundedWithFewer DEF Effect
  <2>3. CASE q(r).route \notin {"endpoints_create", "endpoints_disable"}
    BY <1>1, <1>2, <2>3 DEF Effect
  <2> QED BY <2>1, <2>2, <2>3
<1>3. CASE Work(r) \/ WorkFails(r)
  BY <1>1, <1>2, <1>3 DEF Work, WorkFails, Missing, Shows, Performs, RefusedByEngine, noEffect
<1>4. CASE Authenticate(r)
  BY <1>1, <1>4 DEF Authenticate, At
<1>5. CASE ~(Work(r) \/ WorkFails(r) \/ Authenticate(r))
  BY <1>1, <1>5 DEF Proceed, Send, Probe, AuthenticateFails, Insert, InsertFails, Select,
     SelectFails, Record, Handle, Read, Timeout, Panic
<1> QED BY <1>3, <1>4, <1>5

-----------------------------------------------------------------------------
(* The theorems. *)

LEMMA RowsStep ==
    ASSUME TypeOK, RequestsInv, RowsInv, NEW r \in Requests, Moves(r), Send(r) \/ Proceed(r)
    PROVE  RowsInv' /\ rows' \in [Merchants \X KeyNames -> Row]
<1>1. CASE Record(r)
  BY <1>1, RecordRows
<1>2. CASE Insert(r) \/ InsertFails(r)
  <2>1. /\ Authorized(r) /\ Guarded(r) /\ caller'[r] = caller[r]
    BY <1>2 DEF Insert, InsertFails, At, RequestsInv, RequestInv, Layered
  <2>2. CASE Mine(r).state = "none" /\ Claim(r)
    BY <2>1, <2>2, ClaimStep
  <2>3. CASE UNCHANGED rows /\ stage'[r] \notin Working \cup {"record"}
    BY <2>3, RowsUntouched DEF Holding, TypeOK
  <2>4. \/ Mine(r).state = "none" /\ Claim(r)
        \/ UNCHANGED rows /\ stage'[r] \notin Working \cup {"record"}
    BY <1>2 DEF Insert, InsertFails, Reply, GoTo, Working, TypeOK
  <2> QED BY <2>2, <2>3, <2>4
<1>3. CASE ~(Record(r) \/ Insert(r) \/ InsertFails(r))
  <2>1. UNCHANGED <<rows, claimed>>
    BY <1>3 DEF Proceed, Send, Probe, Authenticate, AuthenticateFails, Select, SelectFails,
       Handle, Read, Work, WorkFails, Timeout, Panic
  <2>2. stage[r] = "select" => stage'[r] = "answered"
    BY <1>3 DEF Proceed, Send, Probe, Authenticate, AuthenticateFails, Select, SelectFails,
       Replay, Handle, Read, Work, WorkFails, Timeout, Panic, At, Reply, GoTo, TypeOK
  <2>3. r \in claimed => stage[r] \in {"select", "record", "answered"} \cup Working
    BY DEF RequestsInv, RequestInv, Layered
  <2>4. Holding(r)' => Holding(r)
    BY <2>1, <2>2, <2>3 DEF Holding, Working, Moves
  <2> QED BY <2>1, <2>4, RowsUntouched DEF TypeOK
<1> QED BY <1>1, <1>2, <1>3

LEMMA FaultsStep ==
    ASSUME TypeOK, NEW r \in Requests, Send(r) \/ Proceed(r)
    PROVE  faults' \in Nat /\ keyFaults' \in Nat
<1>1. CASE UNCHANGED <<faults, keyFaults>>
  BY <1>1 DEF TypeOK
<1>2. ASSUME NEW ofKeys, Fault(r, ofKeys) PROVE faults' \in Nat /\ keyFaults' \in Nat
  BY <1>2 DEF TypeOK, Fault
<1>3. UNCHANGED <<faults, keyFaults>> \/ \E ofKeys : Fault(r, ofKeys)
  BY DEF Proceed, Send, Probe, Authenticate, AuthenticateFails, Insert, InsertFails, Select,
     SelectFails, Record, Handle, Read, Work, WorkFails, Timeout, Panic, noFault
<1> QED BY <1>1, <1>2, <1>3

LEMMA ApiInit == Init => ApiInv
<1> SUFFICES ASSUME Init PROVE ApiInv
  OBVIOUS
<1>1. IsFiniteSet({}) /\ Cardinality({}) = 0
  BY FS_EmptySet
<1>2. IsFiniteSet(active)
  <2> DEFINE entry == [e \in Endpoints |-> <<Owner[e], e>>]
  <2>1. active = {<<Owner[e], e>> : e \in Endpoints}
    BY DEF Init
  <2>2. entry \in Surjection(Endpoints, active)
    BY <2>1 DEF Surjection
  <2> QED BY <2>2, FS_Surjection, HttpApiAssumption
<1>3. TypeOK
  <2>1. "unsent" \in Stages /\ [state |-> "none"] \in Row
    BY DEF Stages, Row
  <2> QED BY <1>1, <1>2, <2>1 DEF Init, TypeOK
<1>4. RequestsInv
  BY DEF Init, RequestsInv, RequestInv, Layered, WroteLast, Handled, Replied, At, Answered, Working
<1>5. RowsInv
  BY DEF Init, RowsInv, HeldInProgress, HeldInOneHand, KeptAsReturned, Holding
<1>6. ASSUME NEW m \in Merchants PROVE Bounded(m)
  <2> DEFINE own == {e \in Endpoints : Owner[e] = m}
  <2> DEFINE entry == [e \in own |-> <<Owner[e], e>>]
  <2>1. entry \in Surjection(own, ActiveOf(m))
    BY DEF Init, ActiveOf, Surjection
  <2>2. IsFiniteSet(own) /\ Cardinality(own) <= Cap
    BY FS_Subset, HttpApiAssumption
  <2>3. Cardinality(ActiveOf(m)) <= Cardinality(own) /\ Cardinality(own) \in Nat
    BY <2>1, <2>2, FS_Surjection, FS_CardinalityType
  <2>4. Cardinality(Overtaken(m)) = 0
    BY <1>1 DEF Init, Overtaken
  <2> QED BY <1>3, <2>2, <2>3, <2>4, ActiveIsFinite, HttpApiAssumption DEF Bounded
<1> QED BY <1>3, <1>4, <1>5, <1>6 DEF ApiInv, EndpointsAreBounded, Bounded, Overtaken

LEMMA ApiStep == ApiInv /\ [Next]_vars => ApiInv'
<1> SUFFICES ASSUME ApiInv, [Next]_vars PROVE ApiInv'
  OBVIOUS
<1>1. ASSUME NEW r \in Requests, Send(r) \/ Proceed(r) PROVE ApiInv'
  <2>1. /\ TypeOK /\ RequestsInv /\ RowsInv /\ EndpointsAreBounded
        /\ KeptAsReturned /\ RequestInv(r)
    BY DEF ApiInv, RequestsInv, RowsInv
  <2>2. Moves(r) /\ RequestInv(r)'
    BY <1>1, <2>1, RequestStep
  <2>3. RequestsInv'
    BY <2>1, <2>2, OthersKeep DEF RequestsInv
  <2>4. RowsInv' /\ rows' \in [Merchants \X KeyNames -> Row]
    BY <1>1, <2>1, <2>2, RowsStep
  <2>5. EndpointsAreBounded' /\ IsFiniteSet(active') /\ IsFiniteSet(late')
    BY <1>1, <2>1, <2>2, EndpointsStep
  <2>6. faults' \in Nat /\ keyFaults' \in Nat
    BY <1>1, <2>1, FaultsStep
  <2>7. TypeOK'
    BY <2>1, <2>2, <2>4, <2>5, <2>6 DEF TypeOK, Moves, StageOfOthers
  <2> QED BY <2>3, <2>4, <2>5, <2>7 DEF ApiInv
<1>2. CASE UNCHANGED vars
  <2>1. TypeOK' /\ EndpointsAreBounded'
    BY <1>2 DEF ApiInv, TypeOK, EndpointsAreBounded, ActiveOf, Merchant, vars
  <2>2. RequestsInv'
    BY <1>2 DEF ApiInv, RequestsInv, RequestInv, Layered, WroteLast, Handled, Replied, Own, Tells,
       Repeats, Authorized, Refusal, Holds, Merchant, SlotOf, At, Answered, vars
  <2>3. RowsInv'
    BY <1>2 DEF ApiInv, RowsInv, HeldInProgress, HeldInOneHand, KeptAsReturned, KeptFrom, Holding,
       Mine, SlotOf, Merchant, At, Answered, vars
  <2> QED BY <2>1, <2>2, <2>3 DEF ApiInv
<1> QED BY <1>1, <1>2 DEF Next

\* What holds between the layers, in every state.
THEOREM ApiInvariance == Spec => []ApiInv
<1> QED BY ApiInit, ApiStep, PTL DEF Spec

\* A fresh answer tells whether its request left something behind, and a replayed one
\* repeats the answer to the same words of the same merchant (error.rs,
\* idempotency.rs): for any traffic, failures, timeouts and panics.
THEOREM AnswersTell == Spec => []AnswersTellWhatHappened
<1>1. ASSUME ApiInv, NEW r \in Requests, Answered(r), answer[r].replayed
      PROVE  /\ wrote[r] = None /\ answer[r].by # r
             /\ Fingerprint(answer[r].by) = Fingerprint(r)
             /\ Merchant(answer[r].by) = Merchant(r)
             /\ answer[r].status = returned[answer[r].by].status
  BY <1>1 DEF ApiInv, RequestsInv, RequestInv, Replied, Repeats, SlotOf
<1>2. ASSUME ApiInv, NEW r \in Requests, Answered(r), ~answer[r].replayed
      PROVE  /\ Status(r) \in 400..499 \cup {503} /\ ~answer[r].payment => wrote[r] = None
             /\ Status(r) = 201 \/ answer[r].payment => wrote[r] = Merchant(r)
  BY <1>2 DEF ApiInv, RequestsInv, RequestInv, Replied, Tells, Status
<1>3. ApiInv => AnswersTellWhatHappened
  BY <1>1, <1>2 DEF AnswersTellWhatHappened
<1> QED BY <1>3, ApiInvariance, PTL

\* A request whose database call failed before its work was done is answered with a
\* 5xx, never with a denial (error.rs, auth.rs).
THEOREM OutagesAreTold == Spec => []OutagesAreNotDenials
<1>1. ApiInv => OutagesAreNotDenials
  BY DEF ApiInv, RequestsInv, RequestInv, Replied, Tells, OutagesAreNotDenials, Status
<1> QED BY <1>1, ApiInvariance, PTL

\* Nothing is claimed, written or shown but with one active secret key, of the merchant
\* it belongs to, that holds the scope of the route (auth.rs, AuthCtx::require).
THEOREM AuthorityIsNeeded == Spec => []NothingWithoutAuthority
<1>1. ASSUME ApiInv, NEW r \in Requests
      PROVE  LET m == ApiKeys[TokenOf(r).key].merchant IN
             /\ r \in claimed => HasAuthority(r)
             /\ wrote[r] # None => /\ HasAuthority(r) /\ wrote[r] = m
                                   /\ route(r).scope \in ApiKeys[TokenOf(r).key].scopes
             /\ Answered(r) /\ answer[r].of # None => HasAuthority(r) /\ answer[r].of = m
  <2> DEFINE m == ApiKeys[TokenOf(r).key].merchant
  <2>1. Authorized(r) => HasAuthority(r) /\ Merchant(r) = m
    BY AuthorizedIs
  <2>2. r \in claimed => Authorized(r)
    BY <1>1 DEF ApiInv, RequestsInv, RequestInv, Layered
  <2>3. wrote[r] # None => Authorized(r) /\ Refusal(r) = "ok" /\ wrote[r] = Merchant(r)
    BY <1>1 DEF ApiInv, RequestsInv, RequestInv, WroteLast
  <2>4. Authorized(r) /\ Refusal(r) = "ok" => route(r).scope \in ApiKeys[TokenOf(r).key].scopes
    BY AcceptedIs DEF Holds, Granted, Authorized
  <2>5. Answered(r) /\ answer[r].of # None => Authorized(r) /\ answer[r].of = Merchant(r)
    BY <1>1, <2>2 DEF ApiInv, RequestsInv, RequestInv, Replied, Own, Repeats
  <2> HIDE DEF m
  <2>6. /\ r \in claimed => HasAuthority(r)
        /\ wrote[r] # None => /\ HasAuthority(r) /\ wrote[r] = m
                              /\ route(r).scope \in ApiKeys[TokenOf(r).key].scopes
        /\ Answered(r) /\ answer[r].of # None => HasAuthority(r) /\ answer[r].of = m
    BY <2>1, <2>2, <2>3, <2>4, <2>5
  <2> QED BY <2>6 DEF m
<1>2. ApiInv => NothingWithoutAuthority
  BY <1>1 DEF NothingWithoutAuthority
<1> QED BY <1>2, ApiInvariance, PTL

\* Every answer but a preflight's carries its request id, a 401 or 403 its challenge,
\* and a key never keeps an answer that asks for a retry or a 5xx (request_id.rs,
\* auth.rs, idempotency.rs).
THEOREM AnswersCarryAll == Spec => []AnswersAreComplete
<1>1. ASSUME ApiInv, NEW r \in Requests, Answered(r)
      PROVE  /\ q(r).route # "preflight" => answer[r].id = RequestIdOf(r)
             /\ answer[r].bodyId \in {None, answer[r].id} \/ answer[r].replayed
             /\ Status(r) \in {401, 403} <=> answer[r].challenge # "none"
  BY <1>1 DEF ApiInv, RequestsInv, RequestInv, Replied, Own, Status, Challenge
<1>2. ASSUME ApiInv, NEW k \in DOMAIN rows, rows[k].state = "completed"
      PROVE  rows[k].response.status < 500 /\ ~rows[k].response.retryAfter
  BY <1>2 DEF ApiInv, TypeOK, RowsInv, KeptAsReturned, KeptFrom
<1>3. ApiInv => AnswersAreComplete
  BY <1>1, <1>2 DEF AnswersAreComplete
<1> QED BY <1>3, ApiInvariance, PTL

\* A merchant's active endpoints exceed the cap by at most the registrations that were
\* overtaken between their count and their insert (routes/webhook_endpoints.rs).
THEOREM EndpointsStayBounded == Spec => []EndpointsAreBounded
<1>1. ApiInv => EndpointsAreBounded
  BY DEF ApiInv
<1> QED BY <1>1, ApiInvariance, PTL

-----------------------------------------------------------------------------
(* The keys.  What a request that names one has passed, and what it leaves. *)

\* What a response of a handler is never called, and how it is told.
HandlerCodes == Codes \ {"timeout", "key_in_flight", "key_reused", "no_body"}
FromHandler(resp) ==
    resp.code \in HandlerCodes /\ (resp.code = "internal" => resp.status >= 500)

\* A request that names a key passes its check before anything else runs, works only
\* under the key it claimed, and has no response before its handler returns.
Keyed(r) ==
    /\ r \in claimed \/ stage[r] = "insert" => GuardError(r) = "ok"
    /\ stage[r] \in Working /\ r \notin claimed => ~Guarded(r)
    /\ returned[r] # None =>
          stage[r] \in {"record", "answered"} /\ FromHandler(returned[r])
    /\ r \notin claimed /\ Guarded(r) => returned[r] = None
NoAnswerYet(r) == stage[r] # "answered" => answer[r] = None
KeyedInv == (\A r \in Requests : Keyed(r) /\ NoAnswerYet(r)) /\ keyFaults <= faults

\* The handler of r returns a response of its own.
HandlerReturns(r) ==
    stage[r] \in Working /\ \E resp \in Response : Return(r, resp) /\ FromHandler(resp)

\* The responses a handler makes.
LEMMA ErrorIsFromHandler ==
    ASSUME NEW r \in Requests, NEW code \in Refusals
    PROVE  Error(r, code) \in Response /\ FromHandler(Error(r, code))
<1>1. code \in DOMAIN ErrorStatus /\ code \notin AdvisesRetry /\ code # "key_reused"
  BY DEF Refusals
<1>2. Error(r, code) \in Response /\ Error(r, code).status = ErrorStatus[code]
  BY <1>1, ErrorFields
<1>3. Error(r, code).code = code
  BY DEF Error
<1>4. code \in HandlerCodes
  BY <1>1 DEF HandlerCodes, Codes, AdvisesRetry, ErrorStatus
<1>5. ErrorStatus["internal"] = 500
  BY DEF ErrorStatus
<1> QED BY <1>2, <1>3, <1>4, <1>5 DEF FromHandler

LEMMA SuccessIsFromHandler ==
    ASSUME NEW r \in Requests, NEW status \in Nat, NEW m \in Merchants \cup {None}
    PROVE  Success(r, status, m) \in Response /\ FromHandler(Success(r, status, m))
<1>1. Success(r, status, m).code = "ok"
  BY DEF Success
<1>2. "ok" \in HandlerCodes
  BY DEF HandlerCodes, Codes
<1> QED BY <1>1, <1>2, SuccessFields DEF FromHandler

LEMMA DeclineIsFromHandler ==
    ASSUME NEW r \in Requests, NEW m \in Merchants
    PROVE  Declined(r, m) \in Response /\ FromHandler(Declined(r, m))
<1>1. "card" \in HandlerCodes /\ "card" \in Refusals
  BY DEF HandlerCodes, Codes, Refusals, AdvisesRetry, ErrorStatus
<1> DEFINE e == Error(r, "card")
<1>2. e \in Response
  BY <1>1, ErrorIsFromHandler
<1>3. e.code = "card" /\ Declined(r, m) = [e EXCEPT !.payment = TRUE, !.of = m]
  BY DEF Error, Declined
<1> HIDE DEF e
<1>4. Declined(r, m).code = "card"
  BY <1>2, <1>3 DEF Response
<1> QED BY <1>1, <1>4, DeclinedFields DEF FromHandler

\* What the reads return.
LEMMA ReadReturns ==
    ASSUME TypeOK, NEW r \in Requests, RequestInv(r), Read(r)
    PROVE  HandlerReturns(r) \/ (UNCHANGED <<returned, answer>> /\ GoTo(r, "work"))
<1>1. stage[r] \in Working /\ Authorized(r)
  BY DEF Read, At, Working, RequestInv, Layered
<1>2. \A code \in {"not_found", "card", "invalid_request"} :
          Error(r, code) \in Response /\ FromHandler(Error(r, code))
  BY CodesAreKnown, ErrorIsFromHandler
<1>3. Disabled(r) \in Response /\ FromHandler(Disabled(r))
  BY <1>1, AuthorizedIs, SuccessIsFromHandler DEF Disabled
<1>4. CASE ReadOrder(r)
  BY <1>1, <1>2, <1>4 DEF ReadOrder, HandlerReturns
<1>5. CASE CountEndpoints(r)
  BY <1>1, <1>2, <1>5 DEF CountEndpoints, HandlerReturns
<1>6. CASE FindEndpoint(r)
  BY <1>1, <1>2, <1>3, <1>6 DEF FindEndpoint, HandlerReturns
<1> QED BY <1>4, <1>5, <1>6 DEF Read

\* What the services return, and what it tells of the write.
LEMMA WorkReturns ==
    ASSUME TypeOK, NEW r \in Requests, RequestInv(r), Work(r)
    PROVE  \E resp \in Response :
              Return(r, resp) /\ FromHandler(resp) /\ (wrote'[r] # None => Works(resp))
<1>1. /\ stage[r] = "work" /\ Authorized(r) /\ Refusal(r) = "ok" /\ wrote[r] = None
      /\ At(r, "work") /\ q(r).route \in DOMAIN Routes
  BY DEF Work, At, RequestInv, Layered, WroteLast, Working
<1>2. PICK m \in Merchants : m = Merchant(r) /\ m # None
  BY <1>1, AuthorizedIs
<1>3. PICK ok \in {200, 201} : ok = route(r).ok
  BY <1>1, AcceptedIs, RouteFacts DEF route
<1>4. CASE Missing(r) \/ RefusedByEngine(r)
  BY <1>1, <1>4, CodesAreKnown, ErrorIsFromHandler DEF Missing, RefusedByEngine, noEffect
<1> DEFINE made == Success(r, ok, m)
<1>5. made \in Response /\ FromHandler(made) /\ made.status = ok
  BY SuccessFields, SuccessIsFromHandler
<1>6. CASE Shows(r)
  <2>1. Touched(r) = m
    BY <1>2, <1>6 DEF Shows, Found, Owned, Touched
  <2> QED BY <1>1, <1>3, <1>5, <1>6, <2>1 DEF Shows, noEffect
<1>7. CASE Performs(r)
  <2>1. Touched(r) = m
    BY <1>1, <1>2, <1>7, EffectIs DEF Performs
  <2>2. PICK resp \in Successes(r) : Return(r, resp)
    BY <1>7 DEF Performs
  <2>3. resp \in {made, Declined(r, m)}
    BY <1>3, <2>1, <2>2 DEF Successes
  <2> HIDE DEF made
  <2>4. CASE resp = made
    <3>1. resp # None /\ Kind(resp) = "done"
      BY <1>5, <2>4, NoneAssumption DEF Kind
    <3> QED BY <1>5, <2>2, <2>4, <3>1 DEF Works
  <2>5. CASE resp = Declined(r, m)
    <3>1. resp \in Response /\ FromHandler(resp) /\ resp.status = 402 /\ resp.payment
      BY <2>5, DeclineIsFromHandler, DeclinedFields
    <3>2. Kind(resp) = "declined"
      BY <3>1, NoneAssumption DEF Kind
    <3> QED BY <2>2, <3>1, <3>2 DEF Works
  <2> QED BY <2>3, <2>4, <2>5
<1> HIDE DEF made
<1> QED BY <1>4, <1>6, <1>7 DEF Work

\* What a handler does: it goes on, or it returns what tells of its write.
Returned(r) ==
    \E resp \in Response :
        Return(r, resp) /\ FromHandler(resp) /\ (wrote'[r] # None => Works(resp))
LEMMA HandlerDoes ==
    ASSUME TypeOK, NEW r \in Requests, RequestInv(r), Handle(r) \/ Read(r) \/ Work(r)
    PROVE  /\ stage[r] \in Working /\ UNCHANGED <<rows, claimed, keyFaults>>
           /\ \/ UNCHANGED <<returned, answer, wrote>> /\ stage'[r] \in Working
              \/ Returned(r)
<1>1. CASE Work(r)
  BY <1>1, WorkReturns DEF Work, At, Working, noFault, Returned
<1>2. ASSUME UNCHANGED <<returned, answer, wrote>>, NEW to \in {"read", "work"}, GoTo(r, to)
      PROVE  UNCHANGED <<returned, answer, wrote>> /\ stage'[r] \in Working
  BY <1>2 DEF GoTo, TypeOK, Working
<1>3. CASE Handle(r)
  <2>1. stage[r] \in Working /\ UNCHANGED <<rows, claimed, keyFaults, wrote>>
    BY <1>3 DEF Handle, At, Working, noFault
  <2>2. wrote[r] = None
    BY <2>1 DEF RequestInv, WroteLast, Working
  <2>3. CASE Refusal(r) # "ok" /\ Return(r, Error(r, Refusal(r)))
    <3>1. PICK code \in Refusals : code = Refusal(r)
      BY <2>3, CodesAreKnown
    <3>2. Error(r, code) \in Response /\ FromHandler(Error(r, code))
      BY ErrorIsFromHandler
    <3> QED BY <2>1, <2>2, <2>3, <3>1, <3>2 DEF Returned
  <2>4. CASE UNCHANGED <<returned, answer>>
             /\ GoTo(r, IF q(r).route \in ReadsFirst THEN "read" ELSE "work")
    BY <1>2, <2>1, <2>4
  <2> QED BY <1>3, <2>3, <2>4 DEF Handle
<1>4. CASE Read(r)
  <2>1. stage[r] \in Working /\ UNCHANGED <<rows, claimed, keyFaults, wrote>>
    BY <1>4 DEF Read, At, Working, noFault
  <2>2. wrote[r] = None
    BY <2>1 DEF RequestInv, WroteLast, Working
  <2> QED BY <1>2, <1>4, <2>1, <2>2, ReadReturns DEF HandlerReturns, Returned
<1> QED BY <1>1, <1>3, <1>4

\* The failures of the key store are among all the failures.
LEMMA FaultsCount ==
    ASSUME TypeOK, KeyedInv, NEW r \in Requests, Send(r) \/ Proceed(r)
    PROVE  keyFaults' <= faults'
<1>1. CASE UNCHANGED <<faults, keyFaults>>
  BY <1>1 DEF KeyedInv
<1>2. ASSUME NEW ofKeys, Fault(r, ofKeys) PROVE keyFaults' <= faults'
  BY <1>2 DEF TypeOK, KeyedInv, Fault
<1>3. UNCHANGED <<faults, keyFaults>> \/ \E ofKeys : Fault(r, ofKeys)
  BY DEF Proceed, Send, Probe, Authenticate, AuthenticateFails, Insert, InsertFails, Select,
     SelectFails, Record, Handle, Read, Work, WorkFails, Timeout, Panic, noFault
<1> QED BY <1>1, <1>2, <1>3

\* The service of r fails.
LEMMA FailureIs ==
    ASSUME NEW r \in Requests, WorkFails(r)
    PROVE  /\ Return(r, Error(r, "internal")) /\ Error(r, "internal") \in Response
           /\ FromHandler(Error(r, "internal")) /\ Kind(Error(r, "internal")) = "failed"
           /\ stage[r] \in Working /\ UNCHANGED <<rows, claimed>>
<1>1. "internal" \in Refusals /\ OfEngineError("08006") = "internal"
  BY CodesAreKnown
<1>2. Error(r, "internal").status = 500
  BY DEF Error, ErrorStatus
<1> QED BY <1>1, <1>2, ErrorIsFromHandler DEF WorkFails, Working, Kind

\* A step that answers a request is its last.
LEMMA AnswerComesLast ==
    ASSUME TypeOK, NEW r \in Requests, Send(r) \/ Proceed(r)
    PROVE  stage'[r] = "answered" \/ UNCHANGED answer
<1>1. ASSUME NEW resp, Reply(r, resp) PROVE stage'[r] = "answered"
  BY <1>1 DEF Reply, GoTo, TypeOK
<1>2. ASSUME NEW resp, Return(r, resp) PROVE stage'[r] = "answered" \/ UNCHANGED answer
  BY <1>1, <1>2 DEF Return
<1>3. CASE Send(r)
  BY <1>1, <1>3 DEF Send
<1>4. CASE Insert(r) \/ InsertFails(r) \/ Select(r) \/ SelectFails(r) \/ Record(r)
  BY <1>1, <1>4 DEF Insert, InsertFails, Select, SelectFails, Record, Replay
<1>5. CASE Handle(r) \/ Read(r)
  BY <1>2, <1>5 DEF Handle, Read, ReadOrder, CountEndpoints, FindEndpoint
<1>6. CASE Work(r) \/ WorkFails(r)
  BY <1>2, <1>6 DEF Work, Missing, Shows, Performs, RefusedByEngine, WorkFails
<1>7. CASE Probe(r) \/ Authenticate(r) \/ AuthenticateFails(r) \/ Timeout(r) \/ Panic(r)
  BY <1>1, <1>7 DEF Probe, Authenticate, AuthenticateFails, Timeout, Panic
<1> QED BY <1>3, <1>4, <1>5, <1>6, <1>7 DEF Proceed

\* r keeps what it has to about its key.
LEMMA KeyedStep ==
    ASSUME ApiInv, KeyedInv, NEW r \in Requests, Send(r) \/ Proceed(r)
    PROVE  Keyed(r)'
<1>1. /\ TypeOK /\ RequestInv(r) /\ Keyed(r) /\ KeptAsReturned
      /\ \A s \in Requests : Keyed(s)
  BY DEF ApiInv, RequestsInv, RowsInv, KeyedInv
<1>2. Moves(r)
  BY <1>1, RequestStep
<1>3. /\ r \in claimed => stage[r] \in {"select", "record", "answered"} \cup Working
      /\ stage[r] \in {"select", "record"} => r \in claimed
      /\ stage[r] = "insert" => Guarded(r)
  BY <1>1 DEF RequestInv, Layered
<1>4. ASSUME UNCHANGED <<returned, claimed>>, stage'[r] = "answered"
      PROVE  Keyed(r)'
  BY <1>1, <1>2, <1>4 DEF Keyed, Moves, Working
<1>5. ASSUME NEW resp \in Response, Return(r, resp), FromHandler(resp), stage[r] \in Working,
             UNCHANGED claimed
      PROVE  Keyed(r)'
  <2>1. /\ returned'[r] = resp /\ (r \in claimed => stage'[r] = "record")
        /\ r \notin claimed => stage'[r] = "answered"
    BY <1>1, <1>5, ReturnFields
  <2> QED BY <1>1, <1>5, <2>1 DEF Keyed, Working
<1>6. CASE Send(r)
  <2>1. UNCHANGED <<returned, claimed>> /\ stage[r] = "unsent"
        /\ stage'[r] \in {"answered", "probe", "auth"}
    BY <1>1, <1>6 DEF Send, At, Reply, GoTo, TypeOK
  <2> QED BY <1>1, <2>1 DEF Keyed, Working
<1>7. CASE Probe(r) \/ AuthenticateFails(r) \/ SelectFails(r) \/ Record(r) \/ Timeout(r) \/ Panic(r)
  <2>1. UNCHANGED <<returned, claimed>> /\ stage'[r] = "answered"
    BY <1>1, <1>7 DEF Probe, AuthenticateFails, SelectFails, Record, Timeout, Panic, Reply, GoTo, TypeOK
  <2> QED BY <1>4, <2>1
<1>8. CASE Authenticate(r)
  <2>1. UNCHANGED <<returned, claimed>> /\ stage[r] = "auth"
        /\ \/ stage'[r] = "answered"
           \/ stage'[r] = (IF Guarded(r) THEN "insert" ELSE "handler") /\ GuardError(r) = "ok"
    BY <1>1, <1>8 DEF Authenticate, At, Reply, GoTo, TypeOK
  <2> QED BY <1>1, <1>3, <1>4, <2>1 DEF Keyed, Working
<1>9. CASE Insert(r) \/ InsertFails(r)
  <2>1. /\ stage[r] = "insert" /\ UNCHANGED returned /\ claimed' = claimed \cup {r}
        /\ stage'[r] \in {"handler", "select", "answered"}
    BY <1>1, <1>9 DEF Insert, InsertFails, At, Reply, GoTo, TypeOK
  <2>2. returned[r] = None
    BY <1>1, <2>1 DEF Keyed
  <2> QED BY <1>1, <2>1, <2>2 DEF Keyed, Working
<1>10. CASE Select(r)
  <2>1. stage[r] = "select" /\ UNCHANGED claimed /\ stage'[r] = "answered"
    BY <1>1, <1>10 DEF Select, At, Replay, Reply, GoTo, TypeOK
  <2>2. CASE UNCHANGED returned
    BY <1>4, <2>1, <2>2
  <2>3. CASE Mine(r).state = "completed" /\ Replay(r)
    <3>1. PICK kept \in Response : kept = Mine(r).response /\ KeptFrom(SlotOf(r), kept.by)
      BY <1>1, <1>3, <2>1, <2>3, SlotIs DEF KeptAsReturned, Mine, RequestInv, Layered
    <3>2. kept = returned[kept.by] /\ kept.by \in Requests /\ kept # None
      BY <3>1, NoneAssumption DEF KeptFrom, Mine, Response
    <3>3. FromHandler(kept)
      BY <1>1, <3>2 DEF Keyed
    <3> DEFINE resp == [kept EXCEPT !.replayed = TRUE, !.retryAfter = FALSE]
    <3>4. resp.code = kept.code /\ resp.status = kept.status
      BY <3>1 DEF Response
    <3>5. returned' = [returned EXCEPT ![r] = resp]
      BY <2>3, <3>1 DEF Replay
    <3> HIDE DEF resp
    <3>6. FromHandler(resp) /\ returned'[r] = resp
      BY <1>1, <3>3, <3>4, <3>5 DEF FromHandler, TypeOK
    <3> QED BY <1>1, <1>3, <2>1, <3>6 DEF Keyed, Working
  <2> QED BY <1>10, <2>2, <2>3 DEF Select
<1>11. CASE Handle(r) \/ Read(r) \/ Work(r)
  <2>1. CASE UNCHANGED <<returned, claimed>> /\ stage[r] \in Working /\ stage'[r] \in Working
    BY <1>1, <2>1 DEF Keyed, Working
  <2> QED BY <1>1, <1>5, <1>11, <2>1, HandlerDoes DEF Returned
<1>12. CASE WorkFails(r)
  BY <1>5, <1>12, FailureIs
<1> QED BY <1>6, <1>7, <1>8, <1>9, <1>10, <1>11, <1>12 DEF Proceed

\* What a request passes with its key, in every state.
LEMMA KeyedInvariance == Spec => [](ApiInv /\ KeyedInv)
<1>1. Init => KeyedInv
  BY DEF Init, KeyedInv, Keyed, NoAnswerYet, Working
<1>2. ASSUME ApiInv, KeyedInv, [Next]_vars PROVE KeyedInv'
  <2>1. TypeOK /\ \A s \in Requests : Keyed(s) /\ NoAnswerYet(s)
    BY <1>2 DEF ApiInv, KeyedInv
  <2>2. ASSUME NEW r \in Requests, Send(r) \/ Proceed(r) PROVE KeyedInv'
    <3>1. Moves(r)
      BY <1>2, <2>2, RequestStep DEF ApiInv, RequestsInv, RowsInv
    <3>2. ASSUME NEW s \in Requests \ {r} PROVE (Keyed(s) /\ NoAnswerYet(s))'
      <4>1. /\ stage'[s] = stage[s] /\ returned'[s] = returned[s] /\ answer'[s] = answer[s]
            /\ (s \in claimed' <=> s \in claimed)
        BY <3>1 DEF Moves, StageOfOthers
      <4> QED BY <2>1, <4>1 DEF Keyed, NoAnswerYet
    <3>3. NoAnswerYet(r)'
      BY <2>1, <2>2, <3>1, AnswerComesLast DEF Moves, NoAnswerYet
    <3> QED BY <1>2, <2>1, <2>2, <3>2, <3>3, KeyedStep, FaultsCount DEF KeyedInv
  <2>3. CASE UNCHANGED vars
    BY <1>2, <2>3 DEF KeyedInv, Keyed, NoAnswerYet, vars
  <2> QED BY <1>2, <2>2, <2>3 DEF Next
<1> QED BY <1>1, <1>2, ApiInit, ApiStep, PTL DEF Spec

-----------------------------------------------------------------------------
(* The requests that name a key, as Idempotency sees them. *)

LEMMA WithKeyIs ==
    ASSUME ApiInv, KeyedInv, NEW r \in Requests, stage[r] # "answered",
           r \in claimed \/ stage[r] = "insert"
    PROVE  /\ r \in WithKey /\ SlotOf(r) = KeySlot[r] /\ Words[r] = Fingerprint(r)
           /\ KeySlot[r] \in KeySlots /\ Authorized(r) /\ Guarded(r)
<1>1. Authorized(r) /\ Guarded(r) /\ q(r).route \in DOMAIN Routes
  BY DEF ApiInv, RequestsInv, RequestInv, Layered
<1>2. GuardError(r) = "ok"
  BY DEF KeyedInv, Keyed
<1>3. r \in WithKey
  BY <1>1, <1>2 DEF WithKey, Authorized
<1> QED BY <1>1, <1>3 DEF KeySlot, KeySlots, Words, SlotOf, Merchant, Authorized

\* A request that is not at the check of its key has nothing to do with the key
\* unless it claimed it.
LEMMA NotServed ==
    ASSUME ApiInv, KeyedInv, NEW r \in Requests, r \in WithKey, r \notin claimed
    PROVE  stage[r] \notin {"select", "record"} \cup Working
<1>1. Guarded(r)
  BY DEF WithKey
<1> QED BY <1>1 DEF ApiInv, RequestsInv, RequestInv, Layered, KeyedInv, Keyed

LEMMA SlotsAreSlots == KeySlots \subseteq Merchants \X KeyNames
<1> SUFFICES ASSUME NEW r \in WithKey PROVE KeySlot[r] \in Merchants \X KeyNames
  BY DEF KeySlots
<1>1. r \in Requests /\ TokenOf(r).key \in DOMAIN ApiKeys /\ q(r).key # None
  BY DEF WithKey, Authentic, Resolves, Guarded, HasKey
<1> QED BY <1>1, HttpApiAssumption, TrafficAssumption DEF KeySlot

\* What a step of r leaves of the others.
LEMMA OthersLook ==
    ASSUME NEW r \in Requests, Moves(r), NEW s \in Requests \ {r}
    PROVE  /\ StepOf(s)' = StepOf(s) /\ Told(returned[s])' = Told(returned[s])
           /\ AnswerOf(s)' = AnswerOf(s) /\ (Worked(s)' <=> Worked(s))
           /\ returned'[s] = returned[s]
<1>1. /\ stage'[s] = stage[s] /\ returned'[s] = returned[s] /\ answer'[s] = answer[s]
      /\ wrote'[s] = wrote[s] /\ (s \in claimed' <=> s \in claimed)
  BY DEF Moves, StageOfOthers
<1>2. Releases(s)' <=> Releases(s)
  BY <1>1 DEF Releases, TooBig
<1>3. StepOf(s)' = StepOf(s)
  BY <1>1, <1>2 DEF StepOf, At
<1>4. AnswerOf(s)' = AnswerOf(s)
  BY <1>1 DEF AnswerOf, Kind
<1> QED BY <1>1, <1>3, <1>4 DEF Told, Worked

\* How the requests look after a step of one that names a key.
Unsaying(r) == Worked(r) /\ returned[r] # None /\ Kind(returned[r]) = "failed"
LEMMA Looks ==
    ASSUME NEW r \in Requests, r \in WithKey, Moves(r)
    PROVE  /\ Steps' = [Steps EXCEPT ![r] = StepOf(r)']
           /\ Reports' = [Reports EXCEPT ![r] = Told(returned[r])']
           /\ Answers' = [Answers EXCEPT ![r] = AnswerOf(r)']
           /\ Workers' = (Workers \ {r}) \cup (IF Worked(r)' THEN {r} ELSE {})
           /\ Unsaid' = (Unsaid \ {r}) \cup (IF Unsaying(r)' THEN {r} ELSE {})
           /\ Steps[r] = StepOf(r) /\ Reports[r] = Told(returned[r]) /\ Answers[r] = AnswerOf(r)
           /\ (r \in Workers <=> Worked(r)) /\ (r \in Unsaid <=> Unsaying(r))
           /\ AnswerOf(r)' = AnswerOf(r) => UNCHANGED Answers
           /\ returned'[r] = returned[r] => UNCHANGED Reports
           /\ (Worked(r)' <=> Worked(r)) => UNCHANGED Workers
           /\ (Unsaying(r)' <=> Unsaying(r)) => UNCHANGED Unsaid
<1>1. WithKey \subseteq Requests
  BY DEF WithKey
<1>2. \A s \in WithKey \ {r} :
         /\ StepOf(s)' = StepOf(s) /\ Told(returned[s])' = Told(returned[s])
         /\ AnswerOf(s)' = AnswerOf(s) /\ (Worked(s)' <=> Worked(s))
         /\ returned'[s] = returned[s]
  BY <1>1, OthersLook
<1>3. Steps' = [Steps EXCEPT ![r] = StepOf(r)'] /\ Steps[r] = StepOf(r)
  BY <1>2 DEF Steps
<1>4. Reports' = [Reports EXCEPT ![r] = Told(returned[r])'] /\ Reports[r] = Told(returned[r])
  BY <1>2 DEF Reports
<1>5. Answers' = [Answers EXCEPT ![r] = AnswerOf(r)'] /\ Answers[r] = AnswerOf(r)
  BY <1>2 DEF Answers
<1>6. Workers' = (Workers \ {r}) \cup (IF Worked(r)' THEN {r} ELSE {})
  BY <1>2 DEF Workers
<1>7. Unsaid' = (Unsaid \ {r}) \cup (IF Unsaying(r)' THEN {r} ELSE {})
  BY <1>2 DEF Unsaid, Workers, Unsaying, Kind
<1>8. AnswerOf(r)' = AnswerOf(r) => UNCHANGED Answers
  BY <1>2 DEF Answers
<1>9. returned'[r] = returned[r] => UNCHANGED Reports
  <2>1. returned'[r] = returned[r] => Told(returned[r])' = Told(returned[r])
    BY DEF Told, Works, Kind
  <2> QED BY <1>2, <2>1 DEF Reports
<1>10. (r \in Workers <=> Worked(r)) /\ (r \in Unsaid <=> Unsaying(r))
  BY DEF Workers, Unsaid, Unsaying
<1>11. /\ (Worked(r)' <=> Worked(r)) => UNCHANGED Workers
       /\ (Unsaying(r)' <=> Unsaying(r)) => UNCHANGED Unsaid
  BY <1>6, <1>7, <1>10
<1> QED BY <1>3, <1>4, <1>5, <1>6, <1>7, <1>8, <1>9, <1>10, <1>11

Seen == <<Lines, Steps, Reports, Answers, Workers, Unsaid, keyFaults>>

\* A step that Idempotency does not see: of a request that names no key, or has
\* claimed none, or goes on within its handler.
LEMMA Unseen ==
    ASSUME NEW r \in Requests, Moves(r), UNCHANGED <<rows, keyFaults>>,
           \/ r \notin WithKey
           \/ UNCHANGED <<returned, wrote, claimed>> /\ r \notin claimed
           \/ UNCHANGED <<returned, wrote, claimed, answer>> /\ {stage[r], stage'[r]} \subseteq Working
    PROVE  UNCHANGED Seen
<1>1. \A s \in WithKey :
         /\ StepOf(s)' = StepOf(s) /\ Told(returned[s])' = Told(returned[s])
         /\ AnswerOf(s)' = AnswerOf(s) /\ (Worked(s)' <=> Worked(s))
         /\ returned'[s] = returned[s]
  <2>1. ASSUME r \in WithKey
        PROVE  /\ StepOf(r)' = StepOf(r) /\ Told(returned[r])' = Told(returned[r])
               /\ AnswerOf(r)' = AnswerOf(r) /\ (Worked(r)' <=> Worked(r))
               /\ returned'[r] = returned[r]
    BY <2>1 DEF StepOf, At, AnswerOf, Kind, Told, Worked, Working
  <2> QED BY <2>1, OthersLook DEF WithKey
<1>2. UNCHANGED <<Steps, Reports, Answers>>
  BY <1>1 DEF Steps, Reports, Answers
<1>3. UNCHANGED Workers
  BY <1>1 DEF Workers
<1>4. UNCHANGED Unsaid
  <2>1. \A s \in Workers : returned'[s] = returned[s]
    BY <1>1 DEF Workers
  <2>2. \A s \in Workers : Kind(returned[s])' = Kind(returned[s])
    BY <2>1 DEF Kind
  <2> HIDE <1>1
  <2> QED BY <1>3, <2>1, <2>2 DEF Unsaid
<1>5. UNCHANGED Lines
  BY DEF Lines, Line, Told, Kind
<1> QED BY <1>2, <1>3, <1>4, <1>5 DEF Seen

\* The rows, as Idempotency sees them.
LEMMA LineIs ==
    ASSUME ApiInv, NEW r \in Requests, r \in WithKey, SlotOf(r) = KeySlot[r], KeySlot[r] \in KeySlots
    PROVE  /\ Lines[KeySlot[r]] = Line(Mine(r)) /\ Lines[KeySlot[r]].state = Mine(r).state
           /\ Mine(r) \in Row
           /\ Mine(r).state # "none" => Lines[KeySlot[r]].print = Mine(r).print
           /\ Mine(r).state = "completed" =>
                 /\ Mine(r).response \in Response
                 /\ Lines[KeySlot[r]].response = Told(Mine(r).response)
<1>1. Lines[KeySlot[r]] = Line(Mine(r))
  BY DEF Lines, Mine
<1>2. Mine(r) \in Row
  BY SlotsAreSlots DEF ApiInv, TypeOK, Mine
<1> QED BY <1>1, <1>2 DEF Line, Row

LEMMA LineWritten ==
    ASSUME ApiInv, NEW r \in Requests, r \in WithKey, SlotOf(r) = KeySlot[r], KeySlot[r] \in KeySlots,
           NEW new, rows' = [rows EXCEPT ![SlotOf(r)] = new]
    PROVE  Lines' = [Lines EXCEPT ![KeySlot[r]] = Line(new)]
<1>1. rows \in [Merchants \X KeyNames -> Row]
  BY DEF ApiInv, TypeOK
<1>2. \A k \in KeySlots : rows'[k] = IF k = KeySlot[r] THEN new ELSE rows[k]
  BY <1>1, SlotsAreSlots
<1>3. Lines' = [k \in KeySlots |-> Line(rows'[k])]
  BY DEF Lines, Line, Told, Kind
<1>4. \A k \in KeySlots : Line(rows'[k]) = IF k = KeySlot[r] THEN Line(new) ELSE Line(rows[k])
  BY <1>2
<1>5. Lines' = [k \in KeySlots |-> IF k = KeySlot[r] THEN Line(new) ELSE Line(rows[k])]
  BY <1>3, <1>4
<1> QED BY <1>5 DEF Lines

\* What the client of r is told when r is answered.
Said(resp, ret) ==
    CASE resp.code = "timeout" \/ (resp.code = "internal" /\ ret = None) -> "unknown"
      [] resp.code = "key_in_flight" -> "in_flight"
      [] resp.code = "key_reused"    -> "mismatch"
      [] resp.code = "no_body"       -> "no_body"
      [] OTHER                       -> Kind(resp)
LEMMA Telling ==
    ASSUME TypeOK, NEW r \in Requests, r \in WithKey, Moves(r), NEW resp \in Response,
           Reply(r, resp), r \in claimed'
    PROVE  Promise!Tell(r, Said(resp, returned'[r]))
<1> DEFINE sent == [resp EXCEPT !.challenge = Challenge(r, resp.status),
                                !.id = IF q(r).route = "preflight" THEN None ELSE RequestIdOf(r)]
<1>1. sent.code = resp.code /\ sent.status = resp.status /\ sent.payment = resp.payment
  BY DEF Response
<1>2. answer'[r] = sent /\ stage'[r] = "answered"
  BY DEF Reply, GoTo, TypeOK
<1>3. sent # None
  <2>1. sent \in Response
    <3>1. /\ Challenge(r, resp.status) \in Challenges
          /\ (IF q(r).route = "preflight" THEN None ELSE RequestIdOf(r)) \in Ids
      BY DEF Ids, Challenge, Challenges
    <3> QED BY <3>1 DEF Response
  <2> QED BY <2>1, NoneAssumption
<1> HIDE DEF sent
<1>4. resp # None
  BY NoneAssumption
<1>5. Kind(sent) = Kind(resp)
  BY <1>1, <1>3, <1>4 DEF Kind
<1>6. AnswerOf(r)' = Said(sent, returned'[r])
  BY <1>2, <1>3 DEF AnswerOf, Said, Kind
<1>7. Said(sent, returned'[r]) = Said(resp, returned'[r])
  BY <1>1, <1>5 DEF Said
<1>8. StepOf(r)' = "answered"
  BY <1>2 DEF StepOf, At
<1> QED BY <1>6, <1>7, <1>8, Looks DEF Promise!Tell, Promise!GoTo

\* What is said of the errors of the key store, and of what drops a request.
LEMMA ErrorIsSaid ==
    ASSUME NEW r \in Requests
    PROVE  /\ Error(r, "unavailable") \in Response /\ Error(r, "key_in_flight") \in Response
           /\ Error(r, "key_reused") \in Response /\ Error(r, "timeout") \in Response
           /\ Error(r, "internal") \in Response
           /\ \A ret : /\ Said(Error(r, "unavailable"), ret) = "failed"
                       /\ Said(Error(r, "key_in_flight"), ret) = "in_flight"
                       /\ Said(Error(r, "key_reused"), ret) = "mismatch"
                       /\ Said(Error(r, "timeout"), ret) = "unknown"
           /\ Said(Error(r, "internal"), None) = "unknown"
<1>1. {"unavailable", "key_in_flight", "key_reused", "timeout", "internal"} \subseteq DOMAIN ErrorStatus
  BY DEF ErrorStatus
<1>2. \A code \in DOMAIN ErrorStatus :
         Error(r, code) \in Response /\ Error(r, code).code = code
         /\ Error(r, code).status = ErrorStatus[code]
  BY ErrorFields DEF Error
<1>3. ErrorStatus["unavailable"] = 503
  BY DEF ErrorStatus
<1>4. Kind(Error(r, "unavailable")) = "failed"
  BY <1>1, <1>2, <1>3 DEF Kind
<1> QED BY <1>1, <1>2, <1>4 DEF Said

\* The INSERT of the key.
LEMMA ClaimIsClaim ==
    ASSUME ApiInv, KeyedInv, NEW r \in Requests, r \in WithKey, SlotOf(r) = KeySlot[r],
           KeySlot[r] \in KeySlots, Words[r] = Fingerprint(r), Mine(r).state = "none", Claim(r)
    PROVE  Promise!Absent(r) /\ Promise!Claim(r)
<1> DEFINE new == [state |-> "in_progress", print |-> Words[r]]
<1>1. Lines' = [Lines EXCEPT ![KeySlot[r]] = Line(new)]
  BY LineWritten DEF Claim
<1>2. Line(new) = new
  BY DEF Line
<1>3. Lines[KeySlot[r]].state = "none"
  BY LineIs
<1> QED BY <1>1, <1>2, <1>3 DEF Promise!Absent, Promise!Mine, Promise!Claim, Promise!Write

\* What the keys' invariant says of a request that has claimed a key, or is about to.
LEMMA AtKey ==
    ASSUME ApiInv, KeyedInv, NEW r \in Requests, stage[r] # "answered"
    PROVE  /\ TypeOK /\ RequestInv(r) /\ KeptAsReturned /\ Keyed(r) /\ answer[r] = None
           /\ stage[r] # "record" => returned[r] = None
           /\ stage[r] # "record" => wrote[r] = None
           /\ stage[r] # "record" => ~Worked(r) /\ ~Unsaying(r)
           /\ stage[r] = "insert" => r \notin claimed
           /\ AnswerOf(r) = "none" /\ keyFaults <= faults
<1>1. /\ TypeOK /\ RequestInv(r) /\ KeptAsReturned /\ Keyed(r) /\ answer[r] = None
      /\ keyFaults <= faults
  BY DEF ApiInv, RequestsInv, RowsInv, KeyedInv, NoAnswerYet
<1>2. stage[r] # "record" => returned[r] = None
  BY <1>1 DEF Keyed
<1>3. stage[r] # "record" => wrote[r] = None
  BY <1>1 DEF RequestInv, WroteLast
<1>4. stage[r] = "insert" => r \notin claimed
  BY <1>1 DEF RequestInv, Layered, Working
<1> QED BY <1>1, <1>2, <1>3, <1>4 DEF Worked, Unsaying, AnswerOf

\* A failure of the key store.
LEMMA KeyFault ==
    ASSUME TypeOK, NEW r \in Requests, keyFaults <= faults, Fault(r, TRUE)
    PROVE  Promise!Fails
BY HttpApiAssumption DEF TypeOK, Fault, Promise!Fails

\* The step of a request that leaves its response and its work alone.
LEMMA Quiet ==
    ASSUME NEW r \in Requests, r \in WithKey, Moves(r), returned'[r] = returned[r],
           wrote'[r] = wrote[r]
    PROVE  UNCHANGED <<Reports, Workers, Unsaid>>
<1>1. (Worked(r)' <=> Worked(r)) /\ (Unsaying(r)' <=> Unsaying(r))
  BY DEF Worked, Unsaying, Works, Kind
<1> QED BY <1>1, Looks

LEMMA InsertIsInsert ==
    ASSUME ApiInv, KeyedInv, NEW r \in Requests, Insert(r)
    PROVE  r \in WithKey /\ Promise!Insert(r)
<1>1. stage[r] = "insert"
  BY DEF Insert, At
<1>2. /\ TypeOK /\ RequestInv(r) /\ KeptAsReturned /\ answer[r] = None /\ r \notin claimed
      /\ AnswerOf(r) = "none"
  BY <1>1, AtKey
<1>3. Moves(r)
  BY <1>2, RequestStep DEF Proceed
<1>4. /\ r \in WithKey /\ SlotOf(r) = KeySlot[r] /\ Words[r] = Fingerprint(r)
      /\ KeySlot[r] \in KeySlots
  BY <1>1, WithKeyIs
<1>5. UNCHANGED <<Reports, Workers, Unsaid, keyFaults>>
  BY <1>3, <1>4, Quiet DEF Insert, noFault
<1>6. AnswerOf(r)' = "none"
  BY <1>2 DEF AnswerOf, Insert
<1>7. UNCHANGED Answers
  BY <1>2, <1>3, <1>4, <1>6, Looks
<1>8. Steps[r] = "insert"
  BY <1>2, <1>3, <1>4, Looks DEF StepOf
<1>9. r \in claimed'
  BY DEF Insert
<1>10. Lines[KeySlot[r]].state = Mine(r).state
  BY <1>4, LineIs
<1>11. CASE Mine(r).state = "none"
  <2>1. stage'[r] = "handler" /\ Claim(r)
    BY <1>2, <1>11 DEF Insert, GoTo, TypeOK
  <2>2. StepOf(r)' = "execute"
    BY <1>9, <2>1 DEF StepOf, At
  <2>3. Promise!GoTo(r, "execute")
    BY <1>3, <1>4, <2>2, Looks DEF Promise!GoTo
  <2>4. Promise!Absent(r) /\ Promise!Claim(r)
    BY <1>4, <1>11, <2>1, ClaimIsClaim
  <2> QED BY <1>4, <1>5, <1>7, <1>8, <2>3, <2>4 DEF Promise!Insert
<1>12. CASE Mine(r).state # "none"
  <2>1. stage'[r] = "select" /\ UNCHANGED rows
    BY <1>2, <1>12 DEF Insert, GoTo, TypeOK
  <2>2. StepOf(r)' = "select"
    BY <1>9, <2>1 DEF StepOf, At
  <2>3. Promise!GoTo(r, "select")
    BY <1>3, <1>4, <2>2, Looks DEF Promise!GoTo
  <2>4. UNCHANGED Lines
    BY <2>1 DEF Lines, Line, Told, Works, Kind
  <2>5. ~Promise!Absent(r)
    BY <1>10, <1>12 DEF Promise!Absent, Promise!Mine
  <2> QED BY <1>4, <1>5, <1>7, <1>8, <2>3, <2>4, <2>5 DEF Promise!Insert
<1> QED BY <1>11, <1>12

LEMMA InsertFailsIsInsertFails ==
    ASSUME ApiInv, KeyedInv, NEW r \in Requests, InsertFails(r)
    PROVE  r \in WithKey /\ Promise!InsertFails(r)
<1>1. stage[r] = "insert"
  BY DEF InsertFails, At
<1>2. /\ TypeOK /\ RequestInv(r) /\ KeptAsReturned /\ r \notin claimed /\ keyFaults <= faults
  BY <1>1, AtKey
<1>3. Moves(r)
  BY <1>2, RequestStep DEF Proceed
<1>4. /\ r \in WithKey /\ SlotOf(r) = KeySlot[r] /\ Words[r] = Fingerprint(r)
      /\ KeySlot[r] \in KeySlots
  BY <1>1, WithKeyIs
<1>5. UNCHANGED <<Reports, Workers, Unsaid>> /\ Promise!Fails
  BY <1>2, <1>3, <1>4, Quiet, KeyFault DEF InsertFails
<1>6. Steps[r] = "insert"
  BY <1>2, <1>3, <1>4, Looks DEF StepOf
<1>7. Promise!Tell(r, "failed")
  <2>1. r \in claimed' /\ Reply(r, Error(r, "unavailable"))
    BY DEF InsertFails
  <2> QED BY <1>2, <1>3, <1>4, <2>1, Telling, ErrorIsSaid
<1>8. CASE Mine(r).state = "none" /\ Claim(r)
  <2>1. Promise!Absent(r) /\ Promise!Claim(r)
    BY <1>4, <1>8, ClaimIsClaim
  <2> QED BY <1>4, <1>5, <1>6, <1>7, <2>1 DEF Promise!InsertFails
<1>9. CASE UNCHANGED rows
  <2>1. UNCHANGED Lines
    BY <1>9 DEF Lines, Line, Told, Works, Kind
  <2> QED BY <1>4, <1>5, <1>6, <1>7, <2>1 DEF Promise!InsertFails
<1> QED BY <1>8, <1>9 DEF InsertFails

\* The SELECT of the key, and what is replayed.
LEMMA ReplayIsSaid ==
    ASSUME ApiInv, KeyedInv, NEW r \in Requests, r \in WithKey, Moves(r), stage[r] = "select",
           r \in claimed, SlotOf(r) = KeySlot[r], KeySlot[r] \in KeySlots,
           Mine(r).state = "completed", Replay(r), UNCHANGED <<wrote, claimed>>
    PROVE  /\ Promise!Respond(r, Lines[KeySlot[r]].response)
           /\ UNCHANGED <<Workers, Unsaid>>
<1>1. /\ TypeOK /\ RequestInv(r) /\ KeptAsReturned /\ wrote[r] = None /\ ~Worked(r)
      /\ ~Unsaying(r) /\ \A s \in Requests : Keyed(s)
  BY AtKey DEF KeyedInv
<1>2. PICK kept \in Response :
         kept = Mine(r).response /\ KeptFrom(SlotOf(r), kept.by)
  <2>1. SlotOf(r) \in Merchants \X KeyNames
    BY SlotsAreSlots
  <2>2. Mine(r).response \in Response
    BY LineIs
  <2> QED BY <1>1, <2>1, <2>2 DEF KeptAsReturned, Mine
<1>3. kept = returned[kept.by] /\ kept.by \in Requests /\ kept # None /\ kept.status < 500
  BY <1>2, NoneAssumption DEF KeptFrom, Mine, Response
<1>4. FromHandler(kept)
  BY <1>1, <1>3 DEF Keyed
<1>5. kept.by # r
  BY <1>2 DEF KeptFrom, Answered, At
<1> DEFINE resp == [kept EXCEPT !.replayed = TRUE, !.retryAfter = FALSE]
<1>6. /\ resp \in Response /\ resp.code = kept.code /\ resp.status = kept.status
      /\ resp.payment = kept.payment /\ resp.by = kept.by
  BY <1>2 DEF Response
<1>7. returned' = [returned EXCEPT ![r] = resp] /\ Reply(r, resp)
  BY <1>2 DEF Replay
<1> HIDE DEF resp
<1>8. returned'[r] = resp /\ resp # None
  BY <1>1, <1>6, <1>7, NoneAssumption DEF TypeOK
<1>9. Kind(resp) = Kind(kept) /\ Told(resp) = Told(kept) /\ Kind(kept) # "failed"
  BY <1>3, <1>6, <1>8 DEF Kind, Told, Works, Response
<1>10. Said(resp, resp) = Kind(kept)
  BY <1>3, <1>4, <1>6, <1>8, <1>9 DEF Said, FromHandler, HandlerCodes
<1>11. Lines[KeySlot[r]].response = Told(kept)
  BY <1>2, LineIs
<1>12. Promise!Tell(r, Told(kept).kind)
  <2>1. Promise!Tell(r, Said(resp, returned'[r]))
    BY <1>1, <1>6, <1>7, Telling
  <2> QED BY <1>8, <1>10, <2>1 DEF Told
<1>13. Reports' = [Reports EXCEPT ![r] = Told(kept)]
  <2>1. Told(returned[r])' = Told(kept)
    BY <1>8, <1>9 DEF Told, Works, Kind
  <2> QED BY <2>1, Looks
<1>14. ~Worked(r)' /\ ~Unsaying(r)'
  BY <1>1, <1>5, <1>6, <1>8 DEF Worked, Unsaying
<1> QED BY <1>1, <1>11, <1>12, <1>13, <1>14, Looks DEF Promise!Respond

LEMMA AtSelect ==
    ASSUME ApiInv, KeyedInv, NEW r \in Requests, stage[r] = "select", Proceed(r)
    PROVE  /\ TypeOK /\ Moves(r) /\ r \in WithKey /\ r \in claimed /\ keyFaults <= faults
           /\ SlotOf(r) = KeySlot[r] /\ Words[r] = Fingerprint(r) /\ KeySlot[r] \in KeySlots
           /\ Steps[r] = "select"
<1>1. /\ TypeOK /\ RequestInv(r) /\ KeptAsReturned /\ keyFaults <= faults
  BY AtKey
<1>2. Moves(r)
  BY <1>1, RequestStep
<1>3. r \in claimed
  BY <1>1 DEF RequestInv, Layered
<1>4. /\ r \in WithKey /\ SlotOf(r) = KeySlot[r] /\ Words[r] = Fingerprint(r)
      /\ KeySlot[r] \in KeySlots
  BY <1>3, WithKeyIs
<1> QED BY <1>1, <1>2, <1>3, <1>4, Looks DEF StepOf, At

LEMMA SelectIsSelect ==
    ASSUME ApiInv, KeyedInv, NEW r \in Requests, Select(r)
    PROVE  r \in WithKey /\ Promise!Select(r)
<1>1. stage[r] = "select" /\ Proceed(r)
  BY DEF Select, At, Proceed
<1>2. /\ TypeOK /\ Moves(r) /\ r \in WithKey /\ r \in claimed
      /\ SlotOf(r) = KeySlot[r] /\ Words[r] = Fingerprint(r) /\ KeySlot[r] \in KeySlots
      /\ Steps[r] = "select"
  BY <1>1, AtSelect
<1>3. UNCHANGED <<Lines, keyFaults>> /\ UNCHANGED <<wrote, claimed>>
  <2>1. UNCHANGED <<rows, keyFaults, wrote, claimed>>
    BY DEF Select, noFault
  <2> QED BY <2>1 DEF Lines, Line, Told, Works, Kind
<1>4. /\ Lines[KeySlot[r]].state = Mine(r).state
      /\ Mine(r).state # "none" => Lines[KeySlot[r]].print = Mine(r).print
  BY <1>2, LineIs
<1>5. ASSUME NEW code \in {"unavailable", "key_in_flight", "key_reused"}, Reply(r, Error(r, code)),
             UNCHANGED returned
      PROVE  /\ Promise!Tell(r, Said(Error(r, code), returned[r]))
             /\ UNCHANGED <<Reports, Workers, Unsaid>>
  <2>1. Error(r, code) \in Response
    BY ErrorIsSaid
  <2>2. Promise!Tell(r, Said(Error(r, code), returned'[r]))
    BY <1>2, <1>3, <1>5, <2>1, Telling
  <2> QED BY <1>2, <1>3, <1>5, <2>2, Quiet
<1>6. CASE Mine(r).state = "none" /\ Reply(r, Error(r, "unavailable")) /\ UNCHANGED returned
  <2>1. Promise!Tell(r, "failed") /\ UNCHANGED <<Reports, Workers, Unsaid>>
    BY <1>5, <1>6, ErrorIsSaid
  <2> QED BY <1>2, <1>3, <1>4, <1>6, <2>1 DEF Promise!Select, Promise!Mine
<1>7. CASE Mine(r).state = "in_progress" /\ Reply(r, Error(r, "key_in_flight")) /\ UNCHANGED returned
  <2>1. Promise!Tell(r, "in_flight") /\ UNCHANGED <<Reports, Workers, Unsaid>>
    BY <1>5, <1>7, ErrorIsSaid
  <2> QED BY <1>2, <1>3, <1>4, <1>7, <2>1 DEF Promise!Select, Promise!Mine
<1>8. CASE Mine(r).state = "completed" /\ Mine(r).print = Fingerprint(r) /\ Replay(r)
  <2>1. /\ Promise!Respond(r, Lines[KeySlot[r]].response) /\ UNCHANGED <<Workers, Unsaid>>
    BY <1>1, <1>2, <1>3, <1>8, ReplayIsSaid
  <2>2. Promise!SamePrint(r)
    BY <1>2, <1>4, <1>8 DEF Promise!SamePrint, Promise!Mine
  <2> QED BY <1>2, <1>3, <1>4, <1>8, <2>1, <2>2 DEF Promise!Select, Promise!Mine
<1>9. CASE /\ Mine(r).state = "completed" /\ Mine(r).print # Fingerprint(r)
           /\ Reply(r, Error(r, "key_reused")) /\ UNCHANGED returned
  <2>1. Promise!Tell(r, "mismatch") /\ UNCHANGED <<Reports, Workers, Unsaid>>
    BY <1>5, <1>9, ErrorIsSaid
  <2>2. ~Promise!SamePrint(r)
    BY <1>2, <1>4, <1>9 DEF Promise!SamePrint, Promise!Mine
  <2> QED BY <1>2, <1>3, <1>4, <1>9, <2>1, <2>2 DEF Promise!Select, Promise!Mine
<1> QED BY <1>6, <1>7, <1>8, <1>9 DEF Select

LEMMA SelectFailsIsSelectFails ==
    ASSUME ApiInv, KeyedInv, NEW r \in Requests, SelectFails(r)
    PROVE  r \in WithKey /\ Promise!SelectFails(r)
<1>1. stage[r] = "select" /\ Proceed(r)
  BY DEF SelectFails, At, Proceed
<1>2. /\ TypeOK /\ Moves(r) /\ r \in WithKey /\ r \in claimed /\ keyFaults <= faults
      /\ Steps[r] = "select"
  BY <1>1, AtSelect
<1>3. UNCHANGED <<Reports, Workers, Unsaid>> /\ Promise!Fails
  BY <1>2, Quiet, KeyFault DEF SelectFails
<1>4. UNCHANGED Lines
  <2>1. UNCHANGED rows
    BY DEF SelectFails
  <2> QED BY <2>1 DEF Lines, Line, Told, Works, Kind
<1>5. Promise!Tell(r, "failed")
  <2>1. r \in claimed' /\ Reply(r, Error(r, "unavailable"))
    BY <1>2 DEF SelectFails
  <2> QED BY <1>2, <2>1, Telling, ErrorIsSaid
<1> QED BY <1>2, <1>3, <1>4, <1>5 DEF Promise!SelectFails

\* The handler of a request that holds its key.
LEMMA AtWork ==
    ASSUME ApiInv, KeyedInv, NEW r \in Requests, r \in claimed, stage[r] \in Working, Proceed(r)
    PROVE  /\ TypeOK /\ RequestInv(r) /\ Moves(r) /\ RequestInv(r)' /\ r \in WithKey
           /\ keyFaults <= faults /\ ~Worked(r) /\ ~Unsaying(r) /\ AnswerOf(r) = "none"
           /\ Steps[r] = "execute"
<1>1. /\ TypeOK /\ RequestInv(r) /\ KeptAsReturned /\ keyFaults <= faults
      /\ ~Worked(r) /\ ~Unsaying(r) /\ AnswerOf(r) = "none"
  BY AtKey DEF Working
<1>2. Moves(r) /\ RequestInv(r)'
  BY <1>1, RequestStep
<1>3. r \in WithKey
  BY WithKeyIs DEF Working
<1>4. StepOf(r) = "execute"
  BY DEF StepOf, At, Working
<1> QED BY <1>1, <1>2, <1>3, <1>4, Looks

\* It hands a response of its own to the layer that records it.
LEMMA HandedOver ==
    ASSUME ApiInv, KeyedInv, NEW r \in Requests, r \in claimed, stage[r] \in Working, Proceed(r),
           NEW resp \in Response, Return(r, resp), UNCHANGED <<rows, claimed>>
    PROVE  /\ returned'[r] = resp /\ resp # None /\ resp.by = r
           /\ Reports' = [Reports EXCEPT ![r] = Told(resp)]
           /\ Promise!GoTo(r, Promise!NextStep(r, Told(resp)))
           /\ UNCHANGED <<Answers, Lines>>
<1>1. /\ TypeOK /\ Moves(r) /\ RequestInv(r)' /\ r \in WithKey /\ AnswerOf(r) = "none"
  BY AtWork
<1>2. returned'[r] = resp /\ stage'[r] = "record" /\ resp # None
  BY <1>1, ReturnFields, NoneAssumption
<1>3. resp.by = r
  BY <1>1, <1>2 DEF RequestInv, Handled, Own, At
<1>4. Reports' = [Reports EXCEPT ![r] = Told(resp)]
  <2>1. Told(returned[r])' = Told(resp)
    BY <1>2 DEF Told, Works, Kind
  <2> QED BY <1>1, <2>1, Looks
<1>5. UNCHANGED Answers
  <2>1. UNCHANGED answer
    BY DEF Return
  <2>2. answer[r] = None
    BY AtKey DEF Working
  <2>3. AnswerOf(r)' = "none"
    BY <2>1, <2>2 DEF AnswerOf
  <2> QED BY <1>1, <2>3, Looks
<1>6. UNCHANGED Lines
  BY DEF Lines, Line, Told, Works, Kind
<1>7. Releases(r)' <=> Told(resp).kind = "failed" \/ Promise!TooBig(r, Told(resp))
  <2>1. Releases(r)' <=> resp.status >= 500 \/ (q(r).bulky /\ resp.status < 300)
    BY <1>2 DEF Releases, TooBig
  <2>2. Promise!TooBig(r, Told(resp)) <=> q(r).bulky /\ Kind(resp) = "done"
    BY <1>1 DEF Promise!TooBig, Bulky, Told
  <2>3. resp.status \in Nat
    BY DEF Response
  <2>4. /\ Kind(resp) = "failed" <=> resp.status >= 500
        /\ Kind(resp) = "done" <=> resp.status < 300
    BY <1>2, <2>3 DEF Kind
  <2>5. Told(resp).kind = Kind(resp)
    BY DEF Told
  <2> QED BY <2>1, <2>2, <2>4, <2>5
<1>8. StepOf(r)' = Promise!NextStep(r, Told(resp))
  <2>1. StepOf(r)' = IF Releases(r)' THEN "release" ELSE "complete"
    BY <1>2 DEF StepOf, At
  <2> QED BY <1>7, <2>1 DEF Promise!NextStep
<1>9. Promise!GoTo(r, Promise!NextStep(r, Told(resp)))
  BY <1>1, <1>8, Looks DEF Promise!GoTo
<1> QED BY <1>2, <1>3, <1>4, <1>5, <1>6, <1>9

\* The handler returns a response that tells of its write.
LEMMA ReturnIsExecute ==
    ASSUME ApiInv, KeyedInv, NEW r \in Requests, r \in claimed, stage[r] \in Working, Proceed(r),
           NEW resp \in Response, Return(r, resp), wrote'[r] # None => Works(resp),
           UNCHANGED <<rows, claimed, keyFaults>>
    PROVE  r \in WithKey /\ Promise!Execute(r)
<1>1. /\ Moves(r) /\ r \in WithKey /\ ~Worked(r) /\ ~Unsaying(r) /\ Steps[r] = "execute"
  BY AtWork
<1>2. /\ returned'[r] = resp /\ resp # None /\ resp.by = r
      /\ Reports' = [Reports EXCEPT ![r] = Told(resp)]
      /\ Promise!GoTo(r, Promise!NextStep(r, Told(resp)))
      /\ UNCHANGED <<Answers, Lines>>
  BY HandedOver
<1>3. Worked(r)' <=> Works(resp)
  BY <1>2 DEF Worked, Works, Kind
<1>4. r # None
  BY HttpApiAssumption
<1>5. Told(resp).work = r <=> Works(resp)
  BY <1>2, <1>4 DEF Told
<1>6. Workers' = IF Told(resp).work = r THEN Workers \cup {r} ELSE Workers
  BY <1>1, <1>3, <1>5, Looks
<1>7. UNCHANGED Unsaid
  <2>1. Works(resp) => Kind(resp) # "failed"
    BY DEF Works
  <2>2. Kind(returned[r])' = Kind(resp)
    BY <1>2 DEF Kind
  <2>3. ~Unsaying(r)'
    BY <1>3, <2>1, <2>2 DEF Unsaying
  <2> QED BY <1>1, <2>3, Looks
<1>8. Told(resp) \in {Promise!Done(r), Promise!Declined(r), Promise!Refusal, Promise!Failure}
  <2>1. Kind(resp) \in {"done", "declined", "refused", "failed"}
    BY <1>2 DEF Kind
  <2> QED BY <1>2, <2>1
          DEF Told, Works, Promise!Done, Promise!Declined, Promise!Refusal, Promise!Failure
<1> QED BY <1>1, <1>2, <1>6, <1>7, <1>8 DEF Promise!Execute

\* The handler loses the answer to its commit.
LEMMA LossIsCommitLost ==
    ASSUME ApiInv, KeyedInv, NEW r \in Requests, r \in claimed, WorkFails(r),
           At(r, "work"), Found(r), Effect(r), Fault(r, TRUE)
    PROVE  r \in WithKey /\ Promise!CommitLost(r)
<1>1. Proceed(r) /\ stage[r] \in Working
  BY DEF Proceed, At, Working
<1> DEFINE resp == Error(r, "internal")
<1>2. /\ Return(r, resp) /\ resp \in Response /\ Kind(resp) = "failed"
      /\ UNCHANGED <<rows, claimed>>
  BY FailureIs
<1>3. /\ TypeOK /\ RequestInv(r) /\ Moves(r) /\ r \in WithKey /\ keyFaults <= faults
      /\ Steps[r] = "execute"
  BY <1>1, AtWork
<1>4. /\ returned'[r] = resp /\ resp # None
      /\ Reports' = [Reports EXCEPT ![r] = Told(resp)]
      /\ Promise!GoTo(r, Promise!NextStep(r, Told(resp)))
      /\ UNCHANGED <<Answers, Lines>>
  BY <1>1, <1>2, HandedOver
<1> HIDE DEF resp
<1>5. Told(resp) = Promise!Failure
  BY <1>2 DEF Told, Works, Promise!Failure
<1>6. wrote'[r] # None
  <2>1. wrote'[r] = Merchant(r) /\ Authorized(r)
    BY <1>1, <1>3, EffectIs DEF RequestInv, Layered, Working, At
  <2> QED BY <2>1, AuthorizedIs
<1>7. Worked(r)' /\ Unsaying(r)'
  <2>1. Kind(returned[r])' = Kind(resp)
    BY <1>4 DEF Kind
  <2> QED BY <1>2, <1>4, <1>6, <2>1 DEF Worked, Unsaying
<1>8. Workers' = Workers \cup {r} /\ Unsaid' = Unsaid \cup {r}
  BY <1>3, <1>7, Looks
<1>9. Promise!Fails
  BY <1>3, KeyFault
<1> QED BY <1>3, <1>4, <1>5, <1>8, <1>9 DEF Promise!CommitLost

\* A handler, with a key or without.
LEMMA HandlerIsExecute ==
    ASSUME ApiInv, KeyedInv, NEW r \in Requests, Handle(r) \/ Read(r) \/ Work(r) \/ WorkFails(r)
    PROVE  UNCHANGED Seen \/ (r \in WithKey /\ (Promise!Execute(r) \/ Promise!CommitLost(r)))
<1>1. Proceed(r)
  BY DEF Proceed
<1>2. stage[r] \in Working /\ UNCHANGED <<rows, claimed>>
  <2>1. CASE WorkFails(r)
    BY <2>1, FailureIs
  <2>2. CASE Handle(r) \/ Read(r) \/ Work(r)
    BY <2>2 DEF Handle, Read, Work, At, Working
  <2> QED BY <2>1, <2>2
<1>3. /\ TypeOK /\ RequestInv(r) /\ KeptAsReturned /\ wrote[r] = None
  BY <1>2, AtKey DEF Working
<1>4. Moves(r)
  BY <1>1, <1>3, RequestStep
<1>5. CASE r \notin claimed
  <2>1. r \notin WithKey
    BY <1>2, <1>5, NotServed
  <2>2. UNCHANGED keyFaults
    BY <1>5 DEF Handle, Read, Work, WorkFails, noFault, Fault
  <2> QED BY <1>2, <1>4, <2>1, <2>2, Unseen
<1>6. CASE r \in claimed /\ (Handle(r) \/ Read(r) \/ Work(r))
  <2>1. /\ UNCHANGED keyFaults
        /\ \/ UNCHANGED <<returned, answer, wrote>> /\ stage'[r] \in Working
           \/ Returned(r)
    BY <1>3, <1>6, HandlerDoes
  <2>2. CASE UNCHANGED <<returned, answer, wrote>> /\ stage'[r] \in Working
    BY <1>2, <1>4, <2>1, <2>2, Unseen
  <2>3. CASE Returned(r)
    BY <1>1, <1>2, <1>6, <2>1, <2>3, ReturnIsExecute DEF Returned
  <2> QED BY <2>1, <2>2, <2>3
<1>7. CASE r \in claimed /\ WorkFails(r)
  <2>1. CASE noEffect /\ Fault(r, FALSE)
    <3>1. Return(r, Error(r, "internal")) /\ Error(r, "internal") \in Response
      BY <1>7, FailureIs
    <3>2. UNCHANGED keyFaults /\ wrote'[r] = None
      BY <1>3, <2>1 DEF noEffect, Fault
    <3> QED BY <1>1, <1>2, <1>7, <3>1, <3>2, ReturnIsExecute
  <2>2. CASE At(r, "work") /\ Found(r) /\ Mutating(r) /\ Effect(r) /\ Fault(r, r \in claimed)
    <3>1. Fault(r, TRUE)
      BY <1>7, <2>2
    <3> QED BY <1>7, <2>2, <3>1, LossIsCommitLost
  <2> QED BY <1>7, <2>1, <2>2 DEF WorkFails
<1> QED BY <1>5, <1>6, <1>7

\* The middleware records the response, or gives the key back.
LEMMA RecordedIsSaid ==
    ASSUME ApiInv, KeyedInv, NEW r \in Requests, stage[r] = "record"
    PROVE  /\ Recorded(r) \in Response
           /\ Said(Recorded(r), returned[r]) =
                 IF TooBig(r, returned[r]) THEN "no_body" ELSE Kind(returned[r])
           /\ Releases(r) <=> Kind(returned[r]) = "failed" \/ TooBig(r, returned[r])
           /\ TooBig(r, returned[r]) <=> q(r).bulky /\ Kind(returned[r]) = "done"
           /\ returned[r] \in Response
<1>1. RequestInv(r) /\ Keyed(r) /\ TypeOK
  BY AtKey
<1>2. returned[r] \in Response /\ returned[r] # None
  BY <1>1, NoneAssumption DEF RequestInv, Handled, At
<1>3. FromHandler(returned[r]) /\ returned[r].status \in Nat
  BY <1>1, <1>2 DEF Keyed, Response
<1>4. /\ Kind(returned[r]) = "failed" <=> returned[r].status >= 500
      /\ Kind(returned[r]) = "done" <=> returned[r].status < 300
  BY <1>2, <1>3 DEF Kind
<1>5. CASE TooBig(r, returned[r])
  <2>1. Recorded(r) = [returned[r] EXCEPT !.of = None, !.code = "no_body"]
    BY <1>5 DEF Recorded
  <2>2. "no_body" \in Codes
    BY DEF Codes
  <2>3. Recorded(r) \in Response /\ Recorded(r).code = "no_body"
    BY <1>2, <2>1, <2>2 DEF Response
  <2> QED BY <1>2, <1>4, <1>5, <2>3 DEF Said, Releases, TooBig
<1>6. CASE ~TooBig(r, returned[r])
  <2>1. Recorded(r) = returned[r]
    BY <1>6 DEF Recorded
  <2>2. Said(returned[r], returned[r]) = Kind(returned[r])
    BY <1>2, <1>3 DEF Said, FromHandler, HandlerCodes
  <2> QED BY <1>2, <1>4, <1>6, <2>1, <2>2 DEF Releases, TooBig
<1> QED BY <1>5, <1>6

LEMMA RecordIsRecord ==
    ASSUME ApiInv, KeyedInv, NEW r \in Requests, Record(r)
    PROVE  r \in WithKey /\ (Promise!Complete(r) \/ Promise!Release(r))
<1>1. stage[r] = "record" /\ Proceed(r)
  BY DEF Record, At, Proceed
<1>2. /\ TypeOK /\ RequestInv(r) /\ KeptAsReturned /\ keyFaults <= faults
  BY <1>1, AtKey
<1>3. Moves(r)
  BY <1>1, <1>2, RequestStep
<1>4. r \in claimed /\ Mine(r).state = "in_progress"
  <2>1. r \in claimed
    BY <1>1, <1>2 DEF RequestInv, Layered
  <2> QED BY <1>1, <2>1 DEF ApiInv, RowsInv, HeldInProgress, Holding
<1>5. r \in WithKey /\ SlotOf(r) = KeySlot[r] /\ KeySlot[r] \in KeySlots
  BY <1>1, <1>4, WithKeyIs
<1>6. UNCHANGED <<Reports, Workers, Unsaid>>
  BY <1>3, <1>5, Quiet DEF Record
<1>7. Reports[r] = Told(returned[r])
  BY <1>3, <1>5, Looks
<1> DEFINE big == TooBig(r, returned[r])
<1>8. /\ Recorded(r) \in Response /\ returned[r] \in Response
      /\ Said(Recorded(r), returned[r]) = IF big THEN "no_body" ELSE Kind(returned[r])
      /\ Releases(r) <=> Kind(returned[r]) = "failed" \/ big
      /\ big <=> q(r).bulky /\ Kind(returned[r]) = "done"
  BY <1>1, RecordedIsSaid
<1> HIDE DEF big
<1>9. Promise!Tell(r, IF big THEN "no_body" ELSE Reports[r].kind)
  <2>1. Reply(r, Recorded(r)) /\ r \in claimed' /\ UNCHANGED returned
    BY <1>4 DEF Record, RecordFailed
  <2>2. Promise!Tell(r, Said(Recorded(r), returned'[r]))
    BY <1>2, <1>3, <1>5, <1>8, <2>1, Telling
  <2> QED BY <1>7, <1>8, <2>1, <2>2 DEF Told
<1>10. Promise!TooBig(r, Reports[r]) <=> big
  BY <1>5, <1>7, <1>8 DEF Promise!TooBig, Bulky, Told
<1>11. Steps[r] = IF Releases(r) THEN "release" ELSE "complete"
  BY <1>1, <1>3, <1>4, <1>5, Looks DEF StepOf, At
<1>12. CASE UNCHANGED rows /\ Fault(r, TRUE)
  <2>1. UNCHANGED Lines
    BY <1>12 DEF Lines, Line, Told, Works, Kind
  <2>2. Promise!Fails
    BY <1>2, <1>12, KeyFault
  <2> QED BY <1>5, <1>6, <1>8, <1>9, <1>10, <1>11, <2>1, <2>2 DEF Promise!Complete, Promise!Release
<1>13. CASE Releases(r) /\ Freed(r) /\ UNCHANGED keyFaults
  <2>1. rows' = [rows EXCEPT ![SlotOf(r)] = [state |-> "none"]]
    BY <1>4, <1>13 DEF Freed
  <2>2. Lines' = [Lines EXCEPT ![KeySlot[r]] = Line([state |-> "none"])]
    BY <1>5, <2>1, LineWritten
  <2>3. Line([state |-> "none"]) = [state |-> "none"]
    BY DEF Line
  <2>4. Lines[KeySlot[r]].state = "in_progress"
    BY <1>4, <1>5, LineIs
  <2>5. Promise!DropRow(r)
    BY <2>2, <2>3, <2>4 DEF Promise!DropRow, Promise!Mine, Promise!Write, Promise!NoRow
  <2> QED BY <1>5, <1>6, <1>9, <1>10, <1>11, <1>13, <2>5 DEF Promise!Release
<1>14. CASE ~Releases(r) /\ Kept(r) /\ UNCHANGED keyFaults
  <2> DEFINE new == [state |-> "completed", print |-> Mine(r).print, response |-> returned[r]]
  <2>1. Lines' = [Lines EXCEPT ![KeySlot[r]] = Line(new)]
    BY <1>5, <1>14, LineWritten DEF Kept
  <2>2. Line(new) = [state |-> "completed", print |-> Mine(r).print, response |-> Told(returned[r])]
    BY DEF Line
  <2>3. Lines[KeySlot[r]].print = Mine(r).print
    BY <1>4, <1>5, LineIs
  <2> HIDE DEF new
  <2>4. Promise!Write(r, Promise!Completed(r))
    BY <1>7, <2>1, <2>2, <2>3 DEF Promise!Write, Promise!Completed, Promise!Mine
  <2>5. Promise!Tell(r, Reports[r].kind)
    BY <1>8, <1>9, <1>14
  <2> QED BY <1>5, <1>6, <1>11, <1>14, <2>4, <2>5 DEF Promise!Complete
<1> QED BY <1>12, <1>13, <1>14 DEF Record, noFault

\* The time of a request is up, or its handler panics.
LEMMA DropIsDrop ==
    ASSUME ApiInv, KeyedInv, NEW r \in Requests, Timeout(r) \/ Panic(r)
    PROVE  UNCHANGED Seen \/ (r \in WithKey /\ Promise!Drop(r))
<1>1. /\ Proceed(r) /\ stage[r] # "answered" /\ UNCHANGED <<rows, returned, wrote, claimed>>
  BY DEF Timeout, Panic, Proceed, Serving
<1>2. /\ TypeOK /\ RequestInv(r) /\ KeptAsReturned /\ keyFaults <= faults
      /\ stage[r] # "record" => returned[r] = None
  BY <1>1, AtKey
<1>3. Moves(r)
  BY <1>1, <1>2, RequestStep
<1>4. CASE r \notin claimed
  <2>1. UNCHANGED keyFaults
    BY <1>4 DEF Timeout, Panic, Fault
  <2> QED BY <1>1, <1>3, <1>4, <2>1, Unseen
<1>5. CASE r \in claimed
  <2>1. r \in WithKey
    BY <1>1, <1>5, WithKeyIs
  <2>2. UNCHANGED <<Reports, Workers, Unsaid>>
    BY <1>1, <1>3, <2>1, Quiet
  <2>3. Promise!Fails
    <3>1. Fault(r, TRUE)
      BY <1>5 DEF Timeout, Panic
    <3> QED BY <1>2, <3>1, KeyFault
  <2>4. UNCHANGED Lines
    BY <1>1 DEF Lines, Line, Told, Works, Kind
  <2>5. Promise!InFlight(r)
    <3>1. stage[r] \in {"select", "record"} \cup Working
      BY <1>1, <1>2, <1>5 DEF RequestInv, Layered
    <3>2. StepOf(r) \in {"select", "execute", "complete", "release"}
      BY <1>5, <3>1 DEF StepOf, At, Working
    <3> QED BY <1>3, <2>1, <3>2, Looks DEF Promise!InFlight
  <2>6. Promise!Tell(r, "unknown")
    <3>1. CASE Timeout(r)
      <4>1. Reply(r, Error(r, "timeout"))
        BY <3>1 DEF Timeout
      <4> QED BY <1>1, <1>2, <1>3, <1>5, <2>1, <4>1, Telling, ErrorIsSaid
    <3>2. CASE Panic(r)
      <4>1. Reply(r, Error(r, "internal")) /\ returned'[r] = None
        BY <1>1, <1>2, <3>2 DEF Panic
      <4>2. Promise!Tell(r, Said(Error(r, "internal"), returned'[r]))
        BY <1>1, <1>2, <1>3, <1>5, <2>1, <4>1, Telling, ErrorIsSaid
      <4> QED BY <4>1, <4>2, ErrorIsSaid
    <3> QED BY <3>1, <3>2
  <2> QED BY <2>1, <2>2, <2>3, <2>4, <2>5, <2>6 DEF Promise!Drop
<1> QED BY <1>4, <1>5

\* What comes before the middleware.
LEMMA BeforeIsUnseen ==
    ASSUME ApiInv, KeyedInv, NEW r \in Requests,
           Send(r) \/ Probe(r) \/ Authenticate(r) \/ AuthenticateFails(r)
    PROVE  UNCHANGED Seen
<1>1. /\ Send(r) \/ Proceed(r)
      /\ stage[r] \in {"unsent", "probe", "auth"}
      /\ UNCHANGED <<rows, returned, wrote, claimed, keyFaults>>
  BY DEF Send, Probe, Authenticate, AuthenticateFails, Proceed, At, noFault, Fault
<1>2. TypeOK /\ RequestInv(r) /\ KeptAsReturned
  BY <1>1, AtKey
<1>3. Moves(r)
  BY <1>1, <1>2, RequestStep
<1>4. r \notin claimed
  BY <1>1, <1>2 DEF RequestInv, Layered, Working
<1> QED BY <1>1, <1>3, <1>4, Unseen

\* For the requests that name a key, the layers and whatever happens behind the
\* middleware do to its rows and to its answers what Idempotency allows, and nothing
\* else (middleware/idempotency.rs, timeout.rs, app.rs).
THEOREM KeysKeepTheirPromise == Spec => ImplementsIdempotency
<1>1. Init => Promise!Init
  <2> SUFFICES ASSUME Init PROVE Promise!Init
    OBVIOUS
  <2>1. \A r \in WithKey :
           /\ StepOf(r) = "insert" /\ Told(returned[r]) = Promise!Failure
           /\ AnswerOf(r) = "none" /\ ~Worked(r)
    <3> SUFFICES ASSUME NEW r \in WithKey
                 PROVE  /\ StepOf(r) = "insert" /\ Told(returned[r]) = Promise!Failure
                        /\ AnswerOf(r) = "none" /\ ~Worked(r)
      OBVIOUS
    <3>1. r \in Requests /\ r \notin claimed /\ returned[r] = None /\ wrote[r] = None
      BY DEF Init, WithKey
    <3>2. Told(returned[r]) = Promise!Failure
      BY <3>1 DEF Told, Works, Kind, Promise!Failure
    <3> QED BY <3>1, <3>2 DEF StepOf, AnswerOf, Worked
  <2>2. \A k \in KeySlots : Line(rows[k]) = Promise!NoRow
    BY SlotsAreSlots DEF Init, Line, Promise!NoRow
  <2>3. Workers = {} /\ Unsaid = {}
    BY <2>1 DEF Workers, Unsaid
  <2>4. /\ Steps = [r \in WithKey |-> "insert"] /\ Answers = [r \in WithKey |-> "none"]
        /\ Reports = [r \in WithKey |-> Promise!Failure]
    BY <2>1 DEF Steps, Answers, Reports
  <2>5. Lines = [k \in KeySlots |-> Promise!NoRow]
    BY <2>2 DEF Lines
  <2> QED BY <2>3, <2>4, <2>5 DEF Init, Promise!Init
<1>2. ASSUME ApiInv, KeyedInv, [Next]_vars PROVE [Promise!Next]_Seen
  <2>1. CASE UNCHANGED vars
    <3>1. UNCHANGED <<Steps, Reports, Answers, Lines>>
      BY <2>1 DEF vars, Steps, Reports, Answers, Lines, StepOf, At, Releases, TooBig, AnswerOf,
                  Told, Works, Kind, Line
    <3>2. UNCHANGED <<Workers, Unsaid>>
      BY <2>1 DEF vars, Workers, Unsaid, Worked, Works, Kind
    <3> QED BY <2>1, <3>1, <3>2 DEF vars, Seen
  <2>2. ASSUME NEW r \in Requests, Send(r) \/ Proceed(r)
        PROVE  UNCHANGED Seen \/ Promise!Next
    <3>1. CASE Send(r) \/ Probe(r) \/ Authenticate(r) \/ AuthenticateFails(r)
      BY <1>2, <3>1, BeforeIsUnseen
    <3>2. CASE Insert(r) \/ InsertFails(r)
      BY <1>2, <3>2, InsertIsInsert, InsertFailsIsInsertFails DEF Promise!Next
    <3>3. CASE Select(r) \/ SelectFails(r)
      BY <1>2, <3>3, SelectIsSelect, SelectFailsIsSelectFails DEF Promise!Next, Promise!Advance
    <3>4. CASE Handle(r) \/ Read(r) \/ Work(r) \/ WorkFails(r)
      BY <1>2, <3>4, HandlerIsExecute DEF Promise!Next, Promise!Advance
    <3>5. CASE Record(r)
      BY <1>2, <3>5, RecordIsRecord DEF Promise!Next, Promise!Advance
    <3>6. CASE Timeout(r) \/ Panic(r)
      BY <1>2, <3>6, DropIsDrop DEF Promise!Next
    <3> QED BY <2>2, <3>1, <3>2, <3>3, <3>4, <3>5, <3>6 DEF Proceed
  <2> QED BY <1>2, <2>1, <2>2 DEF Next
<1>3. [Promise!Next]_Seen => [Promise!Next]_(Promise!vars)
  BY DEF Seen, Promise!vars
<1> QED BY <1>1, <1>2, <1>3, KeyedInvariance, PTL DEF Spec, ImplementsIdempotency, Promise!Spec


-----------------------------------------------------------------------------
(* What the API has from this promise: the theorems about Idempotency, read through
   the mapping. *)

Keeper == INSTANCE Idempotency_proofs WITH
    Requests <- WithKey, Keys <- KeySlots, Prints <- AllWords,
    KeyOf <- KeySlot, PrintOf <- Words, Large <- Bulky,
    row <- Lines, step <- Steps, response <- Reports, answer <- Answers,
    charged <- Workers, misreported <- Unsaid, faults <- keyFaults

LEMMA KeeperAssumption == Keeper!IdempotencyAssumption
<1>1. \A r \in WithKey : KeySlot[r] \in KeySlots /\ Words[r] \in AllWords
  BY DEF KeySlots, AllWords
<1>2. KeySlot \in [WithKey -> KeySlots] /\ Words \in [WithKey -> AllWords]
  BY <1>1 DEF KeySlot, Words
<1>3. None \notin WithKey /\ MaxFaults \in Nat
  BY HttpApiAssumption DEF WithKey
<1> QED BY <1>2, <1>3 DEF Keeper!IdempotencyAssumption, Bulky

\* The proofs speak of the same specification.
LEMMA KeeperIsPromise == Promise!Spec => Keeper!Spec
<1>1. Promise!Init => Keeper!Init
  BY DEF Promise!Init, Promise!NoRow, Promise!Failure, Keeper!Init, Keeper!NoRow, Keeper!Failure
<1> USE DEF Promise!Mine, Promise!GoTo, Promise!Write, Promise!Fails, Promise!Tell, Promise!Respond,
            Promise!TooBig, Promise!Failure, Promise!NextStep, Promise!InFlight,
            Keeper!Mine, Keeper!GoTo, Keeper!Write, Keeper!Fails, Keeper!Tell, Keeper!Respond,
            Keeper!TooBig, Keeper!Failure, Keeper!NextStep, Keeper!InFlight
<1>2. ASSUME NEW r \in WithKey, Promise!Insert(r) \/ Promise!InsertFails(r)
      PROVE  Keeper!Insert(r) \/ Keeper!InsertFails(r)
  BY <1>2 DEF Promise!Insert, Promise!InsertFails, Promise!Absent, Promise!Claim,
              Keeper!Insert, Keeper!InsertFails, Keeper!Absent, Keeper!Claim
<1>3. ASSUME NEW r \in WithKey, Promise!Select(r) \/ Promise!SelectFails(r)
      PROVE  Keeper!Select(r) \/ Keeper!SelectFails(r)
  BY <1>3 DEF Promise!Select, Promise!SelectFails, Promise!SamePrint,
              Keeper!Select, Keeper!SelectFails, Keeper!SamePrint
<1>4. ASSUME NEW r \in WithKey, Promise!Execute(r) \/ Promise!CommitLost(r)
      PROVE  Keeper!Execute(r) \/ Keeper!CommitLost(r)
  BY <1>4 DEF Promise!Execute, Promise!CommitLost, Promise!Done, Promise!Declined, Promise!Refusal,
              Keeper!Execute, Keeper!CommitLost, Keeper!Done, Keeper!Declined, Keeper!Refusal
<1>5. ASSUME NEW r \in WithKey, Promise!Complete(r) \/ Promise!Release(r) \/ Promise!Drop(r)
      PROVE  Keeper!Complete(r) \/ Keeper!Release(r) \/ Keeper!Drop(r)
  BY <1>5 DEF Promise!Complete, Promise!Completed, Promise!Release, Promise!DropRow, Promise!NoRow,
              Promise!Drop, Keeper!Complete, Keeper!Completed, Keeper!Release, Keeper!DropRow,
              Keeper!NoRow, Keeper!Drop
<1>6. Promise!Crash => Keeper!Crash
  BY DEF Promise!Crash, Keeper!Crash
<1>7. Promise!Next => Keeper!Next
  BY <1>2, <1>3, <1>4, <1>5, <1>6 DEF Promise!Next, Promise!Advance, Keeper!Next, Keeper!Advance
<1>8. [Promise!Next]_(Promise!vars) => [Keeper!Next]_(Keeper!vars)
  BY <1>7 DEF Promise!vars, Keeper!vars
<1> QED BY <1>1, <1>8, PTL DEF Promise!Spec, Keeper!Spec

\* The work that the key store has forgotten, or never knew of.
GivenUp(r) == Unsaying(r) \/ (q(r).bulky /\ Kind(returned[r]) = "done")
LEMMA ForgottenIs ==
    ASSUME NEW r \in WithKey
    PROVE  Worked(r) => (GivenUp(r) <=> r \in Keeper!Forgotten)
<1>1. Reports[r].kind = Kind(returned[r])
  BY DEF Reports, Told
<1> QED BY <1>1 DEF Keeper!Forgotten, Keeper!TooBig, Workers, Unsaid, Unsaying, Bulky, GivenUp

\* The write behind a key is done once: a second request under the key writes only if
\* the first one's commit was taken for a failure, or its success was too big to keep
\* (middleware/idempotency.rs).
OncePerKey ==
    \A r, s \in WithKey :
        Worked(r) /\ Worked(s) /\ KeySlot[r] = KeySlot[s] => r = s \/ GivenUp(r) \/ GivenUp(s)
THEOREM KeysWorkOnce == Spec => []OncePerKey
<1>1. Keeper!Spec => []Keeper!ChargesAreExplained
  BY KeeperAssumption, Keeper!WorkIsDoneOnce, PTL
<1>2. Keeper!ChargesAreExplained => OncePerKey
  <2>1. ASSUME NEW r \in WithKey, Worked(r), ~GivenUp(r) PROVE r \in Workers \ Keeper!Forgotten
    BY <2>1, ForgottenIs DEF Workers
  <2> QED BY <2>1 DEF Keeper!ChargesAreExplained, OncePerKey
<1> QED BY <1>1, <1>2, KeysKeepTheirPromise, KeeperIsPromise, PTL DEF ImplementsIdempotency

\* What a request with a key is told is true, replayed or not: a success or a decline is
\* of a request under the same key with the same words, whose work is still known; a
\* refusal means that nothing was done under the key that is (middleware/idempotency.rs).
KeyedAnswersAreTrue ==
    \A r \in WithKey :
        /\ AnswerOf(r) \in {"done", "declined"} =>
              \E s \in WithKey : /\ s = returned[r].by /\ Worked(s) /\ ~GivenUp(s)
                                 /\ KeySlot[s] = KeySlot[r] /\ Words[s] = Words[r]
        /\ AnswerOf(r) = "refused" =>
              \A s \in WithKey : Worked(s) /\ KeySlot[s] = KeySlot[r] => GivenUp(s)
THEOREM KeyedAnswersStayTrue == Spec => []KeyedAnswersAreTrue
<1>1. Keeper!Spec => []Keeper!AnswersAreTrue
  BY KeeperAssumption, Keeper!AnswersStayTrue, PTL
<1>2. ASSUME Keeper!AnswersAreTrue, NEW r \in WithKey, AnswerOf(r) \in {"done", "declined"}
      PROVE  \E s \in WithKey : /\ s = returned[r].by /\ Worked(s) /\ ~GivenUp(s)
                                /\ KeySlot[s] = KeySlot[r] /\ Words[s] = Words[r]
  <2>1. Answers[r] \in {"done", "declined"}
    BY <1>2 DEF Answers
  <2>2. PICK s : s = Reports[r].work
    OBVIOUS
  <2>3. /\ s \in Workers /\ s \notin Keeper!Forgotten
        /\ KeySlot[s] = KeySlot[r] /\ Words[s] = Words[r]
    BY <1>2, <2>1, <2>2 DEF Keeper!AnswersAreTrue, Keeper!ChargedFor
  <2>4. s \in WithKey /\ Worked(s) /\ s # None
    BY <2>3, HttpApiAssumption DEF Workers, WithKey
  <2>5. s = returned[r].by
    BY <2>2, <2>4 DEF Reports, Told
  <2> QED BY <2>3, <2>4, <2>5, ForgottenIs
<1>3. ASSUME Keeper!AnswersAreTrue, NEW r \in WithKey, AnswerOf(r) = "refused",
             NEW s \in WithKey, Worked(s), KeySlot[s] = KeySlot[r]
      PROVE  GivenUp(s)
  <2>1. Answers[r] = "refused" /\ s \in Workers
    BY <1>3 DEF Answers, Workers
  <2>2. s \in Keeper!Forgotten
    BY <1>3, <2>1 DEF Keeper!AnswersAreTrue, Keeper!ChargedFor
  <2> QED BY <1>3, <2>2, ForgottenIs
<1>4. Keeper!AnswersAreTrue => KeyedAnswersAreTrue
  BY <1>2, <1>3 DEF KeyedAnswersAreTrue
<1> QED BY <1>1, <1>4, KeysKeepTheirPromise, KeeperIsPromise, PTL DEF ImplementsIdempotency

===============================================================================
