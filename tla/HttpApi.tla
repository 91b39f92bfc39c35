------------------------------- MODULE HttpApi -------------------------------
(***************************************************************************)
(* The HTTP API: what a request passes on its way to a handler and what    *)
(* its answer passes on the way back.                                      *)
(*                                                                         *)
(*   CORS > request id > panics > timeout > (/v1) auth > idempotency >     *)
(*   route: extractors, scope, validation, the read and the write          *)
(*                                                                         *)
(* One action per layer or database call, so requests interleave at every  *)
(* await.  Text is what the checks see of it: a header value is its        *)
(* length, its alphabet and the key it names.  The services of the engine  *)
(* are one step each here (PaymentEngine has their statements), and the    *)
(* memo in front of api_keys is AuthCache.                                 *)
(***************************************************************************)
EXTENDS Integers, FiniteSets, SequencesExt

CONSTANTS
    Traffic,      \* what each request says; a client's retry is a request of its own
    Merchants,
    IssuedKeys,   \* api_keys: [merchant, kind, scopes, revoked] of each key
    Owner,        \* the merchant of each order, payment, refund and endpoint
    Endpoints,    \* those of them that are webhook endpoints, active at first
    Cap,          \* MAX_ACTIVE_ENDPOINTS
    KeyNames,     \* Idempotency-Key values
    None,
    MaxSent,      \* bound: requests sent in one behaviour
    MaxFaults     \* bound: failures in one behaviour

\* Definitions, since TLC evaluates those once and a constant at every use.
Call == Traffic
Requests == DOMAIN Call
ApiKeys == IssuedKeys

ASSUME HttpApiAssumption ==
    /\ None \notin Requests \cup Merchants
    /\ Endpoints \subseteq DOMAIN Owner /\ \A i \in DOMAIN Owner : Owner[i] \in Merchants
    /\ \A k \in DOMAIN ApiKeys : ApiKeys[k].merchant \in Merchants
    /\ Cap \in Nat \ {0} /\ MaxSent \in Nat /\ MaxFaults \in Nat
    /\ IsFiniteSet(Endpoints)
    /\ \A m \in Merchants : Cardinality({e \in Endpoints : Owner[e] = m}) <= Cap

VARIABLES
    stage,      \* the layer or statement each request runs next
    caller,     \* AuthCtx: the api key that was resolved
    existing,   \* the count an endpoint registration has read
    returned,   \* what the handler returned, or what is replayed for it
    answer,     \* what the client got
    rows,       \* idempotency_keys
    active,     \* webhook_endpoints that are not disabled, with their merchants
    wrote,      \* history: whose data a request's committed write touched
    hit,        \* history: the stage at which a database call failed
    late,       \* history: registrations that another change of the table overtook
    claimed,    \* history: requests that ran the INSERT of idempotency::acquire
    faults,     \* history: failures so far
    keyFaults   \* history: those of them that came at a request in claimed

vars == <<stage, caller, existing, returned, answer, rows, active,
          wrote, hit, late, claimed, faults, keyFaults>>

q(r) == Call[r]

-----------------------------------------------------------------------------
(* Answers. *)

\* ApiError: the status of each of its constructors.
ErrorStatus ==
    [invalid_request |-> 400, unauthorized |-> 401, card |-> 402, forbidden |-> 403,
     not_found |-> 404, unknown_endpoint |-> 404, method_not_allowed |-> 405,
     conflict |-> 409, key_reused |-> 409, key_in_flight |-> 409,
     payload_too_large |-> 413, unsupported_media_type |-> 415,
     internal |-> 500, unavailable |-> 503, timeout |-> 504]
\* The only errors that ask the client to try again.
AdvisesRetry == {"key_in_flight", "unavailable", "timeout"}

\* of: whose data the body holds; by: the request that was executed for it;
\* payment: the body names a committed payment; bodyId: the request_id of the envelope;
\* challenge and id: the headers that the layers outside of the handler add (Reply).
Success(r, status, m) ==
    [status |-> status, code |-> "ok", of |-> m, by |-> r, payment |-> FALSE,
     bodyId |-> None, retryAfter |-> FALSE, replayed |-> FALSE,
     challenge |-> "none", id |-> None]

\* request_id::propagate: the caller's id if it is one to adopt, else a new one.
RequestIdOf(r) ==
    IF q(r).rid # None /\ q(r).rid.bytes \in 8..128 /\ q(r).rid.plain THEN q(r).rid.id ELSE r

\* IntoResponse for ApiError.
Error(r, code) ==
    [status |-> ErrorStatus[code], code |-> code, of |-> None, by |-> r, payment |-> FALSE,
     bodyId |-> RequestIdOf(r), retryAfter |-> code \in AdvisesRetry, replayed |-> FALSE,
     challenge |-> "none", id |-> None]
Declined(r, m) == [Error(r, "card") EXCEPT !.payment = TRUE, !.of = m]

\* Every response; None is for none at all.
Ids == {None} \cup {RequestIdOf(r) : r \in Requests}
Codes == DOMAIN ErrorStatus \cup {"ok", "no_body", "database_unreachable"}
Challenges == {"none", "invalid_token", "anonymous", "insufficient_scope"}
Response ==
    [status : Nat, code : Codes, of : Merchants \cup {None}, by : Requests,
     payment : BOOLEAN, bodyId : Ids, retryAfter : BOOLEAN, replayed : BOOLEAN,
     challenge : Challenges, id : Ids]

ASSUME NoneAssumption == None \notin Response

\* From<sqlx::Error>, From<StoreError> and From<EngineError>.  The triggers of the
\* ledger raise integrity_constraint_violation, which is 23000.
StoreErrorOf(sqlstate) ==
    CASE sqlstate = "23505" -> "conflict"
      [] sqlstate = "23514" -> "check_violation"
      [] sqlstate = "23001" -> "ledger_integrity"
      [] OTHER -> "database"
OfStoreError(e) == IF e \in {"not_found", "conflict"} THEN e ELSE "internal"
OfEngineError(e) ==
    CASE e \in {"validation", "transition", "money"} -> "invalid_request"
      [] e = "card" -> "card"
      [] e = "ledger" -> "internal"
      [] e = "not_found" -> "not_found"
      [] OTHER -> OfStoreError(StoreErrorOf(e))

\* auth::with_challenge.  Mutant: only the errors of authenticate are challenged.
OwnChallenge(r, status) ==
    IF status = 401 THEN (IF q(r).auth # <<>> THEN "invalid_token" ELSE "anonymous") ELSE "none"
Challenge(r, status) ==
    IF status = 401 THEN (IF q(r).auth # <<>> THEN "invalid_token" ELSE "anonymous")
    ELSE IF status = 403 THEN "insufficient_scope" ELSE "none"

-----------------------------------------------------------------------------
(* Authentication. *)

\* auth::extract_bearer
Bearer(values) ==
    /\ Len(values) = 1
    /\ values[1].bytes <= 512 /\ values[1].ascii
    /\ values[1].scheme = "bearer"

\* crypto::api_key::generate and ::is_test_key, and auth::validate_shape.
Prefix == [secret |-> "sk_test_", publishable |-> "pk_test_"]
Generated(kind, k) == [prefix |-> Prefix[kind], body |-> 64, hex |-> TRUE, key |-> k]
IsTestKey(token) == token.prefix \in {"sk_test_", "pk_test_"}
WellFormed(token) ==
    token.prefix # "pk_test_" /\ IsTestKey(token) /\ token.body \in 32..128 /\ token.hex

\* What a new key may do, and what a stored one may: scopes that nobody knows are
\* ignored.
Scopes == {"orders:read", "orders:write", "payments:read", "payments:write",
           "refunds:write", "webhooks:manage"}
NewApiKey(m, kind) ==
    [merchant |-> m, kind |-> kind, revoked |-> FALSE,
     scopes |-> IF kind = "secret" THEN Scopes ELSE {}]
Granted(k) == ApiKeys[k].scopes \cap Scopes

\* store::api_key::find_active_by_hash, and the kind that resolve insists on.
Resolves(token) ==
    /\ token.key \in DOMAIN ApiKeys
    /\ ~ApiKeys[token.key].revoked
    /\ ApiKeys[token.key].kind = "secret"

TokenOf(r) == q(r).auth[1].token
Authentic(r) == Bearer(q(r).auth) /\ WellFormed(TokenOf(r)) /\ Resolves(TokenOf(r))

\* AuthCtx::require
Merchant(r) == ApiKeys[caller[r]].merchant
Holds(r, scope) == scope \in Granted(caller[r])

-----------------------------------------------------------------------------
(* The routes: their verb, what they extract, the scope they require and the
   status of their success. *)

OrderRoutes ==
    [orders_create |-> [verb |-> "POST", takes |-> "json",  scope |-> "orders:write", ok |-> 201],
     orders_get    |-> [verb |-> "GET",  takes |-> "path",  scope |-> "orders:read",  ok |-> 200],
     orders_list   |-> [verb |-> "GET",  takes |-> "query", scope |-> "orders:read",  ok |-> 200]]
PaymentRoutes ==
    [payments_create  |-> [verb |-> "POST", takes |-> "json", scope |-> "payments:write", ok |-> 201],
     payments_get     |-> [verb |-> "GET",  takes |-> "path", scope |-> "payments:read",  ok |-> 200],
     payments_capture |-> [verb |-> "POST", takes |-> "path", scope |-> "payments:write", ok |-> 200]]
RefundRoutes ==
    [refunds_create |-> [verb |-> "POST", takes |-> "json",  scope |-> "refunds:write", ok |-> 201],
     refunds_get    |-> [verb |-> "GET",  takes |-> "path",  scope |-> "payments:read", ok |-> 200],
     refunds_list   |-> [verb |-> "GET",  takes |-> "query", scope |-> "payments:read", ok |-> 200]]
EventRoutes ==
    [events_list |-> [verb |-> "GET", takes |-> "query", scope |-> "payments:read", ok |-> 200]]
EndpointRoutes ==
    [endpoints_create  |-> [verb |-> "POST",   takes |-> "json", scope |-> "webhooks:manage", ok |-> 201],
     endpoints_list    |-> [verb |-> "GET",    takes |-> "none", scope |-> "webhooks:manage", ok |-> 200],
     endpoints_disable |-> [verb |-> "DELETE", takes |-> "path", scope |-> "webhooks:manage", ok |-> 200]]
\* A path or a verb that /v1 does not have.
Fallbacks ==
    [unknown_endpoint   |-> [verb |-> "POST", takes |-> "none"],
     method_not_allowed |-> [verb |-> "PUT",  takes |-> "none"]]
\* Two tables of routes as one.
Merge(f, g) == [x \in DOMAIN f \cup DOMAIN g |-> IF x \in DOMAIN f THEN f[x] ELSE g[x]]
Routes ==
    LET resources == Merge(OrderRoutes, Merge(PaymentRoutes, RefundRoutes))
        webhooks  == Merge(EventRoutes, EndpointRoutes)
    IN  Merge(Merge(resources, webhooks), Fallbacks)

route(r) == Routes[q(r).route]
Mutating(r) == route(r).verb \in {"POST", "PUT", "PATCH", "DELETE"}

\* extract::Json, extract::Query, extract::Path; "ok" when there is no error.
JsonError ==
    [good |-> "ok", wrong_shape |-> "invalid_request", not_json |-> "invalid_request",
     untyped |-> "unsupported_media_type", too_large |-> "payload_too_large",
     unreadable |-> "invalid_request"]
\* What a request can say: it meets a route of /v1 or one outside of it, its body is
\* of one of the kinds above, and KeyNames has the keys it may name.
ASSUME TrafficAssumption ==
    \A r \in Requests :
        /\ q(r).route \in DOMAIN Routes \cup {"preflight", "live", "nowhere", "health"}
        /\ q(r).body \in DOMAIN JsonError
        /\ q(r).key # None => q(r).key.name \in KeyNames
QueryError(query) == IF query = "unknown_field" THEN "invalid_request" ELSE "ok"
PathError(id) == IF id = "undecodable" THEN "not_found" ELSE "ok"
Extracted(r) ==
    CASE route(r).takes = "json"  -> JsonError[q(r).body]
      [] route(r).takes = "query" -> QueryError(q(r).query)
      [] route(r).takes = "path"  -> PathError(q(r).id)
      [] OTHER -> "ok"

\* validate.rs
PlausibleCvc(cvc) == cvc = None \/ (cvc.bytes \in 3..4 /\ cvc.digits)
GoodUrl(url) ==
    /\ url.bytes <= 2048 /\ url.absolute
    /\ url.scheme \in {"http", "https"} /\ url.host
    /\ ~url.credentials /\ ~url.fragment
GoodEvents(events) ==
    /\ Len(events) <= 32 /\ IsInjective(events)
    /\ \A i \in DOMAIN events : events[i].bytes <= 64 /\ events[i].shaped
GoodKey(key) == key.bytes \in 8..255 /\ key.graphic

\* An id in a path or a body parses, or names nothing.
Parses(id) == id # "malformed"

\* What a handler checks before it calls anything: the extractors, the scope, the
\* input, and the id in its path or body.
ValidInput(r) ==
    CASE q(r).route = "orders_create"    -> q(r).currency
      [] q(r).route = "payments_create"  -> PlausibleCvc(q(r).cvc)
      [] q(r).route = "endpoints_create" -> GoodUrl(q(r).url) /\ GoodEvents(q(r).events)
      [] q(r).route \in {"orders_list", "events_list"} -> q(r).query # "out_of_range"
      [] OTHER -> TRUE
InvalidAs(r) == IF q(r).route = "payments_create" THEN "card" ELSE "invalid_request"
Refusal(r) ==
    IF q(r).route \in DOMAIN Fallbacks THEN q(r).route
    ELSE IF Extracted(r) # "ok" THEN Extracted(r)
    ELSE IF ~Holds(r, route(r).scope) THEN "forbidden"
    ELSE IF ~ValidInput(r) THEN InvalidAs(r)
    ELSE IF ~Parses(q(r).id) THEN "not_found"
    ELSE "ok"

-----------------------------------------------------------------------------
(* Steps. *)

Init ==
    /\ stage = [r \in Requests |-> "unsent"]
    /\ caller = [r \in Requests |-> None]
    /\ existing = [r \in Requests |-> 0]
    /\ returned = [r \in Requests |-> None]
    /\ answer = [r \in Requests |-> None]
    /\ rows = [k \in Merchants \X KeyNames |-> [state |-> "none"]]
    /\ active = {<<Owner[e], e>> : e \in Endpoints}
    /\ wrote = [r \in Requests |-> None]
    /\ hit = [r \in Requests |-> None]
    /\ late = {} /\ claimed = {}
    /\ faults = 0 /\ keyFaults = 0

At(r, s)   == stage[r] = s
GoTo(r, s) == stage' = [stage EXCEPT ![r] = s]
noFault    == UNCHANGED <<hit, faults, keyFaults>>
Fault(r, ofKeys) ==
    /\ faults < MaxFaults /\ faults' = faults + 1
    /\ keyFaults' = IF ofKeys THEN keyFaults + 1 ELSE keyFaults
Hit(r) == hit' = [hit EXCEPT ![r] = stage[r]]

\* The way out: the challenge, then the request id on whatever passes it.  Only
\* a preflight, which CORS answers itself, does not.
Reply(r, resp) ==
    /\ GoTo(r, "answered")
    /\ answer' = [answer EXCEPT ![r] = [resp EXCEPT
            !.challenge = Challenge(r, resp.status),
            !.id = IF q(r).route = "preflight" THEN None ELSE RequestIdOf(r)]]

\* CORS, the request id and the root router.
Send(r) ==
    /\ At(r, "unsent")
    /\ CASE q(r).route \in {"preflight", "live"} -> Reply(r, Success(r, 200, None))
         [] q(r).route = "nowhere"               -> Reply(r, Error(r, "unknown_endpoint"))
         [] q(r).route = "health"                -> GoTo(r, "probe") /\ UNCHANGED answer
         [] OTHER                                -> GoTo(r, "auth") /\ UNCHANGED answer
    /\ noFault
    /\ UNCHANGED <<caller, existing, returned, rows, active, wrote, late, claimed>>

\* health::deep; its 503 is not in the envelope of the API.
Probe(r) ==
    /\ At(r, "probe")
    /\ \/ Reply(r, Success(r, 200, None)) /\ noFault
       \/ /\ Reply(r, [Success(r, 503, None) EXCEPT !.code = "database_unreachable"])
          /\ Fault(r, FALSE) /\ Hit(r)
    /\ UNCHANGED <<caller, existing, returned, rows, active, wrote, late, claimed>>

\* idempotency::guarded up to acquire: a read or a request without a key passes.
HasKey(r) == q(r).key # None /\ q(r).key.ascii /\ q(r).key.bytes > 0
Guarded(r) == Mutating(r) /\ HasKey(r)
GuardError(r) ==
    CASE Guarded(r) /\ ~GoodKey(q(r).key) -> "invalid_request"
      [] Guarded(r) /\ GoodKey(q(r).key) /\ q(r).body \in {"too_large", "unreadable"} ->
            "payload_too_large"
      [] OTHER -> "ok"

\* auth::authenticate, and on to the next layer.
Authenticate(r) ==
    /\ At(r, "auth")
    /\ \/ ~Authentic(r) /\ Reply(r, Error(r, "unauthorized")) /\ UNCHANGED caller
       \/ /\ Authentic(r) /\ caller' = [caller EXCEPT ![r] = TokenOf(r).key]
          /\ \E code \in {GuardError(r)} :
                \/ code # "ok" /\ Reply(r, Error(r, code))
                \/ /\ code = "ok" /\ GoTo(r, IF Guarded(r) THEN "insert" ELSE "handler")
                   /\ UNCHANGED answer
    /\ noFault
    /\ UNCHANGED <<existing, returned, rows, active, wrote, late, claimed>>

\* The lookup of the key fails or takes too long.
\* Mutant: not finding out is taken for not finding.
OutageAsDenial == "unauthorized"
Outage == "unavailable"
AuthenticateFails(r) ==
    /\ At(r, "auth") /\ Bearer(q(r).auth) /\ WellFormed(TokenOf(r))
    /\ Fault(r, FALSE) /\ Hit(r)
    /\ Reply(r, Error(r, Outage))
    /\ UNCHANGED <<caller, existing, returned, rows, active, wrote, late, claimed>>

-----------------------------------------------------------------------------
(* Idempotency keys. *)

\* Keys are scoped per merchant.  Mutant: they are not.
SlotOfName(r) == <<CHOOSE m \in Merchants : TRUE, q(r).key.name>>
SlotOf(r) == <<Merchant(r), q(r).key.name>>
Mine(r)  == rows[SlotOf(r)]
\* idempotency::fingerprint: method, path and body.
Fingerprint(r) == <<q(r).route, q(r).id, q(r).content>>
Claim(r) == rows' = [rows EXCEPT ![SlotOf(r)] = [state |-> "in_progress", print |-> Fingerprint(r)]]

Insert(r) ==
    /\ At(r, "insert")
    /\ IF Mine(r).state = "none" THEN Claim(r) /\ GoTo(r, "handler")
                                 ELSE GoTo(r, "select") /\ UNCHANGED rows
    /\ claimed' = claimed \cup {r}
    /\ noFault
    /\ UNCHANGED <<caller, existing, returned, answer, active, wrote, late>>

\* The INSERT reports an error, having taken effect or not.
InsertFails(r) ==
    /\ At(r, "insert") /\ Fault(r, TRUE) /\ Hit(r)
    /\ \/ Mine(r).state = "none" /\ Claim(r)
       \/ UNCHANGED rows
    /\ claimed' = claimed \cup {r}
    /\ Reply(r, Error(r, "unavailable"))
    /\ UNCHANGED <<caller, existing, returned, active, wrote, late>>

\* idempotency::replay
Replay(r) == LET resp == [Mine(r).response EXCEPT !.replayed = TRUE, !.retryAfter = FALSE]
             IN  returned' = [returned EXCEPT ![r] = resp] /\ Reply(r, resp)
Select(r) ==
    /\ At(r, "select")
    /\ \/ Mine(r).state = "none" /\ Reply(r, Error(r, "unavailable")) /\ UNCHANGED returned
       \/ Mine(r).state = "in_progress" /\ Reply(r, Error(r, "key_in_flight")) /\ UNCHANGED returned
       \/ /\ Mine(r).state = "completed"
          /\ IF Mine(r).print = Fingerprint(r) THEN Replay(r)
             ELSE Reply(r, Error(r, "key_reused")) /\ UNCHANGED returned
    /\ noFault
    /\ UNCHANGED <<caller, existing, rows, active, wrote, late, claimed>>

SelectFails(r) ==
    /\ At(r, "select") /\ Fault(r, TRUE) /\ Hit(r)
    /\ Reply(r, Error(r, "unavailable"))
    /\ UNCHANGED <<caller, existing, returned, rows, active, wrote, late, claimed>>

\* What record does with a response: a 5xx, or one too big to keep, gives the key
\* back; the latter loses its body.
TooBig(r, resp) == q(r).bulky /\ resp.status < 300
Releases(r) == returned[r].status >= 500 \/ TooBig(r, returned[r])
Freed(r) ==
    IF Mine(r).state = "in_progress"
    THEN rows' = [rows EXCEPT ![SlotOf(r)] = [state |-> "none"]] ELSE UNCHANGED rows
Kept(r) == rows' = [rows EXCEPT ![SlotOf(r)] =
    [state |-> "completed", print |-> Mine(r).print, response |-> returned[r]]]
Recorded(r) == IF TooBig(r, returned[r])
               THEN [returned[r] EXCEPT !.of = None, !.code = "no_body"] ELSE returned[r]
\* Mutant: a response that could not be recorded is answered as an outage.
RecordFailedAsOutage(r) == Error(r, "unavailable")
RecordFailed(r) == Recorded(r)
Record(r) ==
    /\ At(r, "record")
    /\ \/ /\ IF Releases(r) THEN Freed(r) ELSE Kept(r)
          /\ noFault /\ Reply(r, Recorded(r))
       \/ /\ UNCHANGED rows /\ Fault(r, TRUE) /\ Hit(r)
          /\ Reply(r, RecordFailed(r))
    /\ UNCHANGED <<caller, existing, returned, active, wrote, late, claimed>>

-----------------------------------------------------------------------------
(* Handlers. *)

\* The handler's response, recorded first if the request holds a key.
Return(r, resp) ==
    /\ returned' = [returned EXCEPT ![r] = resp]
    /\ IF r \in claimed THEN GoTo(r, "record") /\ UNCHANGED answer ELSE Reply(r, resp)

ReadsFirst == {"payments_create", "endpoints_create", "endpoints_disable"}
Handle(r) ==
    /\ At(r, "handler")
    /\ \E code \in {Refusal(r)} :
          \/ code # "ok" /\ Return(r, Error(r, code))
          \/ /\ code = "ok" /\ GoTo(r, IF q(r).route \in ReadsFirst THEN "read" ELSE "work")
             /\ UNCHANGED <<returned, answer>>
    /\ noFault
    /\ UNCHANGED <<caller, existing, rows, active, wrote, late, claimed>>

\* A resource of another merchant is not found.  Mutant: any existing one is.
Exists(r) == q(r).id \in DOMAIN Owner
Owned(r) == q(r).id \in DOMAIN Owner /\ Owner[q(r).id] = Merchant(r)
ActiveOf(m) == {e \in active : e[1] = m}
IsActive(r) == \E e \in active : e[2] = q(r).id

\* payments::create reads the order and asks the simulator; the engine locks and
\* checks the order again.
ReadOrder(r) ==
    /\ q(r).route = "payments_create"
    /\ \/ ~Owned(r) /\ Return(r, Error(r, "not_found"))
       \/ Owned(r) /\ ~q(r).testCard /\ Return(r, Error(r, "card"))
       \/ Owned(r) /\ q(r).testCard /\ GoTo(r, "work") /\ UNCHANGED <<returned, answer>>
    /\ UNCHANGED existing

\* webhook_endpoints::create counts.  Mutant: the last place is one too far.
HasRoomAtCap(m) == Cardinality(ActiveOf(m)) <= Cap
HasRoom(m) == Cardinality(ActiveOf(m)) < Cap
CountEndpoints(r) ==
    /\ q(r).route = "endpoints_create"
    /\ existing' = [existing EXCEPT ![r] = Cardinality(ActiveOf(Merchant(r)))]
    /\ IF HasRoom(Merchant(r)) THEN GoTo(r, "work") /\ UNCHANGED <<returned, answer>>
       ELSE Return(r, Error(r, "invalid_request"))

\* webhook_endpoints::disable; an endpoint that is not active is a success.
Disabled(r) == Success(r, 200, Merchant(r))
FindEndpoint(r) ==
    /\ q(r).route = "endpoints_disable"
    /\ \/ ~Owned(r) /\ Return(r, Error(r, "not_found"))
       \/ Owned(r) /\ ~IsActive(r) /\ Return(r, Disabled(r))
       \/ Owned(r) /\ IsActive(r) /\ GoTo(r, "work") /\ UNCHANGED <<returned, answer>>
    /\ UNCHANGED existing

Read(r) ==
    /\ At(r, "read")
    /\ ReadOrder(r) \/ CountEndpoints(r) \/ FindEndpoint(r)
    /\ noFault
    /\ UNCHANGED <<caller, rows, active, wrote, late, claimed>>

\* The errors a service may find in its transaction, which it then leaves.
EngineErrors(r) ==
    CASE q(r).route = "orders_create"    -> {"validation", "23505"}
      [] q(r).route = "payments_create"  -> {"validation", "card", "transition"}
      [] q(r).route = "payments_capture" -> {"validation", "transition"}
      [] q(r).route = "refunds_create"   -> {"validation"}
      [] OTHER -> {}
NamesResource(r) == q(r).route \notin
    {"orders_create", "orders_list", "events_list", "endpoints_create", "endpoints_list"}
Found(r) == NamesResource(r) => Owned(r)

\* The write, as it is committed, and what it says.
Touched(r) == IF NamesResource(r) THEN Owner[q(r).id] ELSE Merchant(r)
Effect(r) ==
    /\ wrote' = [wrote EXCEPT ![r] = Touched(r)]
    /\ CASE q(r).route = "endpoints_create" ->
               /\ active' = active \cup {<<Merchant(r), r>>}
               /\ late' = IF existing[r] # Cardinality(ActiveOf(Merchant(r)))
                          THEN late \cup {r} ELSE late
         [] q(r).route = "endpoints_disable" ->
               active' = {e \in active : e[2] # q(r).id} /\ UNCHANGED late
         [] OTHER -> UNCHANGED <<active, late>>
Successes(r) ==
    {Success(r, route(r).ok, Touched(r))}
    \cup IF q(r).route = "payments_create" THEN {Declined(r, Touched(r))} ELSE {}

noEffect == UNCHANGED <<active, wrote, late>>
Missing(r) == ~Found(r) /\ Return(r, Error(r, "not_found")) /\ noEffect
Shows(r) ==
    /\ Found(r) /\ ~Mutating(r)
    /\ Return(r, Success(r, route(r).ok, Touched(r))) /\ noEffect
Performs(r) ==
    /\ Found(r) /\ Mutating(r)
    /\ Effect(r) /\ \E resp \in Successes(r) : Return(r, resp)
RefusedByEngine(r) ==
    /\ Found(r) /\ Mutating(r)
    /\ \E code \in {OfEngineError(e) : e \in EngineErrors(r)} : Return(r, Error(r, code))
    /\ noEffect
Work(r) ==
    /\ At(r, "work")
    /\ Missing(r) \/ Shows(r) \/ Performs(r) \/ RefusedByEngine(r)
    /\ noFault
    /\ UNCHANGED <<caller, existing, rows, claimed>>

\* The database fails under a handler; a commit may have taken effect nonetheless.
WorkFails(r) ==
    /\ stage[r] \in {"read", "work"} /\ Hit(r)
    /\ \/ noEffect /\ Fault(r, FALSE)
       \/ At(r, "work") /\ Found(r) /\ Mutating(r) /\ Effect(r) /\ Fault(r, r \in claimed)
    /\ \E code \in {OfEngineError("08006")} : Return(r, Error(r, code))
    /\ UNCHANGED <<caller, existing, rows, claimed>>

-----------------------------------------------------------------------------
(* The layers around everything. *)

Serving == {"probe", "auth", "insert", "select", "handler", "read", "work", "record"}

\* timeout::enforce drops what is inside it.
Timeout(r) ==
    /\ stage[r] \in Serving /\ Fault(r, r \in claimed)
    /\ Reply(r, Error(r, "timeout"))
    /\ UNCHANGED <<caller, existing, returned, rows, active, wrote, hit, late, claimed>>

\* A handler panics: CatchPanic answers, and nothing inside it records.
Panic(r) ==
    /\ stage[r] \in {"handler", "read", "work"} /\ Fault(r, r \in claimed)
    /\ Reply(r, Error(r, "internal"))
    /\ UNCHANGED <<caller, existing, returned, rows, active, wrote, hit, late, claimed>>

MaySend == Cardinality({r \in Requests : ~At(r, "unsent")}) < MaxSent
Proceed(r) ==
    \/ Probe(r) \/ Authenticate(r) \/ AuthenticateFails(r)
    \/ Insert(r) \/ InsertFails(r) \/ Select(r) \/ SelectFails(r) \/ Record(r)
    \/ Handle(r) \/ Read(r) \/ Work(r) \/ WorkFails(r)
    \/ Timeout(r) \/ Panic(r)
Next ==
    \/ MaySend /\ \E r \in Requests : Send(r)
    \/ \E r \in Requests : Proceed(r)

Spec == Init /\ [][Next]_vars

-----------------------------------------------------------------------------
(* Properties. *)

Answered(r) == At(r, "answered")
Status(r)   == answer[r].status

\* error.rs: 4xx means that the caller has to change something, 503 that the request
\* never happened, 201 that it did.  Of a fresh answer, a refusal and a 503 left
\* nothing behind, a 201 and a decline that names a payment left their write.  Nothing
\* is said of a 500, nor of a 200, which a read, a capture and a DELETE of an endpoint
\* that is disabled already have in common.  A replayed answer left nothing and
\* repeats that of another request of the same merchant for the same words.
AnswersTellWhatHappened ==
    \A r \in Requests : Answered(r) =>
        IF answer[r].replayed
        THEN /\ wrote[r] = None /\ answer[r].by # r
             /\ Fingerprint(answer[r].by) = Fingerprint(r) /\ Merchant(answer[r].by) = Merchant(r)
             /\ answer[r].status = returned[answer[r].by].status
        ELSE /\ Status(r) \in 400..499 \cup {503} /\ ~answer[r].payment => wrote[r] = None
             /\ Status(r) = 201 \/ answer[r].payment => wrote[r] = Merchant(r)

\* error.rs: "Never reuse an authentication or validation status for an outage."  A
\* request whose database call failed before its work was done is answered with a
\* 5xx, whatever is wrong with it.
OutagesAreNotDenials ==
    \A r \in Requests :
        Answered(r) /\ hit[r] \notin {None, "record"} => Status(r) >= 500

\* routes/mod.rs, AuthCtx::require: whatever is written was asked for with one active
\* secret key that holds the scope of its route, and belongs to the merchant of that
\* key, and so does all an answer shows, replays included.
HasAuthority(r) ==
    LET k == TokenOf(r).key IN
    /\ Len(q(r).auth) = 1 /\ k \in DOMAIN ApiKeys
    /\ ApiKeys[k].kind = "secret" /\ ~ApiKeys[k].revoked
NothingWithoutAuthority ==
    \A r \in Requests :
        LET m == ApiKeys[TokenOf(r).key].merchant IN
        /\ r \in claimed => HasAuthority(r)
        /\ wrote[r] # None => /\ HasAuthority(r) /\ wrote[r] = m
                              /\ route(r).scope \in ApiKeys[TokenOf(r).key].scopes
        /\ Answered(r) /\ answer[r].of # None => HasAuthority(r) /\ answer[r].of = m

\* Every answer that is not a preflight's carries the id of its request, and so does
\* every fresh envelope; a 401 or a 403, replayed or not, carries a challenge; and no
\* answer that asks for a retry, nor a 5xx, is ever kept for a key.
AnswersAreComplete ==
    /\ \A r \in Requests : Answered(r) =>
          /\ q(r).route # "preflight" => answer[r].id = RequestIdOf(r)
          /\ answer[r].bodyId \in {None, answer[r].id} \/ answer[r].replayed
          /\ Status(r) \in {401, 403} <=> answer[r].challenge # "none"
    /\ \A k \in DOMAIN rows : rows[k].state = "completed" =>
          rows[k].response.status < 500 /\ ~rows[k].response.retryAfter

\* routes/webhook_endpoints.rs: a merchant has as many active endpoints over the cap
\* as registrations were overtaken between their count and their insert, no more.
EndpointsAreBounded ==
    \A m \in Merchants :
        Cardinality(ActiveOf(m)) <= Cap + Cardinality({r \in late : Merchant(r) = m})

-----------------------------------------------------------------------------
(* What the key store and the layers behind it promise: the requests that name a
   key drive it as Idempotency says. *)

WithKey == {r \in Requests : /\ q(r).route \in DOMAIN Routes
                             /\ Authentic(r) /\ Guarded(r) /\ GuardError(r) = "ok"}
KeySlot  == [r \in WithKey |-> <<ApiKeys[TokenOf(r).key].merchant, q(r).key.name>>]
KeySlots == {KeySlot[r] : r \in WithKey}
Words    == [r \in WithKey |-> Fingerprint(r)]
AllWords == {Words[r] : r \in WithKey}
Bulky    == {r \in WithKey : q(r).bulky}

\* A response as Idempotency tells them apart, and a row that holds one.
Kind(resp) ==
    CASE resp = None \/ resp.status >= 500 -> "failed"
      [] resp # None /\ resp.status < 300  -> "done"
      [] OTHER -> IF resp.payment THEN "declined" ELSE "refused"
Works(resp) == Kind(resp) \in {"done", "declined"}
Told(resp) == [kind |-> Kind(resp), work |-> IF Works(resp) THEN resp.by ELSE None]
Line(row) == IF row.state = "completed" THEN [row EXCEPT !.response = Told(@)] ELSE row

\* Where a request is, what its client was told, and whether it did its work.
StepOf(r) ==
    IF r \notin claimed THEN "insert"
    ELSE CASE At(r, "select") -> "select"
           [] At(r, "record") -> IF Releases(r) THEN "release" ELSE "complete"
           [] At(r, "answered") -> "answered"
           [] OTHER -> "execute"
AnswerOf(r) ==
    IF r \notin claimed \/ answer[r] = None THEN "none"
    ELSE LET code == answer[r].code IN
         CASE code = "timeout" \/ (code = "internal" /\ returned[r] = None) -> "unknown"
           [] code = "key_in_flight" -> "in_flight"
           [] code = "key_reused"    -> "mismatch"
           [] code = "no_body"       -> "no_body"
           [] OTHER                  -> Kind(answer[r])
Worked(r) == wrote[r] # None \/ (returned[r] # None /\ returned[r].by = r /\ Works(returned[r]))
Workers == {r \in WithKey : Worked(r)}
Lines   == [k \in KeySlots |-> Line(rows[k])]
Steps   == [r \in WithKey |-> StepOf(r)]
Reports == [r \in WithKey |-> Told(returned[r])]
Answers == [r \in WithKey |-> AnswerOf(r)]
Unsaid  == {r \in Workers : returned[r] # None /\ Kind(returned[r]) = "failed"}

Promise == INSTANCE Idempotency WITH
    Requests    <- WithKey,
    Keys        <- KeySlots,
    Prints      <- AllWords,
    KeyOf       <- KeySlot,
    PrintOf     <- Words,
    Large       <- Bulky,
    row         <- Lines,
    step        <- Steps,
    response    <- Reports,
    answer      <- Answers,
    charged     <- Workers,
    misreported <- Unsaid,
    faults      <- keyFaults

\* The layers implement Idempotency: for the requests that name a key, what the
\* extractors, the routes, the engine, the timeout and the panics behind the
\* middleware do to its rows and its answers is what Idempotency allows.
ImplementsIdempotency == Promise!Spec
=============================================================================
