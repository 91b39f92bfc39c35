----------------------------- MODULE AuthCache ------------------------------
(***************************************************************************)
(* Authentication: the process's memo of API key lookups in front of the   *)
(* api_keys table, and its throttle for last_used_at.                      *)
(*                                                                         *)
(* A request reads the monotonic clock once, before it looks anything up,  *)
(* and everything it stores later is dated by that reading.  Headers that  *)
(* do not hold a well-formed secret key are refused before this code.      *)
(***************************************************************************)
EXTENDS Integers, FiniteSets

CONSTANTS
    Requests,       \* requests that may be authenticating at one time
    Hashes,         \* lookup hashes presented to the server
    Issued,         \* those of them that have a row in api_keys
    TTL, Capacity, TouchInterval,  \* of AuthCache
    LookupTimeout,  \* LOOKUP_TIMEOUT
    Never,          \* an absent time
    MaxTime         \* bound: the clock stops here

ASSUME AuthAssumption ==
    /\ Issued \subseteq Hashes /\ Never \notin Int
    /\ {TTL, TouchInterval, LookupTimeout, MaxTime} \subseteq Nat /\ Capacity \in Nat \ {0}
    /\ LookupTimeout < TTL /\ LookupTimeout < TouchInterval

VARIABLES
    now,        \* the monotonic clock
    revokedAt,  \* api_keys.revoked_at
    entries,    \* AuthCache::entries, NoEntry where the map has no key
    touches,    \* AuthCache::touches, Never where the map has no key
    lookup,     \* what each request looks up, Idle when nothing
    lag,        \* history: how long after its revocation a key was let in
    rejected,   \* history: keys whose holder was told that the key is invalid
    touchedAt   \* history: the clock reading of the last last_used_at write

vars == <<now, revokedAt, entries, touches, lookup, lag, rejected, touchedAt>>

NoEntry == [outcome |-> "none", expires |-> 0]
Idle    == [step |-> "idle"]
Lookup  == [step : {"lookup"}, hash : Hashes, started : Nat]
           \cup [step : {"found"}, hash : Hashes, started : Nat, active : BOOLEAN]

Init ==
    /\ now = 0
    /\ revokedAt = [k \in Issued |-> Never]
    /\ entries = [h \in Hashes |-> NoEntry]
    /\ touches = [k \in Issued |-> Never]
    /\ lookup = [r \in Requests |-> Idle]
    /\ lag = [k \in Issued |-> 0]
    /\ rejected = {}
    /\ touchedAt = [k \in Issued |-> Never]

-----------------------------------------------------------------------------
(* The two maps. *)

\* AuthCache::lookup: an expired entry is not a hit, and stays where it is.
Hit(h) == entries[h] # NoEntry /\ entries[h].expires > now

\* AuthCache::store: a full map is swept of what has expired by t, and cleared
\* if that makes no room.
Size(map, absent) == Cardinality({k \in DOMAIN map : map[k] # absent})
Swept(t) == [h \in Hashes |-> IF entries[h].expires > t THEN entries[h] ELSE NoEntry]
\* Mutant: the sweep is trusted to make room.
RoomBySweep(t) == IF Size(entries, NoEntry) < Capacity THEN entries ELSE Swept(t)
Room(t) ==
    IF Size(entries, NoEntry) < Capacity THEN entries
    ELSE IF Size(Swept(t), NoEntry) < Capacity THEN Swept(t)
    ELSE [h \in Hashes |-> NoEntry]
\* Mutant: an entry lives a TTL from when it is stored.
ExpiryFromNow(t) == now + TTL
Expiry(t) == t + TTL
Store(h, outcome, t) ==
    entries' = [Room(t) EXCEPT ![h] = [outcome |-> outcome, expires |-> Expiry(t)]]

\* AuthCache::should_touch; duration_since saturates at zero.
Since(t, last) == IF t > last THEN t - last ELSE 0
ShouldTouch(k, t) == touches[k] = Never \/ Since(t, touches[k]) >= TouchInterval
\* Mutant: a full map is cleared, as the other one is.
TouchRoomByClearing(t) ==
    IF Size(touches, Never) < Capacity THEN touches ELSE [k \in Issued |-> Never]
TouchRoom(t) ==
    IF Size(touches, Never) < Capacity THEN touches
    ELSE [k \in Issued |-> IF touches[k] # Never /\ Since(t, touches[k]) < TouchInterval
                           THEN touches[k] ELSE Never]
Touch(k, t) ==
    IF ShouldTouch(k, t)
    THEN /\ touches' = [TouchRoom(t) EXCEPT ![k] = t]
         /\ touchedAt' = [touchedAt EXCEPT ![k] = t]
    ELSE UNCHANGED <<touches, touchedAt>>

-----------------------------------------------------------------------------
(* resolve, one request. *)

Active(h) == h \in Issued /\ revokedAt[h] = Never
Admit(h)  == /\ lag' = IF h \in Issued /\ ~Active(h)
                       THEN [lag EXCEPT ![h] = now - revokedAt[h]] ELSE lag
             /\ UNCHANGED rejected
Reject(h) == rejected' = rejected \cup ({h} \cap Issued) /\ UNCHANGED lag
At(r, step) == lookup[r].step = step
Leave(r)    == lookup' = [lookup EXCEPT ![r] = Idle]

\* A live entry answers for the database.
AnswerFromCache(r, h) ==
    /\ At(r, "idle") /\ Hit(h)
    /\ IF entries[h].outcome = "resolved" THEN Admit(h) ELSE Reject(h)
    /\ UNCHANGED <<now, revokedAt, entries, touches, lookup, touchedAt>>

StartLookup(r, h) ==
    /\ At(r, "idle") /\ ~Hit(h)
    /\ lookup' = [lookup EXCEPT ![r] = [step |-> "lookup", hash |-> h, started |-> now]]
    /\ UNCHANGED <<now, revokedAt, entries, touches, lag, rejected, touchedAt>>

\* api_key::find_active_by_hash, as the database runs it.
FindActive(r) ==
    /\ At(r, "lookup")
    /\ lookup' = [lookup EXCEPT ![r] = [step |-> "found", hash |-> @.hash,
                                       started |-> @.started, active |-> Active(@.hash)]]
    /\ UNCHANGED <<now, revokedAt, entries, touches, lag, rejected, touchedAt>>

\* Mutant: any failed lookup is taken for an unknown key.
CallItInvalid(r) ==
    /\ ~At(r, "idle")
    /\ Store(lookup[r].hash, "rejected", lookup[r].started) /\ Reject(lookup[r].hash)
    /\ Leave(r)
    /\ UNCHANGED <<now, revokedAt, touches, touchedAt>>
\* The lookup fails or takes longer than LOOKUP_TIMEOUT: 503, nothing stored.
Unavailable(r) ==
    /\ ~At(r, "idle")
    /\ Leave(r)
    /\ UNCHANGED <<now, revokedAt, entries, touches, lag, rejected, touchedAt>>

\* The row is here: store, schedule the last_used_at write, let in.
Resolved(r) ==
    /\ At(r, "found") /\ lookup[r].active
    /\ Store(lookup[r].hash, "resolved", lookup[r].started)
    /\ Touch(lookup[r].hash, lookup[r].started)
    /\ Admit(lookup[r].hash)
    /\ Leave(r)
    /\ UNCHANGED <<now, revokedAt>>

\* There is no such row: the rejection is stored too.
NotFound(r) ==
    /\ At(r, "found") /\ ~lookup[r].active
    /\ Store(lookup[r].hash, "rejected", lookup[r].started) /\ Reject(lookup[r].hash)
    /\ Leave(r)
    /\ UNCHANGED <<now, revokedAt, touches, touchedAt>>

\* api_key::revoke.  Nothing in the program calls it, or AuthCache::invalidate_key,
\* yet: a key is revoked from outside the server.
Revoke(k) ==
    /\ Active(k)
    /\ revokedAt' = [revokedAt EXCEPT ![k] = now]
    /\ UNCHANGED <<now, entries, touches, lookup, lag, rejected, touchedAt>>

\* A lookup is cut off at LOOKUP_TIMEOUT.
Tick ==
    /\ now < MaxTime
    /\ \A r \in Requests : ~At(r, "idle") => now - lookup[r].started < LookupTimeout
    /\ now' = now + 1
    /\ UNCHANGED <<revokedAt, entries, touches, lookup, lag, rejected, touchedAt>>

Next ==
    \/ \E r \in Requests : \/ \E h \in Hashes : AnswerFromCache(r, h) \/ StartLookup(r, h)
                           \/ FindActive(r) \/ Unavailable(r) \/ Resolved(r) \/ NotFound(r)
    \/ \E k \in Issued : Revoke(k)
    \/ Tick

Spec == Init /\ [][Next]_vars

-----------------------------------------------------------------------------
(* Properties. *)

\* Every variable holds a value of its shape.
Time == 0..MaxTime
TypeOK ==
    /\ now \in Time
    /\ revokedAt \in [Issued -> Time \cup {Never}]
    /\ entries \in [Hashes -> [outcome : {"none", "resolved", "rejected"}, expires : Nat]]
    /\ touches \in [Issued -> Time \cup {Never}]
    /\ lookup \in [Requests -> Lookup \cup {Idle}]
    /\ lag \in [Issued -> Time]
    /\ rejected \subseteq Issued
    /\ touchedAt \in [Issued -> Time \cup {Never}]

\* auth.rs: "revocation propagates within the TTL": no request is let in a TTL or
\* more after its key was revoked, although a lookup that read the row before the
\* revocation may store its answer, or overwrite a later one, after it.
RevocationPropagates == \A k \in Issued : lag[k] < TTL

\* auth.rs: a database that is down or slow never surfaces as "Invalid API key", now
\* or from the cache: who is told so holds no active key, and never will again.
RejectionsAreTrue == \A h \in rejected : ~Active(h)

\* The cache holds at most Capacity decisions, whatever is guessed and however
\* old the clock readings are that the sweeps use.
CacheIsBounded == Size(entries, NoEntry) <= Capacity

\* The last_used_at writes of a key are a touch interval apart, less the time a
\* lookup may take: a sweep dated later may forget a touch that a slower request,
\* dated earlier, should still have seen.
TouchesAreSpaced ==
    [][\A k \in Issued : touchedAt'[k] # touchedAt[k] /\ touchedAt[k] # Never =>
          /\ touchedAt'[k] > touchedAt[k]
          /\ touchedAt'[k] - touchedAt[k] >= TouchInterval - LookupTimeout]_vars
=============================================================================
