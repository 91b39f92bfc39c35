-------------------------- MODULE AuthCache_proofs --------------------------
(***************************************************************************)
(* Proofs about the key cache, for any number of requests and keys, any    *)
(* capacity and any times that satisfy the assumption: a decision dated by *)
(* a clock reading that is at most LookupTimeout old, and kept for a TTL   *)
(* from that reading, is never used a TTL after it stopped being true.     *)
(***************************************************************************)
EXTENDS AuthCache, FiniteSetTheorems, TLAPS

Revoked(k) == revokedAt[k] # Never

\* A lookup in flight is recent; what it found was true when it started, or is
\* still.
LookupSound(l) ==
    /\ l.started <= now /\ now - l.started <= LookupTimeout
    /\ l.step = "found" =>
          IF l.active THEN l.hash \in Issued /\ (Revoked(l.hash) => l.started <= revokedAt[l.hash])
          ELSE ~Active(l.hash)
LookupsSound == \A r \in Requests : ~At(r, "idle") => LookupSound(lookup[r])

\* An entry lets nobody in a TTL after the revocation, refuses no active key, and
\* expires within a TTL.
EntriesSound == \A h \in Hashes :
    /\ entries[h].expires <= now + TTL
    /\ entries[h].outcome = "resolved" =>
          h \in Issued /\ (Revoked(h) => entries[h].expires <= revokedAt[h] + TTL)
    /\ entries[h].outcome = "rejected" => ~Active(h)
    /\ entries[h].outcome = "none" => entries[h] = NoEntry

RevokedBefore == \A k \in Issued : Revoked(k) => revokedAt[k] <= now

\* The map of touches remembers the last write, or the write is an interval old.
TouchesSound == \A k \in Issued :
    IF touches[k] # Never THEN touchedAt[k] = touches[k]
    ELSE touchedAt[k] # Never => now - touchedAt[k] >= TouchInterval

AuthInv == /\ TypeOK /\ LookupsSound /\ EntriesSound /\ RevokedBefore /\ TouchesSound
           /\ RevocationPropagates /\ RejectionsAreTrue

-----------------------------------------------------------------------------
EntryType == [outcome : {"none", "resolved", "rejected"}, expires : Nat]

\* Making room forgets entries and invents none.
LEMMA RoomForgets ==
    ASSUME TypeOK, NEW t
    PROVE  Room(t) \in [Hashes -> EntryType] /\ \A h \in Hashes : Room(t)[h] \in {entries[h], NoEntry}
<1>1. NoEntry \in EntryType /\ entries \in [Hashes -> EntryType]
  BY DEF NoEntry, EntryType, TypeOK
<1> QED BY <1>1 DEF Room, Swept

\* Storing what a lookup found keeps the entries sound.
LEMMA StoreKeeps ==
    ASSUME AuthInv, NEW h \in Hashes, NEW outcome \in {"resolved", "rejected"}, NEW t \in Nat,
           t <= now, now' = now, outcome = "resolved" => h \in Issued /\ (Revoked(h) => t <= revokedAt[h]),
           outcome = "rejected" => ~Active(h),
           Store(h, outcome, t), revokedAt' = revokedAt
    PROVE  EntriesSound' /\ entries' \in [Hashes -> EntryType]
<1>1. /\ Room(t) \in [Hashes -> EntryType]
      /\ \A x \in Hashes : Room(t)[x] \in {entries[x], NoEntry}
  BY RoomForgets DEF AuthInv
<1>2. entries' = [Room(t) EXCEPT ![h] = [outcome |-> outcome, expires |-> t + TTL]]
  BY DEF Store, Expiry
<1>3. t + TTL \in Nat
  BY AuthAssumption
<1>4. entries' \in [Hashes -> EntryType]
  BY <1>1, <1>2, <1>3 DEF EntryType
<1>5. entries'[h] = [outcome |-> outcome, expires |-> t + TTL]
  BY <1>1, <1>2
<1>6. \A x \in Hashes : x # h => entries'[x] \in {entries[x], NoEntry}
  BY <1>1, <1>2
<1>7. ASSUME NEW x \in Hashes
      PROVE  /\ entries'[x].expires <= now + TTL
             /\ entries'[x].outcome = "resolved" =>
                   x \in Issued /\ (Revoked(x)' => entries'[x].expires <= revokedAt'[x] + TTL)
             /\ entries'[x].outcome = "rejected" => ~Active(x)'
             /\ entries'[x].outcome = "none" => entries'[x] = NoEntry
  <2>1. CASE x = h
    <3>1. (Revoked(h) /\ h \in Issued => revokedAt[h] \in Int) /\ now \in Nat
      BY AuthAssumption DEF AuthInv, TypeOK, Time, Revoked
    <3> QED BY <1>5, <2>1, <3>1, AuthAssumption DEF Revoked, Active
  <2>2. CASE x # h
    <3>1. now \in Nat
      BY AuthAssumption DEF AuthInv, TypeOK, Time
    <3> QED BY <1>6, <2>2, <3>1, AuthAssumption DEF NoEntry, AuthInv, EntriesSound, Revoked, Active
  <2> QED BY <2>1, <2>2
<1> QED BY <1>4, <1>7 DEF EntriesSound

\* A request that leaves takes its lookup with it and no other.
LEMMA LeaveKeeps ==
    ASSUME AuthInv, NEW r \in Requests, Leave(r), UNCHANGED <<now, revokedAt>>
    PROVE  LookupsSound' /\ lookup' \in [Requests -> Lookup \cup {Idle}]
<1>1. lookup' \in [Requests -> Lookup \cup {Idle}]
  BY DEF Leave, AuthInv, TypeOK
<1>2. lookup'[r] = Idle /\ \A s \in Requests : s # r => lookup'[s] = lookup[s]
  BY DEF Leave, AuthInv, TypeOK
<1>3. \A s \in Requests : ~At(s, "idle")' => s # r /\ ~At(s, "idle")
  BY <1>2 DEF At, Idle
<1> QED BY <1>1, <1>2, <1>3 DEF AuthInv, LookupsSound, LookupSound, Revoked, Active

\* What a lookup in flight looks like.
LEMMA InFlight ==
    ASSUME AuthInv, NEW r \in Requests, ~At(r, "idle")
    PROVE  /\ lookup[r] \in Lookup /\ lookup[r].hash \in Hashes /\ lookup[r].started \in Nat
           /\ lookup[r].step \in {"lookup", "found"}
           /\ At(r, "found") => lookup[r].active \in BOOLEAN
           /\ now \in Nat /\ lookup[r].started <= now /\ now - lookup[r].started <= LookupTimeout
<1>1. lookup[r] \in Lookup
  BY DEF AuthInv, TypeOK, At, Idle
<1>2. now \in Nat
  BY AuthAssumption DEF AuthInv, TypeOK, Time
<1>3. lookup[r].started <= now /\ now - lookup[r].started <= LookupTimeout
  BY DEF AuthInv, LookupsSound, LookupSound
<1> QED BY <1>1, <1>2, <1>3 DEF Lookup, At

-----------------------------------------------------------------------------
(* One lemma per step. *)

\* A hit lets in within the TTL, and refuses on a decision that is still true.
LEMMA HitStep ==
    ASSUME AuthInv, NEW r \in Requests, NEW h \in Hashes, AnswerFromCache(r, h)
    PROVE  AuthInv'
<1>1. /\ UNCHANGED <<now, revokedAt, entries, touches, lookup, touchedAt>>
      /\ entries[h] # NoEntry /\ entries[h].expires > now /\ entries[h] \in EntryType
  BY DEF AnswerFromCache, Hit, AuthInv, TypeOK, EntryType
<1>2. LookupsSound' /\ EntriesSound' /\ RevokedBefore' /\ TouchesSound'
  BY <1>1 DEF AuthInv, LookupsSound, LookupSound, EntriesSound, RevokedBefore, TouchesSound, Revoked, Active, At
<1>3. CASE entries[h].outcome = "resolved"
  <2>1. /\ h \in Issued /\ rejected' = rejected
        /\ lag' = IF Revoked(h) THEN [lag EXCEPT ![h] = now - revokedAt[h]] ELSE lag
    BY <1>1, <1>3 DEF AnswerFromCache, Admit, Active, Revoked, AuthInv, EntriesSound
  <2>2. Revoked(h) => now - revokedAt[h] \in Time /\ now - revokedAt[h] < TTL
    <3>1. Revoked(h) => /\ revokedAt[h] \in Time /\ revokedAt[h] <= now /\ now \in Time
                        /\ entries[h].expires <= revokedAt[h] + TTL
      BY <1>3, <2>1 DEF AuthInv, TypeOK, RevokedBefore, EntriesSound, Revoked
    <3>2. entries[h].expires \in Nat
      BY <1>1 DEF EntryType
    <3> QED BY <1>1, <3>1, <3>2, AuthAssumption DEF Time
  <2>3. RevocationPropagates' /\ lag' \in [Issued -> Time]
    BY <2>1, <2>2 DEF AuthInv, TypeOK, RevocationPropagates
  <2> QED BY <1>1, <1>2, <2>1, <2>3 DEF AuthInv, TypeOK, RejectionsAreTrue, Active
<1>4. CASE entries[h].outcome # "resolved"
  <2>1. rejected' = rejected \cup ({h} \cap Issued) /\ lag' = lag
    BY <1>4 DEF AnswerFromCache, Reject
  <2>2. ~Active(h)
    BY <1>1, <1>4 DEF EntryType, AuthInv, EntriesSound
  <2>3. RejectionsAreTrue' /\ RevocationPropagates'
    BY <1>1, <2>1, <2>2 DEF AuthInv, RejectionsAreTrue, RevocationPropagates, Active
  <2> QED BY <1>1, <1>2, <2>1, <2>3 DEF AuthInv, TypeOK
<1> QED BY <1>3, <1>4

\* A lookup that starts is dated now.
LEMMA StartStep ==
    ASSUME AuthInv, NEW r \in Requests, NEW h \in Hashes, StartLookup(r, h)
    PROVE  AuthInv'
<1>1. /\ UNCHANGED <<now, revokedAt, entries, touches, lag, rejected, touchedAt>>
      /\ lookup' = [lookup EXCEPT ![r] = [step |-> "lookup", hash |-> h, started |-> now]]
      /\ now \in Nat
  BY AuthAssumption DEF StartLookup, AuthInv, TypeOK, Time
<1>2. lookup' \in [Requests -> Lookup \cup {Idle}]
  BY <1>1 DEF AuthInv, TypeOK, Lookup
<1>3. LookupsSound'
  <2>1. lookup'[r] = [step |-> "lookup", hash |-> h, started |-> now]
        /\ \A s \in Requests : s # r => lookup'[s] = lookup[s]
    BY <1>1 DEF AuthInv, TypeOK
  <2>2. now <= now /\ now - now <= LookupTimeout
    BY <1>1, AuthAssumption
  <2> QED BY <1>1, <2>1, <2>2 DEF AuthInv, LookupsSound, LookupSound, At, Revoked, Active
<1> QED BY <1>1, <1>2, <1>3
        DEF AuthInv, TypeOK, EntriesSound, RevokedBefore, TouchesSound, RevocationPropagates,
            RejectionsAreTrue, Revoked, Active

\* What the query returns is true when it returns.
LEMMA FindStep ==
    ASSUME AuthInv, NEW r \in Requests, FindActive(r)
    PROVE  AuthInv'
<1> DEFINE l == lookup[r]
<1>1. /\ UNCHANGED <<now, revokedAt, entries, touches, lag, rejected, touchedAt>>
      /\ lookup' = [lookup EXCEPT ![r] = [step |-> "found", hash |-> l.hash,
                                          started |-> l.started, active |-> Active(l.hash)]]
      /\ At(r, "lookup")
  BY DEF FindActive
<1>2. l.hash \in Hashes /\ l.started \in Nat /\ l.started <= now /\ now - l.started <= LookupTimeout
  BY <1>1, InFlight DEF At
<1>3. Active(l.hash) \in BOOLEAN
  BY DEF Active
<1>4. lookup' \in [Requests -> Lookup \cup {Idle}]
  BY <1>1, <1>2, <1>3 DEF AuthInv, TypeOK, Lookup
<1>5. LookupsSound'
  <2>1. lookup'[r] = [step |-> "found", hash |-> l.hash,
                      started |-> l.started, active |-> Active(l.hash)]
        /\ \A s \in Requests : s # r => lookup'[s] = lookup[s]
    BY <1>1 DEF AuthInv, TypeOK
  <2>2. ASSUME NEW s \in Requests, s # r, ~At(s, "idle")'
        PROVE  LookupSound(lookup'[s])
    BY <2>1, <2>2 DEF AuthInv, LookupsSound, At
  <2>3. Active(l.hash) => l.hash \in Issued /\ ~Revoked(l.hash)
    BY DEF Active, Revoked
  <2> HIDE DEF l
  <2>4. LookupSound(lookup'[r])
    BY <1>2, <2>1, <2>3 DEF LookupSound
  <2>5. \A s \in Requests : ~At(s, "idle")' => LookupSound(lookup'[s])
    BY <2>2, <2>4
  <2> QED BY <1>1, <2>5 DEF LookupsSound, LookupSound, Revoked, Active
<1> QED BY <1>1, <1>4, <1>5
        DEF AuthInv, TypeOK, EntriesSound, RevokedBefore, TouchesSound, RevocationPropagates,
            RejectionsAreTrue, Revoked, Active

\* A lookup that fails decides nothing.
LEMMA UnavailableStep ==
    ASSUME AuthInv, NEW r \in Requests, Unavailable(r)
    PROVE  AuthInv'
<1>1. /\ UNCHANGED <<now, revokedAt, entries, touches, lag, rejected, touchedAt>> /\ Leave(r)
  BY DEF Unavailable
<1> QED BY <1>1, LeaveKeeps
        DEF AuthInv, TypeOK, EntriesSound, RevokedBefore, TouchesSound, RevocationPropagates,
            RejectionsAreTrue, Revoked, Active

\* A touch is dated by its lookup, which is at most LookupTimeout old.
LEMMA TouchKeeps ==
    ASSUME AuthInv, NEW k \in Issued, NEW t \in Nat, t <= now, Touch(k, t), now' = now
    PROVE  /\ TouchesSound'
           /\ touches' \in [Issued -> Time \cup {Never}] /\ touchedAt' \in [Issued -> Time \cup {Never}]
<1>1. /\ touches \in [Issued -> Time \cup {Never}] /\ touchedAt \in [Issued -> Time \cup {Never}]
      /\ now \in Time /\ t \in Time /\ Never \notin Time /\ TouchInterval \in Nat
  BY AuthAssumption DEF AuthInv, TypeOK, Time
<1>2. CASE ~ShouldTouch(k, t)
  BY <1>1, <1>2 DEF Touch, AuthInv, TouchesSound
<1>3. CASE ShouldTouch(k, t)
  <2>1. touches' = [TouchRoom(t) EXCEPT ![k] = t] /\ touchedAt' = [touchedAt EXCEPT ![k] = t]
    BY <1>3 DEF Touch
  <2>2. /\ TouchRoom(t) \in [Issued -> Time \cup {Never}]
        /\ \A j \in Issued : \/ TouchRoom(t)[j] = touches[j]
                             \/ /\ TouchRoom(t)[j] = Never /\ touches[j] # Never
                                /\ ~(Since(t, touches[j]) < TouchInterval)
    BY <1>1 DEF TouchRoom
  <2>3. touches'[k] = t /\ touchedAt'[k] = t
        /\ \A j \in Issued : j # k => touches'[j] = TouchRoom(t)[j] /\ touchedAt'[j] = touchedAt[j]
    BY <1>1, <2>1, <2>2
  <2>4. ASSUME NEW j \in Issued, j # k
        PROVE  IF touches'[j] # Never THEN touchedAt'[j] = touches'[j]
               ELSE touchedAt'[j] # Never => now - touchedAt'[j] >= TouchInterval
    <3>1. CASE TouchRoom(t)[j] = touches[j]
      BY <2>3, <2>4, <3>1 DEF AuthInv, TouchesSound
    <3>2. CASE /\ TouchRoom(t)[j] = Never /\ touches[j] # Never
               /\ ~(Since(t, touches[j]) < TouchInterval)
      <4>1. touchedAt[j] = touches[j] /\ touches[j] \in Time
        BY <1>1, <3>2 DEF AuthInv, TouchesSound
      <4>2. now - touches[j] >= TouchInterval
        <5>1. CASE t > touches[j]
          BY <1>1, <3>2, <4>1, <5>1 DEF Since, Time
        <5>2. CASE ~(t > touches[j])
          BY <1>1, <3>2, <4>1, <5>2, AuthAssumption DEF Since, Time
        <5> QED BY <5>1, <5>2
      <4> QED BY <2>3, <2>4, <3>2, <4>1, <4>2
    <3> QED BY <2>2, <3>1, <3>2
  <2>5. TouchesSound'
    BY <1>1, <2>3, <2>4 DEF TouchesSound
  <2> QED BY <1>1, <2>1, <2>2, <2>5
<1> QED BY <1>2, <1>3

\* A key that was found is let in within a LookupTimeout of its revocation.
LEMMA ResolvedStep ==
    ASSUME AuthInv, NEW r \in Requests, Resolved(r)
    PROVE  AuthInv'
<1> DEFINE h == lookup[r].hash
           t == lookup[r].started
<1>1. /\ UNCHANGED <<now, revokedAt>> /\ At(r, "found") /\ lookup[r].active
      /\ Store(h, "resolved", t) /\ Touch(h, t) /\ Admit(h) /\ Leave(r)
  BY DEF Resolved
<1>2. h \in Hashes /\ t \in Nat /\ now \in Nat /\ t <= now /\ now - t <= LookupTimeout /\ ~At(r, "idle")
  BY <1>1, InFlight DEF At
<1>3. h \in Issued /\ (Revoked(h) => t <= revokedAt[h])
  BY <1>1, <1>2 DEF AuthInv, LookupsSound, LookupSound, At
<1> HIDE DEF h, t
<1>4. EntriesSound' /\ entries' \in [Hashes -> EntryType]
  BY <1>1, <1>2, <1>3, StoreKeeps
<1>5. /\ TouchesSound' /\ touches' \in [Issued -> Time \cup {Never}]
      /\ touchedAt' \in [Issued -> Time \cup {Never}]
  BY <1>1, <1>2, <1>3, TouchKeeps
<1>6. LookupsSound' /\ lookup' \in [Requests -> Lookup \cup {Idle}]
  BY <1>1, LeaveKeeps
<1>7. RevocationPropagates' /\ lag' \in [Issued -> Time]
  <2>1. lag' = IF Revoked(h) THEN [lag EXCEPT ![h] = now - revokedAt[h]] ELSE lag
    BY <1>1, <1>3 DEF Admit, Active, Revoked
  <2>2. Revoked(h) => now - revokedAt[h] \in Time /\ now - revokedAt[h] < TTL
    <3>1. Revoked(h) => revokedAt[h] \in Time /\ revokedAt[h] <= now /\ now \in Time
      BY <1>3 DEF AuthInv, TypeOK, RevokedBefore, Revoked
    <3> QED BY <1>2, <1>3, <3>1, AuthAssumption DEF Time
  <2> QED BY <2>1, <2>2 DEF AuthInv, TypeOK, RevocationPropagates
<1>8. rejected' = rejected
  BY <1>1 DEF Admit
<1> QED BY <1>1, <1>4, <1>5, <1>6, <1>7, <1>8
        DEF AuthInv, TypeOK, RevokedBefore, RejectionsAreTrue, Revoked, Active, EntryType

\* A key that was not found is not active, and stays so.
LEMMA NotFoundStep ==
    ASSUME AuthInv, NEW r \in Requests, NotFound(r)
    PROVE  AuthInv'
<1> DEFINE h == lookup[r].hash
           t == lookup[r].started
<1>1. /\ UNCHANGED <<now, revokedAt, touches, touchedAt>> /\ At(r, "found") /\ ~lookup[r].active
      /\ Store(h, "rejected", t) /\ Reject(h) /\ Leave(r)
  BY DEF NotFound
<1>2. h \in Hashes /\ t \in Nat /\ t <= now /\ ~At(r, "idle")
  BY <1>1, InFlight DEF At
<1>3. ~Active(h)
  BY <1>1, <1>2 DEF AuthInv, LookupsSound, LookupSound, At
<1> HIDE DEF h, t
<1>4. EntriesSound' /\ entries' \in [Hashes -> EntryType]
  BY <1>1, <1>2, <1>3, StoreKeeps
<1>5. LookupsSound' /\ lookup' \in [Requests -> Lookup \cup {Idle}]
  BY <1>1, LeaveKeeps
<1>6. rejected' = rejected \cup ({h} \cap Issued) /\ lag' = lag
  BY <1>1 DEF Reject
<1>7. RejectionsAreTrue' /\ rejected' \subseteq Issued
  BY <1>1, <1>3, <1>6 DEF AuthInv, TypeOK, RejectionsAreTrue, Active
<1> QED BY <1>1, <1>4, <1>5, <1>6, <1>7
        DEF AuthInv, TypeOK, RevokedBefore, RevocationPropagates, TouchesSound, Revoked, Active,
            EntryType

\* A revocation is later than every lookup that found the key, and than the date
\* of every entry.
LEMMA RevokeStep ==
    ASSUME AuthInv, NEW k \in Issued, Revoke(k)
    PROVE  AuthInv'
<1>1. /\ UNCHANGED <<now, entries, touches, lookup, lag, rejected, touchedAt>>
      /\ revokedAt' = [revokedAt EXCEPT ![k] = now] /\ revokedAt[k] = Never
      /\ now \in Time /\ now \in Nat /\ Never \notin Time /\ k \in Hashes
  BY AuthAssumption DEF Revoke, Active, AuthInv, TypeOK, Time
<1>2. /\ revokedAt'[k] = now /\ \A j \in Issued : j # k => revokedAt'[j] = revokedAt[j]
      /\ revokedAt' \in [Issued -> Time \cup {Never}]
  BY <1>1 DEF AuthInv, TypeOK
<1>3. \A h \in Hashes : ~Active(h) => ~Active(h)'
  BY <1>1, <1>2 DEF Active
<1>4. LookupsSound'
  BY <1>1, <1>2, <1>3, InFlight DEF AuthInv, LookupsSound, LookupSound, At, Revoked
<1>5. EntriesSound'
  BY <1>1, <1>2, <1>3 DEF AuthInv, EntriesSound, Revoked
<1>6. RevokedBefore'
  BY <1>1, <1>2 DEF AuthInv, RevokedBefore, Revoked
<1>7. RejectionsAreTrue'
  BY <1>1, <1>3, AuthAssumption DEF AuthInv, TypeOK, RejectionsAreTrue
<1> QED BY <1>1, <1>2, <1>4, <1>5, <1>6, <1>7
        DEF AuthInv, TypeOK, RevocationPropagates, TouchesSound


\* Time passes unless a lookup has used up its own.
LEMMA TickStep ==
    ASSUME AuthInv, Tick
    PROVE  AuthInv'
<1>1. /\ UNCHANGED <<revokedAt, entries, touches, lookup, lag, rejected, touchedAt>>
      /\ now' = now + 1 /\ now \in Nat /\ now' \in Time
  BY AuthAssumption DEF Tick, AuthInv, TypeOK, Time
<1>2. LookupsSound'
  <2>1. ASSUME NEW r \in Requests, ~At(r, "idle")
        PROVE  /\ lookup[r].started <= now + 1 /\ now + 1 - lookup[r].started <= LookupTimeout
               /\ LookupSound(lookup[r])
    <3>1. lookup[r].started \in Nat /\ lookup[r].started <= now
      BY <2>1, InFlight
    <3>2. now - lookup[r].started < LookupTimeout
      BY <2>1 DEF Tick
    <3>3. LookupSound(lookup[r])
      BY <2>1 DEF AuthInv, LookupsSound
    <3> QED BY <1>1, <3>1, <3>2, <3>3, AuthAssumption
  <2>2. \A r \in Requests : At(r, "idle")' = At(r, "idle")
    BY <1>1 DEF At
  <2>3. ASSUME NEW r \in Requests, ~At(r, "idle")
        PROVE  LookupSound(lookup[r])'
    <3>1. lookup' = lookup /\ revokedAt' = revokedAt /\ now' = now + 1
      BY <1>1
    <3>2. PICK l : l = lookup[r]
      OBVIOUS
    <3>3. lookup'[r] = l
      BY <3>1, <3>2
    <3>4. l.started <= now' /\ now' - l.started <= LookupTimeout
      <4>1. lookup[r].started <= now + 1 /\ now + 1 - lookup[r].started <= LookupTimeout
        BY <2>1, <2>3
      <4>2. now \in Nat /\ lookup[r].started \in Nat /\ LookupTimeout \in Nat
        BY <1>1, <2>3, InFlight, AuthAssumption
      <4>3. now' = now + 1 /\ l.started = lookup[r].started
        BY <3>1, <3>2
      <4>4. l.started <= now + 1 /\ now + 1 - l.started <= LookupTimeout
        BY <4>1, <4>3
      <4> QED BY <4>2, <4>3, <4>4
    <3>5. LookupSound(l)
      <4>1. LookupSound(lookup[r])
        BY <2>1, <2>3
      <4> QED BY <3>2, <4>1
    <3>6. CASE l.active
      BY <3>1, <3>3, <3>4, <3>5, <3>6 DEF LookupSound, Revoked, Active
    <3>7. CASE ~l.active
      BY <3>1, <3>3, <3>4, <3>5, <3>7 DEF LookupSound, Revoked, Active
    <3> QED BY <3>6, <3>7
  <2> QED BY <2>2, <2>3 DEF LookupsSound
<1>3. EntriesSound'
  <2>1. \A h \in Hashes : entries[h].expires \in Nat
    BY DEF AuthInv, TypeOK
  <2>2. \A h \in Hashes : entries'[h].expires <= now' + TTL
    BY <1>1, <2>1, AuthAssumption DEF AuthInv, EntriesSound
  <2> QED BY <1>1, <2>2 DEF AuthInv, EntriesSound, Revoked, Active
<1>4. RevokedBefore'
  <2>1. \A k \in Issued : Revoked(k) => revokedAt[k] \in Nat
    BY AuthAssumption DEF AuthInv, TypeOK, Time, Revoked
  <2> QED BY <1>1, <2>1 DEF AuthInv, RevokedBefore, Revoked
<1>5. TouchesSound'
  <2>1. \A k \in Issued : touchedAt[k] # Never => touchedAt[k] \in Nat
    BY AuthAssumption DEF AuthInv, TypeOK, Time
  <2> QED BY <1>1, <2>1, AuthAssumption DEF AuthInv, TouchesSound
<1> QED BY <1>1, <1>2, <1>3, <1>4, <1>5
        DEF AuthInv, TypeOK, RevocationPropagates, RejectionsAreTrue, Active

-----------------------------------------------------------------------------
\* Initially nobody knows anything.
LEMMA InitAuth == Init => AuthInv
<1> SUFFICES ASSUME Init PROVE AuthInv
  OBVIOUS
<1>1. 0 \in Time /\ 0 < TTL
  BY AuthAssumption DEF Time
<1>2. TypeOK
  BY <1>1 DEF Init, TypeOK, NoEntry
<1> QED BY <1>1, <1>2, AuthAssumption
        DEF Init, AuthInv, LookupsSound, EntriesSound, RevokedBefore, TouchesSound,
            RevocationPropagates, RejectionsAreTrue, At, Idle, NoEntry, Revoked

\* The inductive invariant of the cache.
THEOREM CacheInvariance == Spec => []AuthInv
<1>1. AuthInv /\ [Next]_vars => AuthInv'
  <2> SUFFICES ASSUME AuthInv, [Next]_vars PROVE AuthInv'
    OBVIOUS
  <2>1. CASE UNCHANGED vars
    BY <2>1 DEF vars, AuthInv, TypeOK, LookupsSound, LookupSound, EntriesSound, RevokedBefore,
                TouchesSound, RevocationPropagates, RejectionsAreTrue, At, Revoked, Active
  <2> QED BY <2>1, HitStep, StartStep, FindStep, UnavailableStep, ResolvedStep, NotFoundStep,
             RevokeStep, TickStep DEF Next
<1> QED BY <1>1, InitAuth, PTL DEF Spec

\* No request is let in a TTL or more after its key was revoked.
THEOREM RevocationsPropagate == Spec => []RevocationPropagates
<1>1. AuthInv => RevocationPropagates
  BY DEF AuthInv
<1> QED BY <1>1, CacheInvariance, PTL

\* Who is told that its key is invalid holds no active key, and never will again.
THEOREM RejectionsStayTrue == Spec => []RejectionsAreTrue
<1>1. AuthInv => RejectionsAreTrue
  BY DEF AuthInv
<1> QED BY <1>1, CacheInvariance, PTL


-----------------------------------------------------------------------------
(* The bound of the cache, and the distance of touches. *)

Live == {h \in Hashes : entries[h] # NoEntry}
Bounded == entries \in [Hashes -> EntryType] /\ IsFiniteSet(Live) /\ Cardinality(Live) <= Capacity

\* Storing makes room first, so one more decision fits.
LEMMA StoreFits ==
    ASSUME Bounded, NEW h \in Hashes, NEW outcome \in {"resolved", "rejected"}, NEW t \in Nat,
           Store(h, outcome, t)
    PROVE  Bounded'
<1> DEFINE room == Room(t)
           kept == {x \in Hashes : room[x] # NoEntry}
<1>1. NoEntry \in EntryType /\ entries \in [Hashes -> EntryType]
  BY DEF NoEntry, EntryType, Bounded
<1>2. room \in [Hashes -> EntryType] /\ IsFiniteSet(kept) /\ Cardinality(kept) < Capacity
  <2>1. Size(entries, NoEntry) = Cardinality(Live) /\ Cardinality(Live) \in Nat
    BY <1>1, FS_CardinalityType DEF Size, Live, Bounded
  <2>2. CASE Size(entries, NoEntry) < Capacity
    BY <1>1, <2>1, <2>2 DEF Room, Bounded, Live
  <2>3. CASE ~(Size(entries, NoEntry) < Capacity) /\ Size(Swept(t), NoEntry) < Capacity
    <3>1. room = Swept(t) /\ Swept(t) \in [Hashes -> EntryType]
      BY <1>1, <2>3 DEF Room, Swept
    <3>2. kept \in SUBSET Live
      BY <3>1 DEF Swept, Live
    <3>3. IsFiniteSet(kept)
      BY <3>2, FS_Subset DEF Bounded
    <3>4. Size(Swept(t), NoEntry) = Cardinality(kept)
      BY <3>1 DEF Size
    <3> QED BY <2>3, <3>1, <3>3, <3>4
  <2>4. CASE ~(Size(entries, NoEntry) < Capacity) /\ ~(Size(Swept(t), NoEntry) < Capacity)
    <3>1. room = [x \in Hashes |-> NoEntry]
      BY <2>4 DEF Room
    <3>2. kept = {}
      BY <3>1
    <3> HIDE DEF kept
    <3> QED BY <1>1, <3>1, <3>2, FS_EmptySet, AuthAssumption
  <2> QED BY <2>2, <2>3, <2>4
<1>3. entries' = [room EXCEPT ![h] = [outcome |-> outcome, expires |-> t + TTL]]
  BY DEF Store, Expiry
<1>4. t + TTL \in Nat
  BY AuthAssumption
<1>5. entries' \in [Hashes -> EntryType]
  BY <1>2, <1>3, <1>4 DEF EntryType
<1>6. Live' \in SUBSET (kept \cup {h})
  BY <1>2, <1>3 DEF Live, NoEntry
<1> HIDE DEF kept, room
<1>7. IsFiniteSet(kept \cup {h}) /\ Cardinality(kept \cup {h}) <= Cardinality(kept) + 1
  <2>1. Cardinality(kept) \in Nat
    BY <1>2, FS_CardinalityType
  <2>2. /\ IsFiniteSet(kept \cup {h})
        /\ Cardinality(kept \cup {h}) = IF h \in kept THEN Cardinality(kept) ELSE Cardinality(kept) + 1
    BY <1>2, FS_AddElement
  <2> QED BY <2>1, <2>2
<1>8. IsFiniteSet(Live') /\ Cardinality(Live') <= Cardinality(kept \cup {h})
  BY <1>6, <1>7, FS_Subset
<1>9. Cardinality(kept) \in Nat /\ Cardinality(Live') \in Nat /\ Cardinality(kept \cup {h}) \in Nat
  BY <1>2, <1>7, <1>8, FS_CardinalityType
<1> QED BY <1>2, <1>5, <1>7, <1>8, <1>9, AuthAssumption DEF Bounded

\* The cache holds at most Capacity decisions.
THEOREM CacheStaysBounded == Spec => []CacheIsBounded
<1>1. Init => Bounded
  <2> SUFFICES ASSUME Init PROVE Bounded
    OBVIOUS
  <2>1. entries \in [Hashes -> EntryType] /\ Live = {}
    BY DEF Init, EntryType, NoEntry, Live
  <2> QED BY <2>1, FS_EmptySet, AuthAssumption DEF Bounded
<1>2. ASSUME AuthInv, Bounded, [Next]_vars
      PROVE  Bounded'
  <2>1. CASE entries' = entries
    BY <1>2, <2>1 DEF Bounded, Live
  <2>2. ASSUME NEW r \in Requests, Resolved(r) \/ NotFound(r)
        PROVE  Bounded'
    <3>1. ~At(r, "idle")
      BY <2>2 DEF Resolved, NotFound, At
    <3>2. lookup[r].hash \in Hashes /\ lookup[r].started \in Nat
      BY <1>2, <3>1, InFlight
    <3> QED BY <1>2, <2>2, <3>2, StoreFits DEF Resolved, NotFound
  <2> QED BY <1>2, <2>1, <2>2
          DEF Next, vars, AnswerFromCache, StartLookup, FindActive, Unavailable, Revoke, Tick
<1>3. Bounded => CacheIsBounded
  BY DEF Bounded, CacheIsBounded, Size, Live
<1> QED BY <1>1, <1>2, <1>3, CacheInvariance, PTL DEF Spec

\* The last_used_at writes of a key are a touch interval apart, less the time a
\* lookup may take.
THEOREM TouchesStaySpaced == Spec => TouchesAreSpaced
<1>1. ASSUME AuthInv, [Next]_vars, NEW k \in Issued, touchedAt'[k] # touchedAt[k], touchedAt[k] # Never
      PROVE  /\ touchedAt'[k] > touchedAt[k]
             /\ touchedAt'[k] - touchedAt[k] >= TouchInterval - LookupTimeout
  <2>1. PICK r \in Requests : Resolved(r)
    BY <1>1 DEF Next, vars, AnswerFromCache, StartLookup, FindActive, Unavailable, NotFound, Revoke,
                Tick
  <2> DEFINE h == lookup[r].hash
             t == lookup[r].started
  <2>2. /\ t \in Nat /\ t <= now /\ now - t <= LookupTimeout /\ now \in Nat
        /\ Touch(h, t)
    BY <1>1, <2>1, InFlight DEF Resolved, At
  <2> HIDE DEF h, t
  <2>3. touchedAt \in [Issued -> Time \cup {Never}] /\ touchedAt[k] \in Nat
    BY <1>1, AuthAssumption DEF AuthInv, TypeOK, Time
  <2>4. h = k /\ ShouldTouch(k, t) /\ touchedAt'[k] = t
    BY <1>1, <2>2, <2>3 DEF Touch
  <2>5. t - touchedAt[k] >= TouchInterval - LookupTimeout
    <3>1. CASE touches[k] = Never
      <4>1. now - touchedAt[k] >= TouchInterval
        BY <1>1, <3>1 DEF AuthInv, TouchesSound
      <4> QED BY <2>2, <2>3, <4>1, AuthAssumption
    <3>2. CASE touches[k] # Never
      <4>1. Since(t, touchedAt[k]) >= TouchInterval
        BY <1>1, <2>4, <3>2 DEF ShouldTouch, AuthInv, TouchesSound
      <4> QED BY <2>2, <2>3, <4>1, AuthAssumption DEF Since
    <3> QED BY <3>1, <3>2
  <2> QED BY <2>2, <2>3, <2>4, <2>5, AuthAssumption
<1>2. AuthInv /\ [Next]_vars =>
         \A k \in Issued : touchedAt'[k] # touchedAt[k] /\ touchedAt[k] # Never =>
            /\ touchedAt'[k] > touchedAt[k]
            /\ touchedAt'[k] - touchedAt[k] >= TouchInterval - LookupTimeout
  BY <1>1
<1> QED BY <1>2, CacheInvariance, PTL DEF Spec, TouchesAreSpaced

=============================================================================
