------------------------------ MODULE AuthCache ------------------------------
(***************************************************************************)
(* internal/apikey: authentication of one API key by several API           *)
(* processes.  PostgreSQL holds the key and its tenant; every process has  *)
(* a local cache (L1), all share one in Redis (L2).  A change commits      *)
(* first and then drops both caches and tells the other processes through  *)
(* a Redis channel that may lose messages.                                 *)
(*                                                                         *)
(* What a change sets is left out: the committed states of the key and its *)
(* tenant are numbered versions, and a snapshot holds the versions that    *)
(* the two queries of Load saw.  Time is counted in ticks: lifetimes are   *)
(* the ticks left.  The clocks of the processes and of Redis agree.  The   *)
(* process model-velo-admin is one that serves no requests.  Verification  *)
(* of the secret is left out: every request presents the right one.        *)
(***************************************************************************)
EXTENDS Integers, Sequences, FiniteSets

CONSTANTS
  Instances,  \* API processes
  Requests,   \* concurrent authentications
  L1TTL, L2TTL,
  LoadTime,   \* ticks from the start of a load to the last use of its result
  MaxCalls,   \* bound: administrative calls
  MaxFaults   \* bound: failed calls of Redis, lost messages, restarts

ASSUME AuthCacheAssumption ==
  /\ {L1TTL, L2TTL, LoadTime} \subseteq Nat \ {0}
  /\ L1TTL <= L2TTL
  /\ MaxCalls \in Nat /\ MaxFaults \in Nat

VARIABLES
  version,  \* Versions, the committed state of the key and its tenant
  since,    \* [1..MaxCalls -> 0..Bound+1], ticks since a version was superseded
  l1,       \* [Instances -> Entries], l1Cache
  l2,       \* Shared, what Redis holds for the key
  flight,   \* [Instances -> Flights], the load under singleflight
  req,      \* [Requests -> Calls], Authenticate
  pending,  \* [Instances -> Seq(Changes)], committed, its invalidation not begun
  lock,     \* [Instances -> Locks], the holder of invalidationMu
  inbox,    \* [Instances -> Seq(Changes)], messages of the subscription
  seen,     \* [Instances -> Nat], the newest change whose invalidation has begun
  calls, faults

caches == <<l1, l2>>
loads == <<flight, req>>
invalidation == <<pending, lock, inbox, seen>>
authVars == <<version, since, caches, loads, invalidation, calls, faults>>

\* The most complete ticks for which a cache may hold a superseded version, and
\* for which one may decide a request.
CacheBound == LoadTime + L2TTL - 1
Bound == CacheBound + LoadTime

Versions == 1..(MaxCalls + 1)
Changes == [scope : {"key", "tenant"}, version : Versions]

\* What a cache holds; ttl counts down.
Entries == [row : Versions, grants : Versions, ttl : Nat]
NoEntry == <<>>
Keys == {"value", "keyIndex", "tenantIndex"}
Shared == [keys : SUBSET Keys, members : SUBSET {"value", "keyIndex"},
           row : 0..(MaxCalls + 1), grants : 0..(MaxCalls + 1), ttl : 0..L2TTL]
Nothing == [keys |-> {}, members |-> {}, row |-> 0, grants |-> 0, ttl |-> 0]

\* same: the generation is still the one the load began with.
Flights == [step : {"l2", "fill", "row", "grants"}, row : Nat, grants : Nat,
            ttl : Nat, same : BOOLEAN, left : 0..LoadTime]
NoFlight == <<>>

\* once: promoteOnce and touchOnce of the shared load have run.
Calls ==
  [step : {"wait"}, at : Instances]
  \cup [step : {"loaded"}, at : Instances, source : {"l2", "postgres"},
        row : Versions, grants : Versions, same : BOOLEAN, once : BOOLEAN,
        peers : SUBSET Requests, left : 0..LoadTime]
Idle == <<>>

Locks == [scope : {"key", "tenant"}, version : Versions, found : SUBSET Keys, own : BOOLEAN]
Free == <<>>

TypeOK ==
  /\ version \in Versions
  /\ since \in [1..MaxCalls -> 0..(Bound + 1)]
  /\ l1 \in [Instances -> Entries \cup {NoEntry}]
  /\ l2 \in Shared
  /\ flight \in [Instances -> Flights \cup {NoFlight}]
  /\ req \in [Requests -> Calls \cup {Idle}]
  /\ pending \in [Instances -> Seq(Changes)]
  /\ lock \in [Instances -> Locks \cup {Free}]
  /\ inbox \in [Instances -> Seq(Changes)]
  /\ seen \in [Instances -> 0..(MaxCalls + 1)]
  /\ calls \in 0..MaxCalls /\ faults \in 0..MaxFaults

Init ==
  /\ version = 1
  /\ since = [v \in 1..MaxCalls |-> 0]
  /\ l1 = [i \in Instances |-> NoEntry]
  /\ l2 = Nothing
  /\ flight = [i \in Instances |-> NoFlight]
  /\ req = [r \in Requests |-> Idle]
  /\ pending = [i \in Instances |-> <<>>]
  /\ lock = [i \in Instances |-> Free]
  /\ inbox = [i \in Instances |-> <<>>]
  /\ seen = [i \in Instances |-> 0]
  /\ calls = 0 /\ faults = 0

Fault ==
  /\ faults < MaxFaults
  /\ faults' = faults + 1

-----------------------------------------------------------------------------
(* Administrative changes: one transaction, then the invalidation *)

Call(i, scope, v) ==
  /\ calls < MaxCalls /\ calls' = calls + 1
  /\ version' = v
  /\ pending' = [pending EXCEPT ![i] = Append(@, [scope |-> scope, version |-> v])]
  /\ UNCHANGED <<since, caches, loads, lock, inbox, seen, faults>>

\* A row that is revoked already is not written, but the caches are dropped.
Revoke(i) == Call(i, "key", version + 1) \/ Call(i, "key", version)
Disable(i) == Call(i, "key", version + 1) \/ Call(i, "key", version)
UpdateKeyStatusAudited(i) == Call(i, "key", version + 1)

\* The status and the model grants of the tenant change together.
UpdateTenantAudited(i) == Call(i, "tenant", version + 1)

-----------------------------------------------------------------------------
(* Invalidation *)

Later(v, w) == IF v > w THEN v ELSE w

\* Redis keys that InvalidateKey or InvalidateTenant of cache_redis.go will delete.
KeysToDelete(scope) ==
  IF scope = "key"
    THEN {"keyIndex"} \cup (IF "keyIndex" \in l2.keys THEN {"value"} ELSE {})
    ELSE {"tenantIndex"} \cup (IF "tenantIndex" \in l2.keys THEN l2.members ELSE {})

\* Under invalidationMu: the generation grows, the L1 entry goes, the index is read.
BeginInvalidation(i, change, own) ==
  /\ lock[i] = Free
  /\ lock' = [lock EXCEPT ![i] = [scope |-> change.scope, version |-> change.version,
                                  found |-> KeysToDelete(change.scope), own |-> own]]
  /\ seen' = [seen EXCEPT ![i] = Later(@, change.version)]
  /\ l1' = [l1 EXCEPT ![i] = NoEntry]
  /\ flight' = [flight EXCEPT ![i] = IF @ = NoFlight THEN @ ELSE [@ EXCEPT !.same = FALSE]]
  /\ req' = [r \in Requests |->
       IF req[r] # Idle /\ req[r].step = "loaded" /\ req[r].at = i
         THEN [req[r] EXCEPT !.same = FALSE] ELSE req[r]]
  /\ UNCHANGED <<version, since, l2, calls, faults>>

Invalidate(i) ==
  /\ pending[i] # <<>>
  /\ BeginInvalidation(i, Head(pending[i]), TRUE)
  /\ pending' = [pending EXCEPT ![i] = Tail(@)]
  /\ UNCHANGED inbox

handleInvalidation(i) ==
  /\ inbox[i] # <<>>
  /\ BeginInvalidation(i, Head(inbox[i]), FALSE)
  /\ inbox' = [inbox EXCEPT ![i] = Tail(@)]
  /\ UNCHANGED pending

Without(keys) ==
  LET rest == l2.keys \ keys IN
  [keys |-> rest,
   members |-> IF "tenantIndex" \in rest THEN l2.members ELSE {},
   row |-> IF "value" \in rest THEN l2.row ELSE 0,
   grants |-> IF "value" \in rest THEN l2.grants ELSE 0,
   ttl |-> IF rest = {} THEN 0 ELSE l2.ttl]

\* Unlock; an own change is announced to the processes in S first.
Release(i, S) ==
  /\ inbox' = [j \in Instances |->
       IF lock[i].own /\ j \in S
         THEN Append(inbox[j], [scope |-> lock[i].scope, version |-> lock[i].version])
         ELSE inbox[j]]
  /\ lock' = [lock EXCEPT ![i] = Free]
  /\ UNCHANGED <<version, since, l1, loads, pending, seen, calls>>

EndInvalidation(i) ==
  /\ lock[i] # Free
  /\ l2' = Without(lock[i].found)
  /\ Release(i, Instances)
  /\ UNCHANGED faults

\* An error of Redis is counted and otherwise ignored; some subscriptions may
\* be down.
InvalidationFails(i) ==
  /\ lock[i] # Free
  /\ Fault
  /\ l2' \in {l2, Without(lock[i].found)}
  /\ \E S \in SUBSET Instances : Release(i, S)

-----------------------------------------------------------------------------
(* Authentication *)

\* A hit in L1, in Lookup or at the start of load, decides at once and changes
\* nothing.  Otherwise loads.DoChan waits for the load that is running, or runs
\* load, which reads the generation first.
LookupMiss(r, i) ==
  /\ req[r] = Idle
  /\ l1[i] = NoEntry \/ flight[i] # NoFlight
  /\ req' = [req EXCEPT ![r] = [step |-> "wait", at |-> i]]
  /\ flight' = [flight EXCEPT ![i] = IF @ # NoFlight THEN @
       ELSE [step |-> "l2", row |-> 0, grants |-> 0, ttl |-> 0, same |-> TRUE, left |-> LoadTime]]
  /\ UNCHANGED <<version, since, caches, invalidation, calls, faults>>

Loaded(i, source, snapshot, same, peers, left) ==
  [step |-> "loaded", at |-> i, source |-> source, row |-> snapshot.row,
   grants |-> snapshot.grants, same |-> same, once |-> FALSE, peers |-> peers, left |-> left]

\* The context of the caller ends; the load goes on.
Cancel(r) ==
  /\ req[r] # Idle /\ req[r].step = "wait"
  /\ Fault
  /\ req' = [req EXCEPT ![r] = Idle]
  /\ UNCHANGED <<version, since, caches, flight, invalidation, calls>>

InFlight(i, step) == flight[i] # NoFlight /\ flight[i].step = step

Waiting(i) == {r \in Requests : req[r] # Idle /\ req[r].step = "wait" /\ req[r].at = i}

\* load returns: every waiting caller gets the same result.
Return(i, source, snapshot) ==
  /\ flight' = [flight EXCEPT ![i] = NoFlight]
  /\ req' = [r \in Requests |->
       IF r \in Waiting(i)
         THEN Loaded(i, source, snapshot, flight[i].same, Waiting(i), flight[i].left)
         ELSE req[r]]

GoTo(i, step) == flight' = [flight EXCEPT ![i].step = step]

LoadShared(i) ==
  /\ InFlight(i, "l2")
  /\ IF "value" \in l2.keys
       THEN flight' = [flight EXCEPT ![i].step = "fill", ![i].row = l2.row,
                                     ![i].grants = l2.grants, ![i].ttl = l2.ttl]
       ELSE GoTo(i, "row")
  /\ UNCHANGED <<version, since, caches, req, invalidation, calls, faults>>

\* An error of Redis, or a payload that does not decode, which is deleted.
LoadSharedFails(i) ==
  /\ InFlight(i, "l2")
  /\ Fault
  /\ GoTo(i, "row")
  /\ \/ UNCHANGED l2
     \/ "value" \in l2.keys /\ l2' = Without({"value"})
  /\ UNCHANGED <<version, since, l1, req, invalidation, calls>>

\* l1Cache.Set: no longer than the shared value may live.
L1Entry(snapshot) ==
  [row |-> snapshot.row, grants |-> snapshot.grants,
   ttl |-> IF snapshot.ttl < L1TTL THEN snapshot.ttl ELSE L1TTL]

\* Mutant of FillL1: the shared lifetime is forgotten.
FillL1Fully(i) ==
  /\ InFlight(i, "fill") /\ lock[i] = Free
  /\ l1' = IF flight[i].same /\ flight[i].ttl > 0
             THEN [l1 EXCEPT ![i] = [L1Entry(flight[i]) EXCEPT !.ttl = L1TTL]] ELSE l1
  /\ Return(i, "l2", flight[i])
  /\ UNCHANGED <<version, since, l2, invalidation, calls, faults>>

FillL1(i) ==
  /\ InFlight(i, "fill") /\ lock[i] = Free
  /\ l1' = IF flight[i].same /\ flight[i].ttl > 0
             THEN [l1 EXCEPT ![i] = L1Entry(flight[i])] ELSE l1
  /\ Return(i, "l2", flight[i])
  /\ UNCHANGED <<version, since, l2, invalidation, calls, faults>>

\* postgresSnapshotSource.Load: two queries, outside a transaction.
LoadRow(i) ==
  /\ InFlight(i, "row")
  /\ flight' = [flight EXCEPT ![i].step = "grants", ![i].row = version]
  /\ UNCHANGED <<version, since, caches, req, invalidation, calls, faults>>

\* Mutant of LoadGrants: the generation is read when the load ends.
LoadGrantsThenGeneration(i) ==
  /\ InFlight(i, "grants")
  /\ flight' = [flight EXCEPT ![i] = NoFlight]
  /\ req' = [r \in Requests |->
       IF r \in Waiting(i)
         THEN Loaded(i, "postgres", [row |-> flight[i].row, grants |-> version], TRUE,
                     Waiting(i), flight[i].left)
         ELSE req[r]]
  /\ UNCHANGED <<version, since, caches, invalidation, calls, faults>>

LoadGrants(i) ==
  /\ InFlight(i, "grants")
  /\ Return(i, "postgres", [row |-> flight[i].row, grants |-> version])
  /\ UNCHANGED <<version, since, caches, invalidation, calls, faults>>

\* PostgreSQL fails or authCacheLoadTimeout has passed: the callers get an error.
LoadFails(i) ==
  /\ flight[i] # NoFlight
  /\ (flight[i].left = 0 /\ UNCHANGED faults) \/ Fault
  /\ flight' = [flight EXCEPT ![i] = NoFlight]
  /\ req' = [r \in Requests |-> IF r \in Waiting(i) THEN Idle ELSE req[r]]
  /\ UNCHANGED <<version, since, caches, invalidation, calls>>

Promotes(r) ==
  req[r].source = "postgres" /\ req[r].same /\ ~req[r].once

\* The caller ends; its peers see that promoteOnce has run.
Finish(r) ==
  req' = [q \in Requests |->
    IF q = r THEN Idle
    ELSE IF /\ req[q] # Idle /\ req[q].step = "loaded" /\ req[q].peers = req[r].peers
            /\ r \in req[q].peers /\ Promotes(r)
      THEN [req[q] EXCEPT !.once = TRUE] ELSE req[q]]

Stored(r) == [keys |-> Keys, members |-> {"value", "keyIndex"},
              row |-> req[r].row, grants |-> req[r].grants, ttl |-> L2TTL]

\* Promote under the read lock of invalidationMu, then the verdict.  L1 is set
\* whether or not Redis takes the value.
Promote(r) ==
  /\ req[r] # Idle /\ req[r].step = "loaded" /\ Promotes(r)
  /\ lock[req[r].at] = Free
  /\ \/ l2' = Stored(r) /\ UNCHANGED faults
     \/ UNCHANGED l2 /\ Fault
  /\ l1' = [l1 EXCEPT ![req[r].at] =
       L1Entry([row |-> req[r].row, grants |-> req[r].grants, ttl |-> L2TTL])]
  /\ Finish(r)
  /\ UNCHANGED <<version, since, flight, invalidation, calls>>

\* Nothing to promote, only the checks; a snapshot from PostgreSQL still waits for the lock.
DecideOnly(r) ==
  /\ req[r] # Idle /\ req[r].step = "loaded" /\ ~Promotes(r)
  /\ req[r].source = "postgres" => lock[req[r].at] = Free
  /\ Finish(r)
  /\ UNCHANGED <<version, since, caches, flight, invalidation, calls, faults>>

-----------------------------------------------------------------------------
\* Another key takes the place: the entry at the back of the list goes.
Evict(i) ==
  /\ l1[i] # NoEntry
  /\ l1' = [l1 EXCEPT ![i] = NoEntry]
  /\ UNCHANGED <<version, since, l2, loads, invalidation, calls, faults>>

\* The process stops and starts again: what it had in memory is gone.
Restart(i) ==
  /\ Fault
  /\ l1' = [l1 EXCEPT ![i] = NoEntry]
  /\ flight' = [flight EXCEPT ![i] = NoFlight]
  /\ req' = [r \in Requests |-> IF req[r] # Idle /\ req[r].at = i THEN Idle ELSE req[r]]
  /\ pending' = [pending EXCEPT ![i] = <<>>]
  /\ lock' = [lock EXCEPT ![i] = Free]
  /\ inbox' = [inbox EXCEPT ![i] = <<>>]
  /\ seen' = [seen EXCEPT ![i] = 0]
  /\ UNCHANGED <<version, since, l2, calls>>

Aged(entry) ==
  IF entry = NoEntry \/ entry.ttl <= 1 THEN NoEntry ELSE [entry EXCEPT !.ttl = @ - 1]

Less(n) == IF n > 0 THEN n - 1 ELSE 0

\* A tick: lifetimes shorten; no load outlives its time.
Tick ==
  /\ \A i \in Instances : flight[i] # NoFlight => flight[i].left > 0
  /\ \A r \in Requests : req[r] # Idle /\ req[r].step = "loaded" => req[r].left > 0
  /\ since' = [v \in 1..MaxCalls |-> IF v < version /\ since[v] <= Bound THEN since[v] + 1 ELSE since[v]]
  /\ l1' = [i \in Instances |-> Aged(l1[i])]
  /\ l2' = IF l2.ttl <= 1 THEN Nothing ELSE [l2 EXCEPT !.ttl = @ - 1]
  /\ flight' = [i \in Instances |-> IF flight[i] = NoFlight THEN NoFlight
       ELSE [flight[i] EXCEPT !.left = @ - 1, !.ttl = Less(@)]]
  /\ req' = [r \in Requests |-> IF req[r] # Idle /\ req[r].step = "loaded"
       THEN [req[r] EXCEPT !.left = @ - 1] ELSE req[r]]
  /\ UNCHANGED <<version, invalidation, calls, faults>>

Next ==
  \/ \E i \in Instances :
       \/ Revoke(i) \/ Disable(i) \/ UpdateKeyStatusAudited(i) \/ UpdateTenantAudited(i)
       \/ Invalidate(i) \/ handleInvalidation(i) \/ EndInvalidation(i) \/ InvalidationFails(i)
       \/ LoadShared(i) \/ LoadSharedFails(i) \/ FillL1(i) \/ LoadRow(i) \/ LoadGrants(i)
       \/ LoadFails(i) \/ Evict(i) \/ Restart(i)
  \/ \E r \in Requests :
       \/ \E i \in Instances : LookupMiss(r, i)
       \/ Cancel(r) \/ Promote(r) \/ DecideOnly(r)
  \/ Tick

Spec == Init /\ [][Next]_authVars

-----------------------------------------------------------------------------
\* Ticks since version v was superseded.
Age(v) == IF v = version THEN 0 ELSE since[v]

NoOlder(snapshot, ticks) == Age(snapshot.row) <= ticks /\ Age(snapshot.grants) <= ticks

\* However invalidation messages are lost, loads overlap changes and processes
\* restart: a superseded state of the key, of its tenant or of the model grants
\* stays in a local cache for no longer than a load and the lifetime of a shared
\* value, and decides a request for no longer than the load of that value more.
StaleBounded ==
  /\ \A i \in Instances : l1[i] # NoEntry => NoOlder(l1[i], CacheBound)
  /\ \A r \in Requests : req[r] # Idle /\ req[r].step = "loaded" => NoOlder(req[r], Bound)

\* What a process writes to the caches from PostgreSQL is never older than a
\* change whose invalidation it has begun: a load that overlaps the invalidation
\* does not bring the old state back.
PromotionCurrent ==
  [][\A r \in Requests : Promote(r) =>
       req[r].row >= seen[req[r].at] /\ req[r].grants >= seen[req[r].at]]_authVars
=============================================================================
