--------------------------- MODULE AuthCacheProofs ----------------------------
(***************************************************************************)
(* How long a superseded state of a key can live in the caches, and that   *)
(* no load brings back what the process has invalidated: for any number of *)
(* processes, requests, changes and faults, and any lifetimes.             *)
(***************************************************************************)
EXTENDS AuthCache, SequenceTheorems, TLAPS

\* A version that has been committed and was superseded at most k ticks ago.
Recent(v, k) == v \in 1..version /\ Age(v) <= k

\* The clock of a version starts when the next one is committed.
Clock ==
  /\ version <= calls + 1
  /\ \A v \in 1..MaxCalls : v >= version => since[v] = 0

\* What is in a cache was read at most LoadTime before it was stored, and its
\* lifetime has run down ever since.
L1Fresh(e) ==
  e # NoEntry => /\ e.ttl >= 1
                 /\ Recent(e.row, LoadTime + L2TTL - e.ttl)
                 /\ Recent(e.grants, LoadTime + L2TTL - e.ttl)

L2Fresh(s) ==
  "value" \in s.keys => /\ s.ttl >= 1
                        /\ Recent(s.row, LoadTime + L2TTL - s.ttl)
                        /\ Recent(s.grants, LoadTime + L2TTL - s.ttl)

\* The shared value may expire while its load goes on; it is then not stored.
FlightFresh(f) ==
  f # NoFlight =>
    /\ f.step = "fill" =>
         /\ Recent(f.row, Bound - f.left) /\ Recent(f.grants, Bound - f.left)
         /\ f.ttl > 0 => /\ Recent(f.row, LoadTime + L2TTL - f.ttl)
                         /\ Recent(f.grants, LoadTime + L2TTL - f.ttl)
    /\ f.step = "grants" => Recent(f.row, LoadTime - f.left)

CallFresh(q) ==
  q # Idle /\ q.step = "loaded" =>
    /\ q.source = "postgres" => Recent(q.row, LoadTime - q.left) /\ Recent(q.grants, LoadTime - q.left)
    /\ q.source = "l2" => Recent(q.row, Bound - q.left) /\ Recent(q.grants, Bound - q.left)

\* No process knows of a version that is not committed.
Committed ==
  /\ \A i \in Instances : seen[i] <= version
  /\ \A i \in Instances : lock[i] # Free => lock[i].version <= version
  /\ \A i \in Instances : \A k \in 1..Len(pending[i]) : pending[i][k].version <= version
  /\ \A i \in Instances : \A k \in 1..Len(inbox[i]) : inbox[i][k].version <= version

\* What was read under a generation that still stands is not older than what
\* the process has invalidated.
FlightCurrent(f, n) == f # NoFlight /\ f.same /\ f.step = "grants" => f.row >= n
CallCurrent(q) ==
  q # Idle /\ q.step = "loaded" /\ q.same /\ q.source = "postgres"
    => q.row >= seen[q.at] /\ q.grants >= seen[q.at]

Timely ==
  /\ \A i \in Instances : L1Fresh(l1[i])
  /\ L2Fresh(l2)
  /\ \A i \in Instances : FlightFresh(flight[i])
  /\ \A r \in Requests : CallFresh(req[r])

Current ==
  /\ \A i \in Instances : FlightCurrent(flight[i], seen[i])
  /\ \A r \in Requests : CallCurrent(req[r])

AuthInv == TypeOK /\ Clock /\ Committed /\ Timely /\ Current

-----------------------------------------------------------------------------
\* The bounds are numbers.
LEMMA Numbers ==
  /\ L1TTL \in Nat /\ L2TTL \in Nat /\ LoadTime \in Nat /\ MaxCalls \in Nat /\ MaxFaults \in Nat
  /\ L1TTL >= 1 /\ L2TTL >= 1 /\ LoadTime >= 1 /\ L1TTL <= L2TTL
  /\ CacheBound \in Nat /\ Bound \in Nat /\ CacheBound = LoadTime + L2TTL - 1
  /\ Bound = CacheBound + LoadTime
  BY AuthCacheAssumption DEF CacheBound, Bound

\* While a lifetime has not run out, its bound is that of the caches.
LEMMA LiveBound ==
  \A n \in Nat : n >= 1 => /\ LoadTime + L2TTL - n \in Int /\ CacheBound \in Int
                           /\ LoadTime + L2TTL - n <= CacheBound
  BY Numbers

\* Whatever time a load has left, the age of what it has read is within the bounds.
LEMMA LeftBound ==
  \A n \in 0..LoadTime : /\ LoadTime - n \in Int /\ LoadTime - n >= 0 /\ LoadTime - n <= LoadTime
                         /\ Bound - n \in Int /\ LoadTime - n <= Bound /\ Bound - n <= Bound
  BY Numbers

\* The durations and their sums are integers.
LEMMA Durations == LoadTime \in Int /\ L2TTL \in Int /\ CacheBound \in Int /\ Bound \in Int
  BY Numbers

\* A fault is counted up to its bound.
LEMMA FaultBound ==
  ASSUME TypeOK, Fault PROVE faults' \in 0..MaxFaults
  BY Numbers DEF TypeOK, Fault

\* A lifetime that is not over has a tick left.
LEMMA AtLeastOne ==
  ASSUME NEW n \in Nat, n > 0 PROVE n >= 1
  OBVIOUS

\* What has less of its lifetime left may be older.
LEMMA ShorterIsOlder ==
  ASSUME NEW a \in Nat, NEW b \in Nat, b <= a
  PROVE  /\ LoadTime + L2TTL - a \in Int /\ LoadTime + L2TTL - b \in Int
         /\ LoadTime + L2TTL - a <= LoadTime + L2TTL - b
  BY Numbers

\* A load entered in one local cache leaves every cache in time.
LEMMA EntryStep ==
  ASSUME TypeOK, Timely, NEW i \in Instances, NEW e \in Entries, L1Fresh(e),
         l1' = [l1 EXCEPT ![i] = e]
  PROVE  l1' \in [Instances -> Entries \cup {NoEntry}] /\ \A j \in Instances : L1Fresh(l1'[j])
  <1>1. l1 \in [Instances -> Entries \cup {NoEntry}] /\ \A j \in Instances : L1Fresh(l1[j])
    BY Zenon DEF TypeOK, Timely
  <1>2. l1' \in [Instances -> Entries \cup {NoEntry}]
    BY <1>1
  <1>3. \A j \in Instances : l1'[j] = IF j = i THEN e ELSE l1[j]
    BY <1>1
  <1> QED
    BY <1>1, <1>2, <1>3, Zenon

\* Only a tick lets a committed version grow older; a commit starts the clock of
\* the version it supersedes at 0.
Steady == since' = since /\ (version' = version \/ version' = version + 1)

\* While no time passes a version does not become older.
LEMMA SteadyAges ==
  ASSUME TypeOK, Clock, Steady, version' \in Versions
  PROVE  \A v, k : Recent(v, k) => Recent(v, k)'
  <1> SUFFICES ASSUME NEW v, NEW k, Recent(v, k) PROVE Recent(v, k)'
    OBVIOUS
  <1>1. version \in Nat /\ version' \in Nat /\ v \in Nat /\ v <= version /\ v >= 1 /\ version <= version'
    BY Numbers DEF TypeOK, Versions, Steady, Recent
  <1>2. Age(v)' = Age(v)
    <2>1. CASE v = version /\ version' = version
      BY <2>1 DEF Age
    <2>2. CASE v = version /\ version' = version + 1
      <3>1. v \in 1..MaxCalls
        BY <1>1, <2>2, Numbers DEF Versions
      <3> QED
        BY <1>1, <2>2, <3>1 DEF Age, Clock, Steady
    <2>3. CASE v # version
      BY <1>1, <2>3 DEF Age, Steady
    <2> QED
      BY <2>1, <2>2, <2>3 DEF Steady
  <1> QED
    BY <1>1, <1>2 DEF Recent

\* Hence what was fresh stays so while no tick passes.
LEMMA SteadyKeeps ==
  ASSUME TypeOK, Clock, Steady, version' \in Versions
  PROVE  /\ \A e : L1Fresh(e) => L1Fresh(e)'
         /\ \A s : L2Fresh(s) => L2Fresh(s)'
         /\ \A f : FlightFresh(f) => FlightFresh(f)'
         /\ \A q : CallFresh(q) => CallFresh(q)'
  <1>1. \A v, k : Recent(v, k) => Recent(v, k)'
    BY SteadyAges
  <1>2. \A e : L1Fresh(e) => L1Fresh(e)'
    BY <1>1 DEF L1Fresh
  <1>3. \A s : L2Fresh(s) => L2Fresh(s)'
    BY <1>1 DEF L2Fresh
  <1>4. \A f : FlightFresh(f) => FlightFresh(f)'
    BY <1>1 DEF FlightFresh
  <1>5. \A q : CallFresh(q) => CallFresh(q)'
    BY <1>1 DEF CallFresh
  <1> QED
    BY <1>2, <1>3, <1>4, <1>5

\* A bound may be raised.
LEMMA RecentLater ==
  ASSUME TypeOK, NEW v, NEW k \in Int, NEW m \in Int, k <= m, Recent(v, k)
  PROVE  Recent(v, m)
  <1>1. Age(v) \in Int
    BY Numbers DEF Recent, TypeOK, Age, Versions
  <1> QED
    BY <1>1 DEF Recent

\* The present version is of age 0.
LEMMA PresentRecent ==
  ASSUME TypeOK, NEW k \in Int, k >= 0 PROVE Recent(version, k)
  BY Numbers DEF Recent, TypeOK, Age, Versions

\* Before anything is loaded.
LEMMA InitEstablishes == Init => AuthInv
  <1> SUFFICES ASSUME Init PROVE AuthInv
    OBVIOUS
  <1>1. TypeOK
    <2>1. version \in Versions /\ since \in [1..MaxCalls -> 0..(Bound + 1)]
      BY Numbers DEF Init, Versions
    <2>2. l2 \in Shared
      BY Numbers DEF Init, Nothing, Shared
    <2>3. pending \in [Instances -> Seq(Changes)] /\ inbox \in [Instances -> Seq(Changes)]
      BY DEF Init
    <2>4. /\ l1 \in [Instances -> Entries \cup {NoEntry}]
          /\ flight \in [Instances -> Flights \cup {NoFlight}]
          /\ req \in [Requests -> Calls \cup {Idle}]
          /\ lock \in [Instances -> Locks \cup {Free}]
      BY DEF Init
    <2>5. seen \in [Instances -> 0..(MaxCalls + 1)] /\ calls \in 0..MaxCalls /\ faults \in 0..MaxFaults
      BY Numbers DEF Init
    <2> QED
      BY <2>1, <2>2, <2>3, <2>4, <2>5 DEF TypeOK
  <1>2. Clock /\ Committed
    BY Numbers DEF Init, Clock, Committed
  <1>3. Timely
    BY DEF Init, Timely, L1Fresh, L2Fresh, FlightFresh, CallFresh, Nothing
  <1>4. Current
    BY DEF Init, Current, FlightCurrent, CallCurrent
  <1> QED
    BY <1>1, <1>2, <1>3, <1>4 DEF AuthInv

\* A step that leaves the clock, the caches and the loads alone.
LEMMA TimelyFrame ==
  ASSUME TypeOK, Clock, Timely, Steady, version' \in Versions, UNCHANGED <<caches, loads>>
  PROVE  Timely'
  BY SteadyKeeps DEF Timely, caches, loads

-----------------------------------------------------------------------------
\* An administrative call commits at most one version more.
LEMMA CallKeeps ==
  ASSUME AuthInv, NEW i \in Instances, NEW scope \in {"key", "tenant"},
         NEW v \in {version, version + 1}, Call(i, scope, v)
  PROVE  AuthInv'
  <1> USE DEF AuthInv
  <1>1. /\ version \in Nat /\ calls \in Nat /\ version' = v /\ since' = since
        /\ version <= version' /\ version' \in Versions
        /\ calls' = calls + 1 /\ calls' \in 0..MaxCalls /\ version' <= calls' + 1
    BY Numbers DEF Call, TypeOK, Versions, Clock
  <1>2. UNCHANGED <<caches, loads, lock, inbox, seen, faults>>
    BY DEF Call
  <1>3. Steady
    BY <1>1 DEF Steady
  <1>4. Clock'
    BY <1>1, Numbers DEF Clock
  <1> DEFINE change == [scope |-> scope, version |-> v]
  <1>5. /\ change \in Changes /\ change.version <= version'
        /\ pending' = [pending EXCEPT ![i] = Append(pending[i], change)]
    BY <1>1 DEF Changes, Call
  <1> HIDE DEF change
  <1>6. pending' \in [Instances -> Seq(Changes)]
    BY <1>5 DEF TypeOK
  <1>7. TypeOK'
    BY <1>1, <1>2, <1>6 DEF TypeOK, caches, loads
  <1>8. Committed'
    <2>1. \A j \in Instances : \A k \in 1..Len(pending'[j]) : pending'[j][k].version <= version'
      <3> SUFFICES ASSUME NEW j \in Instances, NEW k \in 1..Len(pending'[j])
                   PROVE  pending'[j][k].version <= version'
        OBVIOUS
      <3>1. CASE j = i
        <4>1. Len(pending'[j]) = Len(pending[i]) + 1 /\ Len(pending[i]) \in Nat
          BY <1>5, <3>1 DEF TypeOK
        <4>2. CASE k = Len(pending[i]) + 1
          BY <1>5, <3>1, <4>1, <4>2 DEF TypeOK
        <4>3. CASE k \in 1..Len(pending[i])
          <5>1. pending'[j][k] = pending[i][k] /\ pending[i][k].version <= version
            BY <1>5, <3>1, <4>3 DEF TypeOK, Committed
          <5>2. pending[i][k] \in Changes
            BY <4>3 DEF TypeOK
          <5> QED
            BY <1>1, <5>1, <5>2 DEF Changes, Versions
        <4> QED
          BY <4>1, <4>2, <4>3
      <3>2. CASE j # i
        <4>1. pending'[j] = pending[j] /\ pending[j][k] \in Changes
          BY <1>5, <3>2 DEF TypeOK
        <4> QED
          BY <1>1, <4>1 DEF Committed, Changes, Versions
      <3> QED
        BY <3>1, <3>2
    <2>2. \A j \in Instances : \A k \in 1..Len(inbox[j]) : inbox[j][k].version <= version'
      <3>1. \A j \in Instances : \A k \in 1..Len(inbox[j]) : inbox[j][k] \in Changes
        BY DEF TypeOK
      <3> QED
        BY <1>1, <3>1 DEF Committed, Changes, Versions
    <2>3. \A j \in Instances : lock[j] # Free => lock[j].version <= version'
      BY <1>1 DEF Committed, TypeOK, Locks, Versions
    <2>4. \A j \in Instances : seen[j] <= version'
      BY <1>1 DEF Committed, TypeOK
    <2> QED
      BY <1>2, <2>1, <2>2, <2>3, <2>4 DEF Committed
  <1>9. Timely'
    BY <1>1, <1>2, <1>3, TimelyFrame
  <1>10. Current'
    BY <1>2 DEF Current, FlightCurrent, CallCurrent, loads
  <1> QED
    BY <1>4, <1>7, <1>8, <1>9, <1>10

\* A step that commits nothing and takes no time.
Still == UNCHANGED <<version, since, calls>>

\* While neither time passes nor anything is committed, what was timely stays timely.
LEMMA StillKeeps ==
  ASSUME TypeOK, Clock, Still
  PROVE  /\ Clock' /\ Steady /\ version' \in Versions
         /\ \A e : L1Fresh(e) => L1Fresh(e)'
         /\ \A s : L2Fresh(s) => L2Fresh(s)'
         /\ \A f : FlightFresh(f) => FlightFresh(f)'
         /\ \A q : CallFresh(q) => CallFresh(q)'
  <1>1. Clock' /\ Steady /\ version' \in Versions
    BY DEF Still, Clock, Steady, TypeOK
  <1> QED
    BY <1>1, SteadyKeeps

\* The first of a queue of changes, and what is left of it.
LEMMA QueueStep ==
  ASSUME NEW n \in Nat, NEW q \in Seq(Changes), q # <<>>,
         \A k \in 1..Len(q) : q[k].version <= n
  PROVE  /\ Head(q) \in Changes /\ Head(q).version <= n
         /\ Tail(q) \in Seq(Changes)
         /\ \A k \in 1..Len(Tail(q)) : Tail(q)[k].version <= n
  <1>1. Len(q) \in Nat /\ Len(q) >= 1 /\ Head(q) = q[1] /\ q[1] \in Changes
    BY EmptySeq, HeadTailProperties
  <1>2. Tail(q) \in Seq(Changes) /\ Len(Tail(q)) = Len(q) - 1
    BY HeadTailProperties
  <1>3. \A k \in 1..Len(Tail(q)) : Tail(q)[k] = q[k + 1] /\ k + 1 \in 1..Len(q)
    BY <1>1, <1>2
  <1> QED
    BY <1>1, <1>2, <1>3

\* A call that has its result.
LoadedCalls ==
  [step : {"loaded"}, at : Instances, source : {"l2", "postgres"}, row : Versions,
   grants : Versions, same : BOOLEAN, once : BOOLEAN, peers : SUBSET Requests, left : 0..LoadTime]

\* A request with a snapshot is one of the loaded calls.
LEMMA LoadedTyped ==
  ASSUME TypeOK, NEW r \in Requests, req[r] # Idle, req[r].step = "loaded"
  PROVE  req[r] \in LoadedCalls
  <1>1. req[r] \in [step : {"wait"}, at : Instances] \/ req[r] \in LoadedCalls
    BY DEF TypeOK, Calls, LoadedCalls
  <1> QED
    BY <1>1

\* Loaded calls are calls.
LEMMA LoadedIsCall == LoadedCalls \subseteq Calls
  BY DEF LoadedCalls, Calls

\* The generation grows: nothing read before counts as current.
LEMMA BeginKeeps ==
  ASSUME AuthInv, NEW i \in Instances, NEW change \in Changes, change.version <= version,
         NEW own \in BOOLEAN, BeginInvalidation(i, change, own),
         pending' \in [Instances -> Seq(Changes)], inbox' \in [Instances -> Seq(Changes)],
         \A j \in Instances : \A k \in 1..Len(pending'[j]) : pending'[j][k].version <= version,
         \A j \in Instances : \A k \in 1..Len(inbox'[j]) : inbox'[j][k].version <= version
  PROVE  AuthInv'
  <1> USE DEF AuthInv
  <1>1. Still /\ UNCHANGED <<l2, faults>>
    BY DEF BeginInvalidation, Still
  <1>2. Clock' /\ (\A e : L1Fresh(e) => L1Fresh(e)') /\ (\A s : L2Fresh(s) => L2Fresh(s)')
        /\ (\A f : FlightFresh(f) => FlightFresh(f)') /\ (\A q : CallFresh(q) => CallFresh(q)')
    BY <1>1, StillKeeps
  <1>3. /\ version \in Nat /\ change.version \in Versions
        /\ seen' = [seen EXCEPT ![i] = Later(seen[i], change.version)]
        /\ seen' \in [Instances -> 0..(MaxCalls + 1)]
        /\ \A j \in Instances : seen'[j] <= version
    <2>a. version \in Nat /\ change.version \in Versions /\ change.version \in Nat
      BY Numbers DEF TypeOK, Changes, Versions
    <2>b. seen' = [seen EXCEPT ![i] = Later(seen[i], change.version)]
      BY DEF BeginInvalidation
    <2>1. /\ version \in Nat /\ change.version \in Versions /\ change.version \in Nat
          /\ seen' = [seen EXCEPT ![i] = Later(seen[i], change.version)]
      BY <2>a, <2>b
    <2>2. Later(seen[i], change.version) \in {seen[i], change.version}
      BY DEF Later
    <2>3. change.version \in 0..(MaxCalls + 1)
      BY <2>1, Numbers DEF Versions
    <2>4. seen' \in [Instances -> 0..(MaxCalls + 1)]
      BY <2>1, <2>2, <2>3 DEF TypeOK
    <2>5. \A j \in Instances : seen'[j] <= version
      BY <2>1, <2>2 DEF TypeOK, Committed
    <2> QED
      BY <2>1, <2>4, <2>5
  <1>4. /\ l1' = [l1 EXCEPT ![i] = NoEntry]
        /\ l1' \in [Instances -> Entries \cup {NoEntry}]
    BY DEF BeginInvalidation, TypeOK
  <1>5. KeysToDelete(change.scope) \subseteq Keys
    BY DEF KeysToDelete, Keys, TypeOK, Shared
  <1>6. /\ lock' \in [Instances -> Locks \cup {Free}]
        /\ \A j \in Instances : lock'[j] # Free => lock'[j].version <= version
    <2> DEFINE held == [scope |-> change.scope, version |-> change.version,
                        found |-> KeysToDelete(change.scope), own |-> own]
    <2>1. held \in Locks /\ held.version <= version
      BY <1>3, <1>5, Zenon DEF Locks, Changes
    <2>2. lock' = [lock EXCEPT ![i] = held]
      BY DEF BeginInvalidation
    <2> HIDE DEF held
    <2> QED
      BY <2>1, <2>2 DEF TypeOK, Committed
  <1>7. /\ flight' \in [Instances -> Flights \cup {NoFlight}]
        /\ \A j \in Instances : FlightFresh(flight[j])' /\ FlightCurrent(flight[j], seen[j])'
    <2>1. flight' = [flight EXCEPT ![i] = IF flight[i] = NoFlight THEN flight[i]
                                          ELSE [flight[i] EXCEPT !.same = FALSE]]
      BY DEF BeginInvalidation
    <2>2. \A j \in Instances \ {i} : flight'[j] = flight[j] /\ seen'[j] = seen[j]
      BY <1>3, <2>1 DEF TypeOK
    <2>3. CASE flight[i] = NoFlight
      <3>1. flight' = flight
        BY <2>1, <2>3 DEF TypeOK
      <3>2. \A j \in Instances : FlightFresh(flight[j])'
        BY <1>2, <3>1 DEF Timely
      <3> QED
        BY <2>2, <2>3, <3>1, <3>2, Zenon DEF TypeOK, Current, FlightCurrent
    <2>4. CASE flight[i] # NoFlight
      <3>1. flight[i] \in Flights /\ flight'[i] = [flight[i] EXCEPT !.same = FALSE]
        BY <2>1, <2>4 DEF TypeOK
      <3>2. /\ flight'[i] \in Flights /\ flight'[i].same = FALSE
            /\ flight'[i].step = flight[i].step /\ flight'[i].row = flight[i].row
            /\ flight'[i].grants = flight[i].grants /\ flight'[i].ttl = flight[i].ttl
            /\ flight'[i].left = flight[i].left
        BY <3>1, Zenon DEF Flights
      <3>3. FlightFresh(flight[i])
        BY DEF Timely
      <3>4. FlightFresh(flight'[i])
        BY <2>4, <3>2, <3>3, Zenon DEF FlightFresh
      <3>5. \A j \in Instances : FlightFresh(flight'[j])
        BY <2>2, <3>4 DEF Timely
      <3>6. \A j \in Instances : FlightFresh(flight[j])'
        BY <1>2, <3>5
      <3>7. \A j \in Instances : FlightCurrent(flight[j], seen[j])'
        BY <2>2, <3>2, Zenon DEF Current, FlightCurrent
      <3>8. flight' \in [Instances -> Flights \cup {NoFlight}]
        BY <2>1, <3>1, <3>2 DEF TypeOK
      <3> QED
        BY <3>6, <3>7, <3>8
    <2> QED
      BY <2>3, <2>4
  <1>8. /\ req' \in [Requests -> Calls \cup {Idle}]
        /\ \A r \in Requests : CallFresh(req[r])' /\ CallCurrent(req[r])'
    <2>1. req' = [r \in Requests |->
            IF req[r] # Idle /\ req[r].step = "loaded" /\ req[r].at = i
              THEN [req[r] EXCEPT !.same = FALSE] ELSE req[r]]
      BY DEF BeginInvalidation
    <2>2. ASSUME NEW r \in Requests
          PROVE  req'[r] \in Calls \cup {Idle} /\ CallFresh(req[r])' /\ CallCurrent(req[r])'
      <3>0. CallFresh(req[r]) /\ CallCurrent(req[r])
        BY DEF Timely, Current
      <3>1. CASE req[r] # Idle /\ req[r].step = "loaded" /\ req[r].at = i
        <4>1. req'[r] = [req[r] EXCEPT !.same = FALSE]
          BY <2>1, <3>1
        <4>2. /\ req'[r] \in Calls /\ req'[r].same = FALSE /\ req'[r].step = "loaded"
              /\ req'[r].source = req[r].source /\ req'[r].row = req[r].row
              /\ req'[r].grants = req[r].grants /\ req'[r].left = req[r].left
          <5>1. req[r] \in LoadedCalls
            BY <3>1, LoadedTyped
          <5>2. req'[r] \in LoadedCalls
            BY <4>1, <5>1, Zenon DEF LoadedCalls
          <5> QED
            BY <4>1, <5>1, <5>2, LoadedIsCall, Zenon DEF LoadedCalls
        <4>3. CallFresh(req'[r])
          BY <3>0, <3>1, <4>2, Zenon DEF CallFresh
        <4> QED
          <5>1. CallFresh(req[r])'
            BY <1>2, <4>3
          <5>2. CallCurrent(req[r])'
            BY <4>2 DEF CallCurrent
          <5> QED
            BY <4>2, <5>1, <5>2
      <3>2. CASE ~(req[r] # Idle /\ req[r].step = "loaded" /\ req[r].at = i)
        <4>1. req'[r] = req[r]
          BY <2>1, <3>2
        <4>2. req[r] # Idle /\ req[r].step = "loaded" => seen'[req[r].at] = seen[req[r].at]
          BY <1>3, <3>2 DEF TypeOK, Calls
        <4> QED
          BY <1>2, <3>0, <4>1, <4>2 DEF CallCurrent, TypeOK
      <3> QED
        BY <3>1, <3>2
    <2> QED
      BY <2>1, <2>2
  <1>9. TypeOK'
    BY <1>1, <1>3, <1>4, <1>6, <1>7, <1>8, Zenon DEF TypeOK, Still
  <1>10. Committed'
    BY <1>1, <1>3, <1>6, Zenon DEF Committed, Still
  <1>11. Timely'
    <2>1. \A j \in Instances : L1Fresh(l1'[j])
      BY <1>4, Zenon DEF Timely, TypeOK, L1Fresh
    <2>2. \A j \in Instances : L1Fresh(l1[j])'
      BY <1>2, <2>1, Zenon
    <2>3. L2Fresh(l2)'
      BY SMTT(30), <1>1, <1>2 DEF Timely
    <2> QED
      BY <1>7, <1>8, <2>2, <2>3, Zenon DEF Timely
  <1>12. Current'
    BY <1>7, <1>8 DEF Current
  <1> QED
    BY <1>2, <1>9, <1>10, <1>11, <1>12

\* Invalidate and handleInvalidation begin with the first change of their queue.
LEMMA InvalidateKeeps ==
  ASSUME AuthInv, NEW i \in Instances, Invalidate(i) \/ handleInvalidation(i)
  PROVE  AuthInv'
  <1> USE DEF AuthInv
  <1>0. version \in Nat
    BY Numbers DEF TypeOK, Versions
  <1>1. CASE Invalidate(i)
    <2> DEFINE q == pending[i]
    <2>1. q \in Seq(Changes) /\ q # <<>> /\ \A k \in 1..Len(q) : q[k].version <= version
      BY <1>1 DEF Invalidate, TypeOK, Committed
    <2>2. /\ BeginInvalidation(i, Head(q), TRUE) /\ inbox' = inbox
          /\ pending' = [pending EXCEPT ![i] = Tail(q)]
      BY <1>1, Zenon DEF Invalidate
    <2> HIDE DEF q
    <2>3. /\ Head(q) \in Changes /\ Head(q).version <= version /\ Tail(q) \in Seq(Changes)
          /\ \A k \in 1..Len(Tail(q)) : Tail(q)[k].version <= version
      BY <1>0, <2>1, QueueStep
    <2>4. /\ pending' \in [Instances -> Seq(Changes)]
          /\ \A j \in Instances : pending'[j] = IF j = i THEN Tail(q) ELSE pending[j]
      BY <2>2, <2>3 DEF TypeOK
    <2>5. \A j \in Instances : \A k \in 1..Len(pending'[j]) : pending'[j][k].version <= version
      BY <2>3, <2>4 DEF Committed
    <2>6. /\ inbox' \in [Instances -> Seq(Changes)]
          /\ \A j \in Instances : \A k \in 1..Len(inbox'[j]) : inbox'[j][k].version <= version
      BY <2>2, Zenon DEF TypeOK, Committed
    <2> QED
      BY <2>2, <2>3, <2>4, <2>5, <2>6, BeginKeeps, Zenon
  <1>2. CASE handleInvalidation(i)
    <2> DEFINE q == inbox[i]
    <2>1. q \in Seq(Changes) /\ q # <<>> /\ \A k \in 1..Len(q) : q[k].version <= version
      BY <1>2 DEF handleInvalidation, TypeOK, Committed
    <2>2. /\ BeginInvalidation(i, Head(q), FALSE) /\ pending' = pending
          /\ inbox' = [inbox EXCEPT ![i] = Tail(q)]
      BY <1>2, Zenon DEF handleInvalidation
    <2> HIDE DEF q
    <2>3. /\ Head(q) \in Changes /\ Head(q).version <= version /\ Tail(q) \in Seq(Changes)
          /\ \A k \in 1..Len(Tail(q)) : Tail(q)[k].version <= version
      BY <1>0, <2>1, QueueStep
    <2>4. /\ inbox' \in [Instances -> Seq(Changes)]
          /\ \A j \in Instances : inbox'[j] = IF j = i THEN Tail(q) ELSE inbox[j]
      BY <2>2, <2>3 DEF TypeOK
    <2>5. \A j \in Instances : \A k \in 1..Len(inbox'[j]) : inbox'[j][k].version <= version
      BY <2>3, <2>4 DEF Committed
    <2>6. /\ pending' \in [Instances -> Seq(Changes)]
          /\ \A j \in Instances : \A k \in 1..Len(pending'[j]) : pending'[j][k].version <= version
      BY <2>2 DEF TypeOK, Committed
    <2> QED
      BY <2>2, <2>3, <2>4, <2>5, <2>6, BeginKeeps, Zenon
  <1> QED
    BY <1>1, <1>2

\* Deleting Redis keys leaves a value as fresh as it was, or none.
LEMMA WithoutKeeps ==
  ASSUME TypeOK, L2Fresh(l2), NEW keys
  PROVE  Without(keys) \in Shared /\ L2Fresh(Without(keys))
  <1> DEFINE rest == l2.keys \ keys
  <1>1. /\ Without(keys).keys = rest
        /\ Without(keys).members = (IF "tenantIndex" \in rest THEN l2.members ELSE {})
        /\ Without(keys).row = (IF "value" \in rest THEN l2.row ELSE 0)
        /\ Without(keys).grants = (IF "value" \in rest THEN l2.grants ELSE 0)
        /\ Without(keys).ttl = (IF rest = {} THEN 0 ELSE l2.ttl)
    BY DEF Without
  <1>2. Without(keys) \in Shared
    BY Numbers DEF Without, TypeOK, Shared
  <1>3. "value" \in rest => rest # {} /\ "value" \in l2.keys
    OBVIOUS
  <1> QED
    BY <1>1, <1>2, <1>3 DEF L2Fresh

\* The announcement of a change reaches the end of an inbox.
LEMMA AnnounceKeeps ==
  ASSUME NEW n \in Nat, NEW q \in Seq(Changes), NEW change \in Changes, change.version <= n,
         \A k \in 1..Len(q) : q[k].version <= n
  PROVE  /\ Append(q, change) \in Seq(Changes)
         /\ \A k \in 1..Len(Append(q, change)) : Append(q, change)[k].version <= n
  <1>1. /\ Append(q, change) \in Seq(Changes) /\ Len(Append(q, change)) = Len(q) + 1
        /\ Append(q, change)[Len(q) + 1] = change
        /\ \A k \in 1..Len(q) : Append(q, change)[k] = q[k]
    BY AppendProperties
  <1>2. Len(q) \in Nat
    BY LenProperties
  <1> QED
    BY <1>1, <1>2

\* The end of an invalidation, with or without its message, disturbs no cache.
LEMMA ReleaseKeeps ==
  ASSUME AuthInv, NEW i \in Instances, EndInvalidation(i) \/ InvalidationFails(i)
  PROVE  AuthInv'
  <1> USE DEF AuthInv
  <1>1. PICK S \in SUBSET Instances : Release(i, S)
    BY DEF EndInvalidation, InvalidationFails
  <1>2. Still /\ UNCHANGED <<l1, loads, pending, seen>>
    BY <1>1 DEF Release, Still
  <1>3. lock[i] # Free /\ (l2' = l2 \/ l2' = Without(lock[i].found))
    BY DEF EndInvalidation, InvalidationFails
  <1>4. faults' \in 0..MaxFaults
    <2>1. faults' = faults \/ Fault
      BY DEF EndInvalidation, InvalidationFails
    <2> QED
      BY <2>1, FaultBound, Zenon DEF TypeOK
  <1>5. lock[i] \in Locks /\ lock[i].version <= version /\ version \in Nat
    BY <1>3, Numbers DEF TypeOK, Committed, Versions
  <1> DEFINE change == [scope |-> lock[i].scope, version |-> lock[i].version]
  <1>6. change \in Changes /\ change.version <= version
    BY <1>5 DEF Locks, Changes
  <1>7. inbox' = [j \in Instances |-> IF lock[i].own /\ j \in S THEN Append(inbox[j], change) ELSE inbox[j]]
    BY <1>1 DEF Release
  <1> HIDE DEF change
  <1>8. /\ inbox' \in [Instances -> Seq(Changes)]
        /\ \A j \in Instances : \A k \in 1..Len(inbox'[j]) : inbox'[j][k].version <= version
    <2>1. ASSUME NEW j \in Instances
          PROVE  /\ inbox'[j] \in Seq(Changes)
                 /\ \A k \in 1..Len(inbox'[j]) : inbox'[j][k].version <= version
      <3>1. inbox[j] \in Seq(Changes) /\ \A k \in 1..Len(inbox[j]) : inbox[j][k].version <= version
        BY DEF TypeOK, Committed
      <3>2. inbox'[j] = Append(inbox[j], change) \/ inbox'[j] = inbox[j]
        BY <1>7, Zenon
      <3> QED
        BY <1>5, <1>6, <3>1, <3>2, AnnounceKeeps, Zenon
    <2> QED
      BY <1>7, <2>1
  <1>9. /\ lock' \in [Instances -> Locks \cup {Free}]
        /\ \A j \in Instances : lock'[j] # Free => lock'[j].version <= version
    BY <1>1 DEF Release, TypeOK, Committed
  <1>10. l2' \in Shared /\ L2Fresh(l2')
    BY <1>3, WithoutKeeps, Zenon DEF TypeOK, Timely
  <1>11. TypeOK'
    BY <1>2, <1>4, <1>8, <1>9, <1>10 DEF TypeOK, Still, loads
  <1>12. Committed'
    BY <1>2, <1>8, <1>9, Zenon DEF Committed, Still
  <1>13. Timely'
    <2>1. L2Fresh(l2)'
      BY <1>2, <1>10, StillKeeps
    <2> QED
      BY <1>2, <2>1, StillKeeps, Zenon DEF Timely, loads
  <1>14. Clock' /\ Current'
    BY <1>2, StillKeeps DEF Current, FlightCurrent, CallCurrent, loads
  <1> QED
    BY <1>11, <1>12, <1>13, <1>14

-----------------------------------------------------------------------------
\* The steps of Authenticate and of its loads: what they must show of the caches
\* and of the loads in progress.
LoadStep ==
  /\ Still /\ UNCHANGED invalidation /\ faults' \in 0..MaxFaults
  /\ l1' \in [Instances -> Entries \cup {NoEntry}] /\ \A i \in Instances : L1Fresh(l1'[i])
  /\ l2' \in Shared /\ L2Fresh(l2')
  /\ flight' \in [Instances -> Flights \cup {NoFlight}]
  /\ \A i \in Instances : FlightFresh(flight'[i]) /\ FlightCurrent(flight'[i], seen[i])
  /\ req' \in [Requests -> Calls \cup {Idle}]
  /\ \A r \in Requests : CallFresh(req'[r]) /\ CallCurrent(req'[r])

\* A step that shows these keeps the invariant.
LEMMA LoadStepKeeps ==
  ASSUME AuthInv, LoadStep PROVE AuthInv'
  <1> USE DEF AuthInv
  <1>1. TypeOK'
    BY Zenon DEF LoadStep, TypeOK, Still, invalidation
  <1>2. Clock' /\ Committed'
    BY StillKeeps, Zenon DEF LoadStep, Still, invalidation, Committed
  <1>3. Timely'
    BY StillKeeps, Zenon DEF LoadStep, Timely
  <1>4. Current'
    BY DEF LoadStep, Current, invalidation, FlightCurrent, CallCurrent
  <1> QED
    BY <1>1, <1>2, <1>3, <1>4

\* A caller that waits, and one that is gone, have no snapshot.
LEMMA LookupKeeps ==
  ASSUME AuthInv, NEW r \in Requests, Cancel(r) \/ \E i \in Instances : LookupMiss(r, i)
  PROVE  LoadStep
  <1> USE DEF AuthInv
  <1>1. Still /\ UNCHANGED <<caches, invalidation>>
    BY Zenon DEF Cancel, LookupMiss, Still
  <1>2. faults' \in 0..MaxFaults
    <2>1. faults' = faults \/ Fault
      BY DEF Cancel, LookupMiss
    <2> QED
      BY <2>1, FaultBound, Zenon DEF TypeOK
  <1>3. /\ req' \in [Requests -> Calls \cup {Idle}]
        /\ \A q \in Requests : CallFresh(req'[q]) /\ CallCurrent(req'[q])
    <2>1. CASE Cancel(r)
      BY <2>1 DEF Cancel, TypeOK, Timely, Current, CallFresh, CallCurrent
    <2>2. ASSUME NEW i \in Instances, LookupMiss(r, i)
          PROVE  /\ req' \in [Requests -> Calls \cup {Idle}]
                 /\ \A q \in Requests : CallFresh(req'[q]) /\ CallCurrent(req'[q])
      <3> DEFINE waits == [step |-> "wait", at |-> i]
      <3>1. waits \in Calls /\ CallFresh(waits) /\ CallCurrent(waits)
        BY DEF Calls, CallFresh, CallCurrent
      <3>2. req' = [req EXCEPT ![r] = waits]
        BY <2>2 DEF LookupMiss
      <3> HIDE DEF waits
      <3> QED
        BY <3>1, <3>2 DEF TypeOK, Timely, Current
    <2> QED
      BY <2>1, <2>2, Zenon
  <1>4. /\ flight' \in [Instances -> Flights \cup {NoFlight}]
        /\ \A i \in Instances : FlightFresh(flight'[i]) /\ FlightCurrent(flight'[i], seen[i])
    <2>1. CASE UNCHANGED flight
      BY <2>1 DEF TypeOK, Timely, Current
    <2>2. ASSUME NEW i \in Instances, LookupMiss(r, i)
          PROVE  /\ flight' \in [Instances -> Flights \cup {NoFlight}]
                 /\ \A j \in Instances : FlightFresh(flight'[j]) /\ FlightCurrent(flight'[j], seen[j])
      <3> DEFINE begins == [step |-> "l2", row |-> 0, grants |-> 0, ttl |-> 0, same |-> TRUE, left |-> LoadTime]
      <3>1. begins \in Flights /\ FlightFresh(begins) /\ \A n : FlightCurrent(begins, n)
        BY Numbers DEF Flights, FlightFresh, FlightCurrent
      <3>2. flight' = [flight EXCEPT ![i] = IF flight[i] # NoFlight THEN flight[i] ELSE begins]
        BY <2>2 DEF LookupMiss
      <3> HIDE DEF begins
      <3> QED
        BY <3>1, <3>2 DEF TypeOK, Timely, Current
    <2> QED
      BY <2>1, <2>2 DEF Cancel
  <1> QED
    BY <1>1, <1>2, <1>3, <1>4 DEF LoadStep, caches, TypeOK, Timely

\* A step that changes the load of one process.
LEMMA FlightStep ==
  ASSUME AuthInv, NEW i \in Instances, NEW f \in Flights,
         flight' = [flight EXCEPT ![i] = f], FlightFresh(f), FlightCurrent(f, seen[i])
  PROVE  /\ flight' \in [Instances -> Flights \cup {NoFlight}]
         /\ \A j \in Instances : FlightFresh(flight'[j]) /\ FlightCurrent(flight'[j], seen[j])
  BY DEF AuthInv, TypeOK, Timely, Current

\* The shared value is read with the lifetime that it has left.
LEMMA LoadSharedKeeps ==
  ASSUME AuthInv, NEW i \in Instances, LoadShared(i) \/ LoadSharedFails(i)
  PROVE  LoadStep
  <1> USE DEF AuthInv
  <1>1. /\ Still /\ UNCHANGED <<l1, req, invalidation>>
        /\ flight[i] # NoFlight /\ flight[i].step = "l2" /\ flight[i] \in Flights
    <2>1. Still /\ UNCHANGED <<l1, req, invalidation>> /\ InFlight(i, "l2")
      BY DEF LoadShared, LoadSharedFails, Still, caches
    <2> QED
      BY <2>1 DEF InFlight, TypeOK
  <1>2. faults' \in 0..MaxFaults
    <2>1. faults' = faults \/ Fault
      BY DEF LoadShared, LoadSharedFails
    <2> QED
      BY <2>1, FaultBound, Zenon DEF TypeOK
  <1>3. l2' \in Shared /\ L2Fresh(l2')
    <2>1. l2' = l2 \/ l2' = Without({"value"})
      BY DEF LoadShared, LoadSharedFails, caches
    <2> QED
      BY <2>1, WithoutKeeps DEF TypeOK, Timely
  <1>4. \E f \in Flights : flight' = [flight EXCEPT ![i] = f] /\ FlightFresh(f) /\ FlightCurrent(f, seen[i])
    <2>1. CASE GoTo(i, "row")
      <3> DEFINE f == [flight[i] EXCEPT !.step = "row"]
      <3>1. f \in Flights /\ f.step = "row"
        BY <1>1 DEF Flights
      <3>2. flight' = [flight EXCEPT ![i] = f]
        BY <2>1 DEF GoTo, TypeOK
      <3>3. FlightFresh(f) /\ FlightCurrent(f, seen[i])
        BY <3>1 DEF FlightFresh, FlightCurrent
      <3> QED
        BY <3>1, <3>2, <3>3, Zenon
    <2>2. CASE LoadShared(i) /\ "value" \in l2.keys
      <3> DEFINE f == [flight[i] EXCEPT !.step = "fill", !.row = l2.row, !.grants = l2.grants, !.ttl = l2.ttl]
      <3>1. l2.row \in Nat /\ l2.grants \in Nat /\ l2.ttl \in Nat
        BY Numbers DEF TypeOK, Shared
      <3>2. /\ f \in Flights /\ f.step = "fill" /\ f.row = l2.row /\ f.grants = l2.grants
            /\ f.ttl = l2.ttl /\ f.left \in 0..LoadTime
        BY <1>1, <3>1, Zenon DEF Flights
      <3>3. flight' = [flight EXCEPT ![i].step = "fill", ![i].row = l2.row,
                                     ![i].grants = l2.grants, ![i].ttl = l2.ttl]
        BY <2>2 DEF LoadShared
      <3>4. flight' = [flight EXCEPT ![i] = f]
        BY <3>3, Zenon DEF TypeOK
      <3> HIDE DEF f
      <3>5. /\ l2.ttl >= 1 /\ Recent(l2.row, LoadTime + L2TTL - l2.ttl)
            /\ Recent(l2.grants, LoadTime + L2TTL - l2.ttl)
        BY <2>2 DEF Timely, L2Fresh
      <3>6. /\ LoadTime + L2TTL - l2.ttl \in Int /\ Bound - f.left \in Int
            /\ LoadTime + L2TTL - l2.ttl <= Bound - f.left
        BY <3>1, <3>2, <3>5, Numbers
      <3>7. Recent(l2.row, Bound - f.left) /\ Recent(l2.grants, Bound - f.left)
        BY <3>5, <3>6, RecentLater
      <3>8. FlightFresh(f) /\ FlightCurrent(f, seen[i])
        BY <3>2, <3>5, <3>7 DEF FlightFresh, FlightCurrent
      <3> QED
        BY <3>2, <3>4, <3>8, Zenon
    <2> QED
      BY <2>1, <2>2 DEF LoadShared, LoadSharedFails
  <1>5. /\ flight' \in [Instances -> Flights \cup {NoFlight}]
        /\ \A j \in Instances : FlightFresh(flight'[j]) /\ FlightCurrent(flight'[j], seen[j])
    BY <1>4, FlightStep, Zenon
  <1> QED
    BY <1>1, <1>2, <1>3, <1>5 DEF LoadStep, TypeOK, Timely, Current

\* The key row is the present one, so it is not older than any change known here.
LEMMA LoadRowKeeps ==
  ASSUME AuthInv, NEW i \in Instances, LoadRow(i) PROVE LoadStep
  <1> USE DEF AuthInv
  <1>1. /\ Still /\ UNCHANGED <<caches, req, invalidation, faults>>
        /\ flight[i] # NoFlight /\ flight[i] \in Flights
    BY DEF LoadRow, Still, InFlight, TypeOK
  <1> DEFINE f == [flight[i] EXCEPT !.step = "grants", !.row = version]
  <1>2. version \in Nat /\ seen[i] \in Nat /\ seen[i] <= version /\ version >= seen[i]
    BY Numbers DEF TypeOK, Versions, Committed
  <1>3. f \in Flights /\ f.step = "grants" /\ f.row = version /\ f.left \in 0..LoadTime
    BY <1>1, <1>2, Zenon DEF Flights
  <1>4. flight' = [flight EXCEPT ![i].step = "grants", ![i].row = version]
    BY DEF LoadRow
  <1>5. flight' = [flight EXCEPT ![i] = f]
    BY <1>4, Zenon DEF TypeOK
  <1> HIDE DEF f
  <1>6. LoadTime - f.left \in Int /\ LoadTime - f.left >= 0
    BY <1>3, LeftBound, Zenon
  <1>7. FlightFresh(f)
    BY <1>3, <1>6, PresentRecent, Zenon DEF FlightFresh
  <1>8. FlightCurrent(f, seen[i])
    BY <1>2, <1>3 DEF FlightCurrent
  <1>9. /\ flight' \in [Instances -> Flights \cup {NoFlight}]
        /\ \A j \in Instances : FlightFresh(flight'[j]) /\ FlightCurrent(flight'[j], seen[j])
    BY <1>3, <1>5, <1>7, <1>8, FlightStep, Zenon
  <1> QED
    BY <1>1, <1>9 DEF LoadStep, caches, TypeOK, Timely, Current

\* load returns the same snapshot to every caller that waits.
LEMMA ReturnKeeps ==
  ASSUME AuthInv, NEW i \in Instances, flight[i] # NoFlight,
         NEW source \in {"l2", "postgres"},
         NEW snapshot, snapshot.row \in Versions, snapshot.grants \in Versions,
         source = "postgres" => /\ Recent(snapshot.row, LoadTime - flight[i].left)
                                /\ Recent(snapshot.grants, LoadTime - flight[i].left),
         source = "l2" => /\ Recent(snapshot.row, Bound - flight[i].left)
                          /\ Recent(snapshot.grants, Bound - flight[i].left),
         source = "postgres" /\ flight[i].same
           => snapshot.row >= seen[i] /\ snapshot.grants >= seen[i],
         Return(i, source, snapshot)
  PROVE  /\ flight' \in [Instances -> Flights \cup {NoFlight}]
         /\ \A j \in Instances : FlightFresh(flight'[j]) /\ FlightCurrent(flight'[j], seen[j])
         /\ req' \in [Requests -> Calls \cup {Idle}]
         /\ \A r \in Requests : CallFresh(req'[r]) /\ CallCurrent(req'[r])
  <1> USE DEF AuthInv
  <1>1. flight[i] \in Flights
    BY Zenon DEF TypeOK
  <1> DEFINE q == Loaded(i, source, snapshot, flight[i].same, Waiting(i), flight[i].left)
  <1>2. q \in LoadedCalls
    BY <1>1, Zenon DEF Loaded, LoadedCalls, Flights, Waiting
  <1>3. /\ q.at = i /\ q.source = source /\ q.row = snapshot.row /\ q.grants = snapshot.grants
        /\ q.same = flight[i].same /\ q.left = flight[i].left
    BY DEF Loaded
  <1>4. /\ flight' = [flight EXCEPT ![i] = NoFlight]
        /\ req' = [r \in Requests |-> IF r \in Waiting(i) THEN q ELSE req[r]]
    BY DEF Return
  <1> HIDE DEF q
  <1>5. CallFresh(q)
    BY <1>3 DEF CallFresh
  <1>6. CallCurrent(q)
    BY <1>3 DEF CallCurrent
  <1>7. /\ req' \in [Requests -> Calls \cup {Idle}]
        /\ \A r \in Requests : CallFresh(req'[r]) /\ CallCurrent(req'[r])
    BY <1>2, <1>4, <1>5, <1>6, LoadedIsCall DEF TypeOK, Timely, Current
  <1>8. /\ flight' \in [Instances -> Flights \cup {NoFlight}]
        /\ \A j \in Instances : FlightFresh(flight'[j]) /\ FlightCurrent(flight'[j], seen[j])
    BY <1>4 DEF TypeOK, Timely, Current, FlightFresh, FlightCurrent
  <1> QED
    BY <1>7, <1>8, Zenon

\* A recent version is one.
LEMMA RecentTyped ==
  ASSUME TypeOK, NEW v, NEW k, Recent(v, k) PROVE v \in Versions
  BY Numbers DEF Recent, TypeOK, Versions

\* The local copy lives no longer than the shared value would.
LEMMA FillKeeps ==
  ASSUME AuthInv, NEW i \in Instances, FillL1(i) PROVE LoadStep
  <1> USE DEF AuthInv
  <1>1. /\ Still /\ UNCHANGED <<l2, invalidation, faults>>
        /\ flight[i] # NoFlight /\ flight[i] \in Flights /\ flight[i].step = "fill"
        /\ Return(i, "l2", flight[i])
    BY Zenon DEF FillL1, Still, InFlight, TypeOK
  <1>2. /\ Recent(flight[i].row, Bound - flight[i].left)
        /\ Recent(flight[i].grants, Bound - flight[i].left)
        /\ flight[i].ttl > 0 => /\ Recent(flight[i].row, LoadTime + L2TTL - flight[i].ttl)
                                /\ Recent(flight[i].grants, LoadTime + L2TTL - flight[i].ttl)
    BY <1>1, Zenon DEF Timely, FlightFresh
  <1>3. flight[i].row \in Versions /\ flight[i].grants \in Versions
    BY <1>2, RecentTyped, Zenon
  <1>4. /\ flight' \in [Instances -> Flights \cup {NoFlight}]
        /\ \A j \in Instances : FlightFresh(flight'[j]) /\ FlightCurrent(flight'[j], seen[j])
        /\ req' \in [Requests -> Calls \cup {Idle}]
        /\ \A r \in Requests : CallFresh(req'[r]) /\ CallCurrent(req'[r])
    BY <1>1, <1>2, <1>3, ReturnKeeps, Zenon
  <1>5. /\ l1' \in [Instances -> Entries \cup {NoEntry}]
        /\ \A j \in Instances : L1Fresh(l1'[j])
    <2>1. CASE l1' = l1
      BY <2>1, Zenon DEF TypeOK, Timely
    <2>2. CASE flight[i].ttl > 0 /\ l1' = [l1 EXCEPT ![i] = L1Entry(flight[i])]
      <3> DEFINE e == L1Entry(flight[i])
      <3>1. flight[i].ttl \in Nat /\ flight[i].ttl >= 1
        <4>1. flight[i].ttl \in Nat
          BY <1>1, Zenon DEF Flights
        <4> QED
          BY <2>2, <4>1, AtLeastOne, Zenon
      <3>2. /\ e \in Entries /\ e.row = flight[i].row /\ e.grants = flight[i].grants
            /\ e.ttl >= 1 /\ e.ttl <= flight[i].ttl /\ e.ttl \in Nat
        BY <1>3, <3>1, Numbers DEF L1Entry, Entries
      <3> HIDE DEF e
      <3>3. /\ LoadTime + L2TTL - flight[i].ttl \in Int /\ LoadTime + L2TTL - e.ttl \in Int
            /\ LoadTime + L2TTL - flight[i].ttl <= LoadTime + L2TTL - e.ttl
        BY <3>1, <3>2, ShorterIsOlder, Zenon
      <3>4. Recent(e.row, LoadTime + L2TTL - e.ttl) /\ Recent(e.grants, LoadTime + L2TTL - e.ttl)
        BY <1>2, <2>2, <3>2, <3>3, RecentLater
      <3>5. L1Fresh(e)
        BY <3>2, <3>4 DEF L1Fresh
      <3>6. l1' = [l1 EXCEPT ![i] = e]
        BY <2>2 DEF e
      <3> QED
        BY <3>2, <3>5, <3>6, EntryStep, Zenon
    <2> QED
      BY <2>1, <2>2 DEF FillL1
  <1> QED
    BY <1>1, <1>4, <1>5 DEF LoadStep, TypeOK, Timely

\* The grants are the present ones.
LEMMA LoadGrantsKeeps ==
  ASSUME AuthInv, NEW i \in Instances, LoadGrants(i) PROVE LoadStep
  <1> USE DEF AuthInv
  <1> DEFINE s == [row |-> flight[i].row, grants |-> version]
  <1>1. /\ Still /\ UNCHANGED <<caches, invalidation, faults>>
        /\ flight[i] # NoFlight /\ flight[i] \in Flights /\ flight[i].step = "grants"
        /\ Return(i, "postgres", s) /\ s.row = flight[i].row /\ s.grants = version
    BY Zenon DEF LoadGrants, Still, InFlight, TypeOK
  <1> HIDE DEF s
  <1>2. /\ version \in Nat /\ seen[i] \in Nat /\ version >= seen[i]
        /\ LoadTime - flight[i].left \in Int /\ LoadTime - flight[i].left >= 0
    BY <1>1, Numbers DEF TypeOK, Versions, Committed, Flights
  <1>3. Recent(s.row, LoadTime - flight[i].left) /\ Recent(s.grants, LoadTime - flight[i].left)
    BY <1>1, <1>2, PresentRecent, Zenon DEF Timely, FlightFresh
  <1>4. s.row \in Versions /\ s.grants \in Versions
    BY <1>3, RecentTyped
  <1>5. flight[i].same => s.row >= seen[i] /\ s.grants >= seen[i]
    BY <1>1, <1>2, Zenon DEF Current, FlightCurrent
  <1>6. /\ flight' \in [Instances -> Flights \cup {NoFlight}]
        /\ \A j \in Instances : FlightFresh(flight'[j]) /\ FlightCurrent(flight'[j], seen[j])
        /\ req' \in [Requests -> Calls \cup {Idle}]
        /\ \A r \in Requests : CallFresh(req'[r]) /\ CallCurrent(req'[r])
    BY <1>1, <1>3, <1>4, <1>5, ReturnKeeps, Zenon
  <1> QED
    BY <1>1, <1>6, Zenon DEF LoadStep, caches, TypeOK, Timely

\* The load ends without a result, or an entry leaves the local cache.
LEMMA DropKeeps ==
  ASSUME AuthInv, NEW i \in Instances, LoadFails(i) \/ Evict(i) PROVE LoadStep
  <1> USE DEF AuthInv
  <1>1. CASE LoadFails(i)
    <2>1. /\ Still /\ UNCHANGED <<caches, invalidation>>
          /\ flight' = [flight EXCEPT ![i] = NoFlight]
          /\ req' = [r \in Requests |-> IF r \in Waiting(i) THEN Idle ELSE req[r]]
      BY <1>1, Zenon DEF LoadFails, Still
    <2>2. faults' \in 0..MaxFaults
      <3>1. faults' = faults \/ Fault
        BY <1>1 DEF LoadFails
      <3> QED
        BY <3>1, FaultBound, Zenon DEF TypeOK
    <2>3. /\ flight' \in [Instances -> Flights \cup {NoFlight}]
          /\ \A j \in Instances : FlightFresh(flight'[j]) /\ FlightCurrent(flight'[j], seen[j])
      BY <2>1, Zenon DEF TypeOK, Timely, Current, FlightFresh, FlightCurrent
    <2>4. CallFresh(Idle) /\ CallCurrent(Idle)
      BY DEF CallFresh, CallCurrent
    <2>5. /\ req' \in [Requests -> Calls \cup {Idle}]
          /\ \A r \in Requests : CallFresh(req'[r]) /\ CallCurrent(req'[r])
      BY <2>1, <2>4 DEF TypeOK, Timely, Current
    <2> QED
      BY <2>1, <2>2, <2>3, <2>5 DEF LoadStep, caches, TypeOK, Timely
  <1>2. CASE Evict(i)
    <2>1. /\ Still /\ UNCHANGED <<l2, loads, invalidation, faults>>
          /\ l1' = [l1 EXCEPT ![i] = NoEntry]
      BY <1>2 DEF Evict, Still
    <2>2. L1Fresh(NoEntry)
      BY DEF L1Fresh
    <2>3. l1' \in [Instances -> Entries \cup {NoEntry}] /\ \A j \in Instances : L1Fresh(l1'[j])
      BY <2>1, <2>2 DEF TypeOK, Timely
    <2> QED
      BY <2>1, <2>3 DEF LoadStep, loads, TypeOK, Timely, Current
  <1> QED
    BY <1>1, <1>2

\* A caller ends, and its peers learn that promoteOnce has run.
LEMMA FinishKeeps ==
  ASSUME AuthInv, NEW r \in Requests, Finish(r)
  PROVE  /\ req' \in [Requests -> Calls \cup {Idle}]
         /\ \A q \in Requests : CallFresh(req'[q]) /\ CallCurrent(req'[q])
  <1> USE DEF AuthInv
  <1>1. ASSUME NEW q \in Requests
        PROVE  req'[q] \in Calls \cup {Idle} /\ CallFresh(req'[q]) /\ CallCurrent(req'[q])
    <2>0. req[q] \in Calls \cup {Idle} /\ CallFresh(req[q]) /\ CallCurrent(req[q])
      BY DEF TypeOK, Timely, Current
    <2>1. \/ req'[q] = Idle \/ req'[q] = req[q]
          \/ req[q] # Idle /\ req[q].step = "loaded" /\ req'[q] = [req[q] EXCEPT !.once = TRUE]
      BY DEF Finish
    <2>2. CASE req'[q] = Idle
      BY <2>2, Zenon DEF CallFresh, CallCurrent
    <2>3. CASE req'[q] = req[q]
      BY <2>0, <2>3
    <2>4. CASE req[q] # Idle /\ req[q].step = "loaded" /\ req'[q] = [req[q] EXCEPT !.once = TRUE]
      <3>1. req[q] \in LoadedCalls
        BY <2>4, LoadedTyped
      <3>2. req'[q] \in LoadedCalls
        BY <2>4, <3>1, Zenon DEF LoadedCalls
      <3>3. /\ req'[q].step = "loaded" /\ req'[q].source = req[q].source /\ req'[q].row = req[q].row
            /\ req'[q].grants = req[q].grants /\ req'[q].left = req[q].left
            /\ req'[q].same = req[q].same /\ req'[q].at = req[q].at
        BY <2>4, <3>1 DEF LoadedCalls
      <3>4. CallFresh(req'[q])
        BY <2>0, <2>4, <3>3 DEF CallFresh
      <3>5. CallCurrent(req'[q])
        BY <2>0, <2>4, <3>3 DEF CallCurrent
      <3> QED
        BY <3>2, <3>4, <3>5, LoadedIsCall
    <2> QED
      BY <2>1, <2>2, <2>3, <2>4
  <1>2. DOMAIN req' = Requests /\ req' = [q \in Requests |-> req'[q]]
    BY DEF Finish
  <1> QED
    BY <1>1, <1>2

\* A snapshot of PostgreSQL is at most LoadTime old when it enters the caches.
LEMMA PromoteKeeps ==
  ASSUME AuthInv, NEW r \in Requests, Promote(r) \/ DecideOnly(r) PROVE LoadStep
  <1> USE DEF AuthInv
  <1>1. Still /\ UNCHANGED <<flight, invalidation>> /\ Finish(r) /\ req[r] # Idle /\ req[r].step = "loaded"
    BY Zenon DEF Promote, DecideOnly, Still
  <1>2. faults' \in 0..MaxFaults
    <2>1. faults' = faults \/ Fault
      BY DEF Promote, DecideOnly
    <2> QED
      BY <2>1, FaultBound, Zenon DEF TypeOK
  <1>3. /\ req' \in [Requests -> Calls \cup {Idle}]
        /\ \A q \in Requests : CallFresh(req'[q]) /\ CallCurrent(req'[q])
    BY <1>1, FinishKeeps
  <1>4. /\ l1' \in [Instances -> Entries \cup {NoEntry}] /\ \A i \in Instances : L1Fresh(l1'[i])
        /\ l2' \in Shared /\ L2Fresh(l2')
    <2>1. CASE DecideOnly(r)
      BY <2>1, Zenon DEF DecideOnly, caches, TypeOK, Timely
    <2>2. CASE Promote(r)
      <3>1. /\ req[r] \in LoadedCalls /\ req[r].source = "postgres"
            /\ req[r].row \in Versions /\ req[r].grants \in Versions
            /\ req[r].at \in Instances /\ req[r].left \in 0..LoadTime
        BY <1>1, <2>2, LoadedTyped, Zenon DEF Promote, Promotes, LoadedCalls
      <3>2. Recent(req[r].row, LoadTime - req[r].left) /\ Recent(req[r].grants, LoadTime - req[r].left)
        BY <1>1, <3>1, Zenon DEF Timely, CallFresh
      <3>3. /\ LoadTime - req[r].left \in Int /\ LoadTime \in Int
            /\ LoadTime - req[r].left <= LoadTime
        BY <3>1, LeftBound, Durations, Zenon
      <3>4. Recent(req[r].row, LoadTime) /\ Recent(req[r].grants, LoadTime)
        BY <3>2, <3>3, RecentLater, Zenon
      <3> DEFINE e == L1Entry([row |-> req[r].row, grants |-> req[r].grants, ttl |-> L2TTL])
      <3>5. e.row = req[r].row /\ e.grants = req[r].grants /\ e.ttl = L1TTL /\ e \in Entries
        BY <3>1, Numbers DEF L1Entry, Entries
      <3>6. l1' = [l1 EXCEPT ![req[r].at] = e]
        BY <2>2, Zenon DEF Promote
      <3> HIDE DEF e
      <3>7. LoadTime + L2TTL - e.ttl \in Int /\ LoadTime <= LoadTime + L2TTL - e.ttl /\ e.ttl >= 1
        BY <3>5, Numbers
      <3>8. Recent(e.row, LoadTime + L2TTL - e.ttl) /\ Recent(e.grants, LoadTime + L2TTL - e.ttl)
        BY <3>3, <3>4, <3>5, <3>7, RecentLater
      <3>9. L1Fresh(e)
        BY <3>7, <3>8, Zenon DEF L1Fresh
      <3>10. l1' \in [Instances -> Entries \cup {NoEntry}] /\ \A i \in Instances : L1Fresh(l1'[i])
        BY <3>1, <3>5, <3>6, <3>9, EntryStep, Zenon
      <3>11. Stored(r) \in Shared /\ L2Fresh(Stored(r))
        <4>1. Stored(r) \in Shared
          BY <3>1, Numbers DEF Stored, Shared, Keys, Versions
        <4>2. Stored(r).row = req[r].row /\ Stored(r).grants = req[r].grants /\ Stored(r).ttl = L2TTL
          BY Zenon DEF Stored
        <4>3. LoadTime + L2TTL - Stored(r).ttl = LoadTime /\ Stored(r).ttl >= 1
          BY <4>2, Numbers
        <4> QED
          BY <3>4, <4>1, <4>2, <4>3, Zenon DEF L2Fresh
      <3> QED
        BY <2>2, <3>10, <3>11 DEF Promote, TypeOK, Timely
    <2> QED
      BY <2>1, <2>2
  <1> QED
    BY <1>1, <1>2, <1>3, <1>4, Zenon DEF LoadStep, TypeOK, Timely, Current

\* A process that starts again knows nothing.
LEMMA RestartKeeps ==
  ASSUME AuthInv, NEW i \in Instances, Restart(i) PROVE AuthInv'
  <1> USE DEF AuthInv
  <1>1. Still /\ UNCHANGED l2
    BY DEF Restart, Still
  <1>2. version \in Nat /\ version >= 1
    BY Numbers DEF TypeOK, Versions
  <1>3. /\ l1' = [l1 EXCEPT ![i] = NoEntry] /\ flight' = [flight EXCEPT ![i] = NoFlight]
        /\ lock' = [lock EXCEPT ![i] = Free] /\ seen' = [seen EXCEPT ![i] = 0]
        /\ pending' = [pending EXCEPT ![i] = <<>>] /\ inbox' = [inbox EXCEPT ![i] = <<>>]
        /\ req' = [r \in Requests |-> IF req[r] # Idle /\ req[r].at = i THEN Idle ELSE req[r]]
    BY Zenon DEF Restart
  <1>4. faults' \in 0..MaxFaults
    BY FaultBound, Zenon DEF Restart
  <1>5. L1Fresh(NoEntry) /\ FlightFresh(NoFlight) /\ CallFresh(Idle)
    BY Zenon DEF L1Fresh, FlightFresh, CallFresh
  <1>6. /\ l1' \in [Instances -> Entries \cup {NoEntry}] /\ \A j \in Instances : L1Fresh(l1'[j])
        /\ flight' \in [Instances -> Flights \cup {NoFlight}] /\ \A j \in Instances : FlightFresh(flight'[j])
    BY <1>3, <1>5, Zenon DEF TypeOK, Timely
  <1>7. req' \in [Requests -> Calls \cup {Idle}] /\ \A r \in Requests : CallFresh(req'[r])
    BY <1>3, <1>5, Zenon DEF TypeOK, Timely
  <1>8. /\ lock' \in [Instances -> Locks \cup {Free}]
        /\ pending' \in [Instances -> Seq(Changes)] /\ inbox' \in [Instances -> Seq(Changes)]
        /\ seen' \in [Instances -> 0..(MaxCalls + 1)]
    BY <1>3, Numbers DEF TypeOK
  <1>9. TypeOK'
    BY <1>1, <1>4, <1>6, <1>7, <1>8, Zenon DEF TypeOK, Still
  <1>10. Committed'
    <2>1. /\ \A j \in Instances : seen'[j] <= version
          /\ \A j \in Instances : lock'[j] # Free => lock'[j].version <= version
      BY <1>2, <1>3 DEF Committed, TypeOK
    <2>2. \A j \in Instances : /\ pending'[j] = (IF j = i THEN <<>> ELSE pending[j])
                               /\ inbox'[j] = (IF j = i THEN <<>> ELSE inbox[j])
      BY <1>3 DEF TypeOK
    <2>3. \A k \in 1..Len(<<>>) : FALSE
      BY EmptySeq
    <2>4. /\ \A j \in Instances : \A k \in 1..Len(pending'[j]) : pending'[j][k].version <= version
          /\ \A j \in Instances : \A k \in 1..Len(inbox'[j]) : inbox'[j][k].version <= version
      BY <2>2, <2>3 DEF Committed
    <2> QED
      BY <1>1, <2>1, <2>4, Zenon DEF Committed, Still
  <1>11. Timely'
    BY <1>1, <1>6, <1>7, StillKeeps, Zenon DEF Timely
  <1>12. Current'
    <2>1. \A j \in Instances : FlightCurrent(flight'[j], seen'[j])
      BY <1>3 DEF Current, FlightCurrent, TypeOK
    <2>2. ASSUME NEW r \in Requests PROVE CallCurrent(req[r])'
      <3>1. CASE req'[r] = Idle
        BY <3>1, Zenon DEF CallCurrent
      <3>2. CASE req'[r] # Idle
        <4>1. req'[r] = req[r] /\ req[r] # Idle /\ req[r].at # i
          BY <1>3, <3>2
        <4>2. req[r].step = "loaded" => seen'[req[r].at] = seen[req[r].at]
          <5> SUFFICES ASSUME req[r].step = "loaded" PROVE seen'[req[r].at] = seen[req[r].at]
            OBVIOUS
          <5>1. req[r].at \in Instances
            BY <4>1, LoadedTyped DEF LoadedCalls
          <5> QED
            BY <1>3, <4>1, <5>1 DEF TypeOK
        <4> QED
          BY <4>1, <4>2 DEF Current, CallCurrent
      <3> QED
        BY <3>1, <3>2
    <2>3. \A j \in Instances : FlightCurrent(flight[j], seen[j])'
      BY <2>1 DEF FlightCurrent
    <2> QED
      BY <2>2, <2>3, Zenon DEF Current
  <1> QED
    BY <1>1, <1>9, <1>10, <1>11, <1>12, StillKeeps

-----------------------------------------------------------------------------
\* What a tick does to the clock.
LEMMA TickClock ==
  ASSUME TypeOK, Clock, Tick
  PROVE  /\ version' = version /\ version \in 1..(MaxCalls + 1)
         /\ since' \in [1..MaxCalls -> 0..(Bound + 1)]
         /\ \A v \in 1..MaxCalls : /\ since'[v] <= since[v] + 1
                                   /\ v >= version => since'[v] = since[v]
  <1>1. /\ version' = version
        /\ since' = [v \in 1..MaxCalls |-> IF v < version /\ since[v] <= Bound THEN since[v] + 1 ELSE since[v]]
    BY Zenon DEF Tick
  <1>2. version \in 1..(MaxCalls + 1) /\ since \in [1..MaxCalls -> 0..(Bound + 1)]
    BY DEF TypeOK, Versions
  <1>3. \A v \in 1..MaxCalls : since[v] \in 0..(Bound + 1)
    BY <1>2
  <1>4. \A v \in 1..MaxCalls : since'[v] \in 0..(Bound + 1)
    BY <1>1, <1>3, Numbers
  <1>5. \A v \in 1..MaxCalls : since'[v] <= since[v] + 1 /\ (v >= version => since'[v] = since[v])
    BY <1>1, <1>2, <1>3, Numbers
  <1> QED
    BY <1>1, <1>2, <1>4, <1>5

\* A tick makes every superseded version at most one tick older.
LEMMA TickAges ==
  ASSUME TypeOK, Clock, Tick
  PROVE  \A v : \A k \in Int : Recent(v, k) => Recent(v, k + 1)'
  <1> SUFFICES ASSUME NEW v, NEW k \in Int, Recent(v, k) PROVE Recent(v, k + 1)'
    OBVIOUS
  <1>1. version' = version /\ version \in Nat /\ v \in 1..version /\ version <= MaxCalls + 1
    BY TickClock, Numbers DEF Recent
  <1>2. CASE v = version
    <2>1. 0 <= k
      BY <1>2 DEF Recent, Age
    <2>2. Age(v)' = 0
      BY <1>1, <1>2 DEF Age
    <2> QED
      BY <1>1, <2>1, <2>2 DEF Recent
  <1>3. CASE v # version
    <2>1. v \in 1..MaxCalls /\ since[v] <= k /\ since[v] \in Int
      BY <1>1, <1>3, Numbers DEF Recent, Age, TypeOK
    <2>2. since'[v] <= since[v] + 1 /\ since'[v] \in Int
      BY <2>1, TickClock
    <2>3. since'[v] <= k + 1
      BY <2>1, <2>2
    <2> QED
      BY <1>1, <1>3, <2>3 DEF Recent, Age
  <1> QED
    BY <1>2, <1>3

\* So a bound that is reckoned from a lifetime holds when the lifetime shortens.
LEMMA TickRecent ==
  ASSUME TypeOK, Clock, Tick, NEW v, NEW k \in Int, NEW m \in Int, m = k + 1, Recent(v, k)
  PROVE  Recent(v, m)'
  BY TickAges

\* An entry of the local cache grows older as its lifetime shortens.
LEMMA TickL1 ==
  ASSUME TypeOK, Clock, Tick, NEW e \in Entries \cup {NoEntry}, L1Fresh(e)
  PROVE  Aged(e) \in Entries \cup {NoEntry} /\ L1Fresh(Aged(e))'
  <1>0. LoadTime \in Int /\ L2TTL \in Int
    BY Durations, Zenon
  <1>1. CASE Aged(e) = NoEntry
    BY <1>1, Zenon DEF L1Fresh
  <1>2. CASE Aged(e) # NoEntry
    <2>1. e # NoEntry /\ e \in Entries /\ ~(e.ttl <= 1) /\ Aged(e) = [e EXCEPT !.ttl = e.ttl - 1]
      BY <1>2 DEF Aged
    <2>2. e.ttl \in Nat /\ e.ttl - 1 \in Nat /\ e.ttl - 1 >= 1
      BY <2>1 DEF Entries
    <2>3. /\ Aged(e) \in Entries /\ Aged(e).row = e.row /\ Aged(e).grants = e.grants
          /\ Aged(e).ttl = e.ttl - 1
      BY <2>1, <2>2 DEF Entries
    <2>4. Recent(e.row, LoadTime + L2TTL - e.ttl) /\ Recent(e.grants, LoadTime + L2TTL - e.ttl)
      BY <2>1, Zenon DEF L1Fresh
    <2>5. Recent(e.row, LoadTime + L2TTL - (e.ttl - 1))' /\ Recent(e.grants, LoadTime + L2TTL - (e.ttl - 1))'
      <3>1. /\ LoadTime + L2TTL - e.ttl \in Int /\ LoadTime + L2TTL - (e.ttl - 1) \in Int
            /\ LoadTime + L2TTL - (e.ttl - 1) = LoadTime + L2TTL - e.ttl + 1
        BY <1>0, <2>2
      <3>2. \A k, m \in Int : \A v : m = k + 1 /\ Recent(v, k) => Recent(v, m)'
        BY TickRecent
      <3> QED
        BY <2>4, <3>1, <3>2
    <2> QED
      BY <2>2, <2>3, <2>5 DEF L1Fresh
  <1> QED
    BY <1>1, <1>2

\* So does the shared value.
LEMMA TickL2 ==
  ASSUME TypeOK, Clock, Tick, NEW s \in Shared, L2Fresh(s), ~(s.ttl <= 1)
  PROVE  [s EXCEPT !.ttl = s.ttl - 1] \in Shared /\ L2Fresh([s EXCEPT !.ttl = s.ttl - 1])'
  <1> DEFINE t == [s EXCEPT !.ttl = s.ttl - 1]
  <1>0. LoadTime \in Int /\ L2TTL \in Int
    BY Numbers
  <1>1. s.ttl \in Nat /\ s.ttl - 1 \in 0..L2TTL /\ s.ttl - 1 >= 1
    BY Numbers DEF Shared
  <1>2. t \in Shared /\ t.row = s.row /\ t.grants = s.grants /\ t.ttl = s.ttl - 1 /\ t.keys = s.keys
    BY <1>1 DEF Shared
  <1>3. CASE "value" \in s.keys
    <2>1. Recent(s.row, LoadTime + L2TTL - s.ttl) /\ Recent(s.grants, LoadTime + L2TTL - s.ttl)
      BY <1>3 DEF L2Fresh
    <2>2. Recent(s.row, LoadTime + L2TTL - (s.ttl - 1))' /\ Recent(s.grants, LoadTime + L2TTL - (s.ttl - 1))'
      <3>1. /\ LoadTime + L2TTL - s.ttl \in Int /\ LoadTime + L2TTL - (s.ttl - 1) \in Int
            /\ LoadTime + L2TTL - (s.ttl - 1) = LoadTime + L2TTL - s.ttl + 1
        BY <1>0, <1>1
      <3>2. \A k, m \in Int : \A v : m = k + 1 /\ Recent(v, k) => Recent(v, m)'
        BY TickRecent
      <3> QED
        BY <2>1, <3>1, <3>2
    <2> QED
      BY <1>1, <1>2, <2>2 DEF L2Fresh
  <1>4. CASE "value" \notin s.keys
    BY <1>2, <1>4 DEF L2Fresh
  <1> QED
    BY <1>3, <1>4

\* A load has a tick less to go, and the value it has read a tick less to live.
LEMMA TickFlight ==
  ASSUME TypeOK, Clock, Tick, NEW f \in Flights, FlightFresh(f), f # NoFlight, f.left > 0,
         NEW g, g = [f EXCEPT !.left = f.left - 1, !.ttl = Less(f.ttl)]
  PROVE  /\ g \in Flights /\ FlightFresh(g)'
         /\ g.step = f.step /\ g.row = f.row /\ g.same = f.same
  <1>0. LoadTime \in Int /\ L2TTL \in Int /\ Bound \in Int
    BY Numbers
  <1>1. /\ f.left \in Int /\ f.left - 1 \in 0..LoadTime /\ f.ttl \in Nat /\ Less(f.ttl) \in Nat
        /\ Less(f.ttl) > 0 => f.ttl > 0 /\ Less(f.ttl) = f.ttl - 1
    BY <1>0 DEF Flights, Less
  <1>2. /\ g \in Flights /\ g.step = f.step /\ g.row = f.row /\ g.grants = f.grants /\ g.same = f.same
        /\ g.left = f.left - 1 /\ g.ttl = Less(f.ttl)
    BY <1>1, Zenon DEF Flights
  <1>3. \A k, m \in Int : \A v : m = k + 1 /\ Recent(v, k) => Recent(v, m)'
    BY TickRecent
  <1>4. g.step = "fill" => Recent(g.row, Bound - g.left)' /\ Recent(g.grants, Bound - g.left)'
    <2>1. Bound - f.left \in Int /\ Bound - g.left \in Int /\ Bound - g.left = Bound - f.left + 1
      BY <1>0, <1>1, <1>2
    <2>2. g.step = "fill" => Recent(g.row, Bound - f.left) /\ Recent(g.grants, Bound - f.left)
      BY <1>2 DEF FlightFresh
    <2> QED
      BY <1>3, <2>1, <2>2
  <1>5. g.step = "fill" /\ g.ttl > 0 => /\ Recent(g.row, LoadTime + L2TTL - g.ttl)'
                                        /\ Recent(g.grants, LoadTime + L2TTL - g.ttl)'
    <2> SUFFICES ASSUME g.step = "fill", g.ttl > 0
                 PROVE  Recent(g.row, LoadTime + L2TTL - g.ttl)' /\ Recent(g.grants, LoadTime + L2TTL - g.ttl)'
      OBVIOUS
    <2>1. /\ LoadTime + L2TTL - f.ttl \in Int /\ LoadTime + L2TTL - g.ttl \in Int
          /\ LoadTime + L2TTL - g.ttl = LoadTime + L2TTL - f.ttl + 1
      BY <1>0, <1>1, <1>2
    <2>2. Recent(g.row, LoadTime + L2TTL - f.ttl) /\ Recent(g.grants, LoadTime + L2TTL - f.ttl)
      BY <1>1, <1>2 DEF FlightFresh
    <2> QED
      BY <1>3, <2>1, <2>2
  <1>6. g.step = "grants" => Recent(g.row, LoadTime - g.left)'
    <2>1. LoadTime - f.left \in Int /\ LoadTime - g.left \in Int /\ LoadTime - g.left = LoadTime - f.left + 1
      BY <1>0, <1>1, <1>2
    <2>2. g.step = "grants" => Recent(g.row, LoadTime - f.left)
      BY <1>2 DEF FlightFresh
    <2> QED
      BY <1>3, <2>1, <2>2
  <1>7. FlightFresh(g)'
    BY <1>4, <1>5, <1>6 DEF FlightFresh
  <1> QED
    BY <1>2, <1>7

\* So has a caller that has its result.
LEMMA TickCall ==
  ASSUME TypeOK, Clock, Tick, NEW q \in LoadedCalls, q # Idle, CallFresh(q), q.left > 0,
         NEW p, p = [q EXCEPT !.left = q.left - 1]
  PROVE  /\ p \in LoadedCalls /\ CallFresh(p)'
         /\ p.source = q.source /\ p.row = q.row /\ p.grants = q.grants /\ p.same = q.same /\ p.at = q.at
  <1>0. LoadTime \in Int /\ Bound \in Int
    BY Numbers
  <1>1. q.left \in Int /\ q.left - 1 \in 0..LoadTime /\ q.step = "loaded"
    BY <1>0 DEF LoadedCalls
  <1>2. /\ p \in LoadedCalls /\ p.source = q.source /\ p.row = q.row /\ p.grants = q.grants
        /\ p.same = q.same /\ p.at = q.at /\ p.left = q.left - 1
    BY <1>1 DEF LoadedCalls
  <1>3. \A k, m \in Int : \A v : m = k + 1 /\ Recent(v, k) => Recent(v, m)'
    BY TickRecent
  <1>4. p.source = "postgres" => Recent(p.row, LoadTime - p.left)' /\ Recent(p.grants, LoadTime - p.left)'
    <2>1. LoadTime - q.left \in Int /\ LoadTime - p.left \in Int /\ LoadTime - p.left = LoadTime - q.left + 1
      BY <1>0, <1>1, <1>2
    <2>2. p.source = "postgres" => Recent(p.row, LoadTime - q.left) /\ Recent(p.grants, LoadTime - q.left)
      BY <1>1, <1>2 DEF CallFresh
    <2> QED
      BY <1>3, <2>1, <2>2
  <1>5. p.source = "l2" => Recent(p.row, Bound - p.left)' /\ Recent(p.grants, Bound - p.left)'
    <2>1. Bound - q.left \in Int /\ Bound - p.left \in Int /\ Bound - p.left = Bound - q.left + 1
      BY <1>0, <1>1, <1>2
    <2>2. p.source = "l2" => Recent(p.row, Bound - q.left) /\ Recent(p.grants, Bound - q.left)
      BY <1>1, <1>2 DEF CallFresh
    <2> QED
      BY <1>3, <2>1, <2>2
  <1>6. CallFresh(p)'
    BY <1>4, <1>5 DEF CallFresh
  <1> QED
    BY <1>2, <1>6

\* A tick makes a snapshot older by as much as it shortens the lifetime it is kept for.
LEMMA TickKeeps ==
  ASSUME AuthInv, Tick PROVE AuthInv'
  <1> USE DEF AuthInv
  <1>1. /\ UNCHANGED <<version, invalidation, calls, faults>>
        /\ l1' = [i \in Instances |-> Aged(l1[i])]
        /\ l2' = IF l2.ttl <= 1 THEN Nothing ELSE [l2 EXCEPT !.ttl = l2.ttl - 1]
        /\ flight' = [i \in Instances |-> IF flight[i] = NoFlight THEN NoFlight
             ELSE [flight[i] EXCEPT !.left = flight[i].left - 1, !.ttl = Less(flight[i].ttl)]]
        /\ req' = [r \in Requests |-> IF req[r] # Idle /\ req[r].step = "loaded"
             THEN [req[r] EXCEPT !.left = req[r].left - 1] ELSE req[r]]
    BY Zenon DEF Tick
  <1>2. /\ \A i \in Instances : flight[i] # NoFlight => flight[i].left > 0
        /\ \A r \in Requests : req[r] # Idle /\ req[r].step = "loaded" => req[r].left > 0
    BY Zenon DEF Tick
  <1>3. since' \in [1..MaxCalls -> 0..(Bound + 1)] /\ Clock'
    <2>1. since' \in [1..MaxCalls -> 0..(Bound + 1)]
      BY TickClock
    <2>2. Clock'
      BY <1>1, TickClock, Zenon DEF Clock
    <2> QED
      BY <2>1, <2>2
  <1>4. Committed'
    BY <1>1, Zenon DEF Committed, invalidation
  <1>5. l1' \in [Instances -> Entries \cup {NoEntry}] /\ \A i \in Instances : L1Fresh(l1[i])'
    <2>1. \A e \in Entries \cup {NoEntry} : L1Fresh(e) =>
            Aged(e) \in Entries \cup {NoEntry} /\ L1Fresh(Aged(e))'
      BY TickL1
    <2>2. \A i \in Instances : l1[i] \in Entries \cup {NoEntry} /\ L1Fresh(l1[i]) /\ l1'[i] = Aged(l1[i])
      BY <1>1, Zenon DEF TypeOK, Timely
    <2>3. ASSUME NEW i \in Instances PROVE l1'[i] \in Entries \cup {NoEntry} /\ L1Fresh(l1[i])'
      <3>1. PICK e \in Entries \cup {NoEntry} : e = l1[i]
        BY <2>2
      <3>2. L1Fresh(e) /\ l1'[i] = Aged(e)
        BY <2>2, <3>1
      <3>3. Aged(e) \in Entries \cup {NoEntry} /\ L1Fresh(Aged(e))'
        BY <2>1, <3>2
      <3> QED
        BY <3>2, <3>3 DEF L1Fresh
    <2> QED
      BY <1>1, <2>3, Zenon
  <1>6. l2' \in Shared /\ L2Fresh(l2)'
    <2>1. CASE l2.ttl <= 1
      <3>1. l2' = Nothing
        BY <1>1, <2>1, Zenon
      <3>2. Nothing \in Shared
        BY Numbers DEF Nothing, Shared
      <3> QED
        BY <3>1, <3>2 DEF L2Fresh, Nothing
    <2>2. CASE ~(l2.ttl <= 1)
      <3>1. PICK s \in Shared : s = l2
        BY DEF TypeOK
      <3>2. L2Fresh(s) /\ ~(s.ttl <= 1) /\ l2' = [s EXCEPT !.ttl = s.ttl - 1]
        BY <1>1, <2>2, <3>1, Zenon DEF Timely
      <3>3. [s EXCEPT !.ttl = s.ttl - 1] \in Shared /\ L2Fresh([s EXCEPT !.ttl = s.ttl - 1])'
        BY <3>2, TickL2, Zenon
      <3> QED
        BY <3>2, <3>3 DEF L2Fresh
    <2> QED
      BY <2>1, <2>2, Zenon
  <1>7. ASSUME NEW i \in Instances
        PROVE  /\ flight'[i] \in Flights \cup {NoFlight}
               /\ FlightFresh(flight[i])' /\ FlightCurrent(flight[i], seen[i])'
    <2>0. seen'[i] = seen[i]
      BY <1>1, Zenon DEF invalidation
    <2>1. CASE flight[i] = NoFlight
      BY <1>1, <2>1, Zenon DEF FlightFresh, FlightCurrent
    <2>2. CASE flight[i] # NoFlight
      <3>1. PICK f \in Flights : f = flight[i]
        BY <2>2 DEF TypeOK
      <3>2. PICK g : g = [f EXCEPT !.left = f.left - 1, !.ttl = Less(f.ttl)]
        OBVIOUS
      <3>3. flight'[i] = g /\ FlightFresh(f) /\ f.left > 0 /\ f # NoFlight
        BY <1>1, <1>2, <2>2, <3>1, <3>2, Zenon DEF Timely
      <3>4. /\ g \in Flights /\ FlightFresh(g)'
            /\ g.step = f.step /\ g.row = f.row /\ g.same = f.same
        BY <3>2, <3>3, TickFlight, Zenon
      <3>5. FlightCurrent(f, seen[i])
        BY <3>1, Zenon DEF Current
      <3>6. FlightFresh(flight[i])'
        BY <3>3, <3>4, Zenon DEF FlightFresh
      <3>7. FlightCurrent(flight[i], seen[i])'
        BY <2>0, <3>3, <3>4, <3>5, Zenon DEF FlightCurrent
      <3> QED
        BY <3>3, <3>4, <3>6, <3>7
    <2> QED
      BY <2>1, <2>2
  <1>8. ASSUME NEW r \in Requests
        PROVE  req'[r] \in Calls \cup {Idle} /\ CallFresh(req[r])' /\ CallCurrent(req[r])'
    <2>0. seen' = seen
      BY <1>1, Zenon DEF invalidation
    <2>1. CASE ~(req[r] # Idle /\ req[r].step = "loaded")
      <3>1. req'[r] = req[r]
        BY <1>1, <2>1, Zenon
      <3> QED
        BY <2>1, <3>1 DEF TypeOK, CallFresh, CallCurrent
    <2>2. CASE req[r] # Idle /\ req[r].step = "loaded"
      <3>1. PICK q \in LoadedCalls : q = req[r]
        BY <2>2, LoadedTyped
      <3>2. PICK p : p = [q EXCEPT !.left = q.left - 1]
        BY Zenon
      <3>3. req'[r] = p /\ CallFresh(q) /\ q.left > 0 /\ q # Idle /\ CallCurrent(q)
        BY <1>1, <1>2, <2>2, <3>1, <3>2, Zenon DEF Timely, Current
      <3>4. /\ p \in LoadedCalls /\ CallFresh(p)'
            /\ p.source = q.source /\ p.row = q.row /\ p.grants = q.grants /\ p.same = q.same /\ p.at = q.at
        BY <3>2, <3>3, TickCall, Zenon
      <3>5. CallFresh(req[r])'
        BY <3>3, <3>4 DEF CallFresh
      <3>6. q.step = "loaded"
        BY <2>2, <3>1
      <3>7. CallCurrent(req[r])'
        BY <2>0, <3>3, <3>4, <3>6, Zenon DEF CallCurrent
      <3> QED
        BY <3>3, <3>4, <3>5, <3>7, LoadedIsCall, Zenon
    <2> QED
      BY <2>1, <2>2
  <1>9. TypeOK'
    <2>1. flight' \in [Instances -> Flights \cup {NoFlight}] /\ req' \in [Requests -> Calls \cup {Idle}]
      BY <1>1, <1>7, <1>8, Zenon
    <2> QED
      BY <1>1, <1>3, <1>5, <1>6, <2>1, Zenon DEF TypeOK, invalidation
  <1>10. Timely' /\ Current'
    BY <1>5, <1>6, <1>7, <1>8, Zenon DEF Timely, Current
  <1> QED
    BY <1>3, <1>4, <1>9, <1>10

-----------------------------------------------------------------------------
\* Every step keeps the invariant.
LEMMA StepKeeps ==
  ASSUME AuthInv, [Next]_authVars PROVE AuthInv'
  <1>1. ASSUME NEW i \in Instances,
               Revoke(i) \/ Disable(i) \/ UpdateKeyStatusAudited(i) \/ UpdateTenantAudited(i)
        PROVE  AuthInv'
    BY <1>1, CallKeeps DEF Revoke, Disable, UpdateKeyStatusAudited, UpdateTenantAudited
  <1>2. ASSUME NEW i \in Instances,
               \/ LoadShared(i) \/ LoadSharedFails(i) \/ FillL1(i) \/ LoadRow(i) \/ LoadGrants(i)
               \/ LoadFails(i) \/ Evict(i)
        PROVE  AuthInv'
    BY <1>2, LoadSharedKeeps, FillKeeps, LoadRowKeeps, LoadGrantsKeeps, DropKeeps, LoadStepKeeps
  <1>3. ASSUME NEW i \in Instances,
               \/ Invalidate(i) \/ handleInvalidation(i) \/ EndInvalidation(i) \/ InvalidationFails(i)
               \/ Restart(i)
        PROVE  AuthInv'
    BY <1>3, InvalidateKeeps, ReleaseKeeps, RestartKeeps
  <1>4. ASSUME NEW r \in Requests,
               (\E i \in Instances : LookupMiss(r, i)) \/ Cancel(r) \/ Promote(r) \/ DecideOnly(r)
        PROVE  AuthInv'
    BY <1>4, LookupKeeps, PromoteKeeps, LoadStepKeeps
  <1>5. CASE UNCHANGED authVars
    <2>1. LoadStep
      BY <1>5 DEF AuthInv, TypeOK, Timely, Current, LoadStep, Still, authVars, caches, loads, invalidation
    <2> QED
      BY <2>1, LoadStepKeeps, Zenon
  <1> QED
    BY <1>1, <1>2, <1>3, <1>4, <1>5, TickKeeps DEF Next

\* The invariant holds for any number of processes, requests, changes and faults.
LEMMA InvHolds == Spec => []AuthInv
  <1>1. AuthInv /\ [Next]_authVars => AuthInv'
    BY StepKeeps
  <1> QED
    BY InitEstablishes, <1>1, PTL DEF Spec

\* The two caches, the loads and the invalidation queues keep their types.
THEOREM AuthTypeOK == Spec => []TypeOK
  <1>1. AuthInv => TypeOK
    BY DEF AuthInv
  <1> QED
    BY InvHolds, <1>1, PTL

\* L1, L2 and the loads of Authenticate: for every lifetime and load time, any
\* number of processes and callers, and whatever messages, Redis calls and
\* processes fail, a superseded state decides no request once the load time and
\* the lifetime of a shared value, and one load more, have passed.
THEOREM AuthStaleBounded == Spec => []StaleBounded
  <1>1. AuthInv => StaleBounded
    <2> SUFFICES ASSUME AuthInv PROVE StaleBounded
      OBVIOUS
    <2> USE DEF AuthInv
    <2>1. ASSUME NEW i \in Instances, l1[i] # NoEntry PROVE NoOlder(l1[i], CacheBound)
      <3>1. /\ l1[i].ttl \in Nat /\ l1[i].ttl >= 1
            /\ Recent(l1[i].row, LoadTime + L2TTL - l1[i].ttl)
            /\ Recent(l1[i].grants, LoadTime + L2TTL - l1[i].ttl)
        BY <2>1 DEF TypeOK, Entries, Timely, L1Fresh
      <3>2. /\ LoadTime + L2TTL - l1[i].ttl \in Int /\ CacheBound \in Int
            /\ LoadTime + L2TTL - l1[i].ttl <= CacheBound
        BY <3>1, LiveBound, Zenon
      <3>3. Recent(l1[i].row, CacheBound) /\ Recent(l1[i].grants, CacheBound)
        BY <3>1, <3>2, RecentLater, Zenon
      <3> QED
        BY <3>3, Zenon DEF Recent, NoOlder
    <2>2. ASSUME NEW r \in Requests, req[r] # Idle, req[r].step = "loaded" PROVE NoOlder(req[r], Bound)
      <3>1. req[r].left \in 0..LoadTime /\ req[r].source \in {"l2", "postgres"}
        BY <2>2, LoadedTyped, Zenon DEF LoadedCalls
      <3>2. /\ LoadTime - req[r].left \in Int /\ Bound - req[r].left \in Int /\ Bound \in Int
            /\ LoadTime - req[r].left <= Bound /\ Bound - req[r].left <= Bound
        BY <3>1, LeftBound, Durations, Zenon
      <3>3. \/ Recent(req[r].row, LoadTime - req[r].left) /\ Recent(req[r].grants, LoadTime - req[r].left)
            \/ Recent(req[r].row, Bound - req[r].left) /\ Recent(req[r].grants, Bound - req[r].left)
        BY <2>2, <3>1, Zenon DEF Timely, CallFresh
      <3>4. Recent(req[r].row, Bound) /\ Recent(req[r].grants, Bound)
        BY <3>2, <3>3, RecentLater, Zenon
      <3> QED
        BY <3>4, Zenon DEF Recent, NoOlder
    <2> QED
      BY <2>1, <2>2 DEF StaleBounded
  <1> QED
    BY InvHolds, <1>1, PTL

\* Promote under invalidationMu and the generation: what a process writes to the
\* caches from PostgreSQL is never older than a change whose invalidation it has
\* begun, however many loads, callers and invalidations overlap.
THEOREM AuthPromotionCurrent == Spec => PromotionCurrent
  <1> DEFINE NotOlder == \A r \in Requests : Promote(r) =>
               req[r].row >= seen[req[r].at] /\ req[r].grants >= seen[req[r].at]
  <1>1. AuthInv => NotOlder
    BY Zenon DEF AuthInv, Current, CallCurrent, Promote, Promotes
  <1>2. AuthInv /\ [Next]_authVars => [NotOlder]_authVars
    BY <1>1
  <1> QED
    BY InvHolds, <1>2, PTL DEF Spec, PromotionCurrent
=============================================================================
