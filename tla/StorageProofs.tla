--------------------------- MODULE StorageProofs ----------------------------
(***************************************************************************)
(* Proofs about what reaches PostgreSQL from several processes: managed    *)
(* documents, for any number of instances, updates and restarts, and usage *)
(* events, for any number of events, workers, stream entries and faults.   *)
(*                                                                         *)
(* Documents: optimistic concurrency of the runtime configuration.         *)
(*                                                                         *)
(* Usage: no accepted request vanishes, and what is recorded implements    *)
(* UsageLedger.                                                            *)
(***************************************************************************)
EXTENDS ControlPlane, UsagePipeline, TLAPS

-----------------------------------------------------------------------------
(* Managed documents.                                                      *)

\* The versions of the stored row bound every version that a call or a watcher
\* holds.  A call that found no row expects version 0.
Versioned ==
  /\ row \in DocumentRows
  /\ active \in [Instances -> Documents]
  /\ view \in [Instances -> 0..row.version]
  /\ update \in [Updates -> Calls]
  /\ watch \in [Instances -> [step : {"idle", "compare", "replace", "view"}, row : DocumentRows]]
  /\ overtaken \subseteq Instances
  /\ restarts \in 0..MaxRestarts
  /\ \A i \in Instances : watch[i].row.version <= row.version
  /\ \A u \in Updates : update[u].step = "first" => update[u].expected = 0
  /\ \A u \in Accepted : update[u].version <= row.version

PlaneInv == Versioned /\ NoLostUpdate

\* What is accepted before a step is what has stored a version.
LEMMA AcceptedSteps ==
  \A u \in Updates : u \in Accepted <=> update[u].step \in {"replace", "view", "done"}
  BY DEF Accepted

\* Before anything is stored no call has been accepted.
LEMMA PlaneInitEstablishes == PlaneInit => PlaneInv
  <1> SUFFICES ASSUME PlaneInit PROVE PlaneInv
    OBVIOUS
  <1>1. Accepted = {}
    BY DEF PlaneInit, Accepted
  <1>2. NoLostUpdate
    BY <1>1 DEF NoLostUpdate
  <1>3. Versioned
    <2>1. row \in DocumentRows /\ row.version = 0
      BY DEF PlaneInit, DocumentRows, NoDocument, Documents
    <2>2. active \in [Instances -> Documents] /\ view \in [Instances -> 0..row.version]
      BY <2>1 DEF PlaneInit, Documents
    <2>3. update \in [Updates -> Calls]
      BY DEF PlaneInit, Calls
    <2>4. /\ watch \in [Instances -> [step : {"idle", "compare", "replace", "view"}, row : DocumentRows]]
          /\ \A i \in Instances : watch[i].row.version <= row.version
      BY <2>1 DEF PlaneInit, DocumentRows, NoDocument, Documents
    <2>5. overtaken \subseteq Instances /\ restarts \in 0..MaxRestarts
      BY ControlPlaneAssumption DEF PlaneInit
    <2>6. \A u \in Updates : update[u].step = "first" => update[u].expected = 0
      BY DEF PlaneInit
    <2> QED
      BY <1>1, <2>1, <2>2, <2>3, <2>4, <2>5, <2>6 DEF Versioned
  <1> QED
    BY <1>2, <1>3 DEF PlaneInv

\* A call stores the next version only over the version its author had seen:
\* it then has a version of its own.
LEMMA StoredKeeps ==
  ASSUME PlaneInv, NEW u \in Updates, u \notin Accepted,
         update[u].expected = row.version,
         Stored(u, row.version + 1), UNCHANGED <<active, view, watch, overtaken, restarts>>
  PROVE  PlaneInv'
  <1> DEFINE n == row.version + 1
  <1>1. /\ row.version \in Nat /\ n \in Nat /\ n > row.version
        /\ row' = [version |-> n, document |-> u]
    BY DEF PlaneInv, Versioned, DocumentRows, Stored
  <1>2. row' \in DocumentRows /\ row'.version = n
    BY <1>1 DEF DocumentRows, Documents
  <1>3. /\ update[u] \in Calls
        /\ update' = [update EXCEPT ![u] = [update[u] EXCEPT !.step = "replace", !.version = n]]
    BY Zenon DEF PlaneInv, Versioned, Stored
  <1>4. /\ update' \in [Updates -> Calls]
        /\ update'[u].step = "replace" /\ update'[u].version = n
        /\ update'[u].expected = row.version
        /\ \A v \in Updates \ {u} : update'[v] = update[v]
    BY <1>1, <1>3, Zenon DEF PlaneInv, Versioned, Calls
  <1>5. Accepted' = Accepted \cup {u}
    BY <1>4 DEF Accepted
  <1>6. view' \in [Instances -> 0..row'.version]
    BY <1>1, <1>2 DEF PlaneInv, Versioned
  <1>7. \A i \in Instances : watch'[i].row.version <= row'.version
    BY <1>1, <1>2 DEF PlaneInv, Versioned, DocumentRows
  <1>8. \A v \in Updates : update'[v].step = "first" => update'[v].expected = 0
    BY <1>4 DEF PlaneInv, Versioned
  <1>9. \A v \in Accepted' : update'[v].version <= row'.version
    <2> TAKE v \in Accepted'
    <2>1. CASE v = u
      BY <2>1, <1>2, <1>4, <1>1
    <2>2. CASE v # u
      BY <2>2, <1>1, <1>2, <1>4, <1>5 DEF PlaneInv, Versioned, Accepted, Calls
    <2> QED
      BY <2>1, <2>2
  <1>10. Versioned'
    BY <1>2, <1>4, <1>6, <1>7, <1>8, <1>9 DEF PlaneInv, Versioned
  <1>11. NoLostUpdate'
    <2> SUFFICES ASSUME NEW v \in Accepted'
                 PROVE  /\ update'[v].version = update'[v].expected + 1
                        /\ \A w \in Accepted' \ {v} : update'[w].version # update'[v].version
      BY DEF NoLostUpdate
    <2>1. \A w \in Accepted : w # u /\ w \in Updates /\ update'[w] = update[w] /\ update[w].version < n
      BY <1>1, <1>4 DEF PlaneInv, Versioned, Accepted, Calls
    <2>2. CASE v = u
      BY <2>1, <2>2, <1>1, <1>4, <1>5
    <2>3. CASE v # u
      BY <2>1, <2>3, <1>1, <1>4, <1>5 DEF PlaneInv, NoLostUpdate
    <2> QED
      BY <2>2, <2>3
  <1> QED
    BY <1>10, <1>11 DEF PlaneInv

\* A step that stores nothing and leaves the versions of the calls alone keeps
\* the invariant, whatever it does to the progress of calls already accepted.
LEMMA KeepsAccepted ==
  ASSUME NoLostUpdate, Accepted' \subseteq Accepted,
         \A u \in Accepted : update'[u].version = update[u].version
                             /\ update'[u].expected = update[u].expected
  PROVE  NoLostUpdate'
  BY DEF NoLostUpdate

\* Every step keeps the invariant, for the runtime configuration, whose first
\* row is inserted under a unique index.
LEMMA PlaneStepKeeps ==
  ASSUME Kind = "runtime", PlaneInv, [PlaneNext]_planeVars
  PROVE  PlaneInv'
  <1> USE DEF PlaneInv
  <1>0. row.version \in Nat
    BY DEF Versioned, DocumentRows
  <1>1. ASSUME NEW u \in Updates, Send(u) PROVE PlaneInv'
    <2>1. PICK i \in Instances :
             update' = [update EXCEPT ![u].step = "sent", ![u].expected = view[i]]
      BY <1>1, Zenon DEF Send
    <2>2. /\ update' \in [Updates -> Calls]
          /\ update'[u].step = "sent"
          /\ \A v \in Updates \ {u} : update'[v] = update[v]
      <3> DEFINE seen == view[i]
      <3>a. update[u] \in Calls /\ seen \in Nat
        BY <1>0 DEF Versioned
      <3>b. update' = [update EXCEPT ![u].step = "sent", ![u].expected = seen]
        BY <2>1
      <3> HIDE DEF seen
      <3>1. /\ update[u] \in Calls /\ seen \in Nat
            /\ update' = [update EXCEPT ![u] = [update[u] EXCEPT !.step = "sent", !.expected = seen]]
        BY <3>a, <3>b, Zenon DEF Versioned
      <3>2. [update[u] EXCEPT !.step = "sent", !.expected = seen] \in Calls
        BY <3>1, Zenon DEF Calls
      <3> QED
        BY <3>1, <3>2 DEF Versioned, Calls
    <2>3. Accepted' = Accepted /\ u \notin Accepted
      BY <1>1, <2>2 DEF Accepted, Send
    <2>4. Versioned'
      BY <1>1, <2>2, <2>3 DEF Send, Versioned, Accepted
    <2>5. NoLostUpdate'
      BY <2>2, <2>3, KeepsAccepted DEF Accepted
    <2> QED
      BY <2>4, <2>5
  <1>2. ASSUME NEW u \in Updates, Commit(u) PROVE PlaneInv'
    <2>1. u \notin Accepted
      BY <1>2 DEF Commit, Accepted
    <2> QED
      BY <1>2, <2>1, StoredKeeps DEF Commit, Matches
  <1>3. ASSUME NEW u \in Updates, VersionConflict(u) \/ FirstRead(u) PROVE PlaneInv'
    <2>1. /\ update[u].step = "sent"
          /\ update' = [update EXCEPT ![u].step = "failed"] \/
               (update' = [update EXCEPT ![u].step = "first"] /\ update[u].expected = 0)
          /\ UNCHANGED <<row, active, view, watch, overtaken, restarts>>
      BY <1>3 DEF VersionConflict, FirstRead, Matches
    <2>2. /\ update' \in [Updates -> Calls]
          /\ update'[u].step \in {"failed", "first"}
          /\ update'[u].step = "first" => update'[u].expected = 0
          /\ \A v \in Updates \ {u} : update'[v] = update[v]
      BY <2>1 DEF Versioned, Calls
    <2>3. Accepted' = Accepted /\ u \notin Accepted
      BY <2>1, <2>2 DEF Accepted
    <2>4. Versioned'
      BY <2>1, <2>2, <2>3 DEF Versioned, Accepted
    <2>5. NoLostUpdate'
      BY <2>2, <2>3, KeepsAccepted DEF Accepted
    <2> QED
      BY <2>4, <2>5
  <1>4. ASSUME NEW u \in Updates, FirstCommit(u) PROVE PlaneInv'
    <2>0. u \notin Accepted /\ update[u].expected = 0
      BY <1>4 DEF FirstCommit, Accepted, Versioned
    <2>1. CASE row.version > 0
      <3>1. /\ update' = [update EXCEPT ![u].step = "failed"]
            /\ UNCHANGED <<row, active, view, watch, overtaken, restarts>>
        BY <1>4, <2>1 DEF FirstCommit
      <3>2. /\ update' \in [Updates -> Calls]
            /\ update'[u].step = "failed"
            /\ \A v \in Updates \ {u} : update'[v] = update[v]
        BY <3>1 DEF Versioned, Calls
      <3>3. Accepted' = Accepted
        BY <2>0, <3>2 DEF Accepted
      <3>4. Versioned'
        BY <3>1, <3>2, <3>3 DEF Versioned, Accepted
      <3>5. NoLostUpdate'
        BY <2>0, <3>2, <3>3, KeepsAccepted DEF Accepted
      <3> QED
        BY <3>4, <3>5
    <2>2. CASE row.version = 0
      <3>1. Stored(u, row.version + 1) /\ UNCHANGED <<active, view, watch, overtaken, restarts>>
        BY <1>4, <2>2 DEF FirstCommit
      <3> QED
        BY <2>0, <2>2, <3>1, StoredKeeps
    <2> QED
      BY <1>0, <2>1, <2>2
  <1>5. ASSUME NEW u \in Updates, Replace(u) PROVE PlaneInv'
    <2>1. /\ update' \in [Updates -> Calls]
          /\ update'[u].step = "view" /\ update[u].step = "replace"
          /\ update'[u].version = update[u].version /\ update'[u].expected = update[u].expected
          /\ \A v \in Updates \ {u} : update'[v] = update[v]
      BY <1>5 DEF Replace, Versioned, Calls
    <2>2. Accepted' = Accepted
      BY <2>1 DEF Accepted
    <2>3. active' \in [Instances -> Documents] /\ overtaken' \subseteq Instances
      BY <1>5, ControlPlaneAssumption, Zenon DEF Replace, Versioned, Documents
    <2>4. Versioned'
      BY <1>5, <2>1, <2>2, <2>3 DEF Replace, Versioned, Accepted
    <2>5. NoLostUpdate'
      BY <2>1, <2>2, KeepsAccepted DEF Accepted
    <2> QED
      BY <2>4, <2>5
  <1>6. ASSUME NEW u \in Updates, SetView(u) PROVE PlaneInv'
    <2>1. /\ update' \in [Updates -> Calls]
          /\ update'[u].step = "done" /\ update[u].step = "view"
          /\ update'[u].version = update[u].version /\ update'[u].expected = update[u].expected
          /\ \A v \in Updates \ {u} : update'[v] = update[v]
      BY <1>6 DEF SetView, Versioned, Calls
    <2>2. Accepted' = Accepted /\ u \in Accepted
      BY <2>1 DEF Accepted
    <2>3. update[u].version \in 0..row.version
      BY <1>0, <2>2 DEF Versioned, Calls
    <2>4. view' \in [Instances -> 0..row'.version]
      BY <1>6, <2>3, ControlPlaneAssumption, Zenon DEF SetView, Viewed, Versioned
    <2>5. Versioned'
      BY <1>6, <2>1, <2>2, <2>4 DEF SetView, Viewed, Versioned, Accepted
    <2>6. NoLostUpdate'
      BY <2>1, <2>2, KeepsAccepted DEF Accepted
    <2> QED
      BY <2>5, <2>6
  <1>7. ASSUME NEW i \in Instances, WatchStep(i) PROVE PlaneInv'
    <2>0. UNCHANGED <<row, update, restarts>> /\ Accepted' = Accepted /\ NoLostUpdate'
      BY <1>7 DEF WatchStep, Reload, ReloadCompare, ReloadReplace, ReloadView, Accepted, NoLostUpdate
    <2>1. watch[i].row \in DocumentRows /\ watch[i].row.version \in 0..row.version
      BY <1>0 DEF Versioned, DocumentRows
    <2>2. /\ watch' \in [Instances -> [step : {"idle", "compare", "replace", "view"}, row : DocumentRows]]
          /\ \A j \in Instances : watch'[j].row.version <= row.version
      <3>1. CASE Reload(i)
        BY <1>0, <3>1 DEF Reload, Versioned
      <3>2. CASE ReloadCompare(i) \/ ReloadReplace(i) \/ ReloadView(i)
        <4>1. \E s \in {"idle", "replace", "view"} : watch' = [watch EXCEPT ![i].step = s]
          BY <3>2 DEF ReloadCompare, ReloadReplace, ReloadView
        <4> QED
          BY <4>1 DEF Versioned
      <3> QED
        BY <1>7, <3>1, <3>2 DEF WatchStep
    <2>3. view' \in [Instances -> 0..row.version]
      BY <1>7, <2>1, Zenon DEF WatchStep, Reload, ReloadCompare, ReloadReplace, ReloadView, Viewed, Versioned
    <2>4. active' \in [Instances -> Documents] /\ overtaken' \subseteq Instances
      BY <1>7, <2>1 DEF WatchStep, Reload, ReloadCompare, ReloadReplace, ReloadView, Viewed, Versioned, DocumentRows
    <2> QED
      BY <2>0, <2>2, <2>3, <2>4 DEF Versioned
  <1>8. ASSUME NEW i \in Instances, Restart(i) PROVE PlaneInv'
    <2>1. /\ update' \in [Updates -> Calls]
          /\ \A u \in Updates : /\ update'[u].version = update[u].version
                                /\ update'[u].expected = update[u].expected
                                /\ update'[u].step = "first" => update[u].step = "first"
                                /\ update'[u].step \in {"replace", "view", "done"}
                                     <=> update[u].step \in {"replace", "view", "done"}
      BY <1>8 DEF Restart, Versioned, Calls
    <2>2. Accepted' = Accepted
      BY <2>1 DEF Accepted
    <2>3. /\ watch' \in [Instances -> [step : {"idle", "compare", "replace", "view"}, row : DocumentRows]]
          /\ \A j \in Instances : watch'[j].row.version <= row.version
      BY <1>0, <1>8 DEF Restart, Versioned, DocumentRows, NoDocument, Documents
    <2>4. /\ view' \in [Instances -> 0..row.version]
          /\ active' \in [Instances -> Documents]
          /\ overtaken' \subseteq Instances /\ restarts' \in 0..MaxRestarts /\ row' = row
      BY <1>0, <1>8, ControlPlaneAssumption DEF Restart, Versioned, Documents
    <2>5. Versioned'
      BY <2>1, <2>2, <2>3, <2>4 DEF Versioned, Accepted
    <2>6. NoLostUpdate'
      BY <2>1, <2>2, KeepsAccepted DEF Accepted
    <2> QED
      BY <2>5, <2>6
  <1>9. CASE UNCHANGED planeVars
    BY <1>9 DEF planeVars, Versioned, NoLostUpdate, Accepted
  <1> QED
    BY <1>1, <1>2, <1>3, <1>4, <1>5, <1>6, <1>7, <1>8, <1>9 DEF PlaneNext, UpdateStep, Publish

\* The runtime configuration, UpdateRuntime of service.go: every accepted update
\* replaced the version that its author had read, and no two updates stored the
\* same version, for any number of instances, updates and restarts.
THEOREM RuntimeNoLostUpdate ==
  ASSUME Kind = "runtime" PROVE PlaneSpec => []NoLostUpdate
  <1>1. PlaneInit => PlaneInv
    BY PlaneInitEstablishes
  <1>2. PlaneInv /\ [PlaneNext]_planeVars => PlaneInv'
    BY PlaneStepKeeps
  <1>3. PlaneInv => NoLostUpdate
    BY DEF PlaneInv
  <1> QED
    BY <1>1, <1>2, <1>3, PTL DEF PlaneSpec

\* No process ever believes in a version that the database has not stored: the
\* views that Watch compares are bounded by the row.
THEOREM RuntimeTypeOK ==
  ASSUME Kind = "runtime" PROVE PlaneSpec => []PlaneTypeOK
  <1>1. PlaneInit => PlaneInv
    BY PlaneInitEstablishes
  <1>2. PlaneInv /\ [PlaneNext]_planeVars => PlaneInv'
    BY PlaneStepKeeps
  <1>3. PlaneInv => PlaneTypeOK
    BY DEF PlaneInv, Versioned, PlaneTypeOK
  <1> QED
    BY <1>1, <1>2, <1>3, PTL DEF PlaneSpec

-----------------------------------------------------------------------------
(* Usage events.                                                           *)

\* Rows that the relay may read carry a payload.
Payloaded ==
  \A e \in Events : outbox[e].state \in {"ready", "published"} => outbox[e].payload # "none"

\* Some worker or the stream holds a record of the event.
Passed(e) ==
  \/ \E w \in Workers : \/ e \in added[w]
                        \/ \E x \in todo[w] : x.event = e
                        \/ \E m \in batch[w] : m.item.event = e
  \/ \E i \in Ids : stream[i] # NoEntry /\ stream[i].item.event = e

\* The row comes before the records made of it: while the first write is still
\* due, or the row is pending, there are none.  So markPublished, which goes by
\* the id alone, never meets a row that is pending.
Sequenced ==
  \A e \in Events :
    /\ request[e] = "idle" => write[e] = "none"
    /\ request[e] = "idle" \/ write[e] = "pending" => outbox[e].state = "none" /\ ~Passed(e)
    /\ outbox[e].state = "pending" => ~Passed(e)

UsageInv == TypeOK /\ Payloaded /\ Sequenced /\ NothingLost

\* Before the first request there is nothing to lose.
LEMMA InitEstablishes == Init => UsageInv
  <1> SUFFICES ASSUME Init PROVE UsageInv
    OBVIOUS
  <1>1. TypeOK
    <2>1. outbox \in [Events -> Rows] /\ stored \in [Events -> Payloads]
      BY DEF Init, Rows, NoRow, Payloads
    <2>2. request \in [Events -> Phases] /\ pc \in [Workers -> Steps] /\ faults \in 0..MaxFaults
      BY UsageAssumption DEF Init, Phases, Steps
    <2>3. /\ stream \in [Ids -> Entries \cup {NoEntry}]
          /\ write \in [Events -> {"none", "pending", "ready"}] /\ group \in BOOLEAN
      BY Zenon DEF Init
    <2>4. /\ todo \in [Workers -> SUBSET Items] /\ added \in [Workers -> SUBSET Events]
          /\ batch \in [Workers -> SUBSET Messages]
      BY DEF Init
    <2> QED
      BY <2>1, <2>2, <2>3, <2>4 DEF TypeOK
  <1>2. Payloaded /\ NothingLost
    BY DEF Init, Payloaded, NothingLost, NoRow, CalledProvider
  <1>3. \A e \in Events : ~Passed(e)
    BY DEF Init, Passed
  <1>4. Sequenced
    BY <1>3 DEF Init, Sequenced, NoRow
  <1> QED
    BY <1>1, <1>2, <1>4 DEF UsageInv

-----------------------------------------------------------------------------
\* The records that the relay takes from rows with a payload.
LEMMA ItemsTyped ==
  ASSUME TypeOK, NEW S \in SUBSET Events, \A e \in S : outbox[e].payload # "none"
  PROVE  ItemsOf(S) \subseteq Items
  BY DEF TypeOK, ItemsOf, Items, Rows

\* The API process keeps the types and the payloads.
LEMMA ApiKeepsTypes ==
  ASSUME TypeOK, Payloaded, NEW e \in Events,
         \/ Begin(e) \/ BeginTimesOut(e) \/ writePending(e) \/ Emit(e)
         \/ writeReady(e) \/ writeFails(e) \/ Crash(e) \/ Age(e)
  PROVE  TypeOK' /\ Payloaded'
  <1> USE DEF TypeOK
  <1>1. request' \in [Events -> Phases]
    BY DEF Begin, BeginTimesOut, writePending, Emit, writeReady, writeFails, Crash, Age, api, Phases
  <1>2. write' \in [Events -> {"none", "pending", "ready"}]
    BY DEF Begin, BeginTimesOut, writePending, Emit, writeReady, writeFails, Crash, Age, api
  <1>3. outbox' \in [Events -> Rows] /\ Payloaded'
    <2>1. CASE Age(e)
      <3>1. outbox' = [outbox EXCEPT ![e].old = TRUE]
        BY <2>1 DEF Age
      <3>2. outbox[e] \in Rows /\ [outbox[e] EXCEPT !.old = TRUE] \in Rows
        BY Zenon DEF Rows
      <3>3. outbox' = [outbox EXCEPT ![e] = [outbox[e] EXCEPT !.old = TRUE]]
        BY <3>1
      <3>4. outbox' \in [Events -> Rows]
        BY <3>2, <3>3
      <3>5. \A f \in Events \ {e} : outbox'[f] = outbox[f]
        BY <3>3
      <3>6. outbox'[e] = [outbox[e] EXCEPT !.old = TRUE]
        BY <3>3
      <3>7. outbox'[e].state = outbox[e].state /\ outbox'[e].payload = outbox[e].payload
        BY <3>2, <3>6 DEF Rows
      <3> QED
        BY <3>4, <3>5, <3>7 DEF Payloaded
    <2>2. CASE writePending(e)
      <3> DEFINE written == [state |-> "pending", payload |-> "none", old |-> FALSE]
      <3>1. outbox' = outbox \/ outbox' = [outbox EXCEPT ![e] = written]
        BY <2>2 DEF writePending
      <3>2. written \in Rows /\ (written.state = "pending" \/ written.payload # "none")
        BY DEF Rows, Payloads
      <3> HIDE DEF written
      <3>3. outbox' \in [Events -> Rows]
        BY <3>1, <3>2
      <3>4. \A f \in Events : outbox'[f] = outbox[f] \/ outbox'[f] = written
        BY <3>1
      <3> QED
        BY <3>2, <3>3, <3>4 DEF Payloaded
    <2>3. CASE writeReady(e)
      <3> DEFINE written == [state |-> "ready", payload |-> "real", old |-> FALSE]
      <3>1. outbox' = outbox \/ outbox' = [outbox EXCEPT ![e] = written]
        BY <2>3 DEF writeReady
      <3>2. written \in Rows /\ (written.state = "pending" \/ written.payload # "none")
        BY DEF Rows, Payloads
      <3> HIDE DEF written
      <3>3. outbox' \in [Events -> Rows]
        BY <3>1, <3>2
      <3>4. \A f \in Events : outbox'[f] = outbox[f] \/ outbox'[f] = written
        BY <3>1
      <3> QED
        BY <3>2, <3>3, <3>4 DEF Payloaded
    <2>4. CASE UNCHANGED outbox
      BY <2>4 DEF Payloaded
    <2> QED
      BY <2>1, <2>2, <2>3, <2>4 DEF Begin, BeginTimesOut, Emit, writeFails, Crash, database
  <1>4. faults' \in 0..MaxFaults
    BY UsageAssumption DEF Begin, BeginTimesOut, writePending, Emit, writeReady, writeFails, Crash, Age, Fault
  <1>5. UNCHANGED <<stored, redis, locals>>
    BY DEF Begin, BeginTimesOut, writePending, Emit, writeReady, writeFails, Crash, Age, database
  <1> QED
    BY <1>1, <1>2, <1>3, <1>4, <1>5 DEF redis, locals

\* What a step of a worker, of Redis or of time may do to the record of an event.
Onward ==
  /\ UNCHANGED api
  /\ \A e \in Events :
       /\ Passed(e)' => Passed(e) \/ outbox[e].state \in {"ready", "published"}
       /\ outbox[e].state = "none" => outbox'[e].state = "none"
       /\ outbox'[e].state = "pending" => outbox[e].state = "pending"

\* Such a step keeps the order of row and records.
LEMMA OnwardKeeps ==
  ASSUME Sequenced, Onward PROVE Sequenced'
  BY DEF Sequenced, Onward, api

\* The relay keeps the types and the payloads.
LEMMA RelayKeeps ==
  ASSUME TypeOK, Payloaded, Sequenced, NEW w \in Workers,
         \/ recoverPending(w) \/ Recovered(w) \/ readyRecords(w) \/ consumerCaughtUp(w)
         \/ stalePublishedRecords(w) \/ XAdd(w) \/ markPublished(w) \/ StreamFull(w) \/ RelayFails(w)
  PROVE  TypeOK' /\ Payloaded' /\ Onward
  <1> USE DEF TypeOK
  <1>1. CASE recoverPending(w)
    <2>1. PICK e \in Old(InState("pending")) :
            outbox' = [outbox EXCEPT ![e] = [state |-> "ready", payload |-> "interrupted", old |-> FALSE]]
      BY <1>1, Zenon DEF recoverPending
    <2>2. e \in Events /\ outbox[e].state = "pending"
      BY DEF Old, InState
    <2>3. outbox' \in [Events -> Rows] /\ Payloaded'
      BY <2>1, <2>2 DEF Rows, Payloads, Payloaded
    <2>4. UNCHANGED <<api, stored, redis, locals, faults>>
      BY <1>1 DEF recoverPending
    <2>5. \A f \in Events : Passed(f)' <=> Passed(f)
      BY <2>4 DEF redis, locals, Passed
    <2>6. Onward
      BY <2>1, <2>2, <2>4, <2>5 DEF Onward
    <2> QED
      BY <2>3, <2>4, <2>6 DEF api, redis, locals
  <1>2. CASE Recovered(w) \/ consumerCaughtUp(w)
    <2>1. pc' \in [Workers -> Steps] /\ UNCHANGED <<api, database, redis, todo, added, batch, faults>>
      BY <1>2 DEF Recovered, consumerCaughtUp, Goto, Steps
    <2>2. Onward /\ Payloaded'
      BY <2>1 DEF Onward, Passed, database, redis, Payloaded
    <2> QED
      BY <2>1, <2>2 DEF api, database, redis
  <1>3. CASE readyRecords(w) \/ stalePublishedRecords(w)
    <2>1. PICK S \in SUBSET Events :
            /\ \A e \in S : outbox[e].state \in {"ready", "published"}
            /\ todo' = [todo EXCEPT ![w] = ItemsOf(S)]
      BY <1>3 DEF readyRecords, stalePublishedRecords, InState, Old
    <2>2. ItemsOf(S) \subseteq Items
      BY <2>1, ItemsTyped DEF Payloaded
    <2>3. todo' \in [Workers -> SUBSET Items]
      BY <2>1, <2>2
    <2>4. pc' \in [Workers -> Steps] /\ UNCHANGED <<api, database, redis, added, batch, faults>>
      BY <1>3 DEF readyRecords, stalePublishedRecords, Goto, Steps
    <2>5. Onward
      <3>1. \A v \in Workers : \A x \in todo'[v] : x \in todo[v] \/ outbox[x.event].state \in {"ready", "published"}
        BY <2>1 DEF ItemsOf
      <3> QED
        BY <2>4, <3>1 DEF Onward, Passed, database, redis
    <2> QED
      BY <2>3, <2>4, <2>5 DEF api, database, redis, Payloaded
  <1>4. CASE XAdd(w)
    <2>1. PICK item \in todo[w] :
            /\ todo' = [todo EXCEPT ![w] = @ \ {item}]
            /\ added' = [added EXCEPT ![w] = @ \cup {item.event}]
            /\ FreeIds # {}
            /\ LET i == CHOOSE j \in FreeIds : TRUE IN
               stream' = [stream EXCEPT ![i] = [item |-> item, delivered |-> FALSE, idle |-> FALSE]]
      BY <1>4, Zenon DEF XAdd
    <2>2. item \in Items /\ item.event \in Events
      BY <2>1 DEF Items
    <2>3. todo' \in [Workers -> SUBSET Items] /\ added' \in [Workers -> SUBSET Events]
      BY <2>1, <2>2
    <2>4. PICK i \in Ids : stream' = [stream EXCEPT ![i] = [item |-> item, delivered |-> FALSE, idle |-> FALSE]]
      BY <2>1, Zenon DEF FreeIds
    <2>5. [item |-> item, delivered |-> FALSE, idle |-> FALSE] \in Entries
      BY <2>2 DEF Entries
    <2>6. stream' \in [Ids -> Entries \cup {NoEntry}]
      BY <2>4, <2>5
    <2>7. UNCHANGED <<api, database, group, pc, batch, faults>>
      BY <1>4 DEF XAdd
    <2>8. Onward
      <3>1. \A e \in Events : Passed(e)' => Passed(e)
        <4> SUFFICES ASSUME NEW e \in Events, Passed(e)' PROVE Passed(e)
          OBVIOUS
        <4>1. CASE e = item.event
          BY <2>1, <4>1, ZenonT(30) DEF Passed
        <4>2. CASE e # item.event
          <5>1. ASSUME NEW v \in Workers,
                       \/ e \in added'[v] \/ \E x \in todo'[v] : x.event = e
                       \/ \E m \in batch'[v] : m.item.event = e
                PROVE  Passed(e)
            <6>1. added'[v] \subseteq added[v] \cup {item.event} /\ todo'[v] \subseteq todo[v]
              BY <2>1
            <6> QED
              BY <2>7, <4>2, <5>1, <6>1 DEF Passed
          <5>2. ASSUME NEW j \in Ids, stream'[j] # NoEntry, stream'[j].item.event = e
                PROVE  Passed(e)
            <6>1. j # i /\ stream'[j] = stream[j]
              BY <2>4, <4>2, <5>2
            <6> QED
              BY <5>2, <6>1, Zenon DEF Passed
          <5> QED
            BY <5>1, <5>2, ZenonT(30) DEF Passed
        <4> QED
          BY <4>1, <4>2
      <3> QED
        BY <2>7, <3>1 DEF Onward, database
    <2> QED
      BY <2>3, <2>6, <2>7, <2>8 DEF api, database, Payloaded
  <1>5. CASE markPublished(w)
    <2>1. outbox' = [e \in Events |->
            IF e \in added[w] /\ outbox[e].state # "none"
              THEN [outbox[e] EXCEPT !.state = "published", !.old = FALSE] ELSE outbox[e]]
      BY <1>5, Zenon DEF markPublished
    <2>2. outbox' \in [Events -> Rows]
      BY <2>1, Zenon DEF Rows
    <2>3. \A e \in Events : e \in added[w] => outbox[e].state # "pending"
      BY DEF Sequenced, Passed
    <2>4. Payloaded'
      BY <2>1, <2>3, Zenon DEF Payloaded, Rows
    <2>5. /\ added' = [added EXCEPT ![w] = {}] /\ pc' \in [Workers -> Steps]
          /\ UNCHANGED <<api, stored, redis, todo, batch, faults>>
      BY <1>5, Zenon DEF markPublished, Goto, Steps
    <2>6. \A e \in Events : Passed(e)' => Passed(e)
      BY <2>5 DEF Passed, redis
    <2>7. Onward
      BY <2>1, <2>5, <2>6, Zenon DEF Onward, Rows
    <2> QED
      BY <2>2, <2>4, <2>5, <2>7 DEF api, redis
  <1>6. CASE StreamFull(w) \/ RelayFails(w)
    <2>1. /\ faults' \in 0..MaxFaults /\ pc' \in [Workers -> Steps]
          /\ todo' = [todo EXCEPT ![w] = {}] /\ added' = [added EXCEPT ![w] = {}]
          /\ UNCHANGED <<api, database, redis, batch>>
      BY <1>6, UsageAssumption DEF StreamFull, RelayFails, RelayGivesUp, Fault, Goto, Steps
    <2>2. \A e \in Events : Passed(e)' => Passed(e)
      BY <2>1, Zenon DEF Passed, redis
    <2>3. Onward /\ Payloaded'
      BY <2>1, <2>2 DEF Onward, database, Payloaded
    <2> QED
      BY <2>1, <2>3 DEF api, database, redis
  <1> QED
    BY <1>1, <1>2, <1>3, <1>4, <1>5, <1>6

\* Every message of a batch is typed.
LEMMA MessagesTyped ==
  ASSUME TypeOK, NEW S \in SUBSET Ids, \A i \in S : stream[i] # NoEntry
  PROVE  /\ MessagesOf(S) \subseteq Messages
         /\ \A m \in MessagesOf(S) : stream[m.id] # NoEntry /\ m.item = stream[m.id].item /\ m.id \in Ids
  <1>1. \A i \in S : i \in Ids /\ stream[i] \in Entries /\ stream[i].item \in Items
    BY DEF TypeOK, Entries
  <1> QED
    BY <1>1 DEF MessagesOf, Messages

\* claim and read deliver entries of the stream to a worker.
LEMMA TakeKeeps ==
  ASSUME TypeOK, Payloaded, NEW w \in Workers, NEW S \in SUBSET Ids,
         \A i \in S : stream[i] # NoEntry,
         NEW otherwise \in {"read", "recover"}, Take(w, S, otherwise)
  PROVE  TypeOK' /\ Payloaded' /\ Onward
  <1> USE DEF TypeOK
  <1>1. batch' = [batch EXCEPT ![w] = MessagesOf(S)] /\ batch' \in [Workers -> SUBSET Messages]
    BY MessagesTyped DEF Take
  <1>2. \A i \in Ids : stream'[i] = IF i \in S THEN [stream[i] EXCEPT !.delivered = TRUE, !.idle = FALSE]
                                     ELSE stream[i]
    BY Zenon DEF Take, Delivered
  <1>3. \A i \in S : stream[i] \in Entries /\ [stream[i] EXCEPT !.delivered = TRUE, !.idle = FALSE] \in Entries
    BY Zenon DEF Entries
  <1>4. stream' \in [Ids -> Entries \cup {NoEntry}]
    BY <1>3, Zenon DEF Take, Delivered
  <1>5. pc' \in [Workers -> Steps] /\ UNCHANGED <<api, database, group, todo, added, faults>>
    BY DEF Take, Goto, Steps
  <1>6. \A i \in Ids : stream'[i] # NoEntry => stream[i] # NoEntry /\ stream'[i].item = stream[i].item
    BY <1>2, <1>3, Zenon DEF Entries
  <1>7. \A e \in Events : Passed(e)' => Passed(e)
    <2> SUFFICES ASSUME NEW e \in Events, Passed(e)' PROVE Passed(e)
      OBVIOUS
    <2>1. \A v \in Workers : \A m \in batch'[v] : m \in batch[v] \/ m \in MessagesOf(S)
      BY <1>1
    <2>2. CASE \E v \in Workers : \E m \in batch'[v] : m.item.event = e
      BY <2>1, <2>2, MessagesTyped DEF Passed
    <2>3. CASE ~\E v \in Workers : \E m \in batch'[v] : m.item.event = e
      BY <1>5, <1>6, <2>3 DEF Passed
    <2> QED
      BY <2>2, <2>3
  <1>8. Onward /\ Payloaded'
    BY <1>5, <1>7 DEF Onward, database, Payloaded
  <1> QED
    BY <1>1, <1>4, <1>5, <1>8, Zenon DEF api, database

\* putBatch: an event that is stored has a payload, and one that was stored
\* before keeps it.
LEMMA PutStores ==
  ASSUME TypeOK, NEW w \in Workers, putBatch(w)
  PROVE  /\ EventsIn(w) \subseteq Events
         /\ stored' \in [Events -> Payloads]
         /\ \A e \in EventsIn(w) : stored'[e] # "none"
         /\ \A e \in Events : stored[e] # "none" \/ e \notin EventsIn(w) => stored'[e] = stored[e]
  <1>1. \A m \in batch[w] : m.item.event \in Events /\ m.item.payload \in Payloads \ {"none"}
    BY DEF TypeOK, Messages, Items
  <1>2. EventsIn(w) \subseteq Events
    BY <1>1 DEF EventsIn
  <1>3. PICK r \in [EventsIn(w) -> Payloads] :
          /\ \A e \in EventsIn(w) : r[e] \in Insert(w, e)
          /\ stored' = [e \in Events |-> IF e \in EventsIn(w) THEN r[e] ELSE stored[e]]
    BY DEF putBatch
  <1>4. \A e \in EventsIn(w) : /\ stored[e] # "none" => r[e] = stored[e]
                               /\ r[e] # "none"
    BY <1>1, <1>3 DEF Insert
  <1> QED
    BY <1>2, <1>3, <1>4 DEF TypeOK

\* The consumer keeps the types and the payloads.
LEMMA ConsumerKeeps ==
  ASSUME TypeOK, Payloaded, NEW w \in Workers,
         \/ Start(w) \/ claim(w) \/ read(w) \/ NoGroup(w) \/ putBatch(w) \/ acknowledge(w)
         \/ processFails(w) \/ Stop(w)
  PROVE  TypeOK' /\ Payloaded' /\ Onward
  <1> USE DEF TypeOK
  <1>1. CASE Start(w) \/ NoGroup(w)
    <2>1. /\ group' \in BOOLEAN /\ pc' \in [Workers -> Steps]
          /\ UNCHANGED <<api, database, stream, todo, added, batch, faults>>
      BY <1>1, Zenon DEF Start, NoGroup, Goto, Steps, redis
    <2>2. Onward /\ Payloaded'
      BY <2>1, Zenon DEF Onward, Passed, database, Payloaded
    <2> QED
      BY <2>1, <2>2 DEF api, database
  <1>2. CASE claim(w)
    <2>1. Take(w, Idle, "read") /\ Idle \subseteq Ids /\ \A i \in Idle : stream[i] # NoEntry
      BY <1>2 DEF claim, Idle
    <2> QED
      BY <2>1, TakeKeeps
  <1>3. CASE read(w)
    <2>1. Take(w, Fresh, "recover") /\ Fresh \subseteq Ids /\ \A i \in Fresh : stream[i] # NoEntry
      BY <1>3 DEF read, Fresh
    <2> QED
      BY <2>1, TakeKeeps
  <1>4. CASE putBatch(w)
    <2>1. /\ outbox' = [e \in Events |-> IF e \in EventsIn(w) THEN NoRow ELSE outbox[e]]
          /\ pc' \in [Workers -> Steps]
          /\ UNCHANGED <<api, redis, todo, added, batch, faults>>
      BY <1>4 DEF putBatch, Goto, Steps
    <2>2. outbox' \in [Events -> Rows] /\ Payloaded'
      BY <2>1 DEF NoRow, Rows, Payloads, Payloaded
    <2>3. stored' \in [Events -> Payloads]
      BY <1>4, PutStores
    <2>4. Onward
      BY <2>1, Zenon DEF Onward, Passed, NoRow, redis
    <2> QED
      BY <2>1, <2>2, <2>3, <2>4 DEF api, redis
  <1>5. CASE acknowledge(w)
    <2>1. /\ stream' = [i \in Ids |-> IF \E m \in batch[w] : m.id = i THEN NoEntry ELSE stream[i]]
          /\ batch' = [batch EXCEPT ![w] = {}] /\ pc' \in [Workers -> Steps]
          /\ UNCHANGED <<api, database, group, todo, added, faults>>
      BY <1>5 DEF acknowledge, Goto, Steps
    <2>2. \A e \in Events : Passed(e)' => Passed(e)
      BY <2>1, Zenon DEF Passed
    <2>3. Onward /\ Payloaded'
      BY <2>1, <2>2 DEF Onward, database, Payloaded
    <2> QED
      BY <2>1, <2>3 DEF api, database
  <1>6. CASE processFails(w) \/ Stop(w)
    <2>1. /\ batch' = [batch EXCEPT ![w] = {}] /\ pc' \in [Workers -> Steps]
          /\ faults' \in 0..MaxFaults
          /\ todo' = todo \/ todo' = [todo EXCEPT ![w] = {}]
          /\ added' = added \/ added' = [added EXCEPT ![w] = {}]
          /\ UNCHANGED <<api, database, redis>>
      BY <1>6, UsageAssumption DEF processFails, Stop, Fault, Goto, Steps
    <2>2. \A e \in Events : Passed(e)' => Passed(e)
      BY <2>1, Zenon DEF Passed, redis
    <2>3. Onward /\ Payloaded'
      BY <2>1, <2>2 DEF Onward, database, Payloaded
    <2> QED
      BY <2>1, <2>3 DEF api, database, redis
  <1> QED
    BY <1>1, <1>2, <1>3, <1>4, <1>5, <1>6

\* Redis and its clock keep the types and the payloads.
LEMMA RedisKeeps ==
  ASSUME TypeOK, Payloaded, (\E i \in Ids : BecomesIdle(i) \/ LoseEntry(i)) \/ LoseEverything
  PROVE  TypeOK' /\ Payloaded' /\ Onward
  <1> USE DEF TypeOK
  <1>1. /\ stream' \in [Ids -> Entries \cup {NoEntry}]
        /\ \A i \in Ids : stream'[i] # NoEntry => stream[i] # NoEntry /\ stream'[i].item = stream[i].item
    <2>1. CASE \E i \in Ids : BecomesIdle(i)
      <3>1. PICK i \in Ids : stream[i] # NoEntry /\ stream' = [stream EXCEPT ![i].idle = TRUE]
        BY <2>1, Zenon DEF BecomesIdle
      <3>2. stream[i] \in Entries /\ [stream[i] EXCEPT !.idle = TRUE] \in Entries
        BY <3>1, Zenon DEF Entries
      <3>3. stream' = [stream EXCEPT ![i] = [stream[i] EXCEPT !.idle = TRUE]]
        BY <3>1
      <3> QED
        BY <3>1, <3>2, <3>3 DEF Entries
    <2>2. CASE (\E i \in Ids : LoseEntry(i)) \/ LoseEverything
      BY <2>2 DEF LoseEntry, LoseEverything
    <2> QED
      BY <2>1, <2>2
  <1>2. group' \in BOOLEAN /\ faults' \in 0..MaxFaults /\ UNCHANGED <<api, database, locals>>
    <2>1. group' = group \/ group' = FALSE
      BY DEF BecomesIdle, LoseEntry, LoseEverything
    <2>2. faults' = faults \/ Fault
      BY DEF BecomesIdle, LoseEntry, LoseEverything
    <2>3. UNCHANGED <<api, database, locals>>
      BY DEF BecomesIdle, LoseEntry, LoseEverything
    <2>4. faults' \in 0..MaxFaults
      BY <2>2, UsageAssumption DEF Fault
    <2> QED
      BY <2>1, <2>3, <2>4, Zenon
  <1>3. \A e \in Events : Passed(e)' => Passed(e)
    BY <1>1, <1>2 DEF Passed, locals
  <1>4. Onward /\ Payloaded'
    BY <1>2, <1>3 DEF Onward, database, Payloaded
  <1> QED
    BY <1>1, <1>2, <1>4 DEF api, database, locals

-----------------------------------------------------------------------------
\* The API process keeps the order of row and records.
LEMMA ApiKeepsSequenced ==
  ASSUME TypeOK, Sequenced, NEW e \in Events,
         \/ Begin(e) \/ BeginTimesOut(e) \/ writePending(e) \/ Emit(e)
         \/ writeReady(e) \/ writeFails(e) \/ Crash(e) \/ Age(e)
  PROVE  Sequenced'
  <1>1. \A f \in Events : Passed(f)' <=> Passed(f)
    BY DEF Begin, BeginTimesOut, writePending, Emit, writeReady, writeFails, Crash, Age,
           redis, locals, Passed
  <1>2. \A f \in Events \ {e} : request'[f] = request[f] /\ write'[f] = write[f] /\ outbox'[f] = outbox[f]
    BY DEF TypeOK, Begin, BeginTimesOut, writePending, Emit, writeReady, writeFails, Crash, Age,
           api, database
  <1>3. /\ request'[e] # "idle" \/ (request[e] = "idle" /\ write'[e] = "none")
        /\ write'[e] = "pending" => write[e] = "pending" \/ request[e] = "idle"
    BY DEF TypeOK, Sequenced, Begin, BeginTimesOut, writePending, Emit, writeReady, writeFails, Crash, Age, api
  <1>4. /\ outbox[e].state = "none" /\ outbox'[e].state # "none" => write'[e] = "none" /\ request'[e] # "idle"
        /\ outbox'[e].state = "pending" => outbox[e].state = "pending" \/ write[e] = "pending"
    <2>1. CASE Age(e)
      BY <2>1 DEF Age, TypeOK, Rows
    <2>2. CASE writePending(e)
      BY <2>2, ZenonT(30) DEF writePending, TypeOK, Sequenced, Rows
    <2>3. CASE writeReady(e)
      BY <2>3, Zenon DEF writeReady, TypeOK, Sequenced, Rows
    <2>4. CASE UNCHANGED outbox
      BY <2>4
    <2> QED
      BY <2>1, <2>2, <2>3, <2>4 DEF Begin, BeginTimesOut, Emit, writeFails, Crash, database
  <1> QED
    BY <1>1, <1>2, <1>3, <1>4 DEF Sequenced

\* A request is let through to a provider only when its row is written, and the
\* API process deletes no row.
LEMMA ApiLosesNothing ==
  ASSUME TypeOK, NothingLost, NEW e \in Events,
         \/ Begin(e) \/ BeginTimesOut(e) \/ writePending(e) \/ Emit(e)
         \/ writeReady(e) \/ writeFails(e) \/ Crash(e) \/ Age(e)
  PROVE  NothingLost'
  <1>1. stored' = stored
    BY DEF Begin, BeginTimesOut, writePending, Emit, writeReady, writeFails, Crash, Age, database
  <1>2. \A f \in Events : outbox[f].state # "none" => outbox'[f].state # "none"
    <2>1. CASE Age(e)
      BY <2>1 DEF Age, TypeOK, Rows
    <2>2. CASE writePending(e)
      <3>1. outbox' = outbox \/ \E n \in Rows : n.state = "pending" /\ outbox' = [outbox EXCEPT ![e] = n]
        BY <2>2, Zenon DEF writePending, Rows, Payloads
      <3> QED
        BY <3>1 DEF TypeOK
    <2>3. CASE writeReady(e)
      <3>1. \E n \in Rows : n.state = "ready" /\ outbox' = [outbox EXCEPT ![e] = n]
        BY <2>3, Zenon DEF writeReady, Rows, Payloads
      <3> QED
        BY <3>1 DEF TypeOK
    <2>4. CASE UNCHANGED outbox
      BY <2>4
    <2> QED
      BY <2>1, <2>2, <2>3, <2>4 DEF Begin, BeginTimesOut, Emit, writeFails, Crash, database
  <1>3. \A f \in Events : CalledProvider(f)' => CalledProvider(f) \/ outbox'[f].state # "none"
    <2>1. CASE writePending(e)
      BY <2>1, Zenon DEF writePending, TypeOK, Rows, CalledProvider
    <2>2. CASE ~writePending(e)
      BY <2>2 DEF Begin, BeginTimesOut, Emit, writeReady, writeFails, Crash, Age, api, TypeOK, CalledProvider
    <2> QED
      BY <2>1, <2>2
  <1> QED
    BY <1>1, <1>2, <1>3 DEF NothingLost

\* Only putBatch deletes a row, in the transaction that stores its event.
LEMMA WorkerLosesNothing ==
  ASSUME TypeOK, NothingLost, NEW w \in Workers,
         WorkerStep(w) \/ RelayFails(w) \/ processFails(w) \/ Stop(w)
  PROVE  NothingLost'
  <1>1. UNCHANGED request
    BY Zenon DEF WorkerStep, Start, recoverPending, Recovered, readyRecords, consumerCaughtUp,
           stalePublishedRecords, XAdd, markPublished, StreamFull, claim, read, NoGroup, putBatch,
           acknowledge, RelayFails, processFails, Stop, RelayGivesUp, Take, api
  <1>2. CASE putBatch(w)
    <2>1. outbox' = [e \in Events |-> IF e \in EventsIn(w) THEN NoRow ELSE outbox[e]]
      BY <1>2 DEF putBatch
    <2> QED
      BY <1>1, <1>2, <2>1, PutStores, Zenon DEF NothingLost, CalledProvider
  <1>3. CASE recoverPending(w)
    BY <1>1, <1>3 DEF recoverPending, Old, InState, NothingLost, CalledProvider, TypeOK
  <1>4. CASE markPublished(w)
    <2>1. \A e \in Events : outbox[e].state # "none" => outbox'[e].state # "none"
      BY <1>4, Zenon DEF markPublished, TypeOK, Rows
    <2>2. stored' = stored
      BY <1>4, Zenon DEF markPublished
    <2> QED
      BY <1>1, <2>1, <2>2 DEF NothingLost, CalledProvider
  <1>5. CASE UNCHANGED database
    BY <1>1, <1>5 DEF NothingLost, CalledProvider, database
  <1> QED
    BY <1>2, <1>3, <1>4, <1>5, Zenon DEF WorkerStep, Start, Recovered, readyRecords, consumerCaughtUp,
       stalePublishedRecords, XAdd, StreamFull, claim, read, NoGroup, acknowledge,
       RelayFails, processFails, Stop, RelayGivesUp, Take, database

-----------------------------------------------------------------------------
\* Every step of a request or a worker, and every fault, keeps the invariant.
LEMMA StepKeeps ==
  ASSUME UsageInv, [Next]_usageVars PROVE UsageInv'
  <1> USE DEF UsageInv
  <1>1. ASSUME NEW e \in Events,
               \/ Begin(e) \/ BeginTimesOut(e) \/ writePending(e) \/ Emit(e)
               \/ writeReady(e) \/ writeFails(e) \/ Crash(e) \/ Age(e)
        PROVE  UsageInv'
    BY <1>1, ApiKeepsTypes, ApiKeepsSequenced, ApiLosesNothing
  <1>2. ASSUME NEW w \in Workers, WorkerStep(w) \/ RelayFails(w) \/ processFails(w) \/ Stop(w)
        PROVE  UsageInv'
    <2>1. TypeOK' /\ Payloaded' /\ Onward
      BY <1>2, RelayKeeps, ConsumerKeeps DEF WorkerStep
    <2> QED
      BY <1>2, <2>1, OnwardKeeps, WorkerLosesNothing
  <1>3. ASSUME (\E i \in Ids : BecomesIdle(i) \/ LoseEntry(i)) \/ LoseEverything
        PROVE  UsageInv'
    <2>1. TypeOK' /\ Payloaded' /\ Onward
      BY <1>3, RedisKeeps
    <2>2. UNCHANGED <<api, database>>
      BY <1>3 DEF BecomesIdle, LoseEntry, LoseEverything
    <2>3. NothingLost'
      BY <2>2 DEF NothingLost, CalledProvider, api, database
    <2> QED
      BY <2>1, <2>3, OnwardKeeps
  <1>4. CASE UNCHANGED usageVars
    BY <1>4, Zenon DEF usageVars, api, database, redis, locals, TypeOK, Payloaded, Sequenced, Passed,
                NothingLost, CalledProvider
  <1> QED
    BY <1>1, <1>2, <1>3, <1>4 DEF Next

\* The invariant holds for any number of events, workers and faults.
LEMMA InvHolds == Spec => []UsageInv
  <1>1. UsageInv /\ [Next]_usageVars => UsageInv'
    BY StepKeeps
  <1> QED
    BY InitEstablishes, <1>1, PTL DEF Spec

\* Begin, putBatch and the relay: a request that may have called a provider is in
\* the outbox or stored at every moment, whatever crashes, fails or is lost, for
\* any number of events, workers, stream entries and faults.
THEOREM UsageNothingLost == Spec => []NothingLost
  <1>1. UsageInv => NothingLost
    BY DEF UsageInv
  <1> QED
    BY InvHolds, <1>1, PTL

\* The tables, the stream and the worker loops keep their types.
THEOREM UsageTypeOK == Spec => []TypeOK
  <1>1. UsageInv => TypeOK
    BY DEF UsageInv
  <1> QED
    BY InvHolds, <1>1, PTL

-----------------------------------------------------------------------------
(* The refinement *)

\* What the abstract ledger calls accepted and recorded.
accepted == {e \in Events : request[e] \in {"running", "over"}}
recorded == stored

\* Every step of the pipeline accepts requests, records events or does neither.
LEMMA StepRefines ==
  ASSUME UsageInv, [Next]_usageVars
  PROVE  Ledger!Next \/ UNCHANGED <<accepted, recorded>>
  <1>1. ASSUME NEW e \in Events,
               \/ Begin(e) \/ BeginTimesOut(e) \/ writePending(e) \/ Emit(e)
               \/ writeReady(e) \/ writeFails(e) \/ Crash(e) \/ Age(e)
        PROVE  Ledger!Next \/ UNCHANGED <<accepted, recorded>>
    <2>1. UNCHANGED recorded
      BY <1>1 DEF recorded, Begin, BeginTimesOut, writePending, Emit, writeReady, writeFails, Crash, Age, database
    <2>2. CASE writePending(e) /\ request[e] = "begin"
      <3>1. accepted' = accepted \cup {e}
        BY <2>2 DEF accepted, writePending, UsageInv, TypeOK
      <3>2. Ledger!Accept(e)
        BY <2>1, <3>1 DEF Ledger!Accept, accepted, recorded
      <3> QED
        BY <3>2 DEF Ledger!Next
    <2>3. CASE ~(writePending(e) /\ request[e] = "begin")
      <3>1. accepted' = accepted
        BY <1>1, <2>3 DEF accepted, Begin, BeginTimesOut, writePending, Emit, writeReady, writeFails,
                          Crash, Age, api, UsageInv, TypeOK
      <3> QED
        BY <2>1, <3>1
    <2> QED
      BY <2>2, <2>3
  <1>2. ASSUME NEW w \in Workers, putBatch(w)
        PROVE  Ledger!Next \/ UNCHANGED <<accepted, recorded>>
    <2> DEFINE S == {e \in EventsIn(w) : stored[e] = "none"}
    <2>1. UNCHANGED accepted
      BY <1>2, Zenon DEF putBatch, accepted, api
    <2>2. /\ S \subseteq Events
          /\ stored' \in [Events -> Payloads] /\ stored \in [Events -> Payloads]
          /\ \A e \in S : stored[e] = "none" /\ stored'[e] \in {"real", "interrupted"}
          /\ \A e \in Events \ S : stored'[e] = stored[e]
      BY <1>2, PutStores DEF UsageInv, TypeOK, Payloads
    <2>3. CASE S = {}
      <3>1. stored' = stored
        BY <2>2, <2>3
      <3> QED
        BY <2>1, <3>1 DEF recorded
    <2>4. CASE S # {}
      <3> DEFINE what == [e \in S |-> stored'[e]]
      <3>1. what \in [S -> {"real", "interrupted"}]
        BY <2>2
      <3>2. stored' = [e \in Events |-> IF e \in S THEN what[e] ELSE stored[e]]
        BY <2>2
      <3> HIDE DEF what, S
      <3>3. Ledger!Record(S)
        BY <2>1, <2>2, <2>4, <3>1, <3>2 DEF Ledger!Record, accepted
      <3> QED
        BY <2>2, <3>3 DEF Ledger!Next
    <2> QED
      BY <2>3, <2>4
  <1>3. ASSUME NEW w \in Workers, WorkerStep(w) \/ RelayFails(w) \/ processFails(w) \/ Stop(w), ~putBatch(w)
        PROVE  UNCHANGED <<accepted, recorded>>
    <2>1. UNCHANGED <<request, stored>>
      BY <1>3, Zenon DEF WorkerStep, Start, recoverPending, Recovered, readyRecords, consumerCaughtUp,
         stalePublishedRecords, XAdd, markPublished, StreamFull, claim, read, NoGroup,
         acknowledge, RelayFails, processFails, Stop, RelayGivesUp, Take, api, database
    <2> QED
      BY <2>1 DEF accepted, recorded
  <1>4. ASSUME (\E i \in Ids : BecomesIdle(i) \/ LoseEntry(i)) \/ LoseEverything
        PROVE  UNCHANGED <<accepted, recorded>>
    BY <1>4 DEF BecomesIdle, LoseEntry, LoseEverything, api, database, accepted, recorded
  <1>5. CASE UNCHANGED usageVars
    BY <1>5 DEF usageVars, api, database, accepted, recorded
  <1> QED
    BY <1>1, <1>2, <1>3, <1>4, <1>5 DEF Next, WorkerStep

\* The relay, the consumer group and putBatch implement the ledger: entries are
\* delivered more than once and out of order, and two payloads may be under way
\* for one event; still every event is recorded once and its record stays.
THEOREM UsageRecordedOnce == Spec => RecordedOnce
  <1>1. Init => Ledger!Init
    BY DEF Init, Ledger!Init
  <1>2. UsageInv /\ [Next]_usageVars => [Ledger!Next]_<<accepted, recorded>>
    BY StepRefines
  <1> QED
    BY InvHolds, <1>1, <1>2, PTL DEF Spec, RecordedOnce, Ledger!LedgerSpec, accepted, recorded
=============================================================================
