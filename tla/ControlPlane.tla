---------------------------- MODULE ControlPlane -----------------------------
(***************************************************************************)
(* internal/controlplane/service.go and gateway.Manager: how a managed     *)
(* document (the runtime configuration, or the price list) is changed by   *)
(* administrators and reaches every API instance.  An update commits a new *)
(* version in PostgreSQL, then publishes it in its own process in two      *)
(* steps: the pointer that requests use, and the view that Watch compares  *)
(* with the database.  Watch does the same for versions of other           *)
(* instances.                                                              *)
(*                                                                         *)
(* A document is the update that wrote it.  The transaction of an update   *)
(* locks the present row, so it is one step unless there is no row yet.    *)
(* Building a snapshot, encryption and audit are left out; a document that *)
(* does not build is refused before it is stored.                          *)
(***************************************************************************)
EXTENDS Naturals

CONSTANTS
  Kind,        \* "runtime" or "pricing"
  Instances,   \* API processes
  Updates,     \* calls of UpdateRuntime or UpdatePricing
  Handler,     \* [Updates -> Instances], the instance that handles the call
  MaxRestarts  \* bound: restarts of instances

ASSUME ControlPlaneAssumption ==
  /\ Kind \in {"runtime", "pricing"}
  /\ Handler \in [Updates -> Instances]
  /\ MaxRestarts \in Nat

VARIABLES
  row,       \* the active row: [version, document]
  active,    \* [Instances -> Documents], what requests use
  view,      \* [Instances -> version], runtimeView or pricingView
  update,    \* [Updates -> Calls], the call and its progress
  watch,     \* [Instances -> [step, row]], reloadRuntime or reloadPricing
  overtaken, \* instances whose view was last set for a document already replaced
  restarts   \* restarts so far

planeVars == <<row, active, view, update, watch, overtaken, restarts>>

\* The environment configuration, which is in use before anything is stored.
Bootstrap == "bootstrap"
Documents == Updates \cup {Bootstrap}
DocumentRows == [version : Nat, document : Documents]
NoDocument == [version |-> 0, document |-> Bootstrap]

\* expected is If-Match; version is what the call has stored.
Calls == [step : {"idle", "sent", "first", "replace", "view", "done", "failed"},
          expected : Nat, version : Nat]

PlaneTypeOK ==
  /\ row \in DocumentRows
  /\ active \in [Instances -> Documents]
  /\ view \in [Instances -> 0..row.version]
  /\ update \in [Updates -> Calls]
  /\ watch \in [Instances -> [step : {"idle", "compare", "replace", "view"}, row : DocumentRows]]
  /\ overtaken \subseteq Instances
  /\ restarts \in 0..MaxRestarts

PlaneInit ==
  /\ row = NoDocument
  /\ active = [i \in Instances |-> Bootstrap]
  /\ view = [i \in Instances |-> 0]
  /\ update = [u \in Updates |-> [step |-> "idle", expected |-> 0, version |-> 0]]
  /\ watch = [i \in Instances |-> [step |-> "idle", row |-> NoDocument]]
  /\ overtaken = {}
  /\ restarts = 0

\* An administrator reads the version from some instance, not necessarily the
\* one that will handle the call, and sends it back as If-Match.
Send(u) ==
  /\ update[u].step = "idle"
  /\ \E i \in Instances :
       update' = [update EXCEPT ![u].step = "sent", ![u].expected = view[i]]
  /\ UNCHANGED <<row, active, view, watch, overtaken, restarts>>

Stored(u, version) ==
  /\ row' = [version |-> version, document |-> u]
  /\ update' = [update EXCEPT ![u].step = "replace", ![u].version = version]

\* Mutant of Matches: If-Match is not compared.
MatchesAny(u) == TRUE

Matches(u) == update[u].expected = row.version

\* The whole transaction, under the lock of the row.
Commit(u) ==
  /\ update[u].step = "sent" /\ row.version > 0 /\ Matches(u)
  /\ Stored(u, row.version + 1)
  /\ UNCHANGED <<active, view, watch, overtaken, restarts>>

VersionConflict(u) ==
  /\ update[u].step = "sent" /\ ~Matches(u)
  /\ update' = [update EXCEPT ![u].step = "failed"]
  /\ UNCHANGED <<row, active, view, watch, overtaken, restarts>>

\* There is no row to lock.
FirstRead(u) ==
  /\ update[u].step = "sent" /\ row.version = 0 /\ Matches(u)
  /\ update' = [update EXCEPT ![u].step = "first"]
  /\ UNCHANGED <<row, active, view, watch, overtaken, restarts>>

\* The runtime row is inserted under unique indexes; Save of the price list
\* overwrites a row that has appeared.
FirstCommit(u) ==
  /\ update[u].step = "first"
  /\ IF row.version > 0 /\ Kind = "runtime"
       THEN update' = [update EXCEPT ![u].step = "failed"] /\ UNCHANGED row
       ELSE Stored(u, 1)
  /\ UNCHANGED <<active, view, watch, overtaken, restarts>>

\* The view is set to the version of document, whichever document the pointer
\* has by now: the two are under different locks.
Viewed(i, document, version) ==
  /\ view' = [view EXCEPT ![i] = version]
  /\ overtaken' = IF active[i] = document THEN overtaken \ {i} ELSE overtaken \cup {i}

\* runtime.Replace or pricing.ReplacePricing.
Replace(u) ==
  /\ update[u].step = "replace"
  /\ active' = [active EXCEPT ![Handler[u]] = u]
  /\ update' = [update EXCEPT ![u].step = "view"]
  /\ UNCHANGED <<row, view, watch, overtaken, restarts>>

SetView(u) ==
  /\ update[u].step = "view"
  /\ Viewed(Handler[u], u, update[u].version)
  /\ update' = [update EXCEPT ![u].step = "done"]
  /\ UNCHANGED <<row, active, watch, restarts>>

-----------------------------------------------------------------------------
Reload(i) ==
  /\ watch[i].step = "idle" /\ row.version > 0
  /\ watch' = [watch EXCEPT ![i] = [step |-> "compare", row |-> row]]
  /\ UNCHANGED <<row, active, view, update, overtaken, restarts>>

\* Mutant of Newer: only versions after the next one are loaded.
NewerLate(i) == watch[i].row.version > view[i] + 1

Newer(i) == watch[i].row.version # view[i]

ReloadCompare(i) ==
  /\ watch[i].step = "compare"
  /\ watch' = [watch EXCEPT ![i].step = IF Newer(i) THEN "replace" ELSE "idle"]
  /\ UNCHANGED <<row, active, view, update, overtaken, restarts>>

ReloadReplace(i) ==
  /\ watch[i].step = "replace"
  /\ active' = [active EXCEPT ![i] = watch[i].row.document]
  /\ watch' = [watch EXCEPT ![i].step = "view"]
  /\ UNCHANGED <<row, view, update, overtaken, restarts>>

ReloadView(i) ==
  /\ watch[i].step = "view"
  /\ Viewed(i, watch[i].row.document, watch[i].row.version)
  /\ watch' = [watch EXCEPT ![i].step = "idle"]
  /\ UNCHANGED <<row, active, update, restarts>>

\* A process stops and starts again; Load does what Watch does.
Restart(i) ==
  /\ restarts < MaxRestarts
  /\ restarts' = restarts + 1
  /\ active' = [active EXCEPT ![i] = Bootstrap]
  /\ view' = [view EXCEPT ![i] = 0]
  /\ watch' = [watch EXCEPT ![i] = [step |-> "idle", row |-> NoDocument]]
  /\ update' = [u \in Updates |->
       IF Handler[u] # i THEN update[u]
       ELSE CASE update[u].step \in {"sent", "first"} -> [update[u] EXCEPT !.step = "failed"]
              [] update[u].step \in {"replace", "view"} -> [update[u] EXCEPT !.step = "done"]
              [] OTHER -> update[u]]
  /\ overtaken' = overtaken \ {i}
  /\ UNCHANGED row

Publish(u) == Replace(u) \/ SetView(u)

UpdateStep(u) ==
  Commit(u) \/ VersionConflict(u) \/ FirstRead(u) \/ FirstCommit(u) \/ Publish(u)

WatchStep(i) == Reload(i) \/ ReloadCompare(i) \/ ReloadReplace(i) \/ ReloadView(i)

PlaneNext ==
  \/ \E u \in Updates : Send(u) \/ UpdateStep(u)
  \/ \E i \in Instances : WatchStep(i) \/ Restart(i)

PlaneSpec == PlaneInit /\ [][PlaneNext]_planeVars

\* The ticker of Watch keeps firing, and a call that has begun comes to its end.
PlaneFairSpec ==
  /\ PlaneSpec
  /\ \A u \in Updates : WF_planeVars(UpdateStep(u))
  /\ \A i \in Instances : WF_planeVars(WatchStep(i))

-----------------------------------------------------------------------------
Accepted == {u \in Updates : update[u].step \in {"replace", "view", "done"}}

\* Optimistic concurrency: an accepted update replaced the version that its
\* author had seen, and no other accepted update wrote the same version.
NoLostUpdate ==
  \A u \in Accepted :
    /\ update[u].version = update[u].expected + 1
    /\ \A v \in Accepted \ {u} : update[v].version # update[u].version

\* docs/operations.md: an update is committed and switched to atomically, and
\* the other instances load the same active version.  Every instance comes to
\* use the stored document for good, publications that overlap in its process
\* included, with one exception: the last publication to set the view, which
\* Watch compares with the database, had lost the pointer to another before.
Converges ==
  \A i \in Instances : <>[](i \in overtaken \/ active[i] = row.document)
=============================================================================
