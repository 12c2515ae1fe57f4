-------------------------- MODULE SnapshotManager --------------------------
(***************************************************************************)
(* gateway.Manager of one API process and the two ways a snapshot gets     *)
(* into it: UpdateRuntime, which holds the lock of the active row while it *)
(* builds, and Watch, which holds nothing (controlplane/service.go).  Both *)
(* build from the snapshot that is current when they look, and replace     *)
(* whatever is current when they are done; no lock of the process covers   *)
(* the time between.                                                       *)
(*                                                                         *)
(* A version is an index of Definitions.  Of the provider states that a    *)
(* snapshot takes over only the queue is kept, as the number of the build  *)
(* that made it; ControlPlane.tla has the versions, If-Match and the       *)
(* other instances in full.  The process has a stored version from its     *)
(* start: of the environment's configuration, which has no ProviderStates, *)
(* nothing is ever taken over.                                             *)
(***************************************************************************)
EXTENDS Router

CONSTANT Definitions   \* sequence of routing definitions, by version

ASSUME DefinitionsAssumption ==
  /\ Len(Definitions) \in Nat \ {0} /\ DOMAIN Definitions = 1..Len(Definitions)
  /\ NewRouter(Definitions[1])

VARIABLES
  current,       \* the snapshot of the manager: [version, queues]
  active,        \* the version of the active row in PostgreSQL
  view,          \* the version of runtimeView
  publications,  \* calls of UpdateRuntime and of reloadRuntime under way
  builds,        \* snapshots built so far by this process
  raced          \* a snapshot was replaced by one that was not built from it

managerVars == <<current, active, view, publications, builds, raced>>

\* stale: another snapshot was published since this call read its row.
Publication(by, step, snapshot) == [by |-> by, step |-> step, stale |-> FALSE, snapshot |-> snapshot]

\* A process starts with the active version and with queues of its own.
Loaded(version) ==
  [version |-> version, queues |-> [p \in DOMAIN Definitions[version].providers |-> 1]]

ManagerInit ==
  /\ current = Loaded(1)
  /\ active = 1 /\ view = 1
  /\ publications = {}
  /\ builds = 1
  /\ raced = FALSE

RestartManager ==
  /\ current' = Loaded(active)
  /\ view' = active
  /\ publications' = {}
  /\ builds' = 1
  /\ raced' = FALSE
  /\ UNCHANGED active

\* Mutant of reuseProviderStates: every snapshot has queues of its own.
NewProviderStates(version) ==
  [p \in DOMAIN Definitions[version].providers |-> builds + 1]

\* A provider whose queue is configured as before keeps its queue.
reuseProviderStates(version) ==
  LET now == Definitions[version].providers
      old == Definitions[current.version].providers
  IN  [p \in DOMAIN now |->
         IF p \in DOMAIN old /\ now[p].queue = old[p].queue THEN current.queues[p] ELSE builds + 1]

\* builder.build(document, service.runtime.Current())
Built(version) == [version |-> version, queues |-> reuseProviderStates(version)]

Begin(publication) == publications' = publications \cup {publication}

Becomes(p, next) == publications' = (publications \ {p}) \cup {next}

End(p) == publications' = publications \ {p}

\* lockedRuntime selects the active row FOR UPDATE.
RowLocked == \E p \in publications : p.step = "commit"

Storable(version) == ~RowLocked /\ version > active /\ build(Definitions[version])

\* UpdateRuntime up to the snapshot it has built, in the transaction.
UpdateRuntime(version) ==
  /\ Storable(version)
  /\ Begin(Publication("update", "commit", Built(version)))
  /\ builds' = builds + 1
  /\ UNCHANGED <<current, active, view, raced>>

CommitRuntime(p) ==
  /\ p.step = "commit"
  /\ active' = p.snapshot.version
  /\ Becomes(p, [p EXCEPT !.step = "replace"])
  /\ UNCHANGED <<current, view, builds, raced>>

\* The transaction fails, and may have been committed.
AbortRuntime(p) ==
  /\ p.step = "commit"
  /\ active' \in {active, p.snapshot.version}
  /\ End(p)
  /\ UNCHANGED <<current, view, builds, raced>>

\* UpdateRuntime of another instance.
UpdateElsewhere(version) ==
  /\ Storable(version)
  /\ active' = version
  /\ UNCHANGED <<current, view, publications, builds, raced>>

Watching == \E p \in publications : p.by = "watch"

\* Watch calls reloadRuntime, one at a time: it reads the active row,
ReadActive ==
  /\ ~Watching
  /\ Begin(Publication("watch", "compare", [version |-> active, queues |-> <<>>]))
  /\ UNCHANGED <<current, active, view, builds, raced>>

\* compares it with the view,
CompareView(p) ==
  /\ p.step = "compare"
  /\ IF view = p.snapshot.version THEN End(p) ELSE Becomes(p, [p EXCEPT !.step = "build"])
  /\ UNCHANGED <<current, active, view, builds, raced>>

\* and builds it.
BuildActive(p) ==
  /\ p.step = "build"
  /\ Becomes(p, [p EXCEPT !.step = "replace", !.snapshot = Built(p.snapshot.version)])
  /\ builds' = builds + 1
  /\ UNCHANGED <<current, active, view, raced>>

\* Manager.Replace is an unconditional store: what the others have read is old.
Overtaken(others) == {[q EXCEPT !.stale = (q.step # "view")] : q \in others}

ReplaceSnapshot(p) ==
  /\ p.step = "replace"
  /\ current' = p.snapshot
  /\ raced' = (raced \/ p.stale)
  /\ publications' = Overtaken(publications \ {p}) \cup {[p EXCEPT !.step = "view", !.stale = FALSE]}
  /\ UNCHANGED <<active, view, builds>>

SetView(p) ==
  /\ p.step = "view"
  /\ view' = p.snapshot.version
  /\ End(p)
  /\ UNCHANGED <<current, active, builds, raced>>

\* A publication in which nothing of this module happens between its steps is
\* one step of its own.
AtOnce(version) ==
  /\ current' = Built(version)
  /\ active' = version /\ view' = version
  /\ publications' = Overtaken(publications)
  /\ builds' = builds + 1
  /\ UNCHANGED raced

UpdateAtOnce(version) == Storable(version) /\ AtOnce(version)

ReloadAtOnce == ~Watching /\ active # view /\ AtOnce(active)

\* What a call under way does next.
Publish ==
  \E p \in publications :
    \/ CommitRuntime(p) \/ AbortRuntime(p) \/ CompareView(p) \/ BuildActive(p)
    \/ ReplaceSnapshot(p) \/ SetView(p)

ManagerTypeOK ==
  /\ current.version \in DOMAIN Definitions
  /\ DOMAIN current.queues = DOMAIN Definitions[current.version].providers
  /\ \A p \in DOMAIN current.queues : current.queues[p] \in 1..builds
  /\ active \in DOMAIN Definitions /\ view \in DOMAIN Definitions
  /\ \A p \in publications :
       /\ p.by \in {"update", "watch"}
       /\ p.step \in {"commit", "compare", "build", "replace", "view"}
       /\ p.snapshot.version \in DOMAIN Definitions
  /\ builds \in Nat \ {0}
  /\ raced \in BOOLEAN
=============================================================================
