----------------------------- MODULE AdminOwners -----------------------------
(***************************************************************************)
(* internal/adminauth/manager.go: the administrators and the protection of *)
(* the last active owner.  A session is one call of the manager, from any  *)
(* API process or from the CLI.  update locks the row of its target and    *)
(* nothing else (READ COMMITTED), so the count of the other owners and the *)
(* commit are steps of their own.  Roles are abstracted to whether owner   *)
(* is among them; credentials and audit records are left out.              *)
(***************************************************************************)
EXTENDS FiniteSets

CONSTANTS Principals, Sessions

VARIABLES
  status,   \* [Principals -> {"none", "active", "disabled"}]
  owner,    \* the principals that are granted the owner role
  session   \* [Sessions -> Calls], the call that is under way

adminVars == <<status, owner, session>>

Idle == [step |-> "idle"]
Updates == [step : {"locked", "counted"}, target : Principals,
            status : {"active", "disabled"}, owner : BOOLEAN]
Creates == [step : {"bootstrap"}, target : Principals]
Calls == {Idle} \cup Updates \cup Creates

TypeOK ==
  /\ status \in [Principals -> {"none", "active", "disabled"}]
  /\ owner \subseteq Principals
  /\ session \in [Sessions -> Calls]

Init ==
  /\ status = [p \in Principals |-> "none"]
  /\ owner = {}
  /\ session = [s \in Sessions |-> Idle]

Known == {p \in Principals : status[p] # "none"}
ActiveOwners == {p \in owner : status[p] = "active"}

OtherOwners(p) == ActiveOwners \ {p}

\* Bootstrap counts, then creates an owner.
Bootstrap(s) ==
  /\ session[s] = Idle /\ Known = {}
  /\ \E p \in Principals : session' = [session EXCEPT ![s] = [step |-> "bootstrap", target |-> p]]
  /\ UNCHANGED <<status, owner>>

\* The names of principals are unique: a second insert fails.
BootstrapCreate(s) ==
  /\ session[s].step = "bootstrap"
  /\ LET p == session[s].target IN
     /\ status' = [status EXCEPT ![p] = IF @ = "none" THEN "active" ELSE @]
     /\ owner' = IF status[p] = "none" THEN owner \cup {p} ELSE owner
  /\ session' = [session EXCEPT ![s] = Idle]

create(s, p, isOwner) ==
  /\ session[s] = Idle /\ Known # {} /\ status[p] = "none"
  /\ status' = [status EXCEPT ![p] = "active"]
  /\ owner' = IF isOwner THEN owner \cup {p} ELSE owner
  /\ UNCHANGED session

Locked(p) == \E s \in Sessions : session[s] \in Updates /\ session[s].target = p

validStatus(newStatus) == newStatus \in {"active", "disabled"}

\* update begins: SELECT ... FOR UPDATE of the target's row.
update(s, p, newStatus, newOwner) ==
  /\ validStatus(newStatus)
  /\ session[s] = Idle /\ status[p] # "none" /\ ~Locked(p)
  /\ session' = [session EXCEPT ![s] =
       [step |-> "locked", target |-> p, status |-> newStatus, owner |-> newOwner]]
  /\ UNCHANGED <<status, owner>>

keepsOwner(call) == call.status = "active" /\ call.owner

\* The check; ErrLastOwner rolls back.
CountOwners(s) ==
  LET call == session[s] IN
  /\ call.step = "locked"
  /\ session' = [session EXCEPT ![s] =
       IF call.target \in owner /\ ~keepsOwner(call) /\ OtherOwners(call.target) = {}
         THEN Idle ELSE [call EXCEPT !.step = "counted"]]
  /\ UNCHANGED <<status, owner>>

Commit(s) ==
  LET call == session[s] IN
  /\ call.step = "counted"
  /\ status' = [status EXCEPT ![call.target] = call.status]
  /\ owner' = IF call.owner THEN owner \cup {call.target} ELSE owner \ {call.target}
  /\ session' = [session EXCEPT ![s] = Idle]

Next ==
  \E s \in Sessions :
    \/ Bootstrap(s) \/ BootstrapCreate(s) \/ CountOwners(s) \/ Commit(s)
    \/ \E p \in Principals, o \in BOOLEAN :
         create(s, p, o) \/ \E t \in {"active", "disabled", "other"} : update(s, p, t, o)

Spec == Init /\ [][Next]_adminVars

\* docs/operations.md: the last active owner can be neither disabled nor
\* stripped of the role, whatever sequence of updates is made.
OwnerRemains == Known # {} => ActiveOwners # {}
=============================================================================
