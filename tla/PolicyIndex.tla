----------------------------- MODULE PolicyIndex -----------------------------
(***************************************************************************)
(* internal/quota/policy_index.go: the copy of the quota policies that an  *)
(* API process asks before it opens a quota transaction, and the two ways  *)
(* it is written: Put after a change made in this process, and Replace by  *)
(* the periodic refresh.                                                   *)
(*                                                                         *)
(* There is one policy.  Its states are numbered by its version, and       *)
(* whether it applies is a function of the version (Enabled).              *)
(***************************************************************************)
EXTENDS Naturals

CONSTANT MaxPolicyVersion   \* bound on the changes of the policy

ASSUME PolicyAssumption == MaxPolicyVersion \in Nat

VARIABLES
  row,      \* 0..MaxPolicyVersion, the committed policy
  index,    \* 0..MaxPolicyVersion, the policy in the index of the process
  puts,     \* versions committed by this process, their Put not run yet
  loaded    \* the version the refresh has read, or NotLoading

policyVars == <<row, index, puts, loaded>>

NotLoading == MaxPolicyVersion + 1

\* Version 0 is no policy; the changes enable and disable it in turn.
Enabled(v) == v % 2 = 1

PolicyTypeOK ==
  /\ row \in 0..MaxPolicyVersion /\ index \in 0..MaxPolicyVersion
  /\ puts \subseteq 1..MaxPolicyVersion
  /\ loaded \in 0..NotLoading

PolicyInit == row = 0 /\ index = 0 /\ puts = {} /\ loaded = NotLoading

\* createPolicy and updatePolicy commit under the row lock, here or in another
\* process; Put follows the commit of this one.
CommitPolicy(here) ==
  /\ row < MaxPolicyVersion
  /\ row' = row + 1
  /\ puts' = IF here THEN puts \cup {row + 1} ELSE puts
  /\ UNCHANGED <<index, loaded>>

Put(v) ==
  /\ v \in puts
  /\ index' = v
  /\ puts' = puts \ {v}
  /\ UNCHANGED <<row, loaded>>

\* LoadPolicyIndex reads the table and then replaces the index.  The refresh in
\* which nothing happens between the two is one step of its own.
LoadPolicyIndex ==
  /\ loaded = NotLoading
  /\ loaded' = row
  /\ UNCHANGED <<row, index, puts>>

Replace ==
  /\ loaded # NotLoading
  /\ index' = loaded
  /\ loaded' = NotLoading
  /\ UNCHANGED <<row, puts>>

\* Mutant of Refresh: a policy that is in the index already is kept.
RefreshKeepsOld ==
  /\ loaded = NotLoading
  /\ index' = IF index = 0 THEN row ELSE index
  /\ UNCHANGED <<row, puts, loaded>>

Refresh ==
  /\ loaded = NotLoading
  /\ index' = row
  /\ UNCHANGED <<row, puts, loaded>>

HasPolicy == Enabled(index)
=============================================================================
