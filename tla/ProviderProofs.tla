--------------------------- MODULE ProviderProofs ---------------------------
(***************************************************************************)
(* Proofs about what the requests of one provider share: the slots of its  *)
(* queue and its keys, for any requests, limits, keys and cooldowns.       *)
(*                                                                         *)
(* The queue: QueueTypeOK and CountersMatchRequests are inductive          *)
(* together; everything rests on one lemma, MoveCount, about how a request *)
(* that moves from one place to another changes the number of requests in  *)
(* a set of places.                                                        *)
(*                                                                         *)
(* The keys: LateSuccessHarmless is inductive only together with           *)
(* VersionsFromPast: a rejection moves the key to a version that no        *)
(* selection has seen.  RetryAfterExact then rests on it, because a        *)
(* success leaves every cooldown as it is.                                 *)
(***************************************************************************)
EXTENDS ProviderQueue, KeySelector, FiniteSetTheorems, TLAPS

-----------------------------------------------------------------------------
(* The queue.                                                              *)

In(P) == {r \in Requests : at[r] \in P}

QueueInv == QueueTypeOK /\ CountersMatchRequests

\* The number of requests in places P is a natural number, positive when one
\* is known to be there.
LEMMA InCount ==
  ASSUME NEW CONSTANT P
  PROVE  /\ IsFiniteSet(In(P))
         /\ Cardinality(In(P)) \in Nat
         /\ \A r \in Requests : at[r] \in P => Cardinality(In(P)) > 0
<1>1. IsFiniteSet(In(P)) /\ Cardinality(In(P)) \in Nat
  BY QueueAssumption, FS_Subset, FS_CardinalityType DEF In
<1>2. \A r \in Requests : at[r] \in P => In(P) # {}
  BY DEF In
<1> QED
  BY <1>1, <1>2, FS_EmptySet

\* A move enters, leaves or stays within a set of places.
LEMMA MoveCount ==
  ASSUME NEW CONSTANT P, at \in [Requests -> Places], NEW r \in Requests,
         NEW from, NEW to, Move(r, from, to)
  PROVE  /\ from \in P /\ to \notin P =>
              Cardinality(In(P)') = Cardinality(In(P)) - 1
         /\ from \notin P /\ to \in P =>
              Cardinality(In(P)') = Cardinality(In(P)) + 1
         /\ (from \in P <=> to \in P) => In(P)' = In(P)
<1>1. from \in P /\ to \notin P => In(P)' = In(P) \ {r} /\ r \in In(P)
  BY DEF In, Move
<1>2. from \notin P /\ to \in P => In(P)' = In(P) \cup {r} /\ r \notin In(P)
  BY DEF In, Move
<1>3. (from \in P <=> to \in P) => In(P)' = In(P)
  BY DEF In, Move
<1>4. IsFiniteSet(In(P)) /\ Cardinality(In(P)) \in Nat
  BY InCount
<1>5. r \in In(P) => Cardinality(In(P) \ {r}) = Cardinality(In(P)) - 1
  BY <1>4, FS_RemoveElement, Zenon
<1>6. r \notin In(P) => Cardinality(In(P) \cup {r}) = Cardinality(In(P)) + 1
  BY <1>4, FS_AddElement, Zenon
<1>7. from \in P /\ to \notin P => Cardinality(In(P)') = Cardinality(In(P)) - 1
  BY <1>1, <1>5
<1>8. from \notin P /\ to \in P => Cardinality(In(P)') = Cardinality(In(P)) + 1
  BY <1>2, <1>6
<1> QED
  BY <1>3, <1>7, <1>8

\* The three counters count the requests at three sets of places.
LEMMA Places3 ==
  /\ Holders = In(SlotPlaces)
  /\ ActiveOnes = In(ActivePlaces)
  /\ Waiters = In(WaitingPlaces)
BY DEF Holders, ActiveOnes, Waiters, In

\* What the counters do when a request moves between two given places.
LEMMA CountStep ==
  ASSUME QueueInv, NEW r \in Requests, NEW from \in Places, NEW to \in Places,
         Move(r, from, to),
         slots' = slots + (IF to \in SlotPlaces THEN 1 ELSE 0)
                        - (IF from \in SlotPlaces THEN 1 ELSE 0),
         active' = active + (IF to \in ActivePlaces THEN 1 ELSE 0)
                          - (IF from \in ActivePlaces THEN 1 ELSE 0),
         waiting' = waiting + (IF to \in WaitingPlaces THEN 1 ELSE 0)
                            - (IF from \in WaitingPlaces THEN 1 ELSE 0),
         slots' <= MaxInFlight, waiting' <= MaxWaiting, done' \subseteq Requests
  PROVE  QueueInv'
<1> USE DEF QueueInv
<1>1. at' \in [Requests -> Places] /\ at[r] = from
  BY DEF QueueTypeOK, Move
<1>2. slots' = Cardinality(In(SlotPlaces)')
  BY <1>1, MoveCount, InCount, Places3 DEF QueueTypeOK, CountersMatchRequests
<1>3. active' = Cardinality(In(ActivePlaces)')
  BY <1>1, MoveCount, InCount, Places3 DEF QueueTypeOK, CountersMatchRequests
<1>4. waiting' = Cardinality(In(WaitingPlaces)')
  BY <1>1, MoveCount, InCount, Places3 DEF QueueTypeOK, CountersMatchRequests
<1>5. CountersMatchRequests'
  BY <1>2, <1>3, <1>4 DEF CountersMatchRequests, Holders, ActiveOnes, Waiters, In
<1>6. slots' \in Nat /\ active' \in Nat /\ waiting' \in Nat
  BY <1>1, InCount, Places3 DEF QueueTypeOK, CountersMatchRequests
<1>7. active' <= slots'
  <2>1. In(ActivePlaces)' \subseteq In(SlotPlaces)' /\ IsFiniteSet(In(SlotPlaces)')
    BY QueueAssumption, FS_Subset DEF In, ActivePlaces, SlotPlaces
  <2> QED
    BY <1>2, <1>3, <2>1, FS_Subset
<1> QED
  BY <1>1, <1>5, <1>6, <1>7, QueueAssumption DEF QueueTypeOK

\* One step per operation of the queue.
LEMMA QueueStep == QueueInv /\ [QueueNext]_queueVars => QueueInv'
<1> SUFFICES ASSUME QueueInv, [QueueNext]_queueVars PROVE QueueInv'
  OBVIOUS
<1> USE QueueAssumption DEF Places, SlotPlaces, ActivePlaces, WaitingPlaces
<1>0. /\ slots \in 0..MaxInFlight /\ active \in Nat /\ waiting \in 0..MaxWaiting
      /\ done \subseteq Requests
  BY DEF QueueInv, QueueTypeOK
<1>1. ASSUME NEW r \in Requests, Arrive(r) \/ ContextDone(r) PROVE QueueInv'
  BY <1>1 DEF Arrive, ContextDone, QueueInv, QueueTypeOK, CountersMatchRequests,
              Holders, ActiveOnes, Waiters
<1>2. ASSUME NEW r \in Requests, Acquire(r) PROVE QueueInv'
  BY <1>0, <1>2, CountStep DEF Acquire
<1>3. ASSUME NEW r \in Requests, tryAcquire(r) PROVE QueueInv'
  BY <1>0, <1>3, CountStep DEF tryAcquire, SlotFree
<1>4. ASSUME NEW r \in Requests, CountActive(r) PROVE QueueInv'
  BY <1>0, <1>4, CountStep DEF CountActive
<1>5. ASSUME NEW r \in Requests, reserveWaiting(r) PROVE QueueInv'
  BY <1>0, <1>5, CountStep DEF reserveWaiting, PlaceFree
<1>6. ASSUME NEW r \in Requests, SelectSlot(r) PROVE QueueInv'
  BY <1>0, <1>6, CountStep DEF SelectSlot, SlotFree
<1>7. ASSUME NEW r \in Requests, SelectTimeout(r) \/ SelectDone(r) PROVE QueueInv'
  BY <1>0, <1>7, CountStep DEF SelectTimeout, SelectDone
<1>8. ASSUME NEW r \in Requests, Recheck(r) PROVE QueueInv'
  BY <1>0, <1>8, CountStep DEF Recheck
<1>9. ASSUME NEW r \in Requests, AdmitWaiter(r) PROVE QueueInv'
  BY <1>0, <1>9, CountStep DEF AdmitWaiter
<1>10. ASSUME NEW r \in Requests, LeaveWaiting(r) PROVE QueueInv'
  BY <1>0, <1>10, CountStep DEF LeaveWaiting
<1>11. ASSUME NEW r \in Requests, Release(r) PROVE QueueInv'
  BY <1>0, <1>11, CountStep DEF Release
<1>12. CASE UNCHANGED queueVars
  BY <1>12 DEF queueVars, QueueInv, QueueTypeOK, CountersMatchRequests,
               Holders, ActiveOnes, Waiters
<1> QED
  BY <1>1, <1>2, <1>3, <1>4, <1>5, <1>6, <1>7, <1>8, <1>9, <1>10, <1>11, <1>12
     DEF QueueNext, AcquireStep

\* The inductive invariant holds in every reachable state.
THEOREM QueueInvariance == QueueSpec => []QueueInv
<1>1. QueueInit => QueueInv
  <2> SUFFICES ASSUME QueueInit PROVE QueueInv
    OBVIOUS
  <2>1. Holders = {} /\ ActiveOnes = {} /\ Waiters = {}
    BY DEF QueueInit, Holders, ActiveOnes, Waiters, SlotPlaces, ActivePlaces, WaitingPlaces
  <2> QED
    BY <2>1, FS_EmptySet, QueueAssumption
       DEF QueueInit, QueueInv, QueueTypeOK, CountersMatchRequests, Places
<1>2. QueueInv /\ [QueueNext]_queueVars => QueueInv'
  BY QueueStep
<1> QED
  BY <1>1, <1>2, PTL DEF QueueSpec

\* Slots, active and waiting of queue.go agree with the requests inside it at
\* every interleaving of their unlocked updates, for any limits.
THEOREM QueueAccounting == QueueSpec => []CountersMatchRequests
BY QueueInvariance, PTL DEF QueueInv

\* The number of active calls is at most the number of slots taken, which is
\* at most MaxInFlight (QueueTypeOK).
THEOREM ActiveBounded == QueueSpec => []ActiveWithinSlots
<1>1. QueueInv => ActiveWithinSlots
  <2> SUFFICES ASSUME QueueInv PROVE ActiveWithinSlots
    OBVIOUS
  <2>1. In(ActivePlaces) \subseteq In(SlotPlaces)
    BY DEF In, ActivePlaces, SlotPlaces
  <2> QED
    BY <2>1, InCount, FS_Subset, Places3
       DEF QueueInv, CountersMatchRequests, ActiveWithinSlots
<1> QED
  BY <1>1, QueueInvariance, PTL

-----------------------------------------------------------------------------
\* The semaphore counts its holders as this module does.
LEMMA SameCardinality == \A S : Sem!Cardinality(S) = Cardinality(S)
BY Zenon DEF Sem!Cardinality, Cardinality

\* A move in which no slot changes hands is invisible to the semaphore, one
\* into a slot place takes a slot, one out of them gives it back.
LEMMA MoveHolders ==
  ASSUME at \in [Requests -> Places], NEW r \in Requests, NEW from, NEW to, Move(r, from, to)
  PROVE  /\ (from \in SlotPlaces <=> to \in SlotPlaces) => UNCHANGED Holders
         /\ from \notin SlotPlaces /\ to \in SlotPlaces =>
              r \notin Holders /\ Holders' = Holders \cup {r}
         /\ from \in SlotPlaces /\ to \notin SlotPlaces => Sem!GiveBack(r)
BY DEF Move, Holders, Sem!GiveBack

\* Every operation of the queue is a step of the semaphore or invisible to it.
LEMMA SemStep == QueueInv /\ [QueueNext]_queueVars => [Sem!SemNext]_Holders
<1> SUFFICES ASSUME QueueInv, [QueueNext]_queueVars PROVE [Sem!SemNext]_Holders
  OBVIOUS
<1> USE DEF SlotPlaces
<1>0. at \in [Requests -> Places] /\ slots = Cardinality(Holders)
  BY DEF QueueInv, QueueTypeOK, CountersMatchRequests
<1>1. ASSUME NEW r \in Requests, NEW from \in Places, Move(r, from, "count"),
             from = "try", SlotFree
      PROVE  Sem!Take(r)
  BY <1>0, <1>1, MoveHolders, SameCardinality DEF SlotFree, Sem!Take
<1>2. ASSUME NEW r \in Requests, Move(r, "select", "recheck"), SlotFree
      PROVE  Sem!Take(r)
  BY <1>0, <1>2, MoveHolders, SameCardinality DEF SlotFree, Sem!Take
<1>3. ASSUME NEW r \in Requests, Arrive(r) \/ ContextDone(r) PROVE UNCHANGED Holders
  BY <1>3 DEF Arrive, ContextDone, Holders
<1>4. ASSUME NEW r \in Requests,
             \/ Acquire(r) \/ CountActive(r) \/ reserveWaiting(r) \/ SelectTimeout(r)
             \/ SelectDone(r) \/ AdmitWaiter(r) \/ LeaveWaiting(r)
      PROVE UNCHANGED Holders
  BY <1>0, <1>4, MoveHolders DEF Acquire, CountActive, reserveWaiting, SelectTimeout,
                                 SelectDone, AdmitWaiter, LeaveWaiting
<1>5. ASSUME NEW r \in Requests, tryAcquire(r) PROVE [Sem!SemNext]_Holders
  BY <1>0, <1>1, <1>5, MoveHolders DEF tryAcquire, Sem!SemNext, Places
<1>6. ASSUME NEW r \in Requests, SelectSlot(r) PROVE [Sem!SemNext]_Holders
  BY <1>2, <1>6 DEF SelectSlot, Sem!SemNext
<1>7. ASSUME NEW r \in Requests, Recheck(r) \/ Release(r) PROVE [Sem!SemNext]_Holders
  BY <1>0, <1>7, MoveHolders DEF Recheck, Release, Sem!SemNext
<1>8. CASE UNCHANGED queueVars
  BY <1>8 DEF queueVars, Holders
<1> QED
  BY <1>3, <1>4, <1>5, <1>6, <1>7, <1>8 DEF QueueNext, AcquireStep

\* queue.go implements a counting semaphore, whatever its limits: never more
\* than MaxInFlight requests hold a slot and a slot is freed once.
THEOREM QueueRefinement == QueueSpec => ImplementsSemaphore
<1>1. QueueInit => Sem!SemInit
  BY DEF QueueInit, Sem!SemInit, Holders, SlotPlaces
<1>2. QueueInv /\ [QueueNext]_queueVars => [Sem!SemNext]_Holders
  BY SemStep
<1> QED
  BY <1>1, <1>2, QueueInvariance, PTL DEF QueueSpec, ImplementsSemaphore, Sem!SemSpec

-----------------------------------------------------------------------------
(* The keys.                                                               *)

VersionsFromPast ==
  \A u \in Users : Outstanding(u) => selection[u].version <= stateVersion[selection[u].key]

KeyInv == TypeOK /\ VersionsFromPast /\ LateSuccessHarmless

\* The failures a completion reports, and their cooldown, have their types.
LEMMA CooldownType ==
  ASSUME NEW failure \in FailureRecord
  PROVE  CooldownFor(failure) \in 0..MaximumRetryAfter
BY KeySelectorAssumption DEF CooldownFor, Smaller, FailureRecord

\* The constructor initialises every key usable and every user idle.
LEMMA InitKeyInv == Init => KeyInv
BY KeySelectorAssumption
   DEF Init, KeyInv, TypeOK, VersionsFromPast, LateSuccessHarmless, Outstanding,
       Selections, NoSelection, Waits, NoWait, NoKey, Keys

\* selectKey hands out a usable key at its present version.
LEMMA SelectShape ==
  ASSUME KeyInv, NEW u \in Users, NEW preferred \in Keys \cup {NoKey},
         NEW excluded \in SUBSET Keys, selectKey(u, preferred, excluded)
  PROVE  /\ \E k \in Keys : Usable(k, excluded) /\ newProviderKeySelection(u, k)
         /\ next' \in Keys
         /\ UNCHANGED <<disabled, cooldown, stateVersion>>
<1>1. CASE PreferredUsable(preferred, excluded)
  BY <1>1 DEF selectKey, PreferredUsable, KeyInv, TypeOK
<1>2. CASE ~PreferredUsable(preferred, excluded)
  <2>1. \E k \in Keys : Usable(k, excluded) /\ newProviderKeySelection(u, k)
    BY <1>2 DEF selectKey, FirstUsable
  <2>2. next' \in Keys
    BY <1>2, KeySelectorAssumption DEF selectKey, Rotate, KeyInv, TypeOK, Keys
  <2>3. QED  BY <2>1, <2>2 DEF selectKey
<1>3. QED  BY <1>1, <1>2

\* A selection carries the version its key has at that moment.
LEMMA SelectStep ==
  ASSUME KeyInv, NEW u \in Users, NEW preferred \in Keys \cup {NoKey},
         NEW excluded \in SUBSET Keys, Select(u, preferred, excluded)
  PROVE  KeyInv'
<1>1. PICK k \in Keys : Usable(k, excluded) /\ newProviderKeySelection(u, k)
  BY SelectShape DEF Select
<1>2. next' \in Keys /\ UNCHANGED <<disabled, cooldown, stateVersion>>
  BY SelectShape DEF Select
<1>3. k # NoKey /\ [key |-> k, version |-> stateVersion[k]] \in Selections
  BY KeySelectorAssumption DEF Selections, NoKey, Keys, KeyInv, TypeOK
<1>4. exhausted' \in [Users -> Waits]
  BY DEF Select, KeyInv, TypeOK, NoWait, Waits
<1>5. TypeOK'
  BY <1>1, <1>2, <1>3, <1>4, Zenon DEF KeyInv, TypeOK, newProviderKeySelection
<1>6. \A v \in Users : selection'[v] = IF v = u THEN [key |-> k, version |-> stateVersion[k]]
                                                 ELSE selection[v]
  BY <1>1 DEF KeyInv, TypeOK, newProviderKeySelection
<1>7. VersionsFromPast'
  BY <1>2, <1>3, <1>6 DEF KeyInv, TypeOK, VersionsFromPast, Outstanding
<1>8. LateSuccessHarmless'
  BY <1>1, <1>2, <1>3, <1>6 DEF KeyInv, LateSuccessHarmless, Outstanding, Usable
<1>9. QED  BY <1>5, <1>7, <1>8 DEF KeyInv

\* A request that found no key changes no key.
LEMMA ExhaustedStep ==
  ASSUME KeyInv, NEW u \in Users, NEW excluded \in SUBSET Keys,
         NEW failure \in ExhaustedFailures, KeyExhausted(u, excluded, failure)
  PROVE  KeyInv'
<1>1. failure.retryAfterSet \in BOOLEAN /\ failure.retryAfter \in Nat
  <2>1. failure = Failed("key_exhausted")
          \/ \E left \in 1..MaximumRetryAfter : failure = ExhaustedFor(left)
    BY DEF ExhaustedFailures
  <2>2. \A left \in Nat : /\ ExhaustedFor(left).retryAfterSet \in BOOLEAN
                           /\ ExhaustedFor(left).retryAfter \in Nat
    BY DEF ExhaustedFor, Failed, NoFailure
  <2>3. Failed("key_exhausted").retryAfterSet \in BOOLEAN /\ Failed("key_exhausted").retryAfter \in Nat
    BY DEF Failed, NoFailure
  <2>4. QED  BY <2>1, <2>2, <2>3, KeySelectorAssumption
<1>2. exhausted' \in [Users -> Waits]
  BY <1>1 DEF KeyExhausted, KeyInv, TypeOK, Waits
<1>3. next' \in Keys
  BY KeySelectorAssumption DEF KeyExhausted, selectFails, Rotate, KeyInv, TypeOK, Keys
<1>4. UNCHANGED <<disabled, cooldown, stateVersion, selection>>
  BY DEF KeyExhausted, selectFails
<1>5. QED
  BY <1>2, <1>3, <1>4 DEF KeyInv, TypeOK, VersionsFromPast, LateSuccessHarmless, Outstanding

\* What a completion does to the keys: nothing (a success included, because it
\* finds no cooldown of its own to clear), or a rejection of its own key.
LEMMA CompleteShape ==
  ASSUME KeyInv, NEW u \in Users, NEW failure \in FailureRecord, Complete(u, failure)
  PROVE  \/ UNCHANGED <<disabled, cooldown, stateVersion>>
         \/ Rejects(failure) /\ Disable(selection[u].key)
         \/ Rejects(failure) /\ ~disabled[selection[u].key]
              /\ CoolDown(selection[u].key, failure)
<1> DEFINE k == selection[u].key
<1>0. k \in Keys
  BY DEF Complete, Outstanding, KeyInv, TypeOK, Selections
<1>1. CASE ~IsFailure(failure) /\ ClearOwn(u, k)
  <2>1. CASE ~disabled[k] /\ stateVersion[k] = selection[u].version
    <3>1. cooldown[k] = 0
      BY <2>1 DEF KeyInv, LateSuccessHarmless, Complete
    <3>2. [cooldown EXCEPT ![k] = 0] = cooldown
      BY <3>1, <1>0 DEF KeyInv, TypeOK
    <3>3. QED  BY <1>1, <2>1, <3>2 DEF ClearOwn
  <2>2. CASE ~(~disabled[k] /\ stateVersion[k] = selection[u].version)
    BY <1>1, <2>2 DEF ClearOwn
  <2>3. QED  BY <2>1, <2>2
<1>2. CASE failure.category = "key_unauthorized" /\ Disable(k)
  BY <1>2 DEF Rejects
<1>3. CASE failure.category = "upstream_rate_limit" /\ ~disabled[k] /\ CoolDown(k, failure)
  BY <1>3 DEF Rejects
<1>4. CASE UNCHANGED <<disabled, cooldown, stateVersion>>
  BY <1>4
<1>5. QED  BY <1>1, <1>2, <1>3, <1>4 DEF Complete

\* A report moves the version of its key forward or leaves it.
LEMMA ReportStep ==
  ASSUME KeyInv, NEW u \in Users, NEW failure \in FailureRecord, Report(u, failure)
  PROVE  KeyInv'
<1> DEFINE k == selection[u].key
<1>0. k \in Keys
  BY DEF Report, Complete, Outstanding, KeyInv, TypeOK, Selections
<1>1. /\ selection' = [selection EXCEPT ![u] = NoSelection]
      /\ UNCHANGED next
      /\ Complete(u, failure)
  BY DEF Report, Complete
<1>2. NoSelection \in Selections
  BY DEF NoSelection, Selections
<1>3. selection' \in [Users -> Selections]
  BY <1>1, <1>2 DEF KeyInv, TypeOK
<1>4. exhausted' \in [Users -> Waits]
  BY Zenon DEF Report, KeyInv, TypeOK, Waits
<1>5. \A v \in Users : Outstanding(v)' => selection'[v] = selection[v] /\ Outstanding(v)
  BY <1>1 DEF KeyInv, TypeOK, Outstanding, NoSelection
<1>6. CASE UNCHANGED <<disabled, cooldown, stateVersion>>
  BY <1>1, <1>3, <1>4, <1>5, <1>6
     DEF KeyInv, TypeOK, VersionsFromPast, LateSuccessHarmless, Outstanding
<1>7. CASE Disable(k) \/ CoolDown(k, failure)
  <2>1. /\ disabled' \in [Keys -> BOOLEAN]
        /\ cooldown' \in [Keys -> 0..MaximumRetryAfter]
        /\ stateVersion' = [stateVersion EXCEPT ![k] = @ + 1]
        /\ \A j \in Keys \ {k} : cooldown'[j] = cooldown[j] /\ disabled'[j] = disabled[j]
    <3>1. Larger(cooldown[k], CooldownFor(failure)) \in 0..MaximumRetryAfter
      BY CooldownType, <1>0 DEF Larger, KeyInv, TypeOK
    <3>2. CASE Disable(k)
      <4>1. 0 \in 0..MaximumRetryAfter
        BY KeySelectorAssumption
      <4>2. disabled' \in [Keys -> BOOLEAN] /\ cooldown' \in [Keys -> 0..MaximumRetryAfter]
        BY <3>2, <4>1, Zenon DEF Disable, KeyInv, TypeOK
      <4>3. QED  BY <1>0, <3>2, <4>2, Zenon DEF Disable, KeyInv, TypeOK
    <3>3. CASE CoolDown(k, failure)
      BY <1>0, <3>1, <3>3 DEF CoolDown, KeyInv, TypeOK
    <3>4. QED  BY <1>7, <3>2, <3>3
  <2>2. stateVersion' \in [Keys -> Nat]
        /\ \A j \in Keys : stateVersion'[j] = IF j = k THEN stateVersion[j] + 1
                                                       ELSE stateVersion[j]
    BY <2>1, <1>0 DEF KeyInv, TypeOK
  <2>3. TypeOK'
    BY <2>1, <2>2, <1>1, <1>3, <1>4 DEF KeyInv, TypeOK
  <2>4. \A v \in Users : Outstanding(v) => selection[v].key \in Keys /\ selection[v].version \in Nat
    BY DEF KeyInv, TypeOK, Selections, Outstanding
  <2>5. VersionsFromPast'
    BY <1>5, <2>2, <2>4 DEF KeyInv, TypeOK, VersionsFromPast
  <2>6. LateSuccessHarmless'
    <3> SUFFICES ASSUME NEW v \in Users, Outstanding(v)',
                        stateVersion'[selection'[v].key] = selection'[v].version
                 PROVE  cooldown'[selection'[v].key] = 0 /\ ~disabled'[selection'[v].key]
      BY DEF LateSuccessHarmless
    <3>1. selection'[v] = selection[v] /\ Outstanding(v) /\ selection[v].key \in Keys
      BY <1>5, <2>4
    <3>2. selection[v].key # k
      BY <3>1, <2>2, <2>4 DEF KeyInv, TypeOK, VersionsFromPast
    <3>3. stateVersion[selection[v].key] = selection[v].version
      BY <3>1, <3>2, <2>2
    <3>4. QED  BY <3>1, <3>2, <3>3, <2>1 DEF KeyInv, LateSuccessHarmless
  <2>7. QED  BY <2>3, <2>5, <2>6 DEF KeyInv
<1>8. QED  BY <1>1, <1>6, <1>7, CompleteShape

\* Time shortens cooldowns and changes no version.
LEMMA TickStep == KeyInv /\ Tick => KeyInv'
<1> SUFFICES ASSUME KeyInv, Tick PROVE KeyInv'
  OBVIOUS
<1>1. cooldown' \in [Keys -> 0..MaximumRetryAfter]
  BY KeySelectorAssumption DEF Tick, TickedCooldowns, Passed, KeyInv, TypeOK
<1>2. exhausted' \in [Users -> Waits]
  <2>1. \A w \in Waits : [w EXCEPT !.left = Passed(@)] \in Waits
    BY DEF Waits, Passed
  <2>2. QED  BY <2>1 DEF Tick, KeyInv, TypeOK
<1>3. \A k \in Keys : cooldown[k] = 0 => cooldown'[k] = 0
  BY DEF Tick, TickedCooldowns, Passed
<1>4. \A u \in Users : Outstanding(u) => selection[u].key \in Keys
  BY DEF KeyInv, TypeOK, Selections, Outstanding
<1>5. UNCHANGED <<disabled, stateVersion, next, selection>>
  BY DEF Tick
<1>6. QED
  BY <1>1, <1>2, <1>3, <1>4, <1>5
     DEF KeyInv, TypeOK, VersionsFromPast, LateSuccessHarmless, Outstanding

\* Every step keeps the invariant.
LEMMA NextKeyInv == KeyInv /\ [Next]_keyVars => KeyInv'
<1> SUFFICES ASSUME KeyInv, [Next]_keyVars PROVE KeyInv'
  OBVIOUS
<1>1. CASE UNCHANGED keyVars
  BY <1>1 DEF keyVars, selectorVars, KeyInv, TypeOK, VersionsFromPast,
              LateSuccessHarmless, Outstanding
<1>2. CASE Next
  BY <1>2, SelectStep, ExhaustedStep, ReportStep, TickStep, KeySelectorAssumption DEF Next
<1>3. QED  BY <1>1, <1>2

\* KeyInv holds always.
THEOREM KeyInvariance == Spec => []KeyInv
BY InitKeyInv, NextKeyInv, PTL DEF Spec

\* Complete never clears a newer state: a late success is harmless.
THEOREM LateSuccess == Spec => []LateSuccessHarmless
<1>1. KeyInv => LateSuccessHarmless  BY DEF KeyInv
<1>2. QED  BY KeyInvariance, <1>1, PTL

-----------------------------------------------------------------------------
\* A running cooldown is shortened by time or by a 401 only.
LEMMA CooldownStep ==
  KeyInv /\ [Next]_keyVars
    => [\A k \in Keys : cooldown'[k] < cooldown[k]
          => disabled'[k] \/ cooldown' = TickedCooldowns]_keyVars
<1> SUFFICES ASSUME KeyInv, Next, NEW k \in Keys, cooldown'[k] < cooldown[k]
             PROVE  disabled'[k] \/ cooldown' = TickedCooldowns
  OBVIOUS
<1>0. cooldown[k] \in Nat
  BY KeySelectorAssumption DEF KeyInv, TypeOK
<1>1. cooldown' # cooldown
  BY <1>0
<1>2. ASSUME NEW u \in Users, NEW failure \in FailureRecord, Complete(u, failure)
      PROVE  disabled'[k]
  <2> DEFINE j == selection[u].key
  <2>0. j \in Keys
    BY <1>2 DEF Complete, Outstanding, KeyInv, TypeOK, Selections
  <2>1. CASE Disable(j)
    BY <2>0, <2>1, <1>0 DEF Disable, KeyInv, TypeOK
  <2>2. CASE CoolDown(j, failure)
    <3>1. cooldown'[k] >= cooldown[k]
      BY <2>0, <2>2, <1>0, CooldownType, <1>2 DEF CoolDown, Larger, KeyInv, TypeOK
    <3>2. CooldownFor(failure) \in Nat
      BY CooldownType, KeySelectorAssumption
    <3>3. QED  BY <3>1, <3>2, <1>0, <2>0, <2>2 DEF CoolDown, Larger, KeyInv, TypeOK
  <2>3. QED  BY <1>1, <1>2, <2>1, <2>2, CompleteShape
<1>3. CASE Tick
  BY <1>3 DEF Tick
<1>4. CASE \E u \in Users, failure \in Outcomes : Outstanding(u) /\ Report(u, failure)
  BY <1>2, <1>4, KeySelectorAssumption DEF Report
<1>5. CASE \E u \in Users, preferred \in Keys \cup {NoKey}, excluded \in SUBSET Keys :
             Select(u, preferred, excluded)
  BY <1>1, <1>5 DEF Select, selectKey
<1>6. CASE \E u \in Users, excluded \in SUBSET Keys, failure \in ExhaustedFailures :
             KeyExhausted(u, excluded, failure)
  BY <1>1, <1>6 DEF KeyExhausted, selectFails
<1>7. QED  BY <1>3, <1>4, <1>5, <1>6 DEF Next

\* No completion shortens a running cooldown, in whatever order they arrive.
THEOREM CooldownsSurvive == Spec => CooldownSurvives
BY KeyInvariance, CooldownStep, PTL DEF Spec, CooldownSurvives

-----------------------------------------------------------------------------
\* One waiting user's promise, kept by a tick of the clock.
LEMMA PromiseTick ==
  ASSUME KeyInv, Tick, NEW excluded \in SUBSET Keys, NEW left \in Nat,
         IF left > 0 THEN NoneUsable(excluded) /\ EarliestCooldown(excluded, left)
                     ELSE \E k \in Keys : Usable(k, excluded)
  PROVE  IF Passed(left) > 0
           THEN NoneUsable(excluded)' /\ EarliestCooldown(excluded, Passed(left))'
           ELSE \E k \in Keys : Usable(k, excluded)'
<1>1. /\ \A k \in Keys : cooldown[k] \in Nat /\ cooldown'[k] = Passed(cooldown[k])
      /\ disabled' = disabled
  BY KeySelectorAssumption DEF Tick, TickedCooldowns, KeyInv, TypeOK
<1>2. CASE left = 0
  BY <1>1, <1>2 DEF Passed, Usable
<1>3. CASE left > 0
  <2>1. PICK k \in Cooling(excluded) :
          left = cooldown[k] /\ \A j \in Cooling(excluded) : left <= cooldown[j]
    BY <1>3 DEF EarliestCooldown
  <2>2. k \in Keys \ excluded /\ ~disabled[k]
    BY <2>1 DEF Cooling
  <2>3. CASE left = 1
    <3>a. cooldown[k] = 1 /\ cooldown'[k] = Passed(cooldown[k])
      BY <1>1, <2>1, <2>2, <2>3, Zenon
    <3>b. cooldown'[k] = 0
      BY <3>a DEF Passed
    <3>c. ~disabled'[k] /\ k \notin excluded
      BY <1>1, <2>2, Zenon
    <3>1. Usable(k, excluded)'
      BY <3>b, <3>c DEF Usable
    <3>2. QED  BY <2>2, <2>3, <3>1 DEF Passed
  <2>4. CASE left > 1
    <3>1. \A j \in Keys \ excluded : ~disabled[j] => j \in Cooling(excluded) /\ cooldown[j] > 1
      BY <1>1, <1>3, <2>1, <2>4 DEF NoneUsable, Usable, Cooling
    <3>2. NoneUsable(excluded)'
      BY <1>1, <3>1 DEF NoneUsable, Usable, Passed
    <3>3. Cooling(excluded)' = Cooling(excluded)
      BY <1>1, <3>1 DEF Cooling, Passed
    <3>4. EarliestCooldown(excluded, left - 1)'
      BY <1>1, <2>1, <2>2, <3>1, <3>3, <2>4 DEF EarliestCooldown, Passed, Cooling
    <3>5. QED  BY <3>2, <3>4, <2>4 DEF Passed
  <2>5. QED  BY <1>3, <2>3, <2>4
<1>4. QED  BY <1>2, <1>3

\* Every step keeps the promise of RetryAfter, or releases it.
LEMMA PromiseStep == KeyInv /\ RetryAfterExact /\ [Next]_keyVars => RetryAfterExact'
<1> DEFINE Promise(w) ==
      w.waiting /\ w.undisturbed
        => IF w.left > 0 THEN NoneUsable(w.excluded) /\ EarliestCooldown(w.excluded, w.left)
                         ELSE \E k \in Keys : Usable(k, w.excluded)
<1> SUFFICES ASSUME KeyInv, \A u \in Users : Promise(exhausted[u]), [Next]_keyVars,
                    NEW v \in Users
             PROVE  Promise(exhausted[v])'
  BY DEF RetryAfterExact
<1>1. ASSUME UNCHANGED <<disabled, cooldown>>, exhausted'[v] = exhausted[v]
      PROVE  Promise(exhausted[v])'
  BY <1>1 DEF NoneUsable, EarliestCooldown, Usable, Cooling
<1>2. ASSUME exhausted'[v].waiting = FALSE \/ exhausted'[v].undisturbed = FALSE
      PROVE  Promise(exhausted[v])'
  BY <1>2
<1>3. CASE UNCHANGED keyVars
  BY <1>1, <1>3 DEF keyVars, selectorVars
<1>4. ASSUME NEW u \in Users, NEW preferred \in Keys \cup {NoKey},
             NEW excluded \in SUBSET Keys, Select(u, preferred, excluded)
      PROVE  Promise(exhausted[v])'
  <2>1. UNCHANGED <<disabled, cooldown>>
    BY <1>4 DEF Select, selectKey
  <2>2. exhausted'[v] = exhausted[v] \/ exhausted'[v].waiting = FALSE
    BY <1>4 DEF Select, NoWait, KeyInv, TypeOK
  <2>3. QED  BY <1>1, <1>2, <2>1, <2>2
<1>5. ASSUME NEW u \in Users, NEW excluded \in SUBSET Keys,
             NEW failure \in ExhaustedFailures, KeyExhausted(u, excluded, failure)
      PROVE  Promise(exhausted[v])'
  <2>1. UNCHANGED <<disabled, cooldown>>
    BY <1>5 DEF KeyExhausted, selectFails
  <2>2. CASE u # v
    BY <1>1, <1>5, <2>1, <2>2 DEF KeyExhausted, KeyInv, TypeOK
  <2>3. CASE u = v
    <3>1. exhausted'[v] = [waiting |-> failure.retryAfterSet, left |-> failure.retryAfter,
                           excluded |-> excluded, undisturbed |-> TRUE]
      BY <1>5, <2>3 DEF KeyExhausted, KeyInv, TypeOK
    <3>2. CASE failure = Failed("key_exhausted")
      BY <1>2, <3>1, <3>2 DEF Failed, NoFailure
    <3>3. CASE \E left \in 1..MaximumRetryAfter :
                 EarliestCooldown(excluded, left) /\ failure = ExhaustedFor(left)
      <4>1. failure.retryAfter \in Nat /\ failure.retryAfter > 0
            /\ EarliestCooldown(excluded, failure.retryAfter)
        BY <3>3, KeySelectorAssumption DEF ExhaustedFor, Failed, NoFailure
      <4>2. NoneUsable(excluded)
        BY <1>5 DEF KeyExhausted, selectFails
      <4>3. NoneUsable(excluded)' /\ EarliestCooldown(excluded, failure.retryAfter)'
        BY <2>1, <4>1, <4>2 DEF NoneUsable, EarliestCooldown, Usable, Cooling
      <4>4. exhausted'[v].left = failure.retryAfter /\ exhausted'[v].excluded = excluded
        BY <3>1
      <4>5. QED  BY <4>1, <4>3, <4>4
    <3>4. QED  BY <1>5, <3>2, <3>3 DEF KeyExhausted, selectFails, RetryAfter
  <2>4. QED  BY <2>2, <2>3
<1>6. ASSUME NEW u \in Users, NEW failure \in Outcomes, Report(u, failure)
      PROVE  Promise(exhausted[v])'
  <2>1. CASE Rejects(failure)
    <3>1. exhausted'[v].undisturbed = FALSE
      BY <1>6, <2>1 DEF Report, KeyInv, TypeOK, Waits
    <3>2. QED  BY <1>2, <3>1
  <2>2. CASE ~Rejects(failure)
    <3>1. UNCHANGED <<disabled, cooldown, stateVersion>>
      BY <1>6, <2>2, CompleteShape, KeySelectorAssumption DEF Report
    <3>2. exhausted' = exhausted
      BY <1>6, <2>2 DEF Report
    <3>3. QED  BY <1>1, <3>1, <3>2
  <2>3. QED  BY <2>1, <2>2
<1>7. ASSUME Tick PROVE Promise(exhausted[v])'
  <2> DEFINE w == exhausted[v]
  <2>1. w \in Waits /\ exhausted'[v] = [w EXCEPT !.left = Passed(@)]
    BY <1>7 DEF Tick, KeyInv, TypeOK
  <2>2. /\ w.left \in Nat /\ w.excluded \in SUBSET Keys
        /\ exhausted'[v].waiting = w.waiting /\ exhausted'[v].undisturbed = w.undisturbed
        /\ exhausted'[v].left = Passed(w.left) /\ exhausted'[v].excluded = w.excluded
    BY <2>1 DEF Waits
  <2>3. CASE w.waiting /\ w.undisturbed
    <3>1. IF w.left > 0 THEN NoneUsable(w.excluded) /\ EarliestCooldown(w.excluded, w.left)
                        ELSE \E k \in Keys : Usable(k, w.excluded)
      BY <2>3
    <3>2. PICK excluded \in SUBSET Keys, left \in Nat : w.excluded = excluded /\ w.left = left
      BY <2>2
    <3>3. IF Passed(left) > 0
            THEN NoneUsable(excluded)' /\ EarliestCooldown(excluded, Passed(left))'
            ELSE \E k \in Keys : Usable(k, excluded)'
      BY <1>7, <3>1, <3>2, PromiseTick
    <3>4. exhausted'[v].excluded = excluded /\ exhausted'[v].left = Passed(left)
      BY <2>2, <3>2
    <3>5. QED
      BY <3>3, <3>4 DEF NoneUsable, EarliestCooldown, Usable, Cooling
  <2>4. QED  BY <2>2, <2>3
<1>8. QED  BY <1>3, <1>4, <1>5, <1>6, <1>7, ZenonT(30) DEF Next

\* The RetryAfter of a KeyExhausted failure is exact.
THEOREM RetryAfterIsExact == Spec => []RetryAfterExact
<1>1. Init => RetryAfterExact
  BY DEF Init, RetryAfterExact, NoWait
<1>2. QED  BY KeyInvariance, <1>1, PromiseStep, PTL DEF Spec
=============================================================================
