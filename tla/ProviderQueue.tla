---------------------------- MODULE ProviderQueue ----------------------------
(***************************************************************************)
(* internal/reliability/queue.go: the concurrency limit of one provider, a *)
(* channel of MaxInFlight slots with a bounded number of waiters.          *)
(*                                                                         *)
(* The channel and the two atomic counters are updated one after the other *)
(* and not under a lock, so each update is a step of its own; at[r] is the *)
(* place in Acquire or Release that request r has reached:                 *)
(*   "idle"       outside, holding nothing                                 *)
(*   "try"        context checked, about to try for a slot                 *)
(*   "count"      got a slot at once, active not yet incremented           *)
(*   "full"       no slot at once, about to reserve a waiting place        *)
(*   "select"     waiting for a slot, the timer or the context             *)
(*   "recheck"    got a slot after waiting, context not yet checked        *)
(*   "admit"      context was live, active not yet incremented             *)
(*   "returnBack" giving up, waiting not yet decremented                   *)
(*   "returnHeld" lease built, waiting not yet decremented                 *)
(*   "held"       Acquire has returned the lease                           *)
(*   "releasing"  Release has decremented active but not freed the slot    *)
(* The CompareAndSwap loop of reserveWaiting is one atomic step.  The      *)
(* rejected, timedOut and canceled counters, read by metrics only, are     *)
(* left out, and so is the wait timer's length: it may fire at any time.   *)
(***************************************************************************)
EXTENDS Naturals, FiniteSets

CONSTANTS Requests, MaxInFlight, MaxWaiting

ASSUME QueueAssumption ==
  /\ IsFiniteSet(Requests)
  /\ MaxInFlight \in Nat \ {0}
  /\ MaxWaiting \in Nat

VARIABLES
  slots,      \* len(queue.slots)
  active, waiting,
  at,         \* [Requests -> Places]
  done        \* the requests whose context has ended

queueVars == <<slots, active, waiting, at, done>>

Places == {"idle", "try", "count", "full", "select", "recheck", "admit",
           "returnBack", "returnHeld", "held", "releasing"}

SlotPlaces == {"count", "recheck", "admit", "returnHeld", "held", "releasing"}
ActivePlaces == {"returnHeld", "held"}
WaitingPlaces == {"select", "recheck", "admit", "returnBack", "returnHeld"}

QueueTypeOK ==
  /\ slots \in 0..MaxInFlight
  /\ active \in 0..MaxInFlight
  /\ waiting \in 0..MaxWaiting
  /\ at \in [Requests -> Places]
  /\ done \subseteq Requests

QueueInit ==
  /\ slots = 0 /\ active = 0 /\ waiting = 0
  /\ at = [r \in Requests |-> "idle"]
  /\ done = {}

Move(r, from, to) == at[r] = from /\ at' = [at EXCEPT ![r] = to]

-----------------------------------------------------------------------------
\* A new request of r with a live context (a caller may come back).
Arrive(r) ==
  /\ at[r] = "idle" /\ r \in done
  /\ done' = done \ {r}
  /\ UNCHANGED <<slots, active, waiting, at>>

ContextDone(r) ==
  /\ r \notin done
  /\ done' = done \cup {r}
  /\ UNCHANGED <<slots, active, waiting, at>>

\* Acquire, up to its first context check; a request whose context has ended
\* is refused and stays outside.
Acquire(r) ==
  /\ r \notin done
  /\ Move(r, "idle", "try")
  /\ UNCHANGED <<slots, active, waiting, done>>

\* Mutant of SlotFree: the channel has one slot too many.
SlotFreeOneMore == slots <= MaxInFlight

SlotFree == slots < MaxInFlight

\* tryAcquire, which may overtake the requests that are waiting.
tryAcquire(r) ==
  /\ \/ /\ SlotFree
        /\ Move(r, "try", "count")
        /\ slots' = slots + 1
     \/ /\ ~SlotFree
        /\ Move(r, "try", "full")
        /\ UNCHANGED slots
  /\ UNCHANGED <<active, waiting, done>>

CountActive(r) ==
  /\ Move(r, "count", "held")
  /\ active' = active + 1
  /\ UNCHANGED <<slots, waiting, done>>

PlaceFree == waiting < MaxWaiting

reserveWaiting(r) ==
  /\ \/ /\ PlaceFree
        /\ Move(r, "full", "select")
        /\ waiting' = waiting + 1
     \/ /\ ~PlaceFree
        /\ Move(r, "full", "idle")
        /\ UNCHANGED waiting
  /\ UNCHANGED <<slots, active, done>>

\* The three cases of the select statement.  A ready case is chosen at random,
\* so a slot may be taken by a request whose context has ended.
SelectSlot(r) ==
  /\ SlotFree
  /\ Move(r, "select", "recheck")
  /\ slots' = slots + 1
  /\ UNCHANGED <<active, waiting, done>>

\* Mutant of SelectTimeout: the wait has no timer.
SelectNoTimeout(r) == FALSE /\ UNCHANGED queueVars

SelectTimeout(r) ==
  /\ Move(r, "select", "returnBack")
  /\ UNCHANGED <<slots, active, waiting, done>>

SelectDone(r) ==
  /\ r \in done
  /\ Move(r, "select", "returnBack")
  /\ UNCHANGED <<slots, active, waiting, done>>

\* Mutant of Recheck: the slot of a request that has ended is not given back.
RecheckLeaks(r) ==
  /\ Move(r, "recheck", IF r \in done THEN "returnBack" ELSE "admit")
  /\ UNCHANGED <<slots, active, waiting, done>>

\* The slot is given back when the context ended meanwhile.
Recheck(r) ==
  /\ \/ r \notin done /\ Move(r, "recheck", "admit") /\ UNCHANGED slots
     \/ r \in done /\ Move(r, "recheck", "returnBack") /\ slots' = slots - 1
  /\ UNCHANGED <<active, waiting, done>>

AdmitWaiter(r) ==
  /\ Move(r, "admit", "returnHeld")
  /\ active' = active + 1
  /\ UNCHANGED <<slots, waiting, done>>

\* The deferred waiting.Add(-1), with or without a lease.
LeaveWaiting(r) ==
  /\ Move(r, "returnHeld", "held") \/ Move(r, "returnBack", "idle")
  /\ waiting' = waiting - 1
  /\ UNCHANGED <<slots, active, done>>

\* The two steps of Release; its CompareAndSwap makes it happen once a lease.
Release(r) ==
  \/ /\ Move(r, "held", "releasing")
     /\ active' = active - 1
     /\ UNCHANGED <<slots, waiting, done>>
  \/ /\ Move(r, "releasing", "idle")
     /\ slots' = slots - 1
     /\ UNCHANGED <<active, waiting, done>>

\* What Acquire does by itself once called.
AcquireStep(r) ==
  \/ tryAcquire(r) \/ CountActive(r) \/ reserveWaiting(r)
  \/ SelectSlot(r) \/ SelectTimeout(r) \/ SelectDone(r)
  \/ Recheck(r) \/ AdmitWaiter(r) \/ LeaveWaiting(r)

QueueNext ==
  \E r \in Requests :
    Arrive(r) \/ ContextDone(r) \/ Acquire(r) \/ AcquireStep(r) \/ Release(r)

QueueSpec == QueueInit /\ [][QueueNext]_queueVars

\* The scheduler runs every goroutine inside Acquire, and the wait timer fires.
\* Nothing is assumed about the holders of leases or the contexts.
QueueFairSpec == QueueSpec /\ \A r \in Requests : WF_queueVars(AcquireStep(r))

-----------------------------------------------------------------------------
Holders == {r \in Requests : at[r] \in SlotPlaces}
ActiveOnes == {r \in Requests : at[r] \in ActivePlaces}
Waiters == {r \in Requests : at[r] \in WaitingPlaces}

\* The channel and both counters agree with the requests that are inside, at
\* every interleaving of the unlocked updates of Acquire and Release: no path
\* (ended context, timeout, rejection, late slot) leaks or doubles an update.
CountersMatchRequests ==
  /\ slots = Cardinality(Holders)
  /\ active = Cardinality(ActiveOnes)
  /\ waiting = Cardinality(Waiters)

\* The number of calls that Snapshot reports as active never exceeds the slots
\* taken: Release decrements active before it frees the slot, so the reported
\* figures never show more calls in flight than the configured maximum.
ActiveWithinSlots == active <= slots

\* queue.go implements a counting semaphore of MaxInFlight slots.
Sem == INSTANCE Semaphore WITH holders <- Holders

ImplementsSemaphore == Sem!SemSpec

\* A request that entered Acquire comes out of it, with a lease or without,
\* even if no holder ever releases and no context ever ends.
AcquireReturns ==
  \A r \in Requests : at[r] = "try" ~> at[r] \in {"idle", "held"}
=============================================================================
