----------------------------- MODULE KeySelector -----------------------------
(***************************************************************************)
(* internal/reliability/keyselector.go: the keys of one provider, chosen   *)
(* round robin past the keys that are excluded, disabled or cooling down.  *)
(*                                                                         *)
(* selectKey and Complete hold selector.mu for the part that touches the   *)
(* keys, so each is one step.  cooldown[k] is the time left until the      *)
(* key's cooldownUntil (0 in the past and for the zero time); next is kept *)
(* modulo the number of keys, the only way the code reads it.  Key ids and *)
(* secrets are the indices of the keys.                                    *)
(*                                                                         *)
(* exhausted[u] remembers the last "no key" answer that user u got, as the *)
(* caller that waits for its RetryAfter does (RetryPolicy.Wait).           *)
(***************************************************************************)
EXTENDS Failure, FiniteSets

CONSTANTS
  Users,              \* the requests that share the selector
  KeyCount,
  MaximumRetryAfter,
  DefaultCooldown,    \* defaultProviderKeyCooldown
  Outcomes,           \* the outcomes a call may report: failures or NoFailure
  MaxVersion          \* bound: a key is not rejected again at this version

ASSUME KeySelectorAssumption ==
  /\ KeyCount \in Nat \ {0}
  /\ MaximumRetryAfter \in Nat
  /\ DefaultCooldown \in 0..MaximumRetryAfter
  /\ Outcomes \subseteq FailureRecord
  /\ MaxVersion \in Nat

VARIABLES
  disabled, cooldown, stateVersion,  \* [Keys -> ...]
  next,
  selection,                         \* [Users -> Selections]
  exhausted                          \* [Users -> Waits]

selectorVars == <<disabled, cooldown, stateVersion, next, selection>>
keyVars == <<selectorVars, exhausted>>

Keys == 0..(KeyCount - 1)
NoKey == KeyCount   \* no preferred key, or no selection

Selections == [key : Keys \cup {NoKey}, version : Nat]
NoSelection == [key |-> NoKey, version |-> 0]
Outstanding(u) == selection[u].key # NoKey

\* undisturbed: no key was rejected since the answer was given.
Waits == [waiting : BOOLEAN, left : Nat, excluded : SUBSET Keys, undisturbed : BOOLEAN]
NoWait == [waiting |-> FALSE, left |-> 0, excluded |-> {}, undisturbed |-> FALSE]

TypeOK ==
  /\ disabled \in [Keys -> BOOLEAN]
  /\ cooldown \in [Keys -> 0..MaximumRetryAfter]
  /\ stateVersion \in [Keys -> Nat]
  /\ next \in Keys
  /\ selection \in [Users -> Selections]
  /\ exhausted \in [Users -> Waits]

Init ==
  /\ disabled = [k \in Keys |-> FALSE]
  /\ cooldown = [k \in Keys |-> 0]
  /\ stateVersion = [k \in Keys |-> 0]
  /\ next = 0
  /\ selection = [u \in Users |-> NoSelection]
  /\ exhausted = [u \in Users |-> NoWait]

-----------------------------------------------------------------------------
Usable(k, excluded) == k \notin excluded /\ ~disabled[k] /\ cooldown[k] = 0

NoneUsable(excluded) == \A k \in Keys : ~Usable(k, excluded)

\* The loop over offsets from next: k is the first usable key it meets.
FirstUsable(k, excluded) ==
  /\ Usable(k, excluded)
  /\ \A offset \in 0..(KeyCount - 1) :
       offset < (k + KeyCount - next) % KeyCount
         => ~Usable((next + offset) % KeyCount, excluded)

newProviderKeySelection(u, k) ==
  selection' = [selection EXCEPT ![u] = [key |-> k, version |-> stateVersion[k]]]

PreferredUsable(preferred, excluded) ==
  preferred # NoKey /\ Usable(preferred, excluded)

Rotate == next' = (next + 1) % KeyCount

\* selectKey, returning a selection: the preferred key without moving the
\* cursor, or else the first usable key from the cursor on.
selectKey(u, preferred, excluded) ==
  /\ \/ /\ PreferredUsable(preferred, excluded)
        /\ newProviderKeySelection(u, preferred)
        /\ UNCHANGED next
     \/ /\ ~PreferredUsable(preferred, excluded)
        /\ \E k \in Keys : FirstUsable(k, excluded) /\ newProviderKeySelection(u, k)
        /\ Rotate
  /\ UNCHANGED <<disabled, cooldown, stateVersion>>

Cooling(excluded) == {k \in Keys \ excluded : ~disabled[k] /\ cooldown[k] > 0}

\* Mutant of EarliestCooldown: the latest cooldown is reported.
LatestCooldown(excluded, left) ==
  \E k \in Cooling(excluded) :
    left = cooldown[k] /\ \A j \in Cooling(excluded) : left >= cooldown[j]

EarliestCooldown(excluded, left) ==
  \E k \in Cooling(excluded) :
    left = cooldown[k] /\ \A j \in Cooling(excluded) : left <= cooldown[j]

ExhaustedFor(left) ==
  [Failed("key_exhausted") EXCEPT !.retryAfter = left, !.retryAfterSet = TRUE]

\* The RetryAfter of the failure; none is set when no key is cooling.
RetryAfter(excluded, failure) ==
  \/ Cooling(excluded) = {} /\ failure = Failed("key_exhausted")
  \/ \E left \in 1..MaximumRetryAfter :
       EarliestCooldown(excluded, left) /\ failure = ExhaustedFor(left)

\* selectKey, returning a failure.
selectFails(excluded, failure) ==
  /\ NoneUsable(excluded)
  /\ RetryAfter(excluded, failure)
  /\ Rotate
  /\ UNCHANGED <<disabled, cooldown, stateVersion, selection>>

-----------------------------------------------------------------------------
Smaller(a, b) == IF a <= b THEN a ELSE b
Larger(a, b) == IF a >= b THEN a ELSE b

CooldownFor(failure) ==
  Smaller(IF failure.retryAfterSet THEN failure.retryAfter ELSE DefaultCooldown,
          MaximumRetryAfter)

Rejects(failure) ==
  failure.category \in {"key_unauthorized", "upstream_rate_limit"}

\* A success clears the cooldown only of the state it was selected in.
ClearOwn(u, k) ==
  /\ cooldown' = IF ~disabled[k] /\ stateVersion[k] = selection[u].version
                   THEN [cooldown EXCEPT ![k] = 0] ELSE cooldown
  /\ UNCHANGED <<disabled, stateVersion>>

Disable(k) ==
  /\ disabled' = [disabled EXCEPT ![k] = TRUE]
  /\ cooldown' = [cooldown EXCEPT ![k] = 0]
  /\ stateVersion' = [stateVersion EXCEPT ![k] = @ + 1]

\* Mutant of CoolDown: the version is not advanced.
CoolDownSameVersion(k, failure) ==
  /\ cooldown' = [cooldown EXCEPT ![k] = Larger(@, CooldownFor(failure))]
  /\ UNCHANGED <<disabled, stateVersion>>

\* Mutant of CoolDown: the latest rate limit wins, even over a longer one.
CoolDownOverwrites(k, failure) ==
  /\ cooldown' = [cooldown EXCEPT ![k] = CooldownFor(failure)]
  /\ stateVersion' = [stateVersion EXCEPT ![k] = @ + 1]
  /\ UNCHANGED disabled

CoolDown(k, failure) ==
  /\ cooldown' = [cooldown EXCEPT ![k] = Larger(@, CooldownFor(failure))]
  /\ stateVersion' = [stateVersion EXCEPT ![k] = @ + 1]
  /\ UNCHANGED disabled

\* Complete, which its CompareAndSwap lets through once a selection.
Complete(u, failure) ==
  /\ Outstanding(u)
  /\ LET k == selection[u].key IN
     \/ ~IsFailure(failure) /\ ClearOwn(u, k)
     \/ failure.category = "key_unauthorized" /\ Disable(k)
     \/ /\ failure.category = "upstream_rate_limit" /\ ~disabled[k]
        /\ CoolDown(k, failure)
     \/ /\ IsFailure(failure)
        /\ ~Rejects(failure) \/ (failure.category = "upstream_rate_limit" /\ disabled[k])
        /\ UNCHANGED <<disabled, cooldown, stateVersion>>
  /\ selection' = [selection EXCEPT ![u] = NoSelection]
  /\ UNCHANGED next

Passed(left) == IF left > 0 THEN left - 1 ELSE 0

TickedCooldowns == [k \in Keys |-> Passed(cooldown[k])]

-----------------------------------------------------------------------------
Select(u, preferred, excluded) ==
  /\ ~Outstanding(u)
  /\ selectKey(u, preferred, excluded)
  /\ exhausted' = [exhausted EXCEPT ![u] = NoWait]

KeyExhausted(u, excluded, failure) ==
  /\ ~Outstanding(u)
  /\ selectFails(excluded, failure)
  /\ exhausted' = [exhausted EXCEPT ![u] =
       [waiting |-> failure.retryAfterSet, left |-> failure.retryAfter,
        excluded |-> excluded, undisturbed |-> TRUE]]

Report(u, failure) ==
  /\ Rejects(failure) => stateVersion[selection[u].key] < MaxVersion
  /\ Complete(u, failure)
  /\ exhausted' = IF Rejects(failure)
                    THEN [v \in Users |-> [exhausted[v] EXCEPT !.undisturbed = FALSE]]
                    ELSE exhausted

Tick ==
  /\ cooldown' = TickedCooldowns
  /\ exhausted' = [u \in Users |-> [exhausted[u] EXCEPT !.left = Passed(@)]]
  /\ UNCHANGED <<disabled, stateVersion, next, selection>>

\* The failures that selectKey can return.
ExhaustedFailures ==
  {Failed("key_exhausted")} \cup {ExhaustedFor(left) : left \in 1..MaximumRetryAfter}

Next ==
  \/ \E u \in Users, preferred \in Keys \cup {NoKey}, excluded \in SUBSET Keys :
       Select(u, preferred, excluded)
  \/ \E u \in Users, excluded \in SUBSET Keys, failure \in ExhaustedFailures :
       KeyExhausted(u, excluded, failure)
  \/ \E u \in Users, failure \in Outcomes : Outstanding(u) /\ Report(u, failure)
  \/ Tick

Spec == Init /\ [][Next]_keyVars

-----------------------------------------------------------------------------
\* A selection that could still clear its key's cooldown (same stateVersion)
\* has none to clear: the key is neither cooling down nor disabled.  So a
\* success that arrives late, after another request was answered 401 or 429 on
\* the same key, finds a newer version and leaves the newer state alone.
LateSuccessHarmless ==
  \A u \in Users :
    Outstanding(u) /\ stateVersion[selection[u].key] = selection[u].version
      => cooldown[selection[u].key] = 0 /\ ~disabled[selection[u].key]

\* A running cooldown ends by time alone, or with the key's being disabled: no
\* completion, of whatever request in whatever order, shortens it.
CooldownSurvives ==
  [][\A k \in Keys : cooldown'[k] < cooldown[k] => disabled'[k] \/ cooldown' = TickedCooldowns]_keyVars

\* The RetryAfter of a KeyExhausted failure is exact: as long as no key is
\* rejected meanwhile, no key outside the excluded ones becomes usable before
\* it has passed, and one is usable as soon as it has.
RetryAfterExact ==
  \A u \in Users :
    exhausted[u].waiting /\ exhausted[u].undisturbed
      => IF exhausted[u].left > 0
           THEN /\ NoneUsable(exhausted[u].excluded)
                /\ EarliestCooldown(exhausted[u].excluded, exhausted[u].left)
           ELSE \E k \in Keys : Usable(k, exhausted[u].excluded)
=============================================================================
