----------------------------- MODULE QuotaLedger -----------------------------
(***************************************************************************)
(* internal/quota/manager.go: the quota ledger of one tenant and model in  *)
(* PostgreSQL.  A request (its usage event id is the reservation group)    *)
(* reserves its estimate under every enabled policy, and its end replaces  *)
(* the estimate by what was used; a reaper closes what nobody settled.     *)
(*                                                                         *)
(* Reserve, Settle and the reaping of a row are transactions that lock the *)
(* rows they read (policies FOR SHARE, reservations and windows FOR        *)
(* UPDATE), so each is one step, or no step when it is rolled back.  An    *)
(* amount is a function from Dims.  Each policy has its own period;        *)
(* windows are numbered.  The int64 overflow checks are left out:          *)
(* validLimit keeps request and token limits under 10^15.                  *)
(***************************************************************************)
EXTENDS Integers, FiniteSets, Functions

CONSTANTS
  Groups,      \* the requests
  Policies,
  Limit,       \* [Policies -> [Dims -> Nat \cup {NoLimit}]]
  Overage,     \* [Policies -> {"deny", "allow", "alert"}]
  Estimates,   \* [tokens, cost, costKnown] of a request before it runs
  Events,      \* [tokens, cost, attempted] of a request when it ends
  MaxPeriod    \* bound: the last window

Dims == {"requests", "tokens", "cost"}
Unknown == -1  \* no usage reported, or no price known
NoLimit == -1  \* a nil limit

ASSUME QuotaAssumption ==
  /\ IsFiniteSet(Groups)
  /\ Limit \in [Policies -> [Dims -> Nat \cup {NoLimit}]]
  /\ Overage \in [Policies -> {"deny", "allow", "alert"}]
  /\ Estimates \subseteq [tokens : Nat, cost : Nat, costKnown : BOOLEAN]
  /\ Events \subseteq [tokens : Nat \cup {Unknown}, cost : Nat \cup {Unknown},
                       attempted : BOOLEAN]
  /\ MaxPeriod \in Nat

VARIABLES
  enabled,      \* the policies that are enabled
  period,       \* [Policies -> Windows], the present window
  window,       \* [Policies -> [Windows -> Counters]]
  reservation,  \* [Groups -> [Policies -> Reservations]]
  expired,      \* the groups whose ExpiresAt has passed
  phase         \* [Groups -> Phases], the request that owns the group

quotaVars == <<enabled, period, window, reservation, expired, phase>>

Windows == 0..MaxPeriod
Amounts == [Dims -> Nat]
Counters == [reserved : [Dims -> Int], settled : [Dims -> Int]]
Zero == [d \in Dims |-> 0]

\* "none" is the absence of a row.
States == {"none", "active", "settled", "estimated"}
Reservations == [state : States, window : Windows, amount : Amounts, actual : Amounts]
NoReservation == [state |-> "none", window |-> 0, amount |-> Zero, actual |-> Zero]

\* "orphan": Reserve was committed but reported an error, so the reservation is
\* not attached to the session.  "over": the request has ended.
Phases == {"new", "attached", "orphan", "over"}

TypeOK ==
  /\ enabled \subseteq Policies
  /\ period \in [Policies -> Windows]
  /\ window \in [Policies -> [Windows -> Counters]]
  /\ reservation \in [Groups -> [Policies -> Reservations]]
  /\ expired \subseteq Groups
  /\ phase \in [Groups -> Phases]

Init ==
  /\ enabled = Policies
  /\ period = [p \in Policies |-> 0]
  /\ window = [p \in Policies |-> [w \in Windows |-> [reserved |-> Zero, settled |-> Zero]]]
  /\ reservation = [g \in Groups |-> [p \in Policies |-> NoReservation]]
  /\ expired = {}
  /\ phase = [g \in Groups |-> "new"]

Plus(a, b) == [d \in Dims |-> a[d] + b[d]]
Minus(a, b) == [d \in Dims |-> a[d] - b[d]]

-----------------------------------------------------------------------------
HasBudget(p) == Limit[p]["cost"] # NoLimit

\* The amount that the policy reserves for the estimate.
Amount(p, estimate) ==
  [d \in Dims |->
     CASE d = "requests" -> 1
       [] d = "tokens" -> estimate.tokens
       [] d = "cost" -> IF HasBudget(p) /\ estimate.costKnown THEN estimate.cost ELSE 0]

\* Mutant of exceedsLimit: reserved amounts are not counted.
exceedsSettled(limit, settled, reserved, incoming) ==
  limit # NoLimit /\ settled + incoming > limit

exceedsLimit(limit, settled, reserved, incoming) ==
  limit # NoLimit /\ settled + reserved + incoming > limit

exceeds(p, amount) ==
  LET current == window[p][period[p]] IN
  \E d \in Dims :
    exceedsLimit(Limit[p][d], current.settled[d], current.reserved[d], amount[d])

\* ErrCostUnknown or ErrExceeded: the transaction is rolled back.
Refuses(p, estimate) ==
  /\ Overage[p] = "deny"
  /\ \/ HasBudget(p) /\ ~estimate.costKnown
     \/ exceeds(p, Amount(p, estimate))

Reserve(g, estimate) ==
  /\ phase[g] = "new"
  /\ \A p \in enabled : ~Refuses(p, estimate)
  /\ window' = [p \in Policies |->
       IF p \in enabled
         THEN [window[p] EXCEPT ![period[p]].reserved = Plus(@, Amount(p, estimate))]
         ELSE window[p]]
  /\ reservation' = [reservation EXCEPT ![g] = [p \in Policies |->
       IF p \in enabled
         THEN [state |-> "active", window |-> period[p],
               amount |-> Amount(p, estimate), actual |-> Zero]
         ELSE NoReservation]]
  /\ \/ phase' = [phase EXCEPT ![g] = "attached"]
     \/ phase' = [phase EXCEPT ![g] = "orphan"]
  /\ UNCHANGED <<enabled, period, expired>>

ReserveRefused(g, estimate) ==
  /\ phase[g] = "new"
  /\ \E p \in enabled : Refuses(p, estimate)
  /\ phase' = [phase EXCEPT ![g] = "over"]
  /\ UNCHANGED <<enabled, period, window, reservation, expired>>

\* HasPolicy answers from an index that each process refreshes from time to
\* time: it may miss a policy that is enabled, and the request runs uncounted.
ReserveSkipped(g) ==
  /\ phase[g] = "new"
  /\ phase' = [phase EXCEPT ![g] = "over"]
  /\ UNCHANGED <<enabled, period, window, reservation, expired>>

-----------------------------------------------------------------------------
\* What is charged at the end: the usage reported, else the reservation if an
\* upstream was called, else nothing.
Charge(reported, attempted, reserved) ==
  IF reported # Unknown THEN reported ELSE IF attempted THEN reserved ELSE 0

actual(event, amount) ==
  [d \in Dims |->
     CASE d = "requests" -> 1
       [] d = "tokens" -> Charge(event.tokens, event.attempted, amount["tokens"])
       [] d = "cost" -> Charge(event.cost, event.attempted, amount["cost"])]

\* Mutant of SettledWindow: an estimate is not taken back.
SettledWindowTwice(counters, r, used) ==
  [reserved |-> IF r.state = "active" THEN Minus(counters.reserved, r.amount)
                                      ELSE counters.reserved,
   settled  |-> Plus(counters.settled, used)]

\* An active reservation moves to settled; an estimate is corrected.
SettledWindow(counters, r, used) ==
  [reserved |-> IF r.state = "active" THEN Minus(counters.reserved, r.amount)
                                      ELSE counters.reserved,
   settled  |-> IF r.state = "active" THEN Plus(counters.settled, used)
                ELSE Plus(Minus(counters.settled, r.amount), used)]

Open(r) == r.state \in {"active", "estimated"}

Settle(g, event) ==
  /\ phase[g] = "attached"
  /\ window' = [p \in Policies |->
       LET r == reservation[g][p] IN
       IF Open(r)
         THEN [window[p] EXCEPT ![r.window] = SettledWindow(@, r, actual(event, r.amount))]
         ELSE window[p]]
  /\ reservation' = [reservation EXCEPT ![g] = [p \in Policies |->
       LET r == reservation[g][p] IN
       IF Open(r)
         THEN [r EXCEPT !.state = "settled", !.actual = actual(event, r.amount)]
         ELSE r]]
  /\ phase' = [phase EXCEPT ![g] = "over"]
  /\ UNCHANGED <<enabled, period, expired>>

\* The settlement fails or the process stops before it; it is not repeated.
SettleLost(g) ==
  /\ phase[g] \in {"attached", "orphan"}
  /\ phase' = [phase EXCEPT ![g] = "over"]
  /\ UNCHANGED <<enabled, period, window, reservation, expired>>

\* Mutant of Expired: the reaper looks for the wrong state.
ExpiredEstimates(g, p) == g \in expired /\ reservation[g][p].state = "estimated"

Expired(g, p) == g \in expired /\ reservation[g][p].state = "active"

ReapedWindow(counters, r) ==
  [reserved |-> Minus(counters.reserved, r.amount),
   settled  |-> Plus(counters.settled, r.amount)]

\* One row of ReapExpired.  The rows of a batch are committed together, but
\* nothing tells that from committing them one after the other.
ReapExpired(g, p) ==
  /\ Expired(g, p)
  /\ LET r == reservation[g][p] IN
     /\ window' = [window EXCEPT ![p][r.window] = ReapedWindow(@, r)]
     /\ reservation' = [reservation EXCEPT ![g][p].state = "estimated",
                                           ![g][p].actual = r.amount]
  /\ UNCHANGED <<enabled, period, expired, phase>>

\* ReservationTTL has passed since the reservation.
Expire(g) ==
  /\ phase[g] # "new" /\ g \notin expired
  /\ expired' = expired \cup {g}
  /\ UNCHANGED <<enabled, period, window, reservation, phase>>

NextPeriod(p) ==
  /\ period[p] < MaxPeriod
  /\ period' = [period EXCEPT ![p] = @ + 1]
  /\ UNCHANGED <<enabled, window, reservation, expired, phase>>

\* UpdatePolicy, changing the enabled flag.
Toggle(p) ==
  /\ enabled' = IF p \in enabled THEN enabled \ {p} ELSE enabled \cup {p}
  /\ UNCHANGED <<period, window, reservation, expired, phase>>

Next ==
  \/ \E g \in Groups, estimate \in Estimates :
       Reserve(g, estimate) \/ ReserveRefused(g, estimate)
  \/ \E g \in Groups, event \in Events : Settle(g, event)
  \/ \E g \in Groups : ReserveSkipped(g) \/ SettleLost(g) \/ Expire(g)
  \/ \E g \in Groups, p \in Policies : ReapExpired(g, p)
  \/ \E p \in Policies : NextPeriod(p) \/ Toggle(p)

Spec == Init /\ [][Next]_quotaVars

\* Time passes, and RunReaper comes to every row: a row that SKIP LOCKED passes
\* over is locked by a transaction that ends.
FairSpec ==
  /\ Spec
  /\ \A g \in Groups : WF_quotaVars(Expire(g))
  /\ \A g \in Groups, p \in Policies : WF_quotaVars(ReapExpired(g, p))

-----------------------------------------------------------------------------
InWindow(p, w, states) ==
  {g \in Groups : reservation[g][p].state \in states /\ reservation[g][p].window = w}

AmountOf(p, d) == [g \in Groups |-> reservation[g][p].amount[d]]
ActualOf(p, d) == [g \in Groups |-> reservation[g][p].actual[d]]

\* The counters of every window are the sums of its reservations: active ones
\* at their estimate, settled and estimated ones at what was charged.  No order
\* of reserving, settling, losing and reaping charges anything twice or loses a
\* charge.
LedgerBalances ==
  \A p \in Policies, w \in Windows, d \in Dims :
    /\ window[p][w].reserved[d] =
         SumFunctionOnSet(AmountOf(p, d), InWindow(p, w, {"active"}))
    /\ window[p][w].settled[d] =
         SumFunctionOnSet(ActualOf(p, d), InWindow(p, w, {"settled", "estimated"}))

\* A policy that denies never reserves for more requests in a window than its
\* limit, although requests end, are lost and are reaped after the window has
\* passed.
RequestLimitHolds ==
  \A p \in Policies, w \in Windows :
    Overage[p] = "deny" /\ Limit[p]["requests"] # NoLimit
      => window[p][w].settled["requests"] + window[p][w].reserved["requests"]
           <= Limit[p]["requests"]

Overrun(g, p, d) ==
  LET r == reservation[g][p] IN
  IF r.actual[d] > r.amount[d] THEN r.actual[d] - r.amount[d] ELSE 0

OverrunOf(p, d) == [g \in Groups |-> Overrun(g, p, d)]

\* A policy that denies is exceeded in tokens or cost at most by what requests
\* used beyond their own estimate.
OverrunIsUsersOwn ==
  \A p \in Policies, w \in Windows, d \in {"tokens", "cost"} :
    Overage[p] = "deny" /\ Limit[p][d] # NoLimit
      => window[p][w].settled[d] + window[p][w].reserved[d]
           <= Limit[p][d]
              + SumFunctionOnSet(OverrunOf(p, d), InWindow(p, w, States))

\* No reservation stays active for ever: the session settles it or the reaper
\* estimates it, also when the process stopped or Reserve reported an error.
ReservationsClose ==
  \A g \in Groups, p \in Policies :
    reservation[g][p].state = "active" ~> reservation[g][p].state # "active"
=============================================================================
