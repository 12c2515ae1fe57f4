-------------------------- MODULE RequestPathProofs --------------------------
(***************************************************************************)
(* Proofs about the request path, for any number of requests, any sequence *)
(* of routing definitions and any number of disturbances.                  *)
(*                                                                         *)
(* Every action changes the handler, the outbox row and the reservation of *)
(* one request at most, so the inductive invariant is a predicate of these *)
(* three, HandlerOK, and a few facts about the shared state.               *)
(***************************************************************************)
EXTENDS RequestPath, FiniteSetTheorems, TLAPS

\* What the router answers under version v, and the maker of a first answer.
Planned(v, a) == Plan(Definitions[v], a.model, a.needs).candidates

Maker(v, a) == [version |-> v, provider |-> Planned(v, a)[1].provider]

PlansOf(v) == {Planned(v, a) : a \in Asks}

Plans == {<<>>} \cup UNION {PlansOf(v) : v \in DOMAIN Definitions}

ProvidersOf(plan) == {plan[i].provider : i \in DOMAIN plan}

Versions == {0} \cup DOMAIN Definitions

Makers == [version : Versions, provider : {""} \cup UNION {ProvidersOf(p) : p \in Plans}]

Queues == {<<>>} \cup UNION {[DOMAIN Definitions[v].providers -> Nat] : v \in DOMAIN Definitions}

Outcomes ==
  [status : {"", "success", "cache_hit", "failed", "canceled", "stream_completed",
             "stream_interrupted"},
   category : {"", "gateway", "client", "client_write", "upstream", "canceled"},
   code : {"", "written"}]

Handlers ==
  [step : Steps, ask : Asks, gone : BOOLEAN, snapshot : [version : Versions, queues : Queues],
   plan : Plans, cache : {"hit", "miss", "bypass"}, made : Makers, policed : BOOLEAN,
   attached : BOOLEAN, code : {"", "written"}, event : Outcomes, lost : BOOLEAN]

\* The routes a handler has pinned are those of its snapshot.
Pinned(h) ==
  h.step \in Admitted \cup {"reserve"} \/ (h.step = "finish" /\ h.cache = "hit") =>
    /\ h.snapshot.version \in DOMAIN Definitions
    /\ h.plan = Planned(h.snapshot.version, h.ask)

\* An answer that will be stored, or that came from the cache.
Made(h) ==
  h.step = "store" \/ (h.step = "finish" /\ h.cache = "hit") =>
    h.made = Maker(h.snapshot.version, h.ask)

\* What the handlers put into an outcome.
OutcomeOK(h) ==
  /\ h.event.status = "cache_hit" => h.cache = "hit" /\ h.ask.kind # "stream"
  /\ h.cache = "hit" => h.event.status \in {"cache_hit", "failed"}
  /\ h.event.status \in {"stream_completed", "stream_interrupted"} => h.ask.kind = "stream"
  /\ h.event.status \in FailedStatuses =>
       /\ h.event.category # ""
       /\ h.event.code = "" => h.ask.kind = "embedding" /\ h.event.category = "canceled"
  /\ h.event.category = "canceled" => h.event.status = "canceled"

\* A handler h with the state o of its outbox row and v of its reservation.
HandlerOK(h, o, v) ==
  /\ h \in Handlers
  /\ h.step = "idle" => h = New /\ o = "none"
  /\ h.step \notin {"idle", "done"} => o \in {"pending", "interrupted"}
  /\ h.step = "done" /\ o \in {"pending", "interrupted"} => h.lost
  /\ h.step \in {"limit", "plan", "reserve"} => ~h.policed
  /\ h.step = "lookup" => h.ask.kind # "stream"
  /\ h.step \in Admitted /\ h.policed => h.attached /\ v # "none"
  /\ h.step \notin {"finish", "emit"} => h.event = NoEvent /\ h.cache # "hit"
  /\ Pinned(h) /\ Made(h)
  /\ h.step \in {"finish", "emit"} => OutcomeOK(h)

OutboxStates == {"none", "pending", "ready", "interrupted"}
ReservationStates == {"none", "held", "ended"}
Answers == [version : DOMAIN Definitions, ask : Asks, made : Makers]

\* A snapshot of a version that can be published, whose queues were made by this process.
Records == [version : DOMAIN Definitions, queues : Queues]

SnapshotOK(s) ==
  /\ s \in Records /\ build(Definitions[s.version])
  /\ s.queues \in [DOMAIN Definitions[s.version].providers -> 1..builds]

\* A provider that is configured as in the current snapshot has the queue it has there.
Reuses(s) ==
  LET now == Definitions[s.version].providers
      old == Definitions[current.version].providers
  IN  \A p \in DOMAIN now \cap DOMAIN old : now[p].queue = old[p].queue => s.queues[p] = current.queues[p]

PublicationRecords ==
  [by : {"update", "watch"}, step : {"commit", "compare", "build", "replace", "view"},
   stale : BOOLEAN, snapshot : Records]

\* A call of UpdateRuntime or reloadRuntime is behind the active row except while it
\* holds its lock, and ahead of the current snapshot until another one is published.
PublicationOK(p) ==
  /\ p \in PublicationRecords /\ build(Definitions[p.snapshot.version])
  /\ p.step \in {"commit", "replace", "view"} => SnapshotOK(p.snapshot)
  /\ p.step = "commit" => p.snapshot.version > active
  /\ p.step # "commit" => p.snapshot.version <= active
  /\ p.step # "view" /\ p.stale = FALSE => current.version <= p.snapshot.version
  /\ p.step \in {"commit", "replace"} /\ p.stale = FALSE => Reuses(p.snapshot)

ManagerOK ==
  /\ builds \in Nat \ {0} /\ raced \in BOOLEAN
  /\ SnapshotOK(current) /\ current.version <= active
  /\ active \in DOMAIN Definitions /\ view \in DOMAIN Definitions /\ build(Definitions[active])
  /\ \A p \in publications : PublicationOK(p)
  /\ \A p \in publications, q \in publications : p.step = "commit" /\ q.step = "commit" => p = q

\* The state the requests share.
SharedOK ==
  /\ ManagerOK
  /\ window \in [Models -> 0..Limit] /\ admitted = window
  /\ store \subseteq Answers
  /\ \A e \in store : e.made = Maker(e.version, e.ask)
  /\ disturbances \in 0..MaxDisturbances
  /\ PolicyTypeOK

RequestsOK ==
  /\ req \in [Requests -> Handlers]
  /\ outbox \in [Requests -> OutboxStates]
  /\ reservation \in [Requests -> ReservationStates]
  /\ \A r \in Requests : HandlerOK(req[r], outbox[r], reservation[r])

PathInv == SharedOK /\ RequestsOK

-----------------------------------------------------------------------------
\* A request that keeps to HandlerOK keeps RequestsOK, if the others stand still.
LEMMA OneRequest ==
  ASSUME RequestsOK, NEW r \in Requests, NEW h \in Handlers, NEW o \in OutboxStates,
         NEW v \in ReservationStates,
         req' = [req EXCEPT ![r] = h], outbox' = [outbox EXCEPT ![r] = o],
         reservation' = [reservation EXCEPT ![r] = v], HandlerOK(h, o, v)
  PROVE  RequestsOK'
<1>1. req' \in [Requests -> Handlers] /\ outbox' \in [Requests -> OutboxStates]
      /\ reservation' \in [Requests -> ReservationStates]
  BY DEF RequestsOK
<1>2. ASSUME NEW q \in Requests PROVE HandlerOK(req'[q], outbox'[q], reservation'[q])
  <2>1. CASE q = r
    BY <2>1 DEF RequestsOK
  <2>2. CASE q # r
    <3>1. req'[q] = req[q] /\ outbox'[q] = outbox[q] /\ reservation'[q] = reservation[q]
      BY <2>2 DEF RequestsOK
    <3> QED
      BY <3>1 DEF RequestsOK
  <2> QED
    BY <2>1, <2>2
<1> QED
  BY <1>1, <1>2 DEF RequestsOK

\* The same when only the handler of the request changes.
LEMMA OneHandler ==
  ASSUME RequestsOK, NEW r \in Requests, NEW h, req' = [req EXCEPT ![r] = h],
         HandlerOK(h, outbox[r], reservation[r]), UNCHANGED <<outbox, reservation>>
  PROVE  RequestsOK'
<1>1. h \in Handlers
  BY DEF HandlerOK
<1>2. outbox[r] \in OutboxStates /\ reservation[r] \in ReservationStates
  BY DEF RequestsOK
<1>3. outbox' = [outbox EXCEPT ![r] = outbox[r]] /\ reservation' = [reservation EXCEPT ![r] = reservation[r]]
  BY DEF RequestsOK
<1> QED
  BY <1>1, <1>2, <1>3, OneRequest, Zenon

-----------------------------------------------------------------------------
(* The ways a handler moves *)

\* A session starts without an outcome.
LEMMA NoEventFields ==
  NoEvent \in Outcomes /\ NoEvent.status = "" /\ NoEvent.category = "" /\ NoEvent.code = ""
BY DEF NoEvent, Outcomes

\* A request that has not arrived has nothing pinned, held or decided.
LEMMA NewFields ==
  /\ New.step = "idle" /\ New.ask \in Asks /\ New.gone = FALSE /\ New.cache = "bypass"
  /\ New.policed = FALSE /\ New.attached = FALSE /\ New.lost = FALSE /\ New.event = NoEvent
  /\ New.snapshot = [version |-> 0, queues |-> <<>>] /\ New.plan = <<>> /\ New.made = Nobody
  /\ New.snapshot.version = 0 /\ New.code = ""
<1>1. (CHOOSE a \in Asks : TRUE) \in Asks
  BY RequestPathAssumption
<1> QED
  BY <1>1 DEF New

\* The handler returns without an outcome.
LEMMA ReturnOK ==
  ASSUME NEW h, NEW o, NEW v, HandlerOK(h, o, v), NEW code \in {"", "written"},
         h.step \notin {"idle", "done", "finish", "emit"}
  PROVE  /\ HandlerOK([h EXCEPT !.step = "finish", !.code = code], o, v)
         /\ [h EXCEPT !.step = "finish", !.code = code].snapshot = h.snapshot
<1> DEFINE n == [h EXCEPT !.step = "finish", !.code = code]
<1>1. h \in Handlers
  BY Zenon DEF HandlerOK
<1>2. n \in Handlers /\ n.step = "finish" /\ n.event = h.event /\ n.cache = h.cache
      /\ n.snapshot = h.snapshot
  BY <1>1, Zenon DEF Handlers, Steps
<1>3. h.event = NoEvent /\ h.cache # "hit" /\ o \in {"pending", "interrupted"}
  BY Zenon DEF HandlerOK
<1> HIDE DEF n
<1>4. OutcomeOK(n)
  <2>1. n.event = NoEvent
    BY <1>2, <1>3, Zenon
  <2> QED
    BY <2>1, <1>2, <1>3, NoEventFields, Zenon DEF OutcomeOK, FailedStatuses
<1>5. HandlerOK(n, o, v)
  BY <1>2, <1>3, <1>4, Zenon DEF HandlerOK, Pinned, Made, Admitted, Calling
<1> QED
  BY <1>2, <1>5, Zenon DEF n

\* What an outcome other than a cached answer looks like.
FinalOutcome(e, a) ==
  /\ e \in Outcomes /\ e.status # "cache_hit"
  /\ e.status \in {"stream_completed", "stream_interrupted"} => a.kind = "stream"
  /\ e.status \in FailedStatuses =>
       e.category # "" /\ (e.code = "" => a.kind = "embedding" /\ e.category = "canceled")
  /\ e.category = "canceled" => e.status = "canceled"

\* The handler n has an outcome other than a cached answer.
LEMMA FinalOK ==
  ASSUME NEW n \in Handlers, NEW o, NEW v, n.step = "finish", n.cache # "hit", o \in {"pending", "interrupted"},
         FinalOutcome(n.event, n.ask)
  PROVE  HandlerOK(n, o, v)
<1>1. OutcomeOK(n)
  BY Zenon DEF OutcomeOK, FinalOutcome
<1> QED
  BY <1>1 DEF HandlerOK, Pinned, Made, Admitted, Calling

\* What the invariant says about one request.
LEMMA HandlerOf ==
  ASSUME PathInv, NEW r \in Requests
  PROVE  HandlerOK(req[r], outbox[r], reservation[r]) /\ req[r] \in Handlers
BY DEF PathInv, RequestsOK

\* The clauses of HandlerOK that a step between admission and return must keep.
LEMMA AdvanceOK ==
  ASSUME NEW h, NEW o, NEW v, HandlerOK(h, o, v), h.step \in Admitted,
         NEW s \in {"queue", "execute"}, NEW c \in {"miss", "bypass"}
  PROVE  /\ HandlerOK([h EXCEPT !.step = s], o, v)
         /\ [h EXCEPT !.step = s].snapshot = h.snapshot
         /\ HandlerOK([h EXCEPT !.step = s, !.cache = c], o, v)
         /\ [h EXCEPT !.step = s, !.cache = c].snapshot = h.snapshot
<1> DEFINE n == [h EXCEPT !.step = s]
           m == [h EXCEPT !.step = s, !.cache = c]
<1>1. h \in Handlers /\ s \in Steps
  BY DEF HandlerOK, Admitted, Calling, Steps
<1>2. /\ n \in Handlers /\ n.step = s /\ n.event = h.event /\ n.cache = h.cache
      /\ n.snapshot = h.snapshot /\ n.plan = h.plan /\ n.ask = h.ask
      /\ n.policed = h.policed /\ n.attached = h.attached
  BY <1>1, Zenon DEF Handlers
<1>3. /\ m \in Handlers /\ m.step = s /\ m.event = h.event /\ m.cache = c
      /\ m.snapshot = h.snapshot /\ m.plan = h.plan /\ m.ask = h.ask
      /\ m.policed = h.policed /\ m.attached = h.attached
  BY <1>1, Zenon DEF Handlers
<1>4. /\ o \in {"pending", "interrupted"} /\ h.event = NoEvent /\ h.cache # "hit"
      /\ h.policed => h.attached /\ v # "none"
      /\ h.snapshot.version \in DOMAIN Definitions
      /\ h.plan = Planned(h.snapshot.version, h.ask)
  BY DEF HandlerOK, Admitted, Calling, Pinned
<1> HIDE DEF n, m
<1>5. HandlerOK(n, o, v)
  BY <1>2, <1>4 DEF HandlerOK, Pinned, Made, Admitted, Calling
<1>6. HandlerOK(m, o, v)
  BY <1>3, <1>4 DEF HandlerOK, Pinned, Made, Admitted, Calling
<1> QED
  BY <1>2, <1>3, <1>5, <1>6 DEF n, m

-----------------------------------------------------------------------------
(* The actions of a request *)

\* A request that fails the checks before the session leaves nothing behind.
LEMMA RejectOK ==
  ASSUME PathInv, NEW r \in Requests, Reject(r)
  PROVE  RequestsOK'
<1> DEFINE h == req[r]
           n == [h EXCEPT !.step = "done"]
<1>1. h.step = "idle" /\ req' = [req EXCEPT ![r] = n] /\ UNCHANGED <<outbox, reservation>>
  BY DEF Reject, Arrives, At, GoTo, Set
<1>2. HandlerOK(h, outbox[r], reservation[r]) /\ h \in Handlers
  BY HandlerOf
<1>3. n \in Handlers /\ n.step = "done" /\ n.event = h.event /\ n.cache = h.cache
      /\ n.snapshot = h.snapshot
  BY <1>2, Zenon DEF Handlers, Steps
<1> HIDE DEF n, h
<1>4. HandlerOK(n, outbox[r], reservation[r])
  BY <1>1, <1>2, <1>3 DEF HandlerOK, Pinned, Made, Admitted, Calling
<1> QED
  BY <1>1, <1>2, <1>3, <1>4, OneHandler, Zenon DEF PathInv

\* newUsageSession: no handler goes on without its pending row.
LEMMA NewUsageSessionOK ==
  ASSUME PathInv, NEW r \in Requests, NEW ask \in Asks, newUsageSession(r, ask)
  PROVE  RequestsOK'
<1> DEFINE h == req[r]
           n == [h EXCEPT !.step = "limit", !.ask = ask]
           m == [h EXCEPT !.step = "done", !.ask = ask, !.lost = TRUE]
           o == [outbox EXCEPT ![r] = "pending"]
<1>1. /\ h.step = "idle" /\ UNCHANGED reservation
      /\ \/ outbox' = o /\ req' = [req EXCEPT ![r] = n]
         \/ outbox' \in {outbox, o} /\ req' = [req EXCEPT ![r] = m]
  BY DEF newUsageSession, Arrives, At, Set
<1>2. HandlerOK(h, outbox[r], reservation[r]) /\ h \in Handlers
  BY HandlerOf
<1>3. h = New /\ outbox[r] = "none"
  BY <1>1, <1>2 DEF HandlerOK
<1>4. ~h.policed
  BY <1>3, NewFields, Zenon
<1>5. n \in Handlers /\ n.step = "limit" /\ n.event = h.event /\ n.cache = h.cache
      /\ n.snapshot = h.snapshot /\ n.policed = h.policed
  BY <1>2, Zenon DEF Handlers, Steps
<1>6. m \in Handlers /\ m.step = "done" /\ m.event = h.event /\ m.cache = h.cache
      /\ m.snapshot = h.snapshot /\ m.lost
  BY <1>2, Zenon DEF Handlers, Steps
<1>7. outbox \in [Requests -> OutboxStates] /\ reservation[r] \in ReservationStates
      /\ reservation \in [Requests -> ReservationStates]
  BY DEF PathInv, RequestsOK
<1>8. reservation' = [reservation EXCEPT ![r] = reservation[r]]
      /\ outbox = [outbox EXCEPT ![r] = outbox[r]]
  BY <1>1, <1>7
<1> HIDE DEF n, m, h
<1>9. HandlerOK(n, "pending", reservation[r])
  BY <1>1, <1>2, <1>4, <1>5 DEF HandlerOK, Pinned, Made, Admitted, Calling
<1>10. HandlerOK(m, "pending", reservation[r]) /\ HandlerOK(m, "none", reservation[r])
  BY <1>1, <1>2, <1>6 DEF HandlerOK, Pinned, Made, Admitted, Calling
<1>11. /\ "pending" \in OutboxStates /\ "none" \in OutboxStates
       /\ RequestsOK
  BY <1>1, <1>2, <1>5, <1>6 DEF OutboxStates, PathInv
<1>12. CASE outbox' = o /\ req' = [req EXCEPT ![r] = n]
  BY <1>12, <1>2, <1>5, <1>7, <1>8, <1>9, <1>11, OneRequest, Zenon
<1>13. CASE outbox' = o /\ req' = [req EXCEPT ![r] = m]
  BY <1>13, <1>2, <1>6, <1>7, <1>8, <1>10, <1>11, OneRequest, Zenon
<1>14. CASE outbox' = outbox /\ req' = [req EXCEPT ![r] = m]
  BY <1>14, <1>2, <1>3, <1>6, <1>7, <1>8, <1>10, <1>11, OneRequest, Zenon
<1> QED
  BY <1>1, <1>12, <1>13, <1>14
\* The same for a request, when nothing else of it changes.
LEMMA ReturnStep ==
  ASSUME PathInv, NEW r \in Requests, NEW code \in {"", "written"}, Return(r, code),
         req[r].step \notin {"idle", "done", "finish", "emit"},
         UNCHANGED <<outbox, reservation>>
  PROVE  RequestsOK'
<1> DEFINE n == [req[r] EXCEPT !.step = "finish", !.code = code]
<1>1. /\ HandlerOK(req[r], outbox[r], reservation[r])
  BY HandlerOf, Zenon
<1>2. HandlerOK(n, outbox[r], reservation[r]) /\ n.snapshot = req[r].snapshot
  BY <1>1, ReturnOK, Zenon
<1>3. req' = [req EXCEPT ![r] = n]
  BY Zenon DEF Return, Set
<1> HIDE DEF n
<1> QED
  BY <1>1, <1>2, <1>3, OneHandler, Zenon DEF PathInv

\* The rate limiter lets the handler go on or makes it return.
LEMMA AllowOK ==
  ASSUME PathInv, NEW r \in Requests, Allow(r)
  PROVE  RequestsOK'
<1> DEFINE h == req[r]
           n == [h EXCEPT !.step = "plan"]
<1>1. /\ h.step = "limit" /\ UNCHANGED <<outbox, reservation>>
      /\ (\E code \in {"", "written"} : Return(r, code)) \/ req' = [req EXCEPT ![r] = n]
  BY Zenon DEF Allow, At, GoTo, Set
<1>2. HandlerOK(h, outbox[r], reservation[r]) /\ h \in Handlers
  BY HandlerOf
<1>3. CASE \E code \in {"", "written"} : Return(r, code)
  BY <1>1, <1>3, ReturnStep, Zenon
<1>4. CASE req' = [req EXCEPT ![r] = n]
  <2>1. n \in Handlers /\ n.step = "plan" /\ n.event = h.event /\ n.cache = h.cache
        /\ n.snapshot = h.snapshot /\ n.policed = h.policed
    BY <1>2, Zenon DEF Handlers, Steps
  <2> HIDE DEF n, h
  <2>2. HandlerOK(n, outbox[r], reservation[r])
    BY <1>1, <1>2, <2>1, Zenon DEF HandlerOK, Pinned, Made, Admitted, Calling
  <2> QED
    BY <1>1, <1>2, <1>4, <2>1, <2>2, OneHandler, Zenon DEF PathInv
<1> QED
  BY <1>1, <1>3, <1>4, Zenon

\* The plan comes from the snapshot that the handler pins with it.
LEMMA PlanRouteOK ==
  ASSUME PathInv, NEW r \in Requests, PlanRoute(r)
  PROVE  RequestsOK'
<1> DEFINE h == req[r]
           plan == Planned(current.version, h.ask)
           n == [h EXCEPT !.step = "reserve", !.snapshot = current, !.plan = plan]
<1>1. /\ h.step = "plan" /\ UNCHANGED <<outbox, reservation>>
      /\ Return(r, "written") \/ req' = [req EXCEPT ![r] = n]
  BY Zenon DEF PlanRoute, At, Set, Planned
<1>2. HandlerOK(h, outbox[r], reservation[r]) /\ h \in Handlers
  BY HandlerOf
<1>3. CASE Return(r, "written")
  BY <1>1, <1>3, ReturnStep, Zenon
<1>4. CASE req' = [req EXCEPT ![r] = n]
  <2>1. current.version \in DOMAIN Definitions /\ current \in [version : Versions, queues : Queues]
    BY DEF PathInv, SharedOK, ManagerOK, SnapshotOK, Records, Versions
  <2>2. plan \in Plans
    <3>1. h.ask \in Asks
      BY <1>2, Zenon DEF Handlers
    <3>2. plan \in PlansOf(current.version)
      BY <3>1 DEF PlansOf
    <3>3. PlansOf(current.version) \in {PlansOf(v) : v \in DOMAIN Definitions}
      BY <2>1
    <3> QED
      BY <3>2, <3>3 DEF Plans
  <2> HIDE DEF plan
  <2>3. n \in Handlers /\ n.step = "reserve" /\ n.event = h.event /\ n.cache = h.cache
        /\ n.snapshot = current /\ n.policed = h.policed /\ n.plan = plan /\ n.ask = h.ask
    BY <1>2, <2>1, <2>2, Zenon DEF Handlers, Steps
  <2>4. n.plan = Planned(n.snapshot.version, n.ask)
    BY <2>3 DEF plan
  <2> HIDE DEF n, h
  <2>5. HandlerOK(n, outbox[r], reservation[r])
    BY <1>1, <1>2, <2>1, <2>3, <2>4 DEF HandlerOK, Pinned, Made, Admitted, Calling
  <2> QED
    BY <1>1, <1>2, <1>4, <2>5, OneHandler, Zenon DEF PathInv
<1> QED
  BY <1>1, <1>3, <1>4

\* reserveQuota: the handler goes on only with the reservation its policy asks for.
LEMMA ReserveQuotaOK ==
  ASSUME PathInv, NEW r \in Requests, reserveQuota(r)
  PROVE  RequestsOK'
<1> DEFINE h == req[r]
           after == AfterReserve(r)
           n == [h EXCEPT !.step = after]
           m == [h EXCEPT !.step = after, !.attached = TRUE, !.policed = Enabled(row)]
           kept == IF Enabled(row) THEN "held" ELSE "none"
           d == [h EXCEPT !.step = "finish", !.code = "written"]
<1>1. /\ h.step = "reserve" /\ UNCHANGED outbox
      /\ \/ req' = [req EXCEPT ![r] = n] /\ reservation' = reservation
         \/ req' = [req EXCEPT ![r] = m] /\ reservation' = [reservation EXCEPT ![r] = kept]
         \/ Return(r, "written") /\ reservation' = reservation
         \/ req' = [req EXCEPT ![r] = d] /\ reservation' = [reservation EXCEPT ![r] = "held"]
  BY DEF reserveQuota, At, Set, GoTo, Return
<1>2. HandlerOK(h, outbox[r], reservation[r]) /\ h \in Handlers
  BY HandlerOf
<1>3. after \in {"queue", "lookup"} /\ (after = "lookup" => h.ask.kind # "stream") /\ kept \in {"none", "held"} /\ (Enabled(row) => kept = "held")
      /\ Enabled(row) \in BOOLEAN
  BY DEF AfterReserve, Enabled
<1>4. outbox' = [outbox EXCEPT ![r] = outbox[r]] /\ outbox[r] \in OutboxStates
      /\ reservation[r] \in ReservationStates
      /\ reservation = [reservation EXCEPT ![r] = reservation[r]]
  BY <1>1 DEF PathInv, RequestsOK
<1> HIDE DEF after, kept
<1>5. n \in Handlers /\ n.step = after /\ n.event = h.event /\ n.cache = h.cache
      /\ n.snapshot = h.snapshot /\ n.policed = h.policed /\ n.plan = h.plan /\ n.ask = h.ask
  BY <1>2, <1>3, Zenon DEF Handlers, Steps
<1>6. m \in Handlers /\ m.step = after /\ m.event = h.event /\ m.cache = h.cache
      /\ m.snapshot = h.snapshot /\ m.policed = Enabled(row) /\ m.attached /\ m.plan = h.plan
      /\ m.ask = h.ask
  BY <1>2, <1>3, Zenon DEF Handlers, Steps
<1>7. d \in Handlers /\ d.step = "finish" /\ d.snapshot = h.snapshot
  BY <1>2, Zenon DEF Handlers, Steps
<1>8. HandlerOK(d, outbox[r], reservation[r])
  BY <1>1, <1>2, ReturnOK, Zenon
<1> HIDE DEF n, m, d, h
<1>9. HandlerOK(n, outbox[r], reservation[r])
  BY <1>1, <1>2, <1>3, <1>5 DEF HandlerOK, Pinned, Made, Admitted, Calling
<1>10. HandlerOK(m, outbox[r], kept)
  BY <1>1, <1>2, <1>3, <1>6 DEF HandlerOK, Pinned, Made, Admitted, Calling
<1>11. HandlerOK(d, outbox[r], "held")
  BY <1>7, <1>8 DEF HandlerOK, Admitted, Calling
<1>12. /\ kept \in ReservationStates /\ "held" \in ReservationStates
       /\ RequestsOK
  BY <1>1, <1>2, <1>3, <1>5, <1>6, <1>7 DEF ReservationStates, PathInv
<1>13. CASE req' = [req EXCEPT ![r] = n] /\ reservation' = reservation
  BY <1>13, <1>1, <1>2, <1>9, <1>12, OneHandler, Zenon
<1>14. CASE req' = [req EXCEPT ![r] = m] /\ reservation' = [reservation EXCEPT ![r] = kept]
  BY <1>14, <1>2, <1>4, <1>6, <1>10, <1>12, OneRequest, Zenon
<1>15. CASE Return(r, "written") /\ reservation' = reservation
  BY <1>15, <1>1, ReturnStep, Zenon DEF h
<1>16. CASE req' = [req EXCEPT ![r] = d] /\ reservation' = [reservation EXCEPT ![r] = "held"]
  BY <1>16, <1>2, <1>4, <1>7, <1>11, <1>12, OneRequest, Zenon
<1> QED
  BY <1>1, <1>13, <1>14, <1>15, <1>16

\* A step that ends a handler with an outcome other than a cached answer.
LEMMA FinalStep ==
  ASSUME PathInv, NEW r \in Requests, NEW n \in Handlers, req' = [req EXCEPT ![r] = n],
         req[r].step \notin {"idle", "done"}, n.step = "finish", n.cache # "hit",
         n.snapshot = req[r].snapshot, FinalOutcome(n.event, n.ask),
         UNCHANGED <<outbox, reservation>>
  PROVE  RequestsOK'
<1>1. /\ HandlerOK(req[r], outbox[r], reservation[r])
  BY HandlerOf
<1>2. outbox[r] \in {"pending", "interrupted"}
  BY <1>1 DEF HandlerOK
<1>3. HandlerOK(n, outbox[r], reservation[r])
  BY <1>2, FinalOK
<1> QED
  BY <1>1, <1>3, OneHandler, Zenon DEF PathInv

\* usageSession.finalize is such a step.
LEMMA FinalizeStep ==
  ASSUME PathInv, NEW r \in Requests, NEW e, FinalOutcome(e, req[r].ask),
         req' = [req EXCEPT ![r] = [req[r] EXCEPT !.step = "finish", !.event = e]],
         req[r].step \notin {"idle", "done", "finish", "emit"},
         UNCHANGED <<outbox, reservation>>
  PROVE  RequestsOK'
<1> DEFINE n == [req[r] EXCEPT !.step = "finish", !.event = e]
<1>1. req[r] \in Handlers /\ req[r].cache # "hit" /\ e \in Outcomes
  BY HandlerOf, Zenon DEF HandlerOK, FinalOutcome
<1>2. n \in Handlers /\ n.step = "finish" /\ n.event = e /\ n.cache = req[r].cache
      /\ n.snapshot = req[r].snapshot /\ n.ask = req[r].ask
  BY <1>1, Zenon DEF Handlers, Steps
<1> HIDE DEF n
<1>3. req' = [req EXCEPT ![r] = n]
  BY DEF n
<1> QED
  BY <1>1, <1>2, <1>3, FinalStep, Zenon

\* encodeProtocolResponse succeeds, or fails for a chat client.
LEMMA EncodedIs ==
  ASSUME NEW r, NEW status \in {"success", "cache_hit"}, NEW e \in Encoded(r, status)
  PROVE  /\ e \in Outcomes /\ e.category # "canceled" /\ e.status \in {status, "failed"}
         /\ e.status = "failed" => e.category = "gateway" /\ e.code = "written"
                                 /\ req[r].ask.kind = "chat"
<1>1. CASE e = Outcome(status, "", "")
  BY <1>1, Zenon DEF Outcome, Outcomes
<1>2. CASE req[r].ask.kind = "chat" /\ e = Outcome("failed", "gateway", "written")
  BY <1>2 DEF Outcome, Outcomes
<1> QED
  BY <1>1, <1>2, Zenon DEF Encoded

\* The outcomes of an answer that came from the provider.
LEMMA EncodedFinal ==
  ASSUME NEW r, NEW e \in Encoded(r, "success"), NEW a
  PROVE  FinalOutcome(e, a)
BY EncodedIs, Zenon DEF FinalOutcome, FailedStatuses

\* A hit was made by the first candidate of the plan the handler has pinned.
LEMMA LookupOK ==
  ASSUME PathInv, NEW r \in Requests, Lookup(r)
  PROVE  RequestsOK'
<1> DEFINE h == req[r]
           n == [h EXCEPT !.step = "queue"]
           m == [h EXCEPT !.step = "queue", !.cache = "miss"]
           hit(a, e) == [h EXCEPT !.step = "finish", !.cache = "hit", !.made = a.made, !.event = e]
<1>1. /\ h.step = "lookup" /\ UNCHANGED <<outbox, reservation>>
      /\ \/ Return(r, "") \/ req' = [req EXCEPT ![r] = n] \/ req' = [req EXCEPT ![r] = m]
         \/ \E a \in Cached(r), e \in Encoded(r, "cache_hit") : req' = [req EXCEPT ![r] = hit(a, e)]
  BY Zenon DEF Lookup, At, Set, GoTo
<1>2. HandlerOK(h, outbox[r], reservation[r]) /\ h \in Handlers
  BY HandlerOf
<1>3. /\ HandlerOK(n, outbox[r], reservation[r]) /\ n.snapshot = h.snapshot
      /\ HandlerOK(m, outbox[r], reservation[r]) /\ m.snapshot = h.snapshot
  BY <1>1, <1>2, AdvanceOK, Zenon DEF Admitted
<1>4. CASE Return(r, "")
  BY <1>1, <1>4, ReturnStep, Zenon
<1>5. CASE req' = [req EXCEPT ![r] = n]
  <2> HIDE DEF n, h
  <2> QED
    BY <1>1, <1>2, <1>3, <1>5, OneHandler, Zenon DEF PathInv
<1>6. CASE req' = [req EXCEPT ![r] = m]
  <2> HIDE DEF m, h
  <2> QED
    BY <1>1, <1>2, <1>3, <1>6, OneHandler, Zenon DEF PathInv
<1>7. ASSUME NEW a \in Cached(r), NEW e \in Encoded(r, "cache_hit"), req' = [req EXCEPT ![r] = hit(a, e)]
      PROVE  RequestsOK'
  <2> DEFINE c == hit(a, e)
  <2>1. /\ a \in Answers /\ a.made = Maker(a.version, a.ask)
        /\ a.version = h.snapshot.version /\ a.ask = h.ask
    BY DEF Cached, Key, routeVersionFromContext, PathInv, SharedOK
  <2>2. /\ e \in Outcomes /\ e.category # "canceled" /\ e.status \in {"cache_hit", "failed"}
        /\ e.status = "failed" => e.category = "gateway" /\ e.code = "written"
    BY EncodedIs
  <2>3. a.made \in Makers
    BY <2>1 DEF Answers
  <2>4. c \in Handlers /\ c.step = "finish" /\ c.cache = "hit" /\ c.made = a.made /\ c.event = e
        /\ c.snapshot = h.snapshot /\ c.ask = h.ask /\ c.plan = h.plan
    BY <1>2, <2>2, <2>3, Zenon DEF Handlers, Steps
  <2>5. /\ h.snapshot.version \in DOMAIN Definitions /\ h.ask.kind # "stream"
        /\ h.plan = Planned(h.snapshot.version, h.ask) /\ outbox[r] \in {"pending", "interrupted"}
    BY <1>1, <1>2, Zenon DEF HandlerOK, Pinned, Admitted
  <2>6. req' = [req EXCEPT ![r] = c]
    BY <1>7
  <2> HIDE DEF c, h
  <2>7. OutcomeOK(c)
    BY <2>2, <2>4, <2>5, Zenon DEF OutcomeOK, FailedStatuses
  <2>8. HandlerOK(c, outbox[r], reservation[r])
    BY <2>1, <2>4, <2>5, <2>7 DEF HandlerOK, Pinned, Made, Admitted, Calling
  <2> QED
    BY <1>1, <1>2, <2>6, <2>8, OneHandler, Zenon DEF PathInv
<1> QED
  BY <1>1, <1>4, <1>5, <1>6, <1>7, Zenon

\* A queue slot changes nothing but the step.
LEMMA AcquireOK ==
  ASSUME PathInv, NEW r \in Requests, Acquire(r)
  PROVE  RequestsOK'
<1> DEFINE n == [req[r] EXCEPT !.step = "execute"]
<1>1. /\ req[r].step = "queue" /\ UNCHANGED <<outbox, reservation>>
      /\ req' = [req EXCEPT ![r] = n]
  BY DEF Acquire, At, Set, GoTo
<1>2. HandlerOK(req[r], outbox[r], reservation[r])
  BY HandlerOf
<1>3. HandlerOK(n, outbox[r], reservation[r]) /\ n.snapshot = req[r].snapshot
  BY <1>1, <1>2, AdvanceOK, Zenon DEF Admitted
<1> HIDE DEF n
<1> QED
  BY <1>1, <1>2, <1>3, OneHandler, Zenon DEF PathInv

\* The provider of a candidate is one that some plan names.
LEMMA MadeTyped ==
  ASSUME NEW h \in Handlers, NEW i \in DOMAIN h.plan
  PROVE  [version |-> h.snapshot.version, provider |-> h.plan[i].provider] \in Makers
<1>1. h.plan \in Plans /\ h.snapshot.version \in Versions
  BY Zenon DEF Handlers
<1>2. h.plan[i].provider \in ProvidersOf(h.plan)
  BY DEF ProvidersOf
<1>3. ProvidersOf(h.plan) \in {ProvidersOf(p) : p \in Plans}
  BY <1>1
<1>4. h.plan[i].provider \in UNION {ProvidersOf(p) : p \in Plans}
  BY <1>2, <1>3
<1> QED
  BY <1>1, <1>4, Zenon DEF Makers

\* The call answers: only an answer of the first candidate will be stored.
LEMMA ExecuteOK ==
  ASSUME PathInv, NEW r \in Requests, Execute(r)
  PROVE  RequestsOK'
<1> DEFINE h == req[r]
           made(i) == [version |-> h.snapshot.version, provider |-> h.plan[i].provider]
           go(i, s) == [h EXCEPT !.step = s, !.made = made(i)]
           end(i, e) == [h EXCEPT !.step = "finish", !.made = made(i), !.event = e]
<1>1. /\ h.step = "execute" /\ UNCHANGED <<outbox, reservation>>
      /\ \E i \in DOMAIN h.plan :
           \/ \E s \in {"store", "streaming"} :
                (s = "store" => i = 1) /\ req' = [req EXCEPT ![r] = go(i, s)]
           \/ \E e \in Encoded(r, "success") : req' = [req EXCEPT ![r] = end(i, e)]
  BY Zenon DEF Execute, At, Set, Stores
<1>2. HandlerOK(h, outbox[r], reservation[r]) /\ h \in Handlers
  BY HandlerOf
<1>3. /\ h.snapshot.version \in DOMAIN Definitions /\ h.plan = Planned(h.snapshot.version, h.ask)
      /\ outbox[r] \in {"pending", "interrupted"} /\ h.event = NoEvent /\ h.cache # "hit"
      /\ h.policed => h.attached /\ reservation[r] # "none"
  BY <1>1, <1>2, Zenon DEF HandlerOK, Pinned, Admitted, Calling
<1>4. PICK i \in DOMAIN h.plan :
           \/ \E s \in {"store", "streaming"} :
                (s = "store" => i = 1) /\ req' = [req EXCEPT ![r] = go(i, s)]
           \/ \E e \in Encoded(r, "success") : req' = [req EXCEPT ![r] = end(i, e)]
  BY <1>1, Zenon
<1>5. made(i) \in Makers
  BY <1>2, MadeTyped
<1>6. i = 1 => made(i) = Maker(h.snapshot.version, h.ask)
  BY <1>3 DEF Maker
<1>7. ASSUME NEW s \in {"store", "streaming"}, s = "store" => i = 1,
             req' = [req EXCEPT ![r] = go(i, s)]
      PROVE  RequestsOK'
  <2> DEFINE k == made(i)
             n == [h EXCEPT !.step = s, !.made = k]
  <2>1. req' = [req EXCEPT ![r] = n] /\ k \in Makers
        /\ (s = "store" => k = Maker(h.snapshot.version, h.ask))
    BY <1>5, <1>6, <1>7
  <2> HIDE DEF k
  <2>2. n \in Handlers /\ n.step = s /\ n.made = k /\ n.snapshot = h.snapshot /\ n.ask = h.ask
        /\ n.plan = h.plan /\ n.event = h.event /\ n.cache = h.cache /\ n.policed = h.policed
        /\ n.attached = h.attached
    BY <1>2, <2>1, Zenon DEF Handlers, Steps
  <2> HIDE DEF n, h
  <2>3. HandlerOK(n, outbox[r], reservation[r])
    BY <1>3, <2>1, <2>2 DEF HandlerOK, Pinned, Made, Admitted, Calling
  <2> QED
    BY <1>1, <1>2, <2>1, <2>3, OneHandler, Zenon DEF PathInv
<1>8. ASSUME NEW e \in Encoded(r, "success"), req' = [req EXCEPT ![r] = end(i, e)]
      PROVE  RequestsOK'
  <2> DEFINE k == made(i)
             n == [h EXCEPT !.step = "finish", !.made = k, !.event = e]
  <2>1. req' = [req EXCEPT ![r] = n] /\ k \in Makers /\ e \in Outcomes
    BY <1>5, <1>8, EncodedIs
  <2> HIDE DEF k
  <2>2. n \in Handlers /\ n.step = "finish" /\ n.event = e /\ n.cache = h.cache
        /\ n.snapshot = h.snapshot
    BY <1>2, <2>1, Zenon DEF Handlers, Steps
  <2>3. FinalOutcome(e, n.ask)
    BY EncodedFinal
  <2> HIDE DEF n
  <2> QED
    BY <1>1, <1>3, <2>1, <2>2, <2>3, FinalStep, Zenon
<1> QED
  BY <1>4, <1>7, <1>8, Zenon

\* The handler returns after it stored the answer, or could not.
LEMMA StoreOK ==
  ASSUME PathInv, NEW r \in Requests, Store(r)
  PROVE  RequestsOK'
<1> DEFINE h == req[r]
           ok == Outcome("success", "", "")
           end(e) == [h EXCEPT !.step = "finish", !.event = e]
           n == [h EXCEPT !.step = "finish", !.cache = "bypass", !.event = ok]
<1>1. /\ h.step = "store" /\ UNCHANGED <<outbox, reservation>>
      /\ \/ Return(r, "")
         \/ \E e \in Encoded(r, "success") : req' = [req EXCEPT ![r] = end(e)]
         \/ req' = [req EXCEPT ![r] = n]
  BY Zenon DEF Store, At, Set, Finalize, Encoded
<1>2. h \in Handlers
  BY HandlerOf
<1>3. CASE Return(r, "")
  BY <1>1, <1>3, ReturnStep, Zenon
<1>4. ASSUME NEW e \in Encoded(r, "success"), req' = [req EXCEPT ![r] = end(e)]
      PROVE  RequestsOK'
  BY <1>1, <1>4, EncodedFinal, FinalizeStep, Zenon
<1>5. CASE req' = [req EXCEPT ![r] = n]
  <2>1. ok \in Encoded(r, "success")
    BY DEF Encoded
  <2>2. ok \in Outcomes /\ FinalOutcome(ok, h.ask)
    BY <2>1, EncodedIs, EncodedFinal, Zenon
  <2> HIDE DEF ok
  <2>3. n \in Handlers /\ n.step = "finish" /\ n.event = ok /\ n.cache = "bypass"
        /\ n.snapshot = h.snapshot /\ n.ask = h.ask
    BY <1>2, <2>2, Zenon DEF Handlers, Steps
  <2> HIDE DEF n
  <2> QED
    BY <1>1, <1>5, <2>2, <2>3, FinalStep, Zenon
<1> QED
  BY <1>1, <1>3, <1>4, <1>5, Zenon

\* The call fails: the outcome has a category, and a code but for an embedding.
LEMMA ExecuteFailsOK ==
  ASSUME PathInv, NEW r \in Requests, NEW category \in {"canceled", "upstream"},
         ExecuteFails(r, category)
  PROVE  RequestsOK'
<1> DEFINE status == IF category = "canceled" THEN "canceled" ELSE "failed"
           silent == category = "canceled" /\ req[r].gone
           code == IF silent /\ req[r].ask.kind = "embedding" THEN "" ELSE "written"
           e == Outcome(status, category, code)
<1>1. /\ req[r].step \in {"queue", "execute"} /\ UNCHANGED <<outbox, reservation>>
      /\ req' = [req EXCEPT ![r] = [req[r] EXCEPT !.step = "finish", !.event = e]]
  BY Zenon DEF ExecuteFails, Finalize, Set
<1>2. code \in {"", "written"}
      /\ (code = "" => category = "canceled" /\ req[r].ask.kind = "embedding")
  OBVIOUS
<1> HIDE DEF code
<1>3. FinalOutcome(e, req[r].ask)
  BY <1>2, Zenon DEF FinalOutcome, Outcome, Outcomes, FailedStatuses
<1> HIDE DEF e
<1> QED
  BY <1>1, <1>3, FinalizeStep, Zenon

\* However a stream ends, its outcome is one of a stream.
LEMMA StreamOK ==
  ASSUME PathInv, NEW r \in Requests, Stream(r)
  PROVE  RequestsOK'
<1>1. /\ req[r].step \in {"queue", "streaming"} /\ UNCHANGED <<outbox, reservation>>
      /\ req[r].ask.kind = "stream"
  BY Zenon DEF Stream, At
<1>2. \/ Return(r, "") \/ Return(r, "written")
      \/ Finalize(r, "stream_completed", "", "")
      \/ Finalize(r, "canceled", "client", "written")
      \/ Finalize(r, "canceled", "canceled", "written")
      \/ Finalize(r, "failed", "gateway", "written")
      \/ Finalize(r, "stream_interrupted", "client_write", "written")
      \/ Finalize(r, "stream_interrupted", "upstream", "written")
  BY Zenon DEF Stream
<1>3. ASSUME NEW st, NEW ca, NEW co, Finalize(r, st, ca, co),
             FinalOutcome(Outcome(st, ca, co), req[r].ask)
      PROVE  RequestsOK'
  BY <1>1, <1>3, FinalizeStep, Zenon DEF Finalize, Set
<1>4. /\ FinalOutcome(Outcome("stream_completed", "", ""), req[r].ask)
      /\ FinalOutcome(Outcome("canceled", "client", "written"), req[r].ask)
      /\ FinalOutcome(Outcome("canceled", "canceled", "written"), req[r].ask)
      /\ FinalOutcome(Outcome("failed", "gateway", "written"), req[r].ask)
      /\ FinalOutcome(Outcome("stream_interrupted", "client_write", "written"), req[r].ask)
      /\ FinalOutcome(Outcome("stream_interrupted", "upstream", "written"), req[r].ask)
  BY <1>1 DEF FinalOutcome, Outcome, Outcomes, FailedStatuses
<1>5. Return(r, "") \/ Return(r, "written") => RequestsOK'
  BY <1>1, ReturnStep, Zenon
<1> QED
  BY <1>2, <1>3, <1>4, <1>5, Zenon

\* A request that has not arrived is a handler.
LEMMA NewTyped == New \in Handlers
<1>1. <<>> \in Queues /\ <<>> \in Plans
  BY DEF Queues, Plans
<1>2. [version |-> 0, queues |-> <<>>] \in [version : Versions, queues : Queues]
  BY <1>1 DEF Versions
<1>3. Nobody \in Makers
  BY DEF Nobody, Makers, Versions
<1>4. NoEvent \in Outcomes
  BY NoEventFields, Zenon
<1>5. (CHOOSE a \in Asks : TRUE) \in Asks
  BY RequestPathAssumption
<1> QED
  BY <1>1, <1>2, <1>3, <1>4, <1>5 DEF New, Handlers, Steps

\* A session that is over has forgotten all but its body.
LEMMA DoneIs ==
  ASSUME NEW r, req[r].ask \in Asks
  PROVE  /\ Done(r) \in Handlers /\ Done(r).step = "done" /\ Done(r).ask = req[r].ask
         /\ Done(r).event = NoEvent /\ Done(r).cache = "bypass" /\ Done(r).lost = FALSE
         /\ Done(r).snapshot.version = 0
<1> DEFINE n == [New EXCEPT !.step = "done", !.ask = req[r].ask]
<1>1. n \in Handlers /\ n.step = "done" /\ n.ask = req[r].ask /\ n.event = New.event
      /\ n.cache = New.cache /\ n.lost = New.lost /\ n.snapshot = New.snapshot
  BY NewTyped, Zenon DEF Handlers, Steps
<1>2. n.snapshot.version = 0
  BY <1>1, NewFields, Zenon
<1> QED
  BY <1>1, <1>2, NewFields, Zenon DEF Done

\* It may be over once its row is ready, or its event is lost.
LEMMA DoneOK ==
  ASSUME NEW r, req[r].ask \in Asks, NEW v
  PROVE  /\ HandlerOK(Done(r), "ready", v)
         /\ \A o : HandlerOK([Done(r) EXCEPT !.lost = TRUE], o, v)
         /\ [Done(r) EXCEPT !.lost = TRUE] \in Handlers
         /\ [Done(r) EXCEPT !.lost = TRUE].snapshot.version = 0
<1> DEFINE d == Done(r)
           n == [d EXCEPT !.lost = TRUE]
<1>1. /\ d \in Handlers /\ d.step = "done" /\ d.event = NoEvent /\ d.cache = "bypass"
      /\ d.snapshot.version = 0
  BY DoneIs, Zenon
<1> HIDE DEF d
<1>2. /\ n \in Handlers /\ n.step = "done" /\ n.event = NoEvent /\ n.cache = "bypass"
      /\ n.lost /\ n.snapshot = d.snapshot
  BY <1>1, Zenon DEF Handlers
<1> HIDE DEF n
<1>3. HandlerOK(d, "ready", v)
  BY <1>1 DEF HandlerOK, Pinned, Made, Admitted, Calling
<1>4. ASSUME NEW o PROVE HandlerOK(n, o, v)
  BY <1>2 DEF HandlerOK, Pinned, Made, Admitted, Calling
<1> QED
  BY <1>1, <1>2, <1>3, <1>4, Zenon DEF n, d

\* finish: the outcome of a handler that has none has a category and a code.
LEMMA FinishOK ==
  ASSUME PathInv, NEW r \in Requests, finish(r)
  PROVE  RequestsOK'
<1> DEFINE h == req[r]
           d == Done(r)
           f == Final(r)
           n == [d EXCEPT !.step = "emit", !.cache = h.cache, !.event = f]
           v == IF reservation' = reservation THEN reservation[r] ELSE "ended"
<1>1. /\ h.step = "finish" /\ UNCHANGED outbox
      /\ req' = [req EXCEPT ![r] = n]
      /\ reservation' \in {reservation, [reservation EXCEPT ![r] = "ended"]}
  BY DEF finish, At, ToEmit, Settled
<1>2. HandlerOK(h, outbox[r], reservation[r]) /\ h \in Handlers
  BY HandlerOf
<1>3. d \in Handlers /\ d.ask = h.ask /\ d.snapshot.version = 0
  <2>1. h.ask \in Asks
    BY <1>2, Zenon DEF Handlers
  <2> QED
    BY <2>1, DoneIs, Zenon
<1>4. outbox[r] \in {"pending", "interrupted"} /\ OutcomeOK(h) /\ h.event \in Outcomes
      /\ h.cache \in {"hit", "miss", "bypass"}
  BY <1>1, <1>2, Zenon DEF HandlerOK, Handlers
<1>5. \/ f = h.event
      \/ /\ h.event = NoEvent
         /\ f \in {Outcome("canceled", "client", "written"), Outcome("failed", "gateway", "written")}
  BY DEF Final
<1>6. /\ f \in Outcomes
      /\ \/ f = h.event
         \/ /\ h.cache # "hit" /\ f.status \in {"canceled", "failed"} /\ f.code = "written"
            /\ f.category \in {"client", "gateway"}
  <2>1. CASE f = h.event
    BY <2>1, <1>4
  <2>2. CASE h.event = NoEvent /\ f = Outcome("canceled", "client", "written")
    <3>1. h.cache # "hit"
      BY <2>2, <1>4, NoEventFields, Zenon DEF OutcomeOK
    <3> QED
      BY <3>1, <2>2 DEF Outcome, Outcomes
  <2>3. CASE h.event = NoEvent /\ f = Outcome("failed", "gateway", "written")
    <3>1. h.cache # "hit"
      BY <2>3, <1>4, NoEventFields, Zenon DEF OutcomeOK
    <3> QED
      BY <3>1, <2>3 DEF Outcome, Outcomes
  <2> QED
    BY <2>1, <2>2, <2>3, <1>5
<1> HIDE DEF f, d
<1>7. n \in Handlers /\ n.step = "emit" /\ n.cache = h.cache /\ n.event = f /\ n.ask = h.ask
      /\ n.snapshot = d.snapshot
  BY <1>3, <1>4, <1>6, Zenon DEF Handlers, Steps
<1>8. v \in ReservationStates /\ outbox[r] \in OutboxStates
      /\ reservation' = [reservation EXCEPT ![r] = v]
      /\ outbox' = [outbox EXCEPT ![r] = outbox[r]]
  BY <1>1 DEF PathInv, RequestsOK, ReservationStates
<1> HIDE DEF n, h, v
<1>9. OutcomeOK(n)
  BY <1>4, <1>6, <1>7, Zenon DEF OutcomeOK, FailedStatuses
<1>10. HandlerOK(n, outbox[r], v)
  BY <1>4, <1>7, <1>9 DEF HandlerOK, Pinned, Made, Admitted, Calling
<1> QED
  BY <1>1, <1>2, <1>7, <1>8, <1>10, OneRequest, Zenon DEF PathInv

\* Emit leaves the row ready, or the event is lost.
LEMMA EmitOK ==
  ASSUME PathInv, NEW r \in Requests, Emit(r)
  PROVE  RequestsOK'
<1> DEFINE h == req[r]
           n == Done(r)
           m == [n EXCEPT !.lost = TRUE]
           ready == [outbox EXCEPT ![r] = "ready"]
<1>1. /\ h.step = "emit" /\ UNCHANGED reservation
      /\ \/ outbox' \in {outbox, ready} /\ req' = [req EXCEPT ![r] = m]
         \/ outbox' = ready /\ req' = [req EXCEPT ![r] = n]
  BY DEF Emit, At
<1>2. h \in Handlers
  BY HandlerOf
<1>3. h.ask \in Asks
  BY <1>2, Zenon DEF Handlers
<1>4. /\ n \in Handlers /\ n.snapshot.version = 0 /\ m \in Handlers /\ m.snapshot.version = 0
      /\ HandlerOK(n, "ready", reservation[r])
      /\ \A o : HandlerOK(m, o, reservation[r])
  BY <1>3, DoneIs, DoneOK, Zenon
<1>5. /\ outbox[r] \in OutboxStates /\ outbox = [outbox EXCEPT ![r] = outbox[r]]
      /\ reservation[r] \in ReservationStates
      /\ reservation' = [reservation EXCEPT ![r] = reservation[r]]
  BY <1>1 DEF PathInv, RequestsOK
<1> HIDE DEF n, m, h
<1>6. "ready" \in OutboxStates /\ RequestsOK
  BY DEF OutboxStates, PathInv
<1>7. CASE outbox' = outbox /\ req' = [req EXCEPT ![r] = m]
  BY <1>7, <1>2, <1>4, <1>5, <1>6, OneRequest, Zenon
<1>8. CASE outbox' = ready /\ req' = [req EXCEPT ![r] = m]
  BY <1>8, <1>2, <1>4, <1>5, <1>6, OneRequest, Zenon
<1>9. CASE outbox' = ready /\ req' = [req EXCEPT ![r] = n]
  BY <1>9, <1>2, <1>4, <1>5, <1>6, OneRequest, Zenon
<1> QED
  BY <1>1, <1>7, <1>8, <1>9

\* RecoverAbandoned finds the row of a request that has returned pending only if
\* its own event was lost.
LEMMA RecoverOK ==
  ASSUME PathInv, NEW r \in Requests, RecoverAbandoned(r)
  PROVE  RequestsOK'
<1> DEFINE h == req[r]
<1>1. /\ outbox[r] = "pending" /\ outbox' = [outbox EXCEPT ![r] = "interrupted"]
      /\ UNCHANGED <<req, reservation>>
  BY DEF RecoverAbandoned
<1>2. HandlerOK(h, outbox[r], reservation[r]) /\ h \in Handlers
  BY HandlerOf
<1>3. /\ reservation[r] \in ReservationStates /\ "interrupted" \in OutboxStates /\ RequestsOK
      /\ reservation' = [reservation EXCEPT ![r] = reservation[r]] /\ req' = [req EXCEPT ![r] = h]
  BY <1>1 DEF PathInv, RequestsOK, OutboxStates
<1> HIDE DEF h
<1>4. HandlerOK(h, "interrupted", reservation[r])
  BY <1>1, <1>2 DEF HandlerOK
<1> QED
  BY <1>1, <1>2, <1>3, <1>4, OneRequest, Zenon

\* ReapExpired ends a reservation; the handler, if it still works, keeps what it has.
LEMMA ReapOK ==
  ASSUME PathInv, NEW r \in Requests, ReapExpired(r)
  PROVE  RequestsOK'
<1> DEFINE h == req[r]
<1>1. /\ reservation' = [reservation EXCEPT ![r] = "ended"]
      /\ UNCHANGED <<req, outbox>>
  BY DEF ReapExpired
<1>2. HandlerOK(h, outbox[r], reservation[r]) /\ h \in Handlers
  BY HandlerOf
<1>3. /\ outbox[r] \in OutboxStates /\ "ended" \in ReservationStates /\ RequestsOK
      /\ outbox' = [outbox EXCEPT ![r] = outbox[r]] /\ req' = [req EXCEPT ![r] = h]
  BY <1>1 DEF PathInv, RequestsOK, ReservationStates
<1> HIDE DEF h
<1>4. HandlerOK(h, outbox[r], "ended")
  BY <1>1, <1>2 DEF HandlerOK
<1> QED
  BY <1>1, <1>2, <1>3, <1>4, OneRequest, Zenon

\* A client that goes away changes nothing the other steps rely on.
LEMMA CancelOK ==
  ASSUME PathInv, NEW r \in Requests, Cancel(r)
  PROVE  RequestsOK'
<1> DEFINE h == req[r]
           n == [h EXCEPT !.gone = TRUE]
<1>1. /\ h.step \notin {"idle", "done"} /\ UNCHANGED <<outbox, reservation>>
      /\ req' = [req EXCEPT ![r] = n]
  BY DEF Cancel, Active, Set
<1>2. HandlerOK(h, outbox[r], reservation[r]) /\ h \in Handlers
  BY HandlerOf
<1>3. n \in Handlers /\ n.step = h.step /\ n.event = h.event /\ n.cache = h.cache
      /\ n.snapshot = h.snapshot /\ n.plan = h.plan /\ n.ask = h.ask /\ n.made = h.made
      /\ n.policed = h.policed /\ n.attached = h.attached /\ n.lost = h.lost
  BY <1>2, Zenon DEF Handlers
<1> HIDE DEF n, h
<1>4. (Pinned(n) /\ Made(n)) /\ (OutcomeOK(h) => OutcomeOK(n))
  BY <1>2, <1>3, Zenon DEF HandlerOK, Pinned, Made, OutcomeOK
<1>5. HandlerOK(n, outbox[r], reservation[r])
  BY <1>1, <1>2, <1>3, <1>4 DEF HandlerOK
<1> QED
  BY <1>1, <1>2, <1>3, <1>5, OneHandler, Zenon DEF PathInv

\* A process that dies loses the events of its requests, and nothing else.
LEMMA CrashOK ==
  ASSUME PathInv, Crash
  PROVE  RequestsOK'
<1> DEFINE m(r) == [Done(r) EXCEPT !.lost = TRUE]
<1>1. /\ req' = [r \in Requests |-> IF Active(r) THEN m(r) ELSE req[r]]
      /\ UNCHANGED <<outbox, reservation>>
  BY DEF Crash
<1>2. ASSUME NEW r \in Requests
      PROVE  req'[r] \in Handlers /\ HandlerOK(req'[r], outbox[r], reservation[r])
  <2>1. HandlerOK(req[r], outbox[r], reservation[r]) /\ req[r] \in Handlers
    BY HandlerOf
  <2>2. req[r].ask \in Asks
    BY <2>1, Zenon DEF Handlers
  <2>3. m(r) \in Handlers /\ HandlerOK(m(r), outbox[r], reservation[r]) /\ m(r).snapshot.version = 0
    BY <2>2, DoneOK
  <2> HIDE DEF m
  <2>4. req'[r] \in {m(r), req[r]}
    BY <1>1
  <2> QED
    BY <2>1, <2>3, <2>4
<1>3. req' \in [Requests -> Handlers]
  <2> HIDE DEF m
  <2> QED
    BY <1>1, <1>2
<1> HIDE DEF m
<1> QED
  BY <1>1, <1>2, <1>3 DEF PathInv, RequestsOK

\* The steps that touch no request.
LEMMA OthersOK ==
  ASSUME PathInv, UNCHANGED <<req, outbox, reservation>>
  PROVE  RequestsOK'
BY DEF PathInv, RequestsOK

-----------------------------------------------------------------------------
(* The manager *)

\* Versions are numbers.
LEMMA VersionsNat == DOMAIN Definitions \subseteq Nat /\ 1 \in DOMAIN Definitions
BY DefinitionsAssumption

\* A function that gives every provider of version v a queue is one of a snapshot.
LEMMA QueuesOf ==
  ASSUME NEW v \in DOMAIN Definitions, NEW n \in Nat,
         NEW f \in [DOMAIN Definitions[v].providers -> 1..n]
  PROVE  /\ [version |-> v, queues |-> f] \in Records
         /\ [version |-> v, queues |-> f].version = v /\ [version |-> v, queues |-> f].queues = f
<1>1. f \in [DOMAIN Definitions[v].providers -> Nat]
  OBVIOUS
<1>2. f \in Queues
  BY <1>1 DEF Queues
<1> QED
  BY <1>2 DEF Records

\* builder.build takes over the queues of the current snapshot.
LEMMA BuiltOK ==
  ASSUME ManagerOK, NEW v \in DOMAIN Definitions
  PROVE  /\ Built(v) \in Records /\ Built(v).version = v /\ Reuses(Built(v))
         /\ Built(v).queues \in [DOMAIN Definitions[v].providers -> 1..(builds + 1)]
<1> DEFINE q == reuseProviderStates(v)
           old == DOMAIN Definitions[current.version].providers
<1>1. builds \in Nat /\ current.queues \in [old -> 1..builds]
  BY DEF ManagerOK, SnapshotOK
<1>2. q \in [DOMAIN Definitions[v].providers -> 1..(builds + 1)]
  <2>1. builds + 1 \in 1..(builds + 1) /\ \A x \in 1..builds : x \in 1..(builds + 1)
    BY <1>1
  <2> QED
    BY <1>1, <2>1 DEF reuseProviderStates
<1>3. \A p \in DOMAIN Definitions[v].providers \cap old :
        Definitions[v].providers[p].queue = Definitions[current.version].providers[p].queue =>
          q[p] = current.queues[p]
  BY DEF reuseProviderStates
<1> HIDE DEF q
<1>4. builds + 1 \in Nat
  BY <1>1
<1>5. Built(v) = [version |-> v, queues |-> q]
  BY DEF Built, q
<1>6. Built(v) \in Records /\ Built(v).version = v /\ Built(v).queues = q
  BY <1>2, <1>4, <1>5, QueuesOf
<1>7. Reuses(Built(v))
  BY <1>3, <1>6, Zenon DEF Reuses
<1> QED
  BY <1>2, <1>6, <1>7

\* A process starts with queues of its own.
LEMMA LoadedOK ==
  ASSUME NEW v \in DOMAIN Definitions
  PROVE  /\ Loaded(v) \in Records /\ Loaded(v).version = v
         /\ Loaded(v).queues \in [DOMAIN Definitions[v].providers -> 1..1]
<1> DEFINE q == [p \in DOMAIN Definitions[v].providers |-> 1]
<1>1. q \in [DOMAIN Definitions[v].providers -> 1..1]
  OBVIOUS
<1> HIDE DEF q
<1>2. Loaded(v) = [version |-> v, queues |-> q]
  BY DEF Loaded, q
<1> QED
  BY <1>1, <1>2, QueuesOf

\* The first snapshot has queues of its own, made by the first build.
LEMMA ManagerStarts == ManagerInit => ManagerOK
<1> SUFFICES ASSUME ManagerInit PROVE ManagerOK
  OBVIOUS
<1>1. current \in Records /\ current.version = 1 /\ build(Definitions[1])
      /\ current.queues \in [DOMAIN Definitions[1].providers -> 1..1]
  BY VersionsNat, LoadedOK, DefinitionsAssumption DEF ManagerInit, build
<1>2. builds = 1 /\ raced = FALSE /\ active = 1 /\ view = 1 /\ publications = {}
  BY DEF ManagerInit
<1>3. SnapshotOK(current)
  BY <1>1, <1>2, Zenon DEF SnapshotOK
<1>4. current.version <= active /\ builds \in Nat \ {0}
  BY <1>1, <1>2
<1> QED
  BY <1>1, <1>2, <1>3, <1>4, VersionsNat, Zenon DEF ManagerOK

\* A process that starts again has the snapshot of the active row, and no call
\* under way.
LEMMA ManagerRestarts ==
  ASSUME ManagerOK, RestartManager
  PROVE  ManagerOK'
<1>1. active \in DOMAIN Definitions /\ build(Definitions[active])
  BY DEF ManagerOK
<1>2. current' \in Records /\ current'.version = active
      /\ current'.queues \in [DOMAIN Definitions[active].providers -> 1..1]
  BY <1>1, LoadedOK DEF RestartManager
<1>3. builds' = 1 /\ raced' = FALSE /\ active' = active /\ view' = active /\ publications' = {}
  BY DEF RestartManager
<1>4. SnapshotOK(current)'
  BY <1>1, <1>2, <1>3, Zenon DEF SnapshotOK
<1>5. current'.version <= active' /\ builds' \in Nat \ {0}
  BY <1>1, <1>2, <1>3, VersionsNat
<1> QED
  BY <1>1, <1>3, <1>4, <1>5, Zenon DEF ManagerOK

\* A step of a handler leaves the manager as it is.
LEMMA ManagerStill ==
  ASSUME ManagerOK, UNCHANGED managerVars
  PROVE  ManagerOK'
BY DEF ManagerOK, managerVars, SnapshotOK, PublicationOK, Reuses

\* More builds have been made.
LEMMA MoreBuilds ==
  ASSUME NEW s, SnapshotOK(s), builds \in Nat, builds' \in Nat, builds <= builds'
  PROVE  SnapshotOK(s)'
<1>1. \A x \in 1..builds : x \in 1..builds'
  OBVIOUS
<1> QED
  BY <1>1 DEF SnapshotOK

\* A call under way does not notice what changes neither the current snapshot nor,
\* while it holds the lock, the active row.
LEMMA Unnoticed ==
  ASSUME ManagerOK, NEW p \in publications, current' = current,
         builds' \in Nat, builds <= builds', active' \in DOMAIN Definitions, active <= active',
         p.step = "commit" => active' = active
  PROVE  PublicationOK(p)'
<1>1. PublicationOK(p) /\ builds \in Nat /\ active \in Nat /\ active' \in Nat
  BY VersionsNat DEF ManagerOK
<1>2. p.snapshot.version \in Nat
  BY <1>1, VersionsNat DEF PublicationOK, PublicationRecords, Records
<1>3. SnapshotOK(p.snapshot) => SnapshotOK(p.snapshot)'
  BY <1>1, MoreBuilds
<1>4. Reuses(p.snapshot) => Reuses(p.snapshot)'
  BY DEF Reuses
<1>5. p.step # "commit" => p.snapshot.version <= active'
  BY <1>1, <1>2 DEF PublicationOK
<1> QED
  BY <1>1, <1>3, <1>4, <1>5, Zenon DEF PublicationOK

\* A call that another publication has overtaken promises nothing about the current
\* snapshot any more.
LEMMA OvertakenOK ==
  ASSUME ManagerOK, NEW q \in publications, current' \in Records, active' \in DOMAIN Definitions,
         builds' \in Nat, builds <= builds', active <= active', q.step = "commit" => active' = active
  PROVE  /\ PublicationOK([q EXCEPT !.stale = (q.step # "view")])'
         /\ [q EXCEPT !.stale = (q.step # "view")].step = q.step
<1> DEFINE n == [q EXCEPT !.stale = (q.step # "view")]
<1>1. PublicationOK(q) /\ builds \in Nat /\ active \in Nat /\ active' \in Nat
  BY VersionsNat DEF ManagerOK
<1>2. q \in PublicationRecords
  BY <1>1 DEF PublicationOK
<1>3. /\ n \in PublicationRecords /\ n.step = q.step /\ n.snapshot = q.snapshot
      /\ n.stale = (q.step # "view")
  BY <1>2, Zenon DEF PublicationRecords
<1> HIDE DEF n
<1>4. q.snapshot.version \in Nat
  BY <1>2, VersionsNat DEF PublicationRecords, Records
<1>5. SnapshotOK(q.snapshot) => SnapshotOK(q.snapshot)'
  BY <1>1, MoreBuilds
<1>6. q.step # "commit" => q.snapshot.version <= active'
  BY <1>1, <1>4 DEF PublicationOK
<1>7. n.step # "view" => n.stale = TRUE
  BY <1>3, Zenon
<1>8. PublicationOK(n)'
  BY <1>1, <1>3, <1>5, <1>6, <1>7, Zenon DEF PublicationOK
<1> QED
  BY <1>3, <1>8 DEF n

\* A step that leaves the current snapshot alone.
LEMMA CallsMove ==
  ASSUME ManagerOK, current' = current, raced' = raced, view' \in DOMAIN Definitions,
         builds' \in Nat, builds <= builds',
         active' \in DOMAIN Definitions, build(Definitions[active']), active <= active',
         \A q \in publications' :
           \/ q \in publications /\ (q.step = "commit" => active' = active)
           \/ PublicationOK(q)',
         \A q \in publications', m \in publications' : q.step = "commit" /\ m.step = "commit" => q = m
  PROVE  ManagerOK'
<1>1. ASSUME NEW q \in publications' PROVE PublicationOK(q)'
  BY Unnoticed, Zenon
<1>3. builds \in Nat /\ builds # 0 /\ SnapshotOK(current) /\ current.version <= active
      /\ raced \in BOOLEAN
  BY DEF ManagerOK
<1>4. builds' \in Nat \ {0}
  BY <1>3
<1>5. SnapshotOK(current)'
  <2>1. \A x \in 1..builds : x \in 1..builds'
    BY <1>3
  <2> QED
    BY <1>3, <2>1 DEF SnapshotOK
<1>6. current'.version <= active'
  <2>1. current.version \in Nat /\ active \in Nat /\ active' \in Nat
    BY <1>3, VersionsNat DEF SnapshotOK, Records, ManagerOK
  <2> QED
    BY <1>3, <2>1
<1> QED
  BY <1>1, <1>3, <1>4, <1>5, <1>6, Zenon DEF ManagerOK

\* A step that publishes a snapshot and overtakes the calls under way.
LEMMA CallsOvertaken ==
  ASSUME ManagerOK, SnapshotOK(current)', raced' \in BOOLEAN, view' \in DOMAIN Definitions,
         builds' \in Nat, builds <= builds',
         active' \in DOMAIN Definitions, build(Definitions[active']), active <= active',
         current'.version <= active',
         \A q \in publications : q.step = "commit" => active' = active,
         \A n \in publications' : n \in Overtaken(publications) \/ (n.step = "view" /\ PublicationOK(n)')
  PROVE  ManagerOK'
<1> DEFINE next(q) == [q EXCEPT !.stale = (q.step # "view")]
<1>1. current' \in Records
  BY DEF SnapshotOK
<1>2. ASSUME NEW q \in publications PROVE PublicationOK(next(q))' /\ next(q).step = q.step
  BY <1>1, OvertakenOK, Zenon
<1>3. ASSUME NEW n \in publications', n \in Overtaken(publications)
      PROVE  \E q \in publications : n = next(q)
  BY <1>3, Zenon DEF Overtaken
<1> HIDE DEF next
<1>4. ASSUME NEW n \in publications' PROVE PublicationOK(n)'
  <2>1. CASE n \in Overtaken(publications)
    <3>1. PICK q \in publications : n = next(q)
      BY <1>3, <2>1, Zenon
    <3>2. PublicationOK(next(q))'
      BY <1>2, Zenon
    <3> QED
      BY <3>1, <3>2 DEF next
  <2>2. CASE PublicationOK(n)'
    BY <2>2
  <2> QED
    BY <2>1, <2>2, Zenon
<1>5. ASSUME NEW n \in publications', NEW m \in publications', n.step = "commit", m.step = "commit"
      PROVE  n = m
  <2>1. n \in Overtaken(publications) /\ m \in Overtaken(publications)
    BY <1>5
  <2>2. PICK q \in publications : n = next(q)
    BY <1>3, <2>1, Zenon
  <2>3. PICK r \in publications : m = next(r)
    BY <1>3, <2>1, Zenon
  <2>4. q.step = "commit" /\ r.step = "commit"
    BY <1>2, <1>5, <2>2, <2>3, Zenon
  <2>5. q = r
    BY <2>4, Zenon DEF ManagerOK
  <2> QED
    BY <2>2, <2>3, <2>5, Zenon
<1>6. builds' \in Nat \ {0}
  BY DEF ManagerOK
<1> QED
  BY <1>4, <1>5, <1>6, Zenon DEF ManagerOK

\* UpdateRuntime builds from the current snapshot while it holds the lock.
LEMMA UpdateRuntimeOK ==
  ASSUME ManagerOK, NEW v \in DOMAIN Definitions, UpdateRuntime(v)
  PROVE  ManagerOK'
<1>1. PICK b : b = Built(v)
  OBVIOUS
<1> DEFINE n == Publication("update", "commit", b)
<1>2. /\ \A q \in publications : q.step # "commit"
      /\ v > active /\ build(Definitions[v])
      /\ publications' = publications \cup {n} /\ builds' = builds + 1
      /\ current' = current /\ active' = active /\ view' = view /\ raced' = raced
  BY <1>1, Zenon DEF UpdateRuntime, Storable, RowLocked, Begin
<1>3. /\ builds \in Nat /\ builds' \in Nat /\ builds <= builds' /\ active <= active'
      /\ active' \in DOMAIN Definitions /\ view' \in DOMAIN Definitions /\ build(Definitions[active'])
      /\ current.version <= active /\ current.version \in Nat /\ active \in Nat /\ v \in Nat
  BY <1>2, VersionsNat DEF ManagerOK, SnapshotOK, Records
<1>4. /\ b \in Records /\ b.version = v /\ Reuses(b)
      /\ b.queues \in [DOMAIN Definitions[v].providers -> 1..builds']
  BY <1>1, <1>2, BuiltOK, Zenon
<1>5. n \in PublicationRecords /\ n.step = "commit" /\ n.snapshot = b
  BY <1>4 DEF Publication, PublicationRecords
<1> HIDE DEF n
<1>6. SnapshotOK(b)' /\ Reuses(b)'
  BY <1>2, <1>4, Zenon DEF SnapshotOK, Reuses
<1>7. b.version > active' /\ current'.version <= b.version
  BY <1>2, <1>3, <1>4
<1>8. PublicationOK(n)'
  BY <1>2, <1>4, <1>5, <1>6, <1>7, Zenon DEF PublicationOK
<1>9. /\ \A q \in publications' : (q \in publications /\ active' = active) \/ q = n
      /\ \A q \in publications', m \in publications' : q.step = "commit" /\ m.step = "commit" => q = m
  BY <1>2
<1>10. \A q \in publications' :
         \/ q \in publications /\ (q.step = "commit" => active' = active)
         \/ PublicationOK(q)'
  BY <1>8, <1>9, Zenon DEF n
<1> QED
  BY <1>2, <1>3, <1>9, <1>10, CallsMove, Zenon

\* The commit moves the active row to the version that held its lock.
LEMMA CommitRuntimeOK ==
  ASSUME ManagerOK, NEW p \in publications, CommitRuntime(p) \/ AbortRuntime(p)
  PROVE  ManagerOK'
<1> DEFINE n == [p EXCEPT !.step = "replace"]
<1>1. /\ p.step = "commit" /\ builds' = builds
      /\ current' = current /\ view' = view /\ raced' = raced
      /\ \/ active' = p.snapshot.version /\ publications' = (publications \ {p}) \cup {n}
         \/ active' \in {active, p.snapshot.version} /\ publications' = publications \ {p}
  BY Zenon DEF CommitRuntime, AbortRuntime, Becomes, End
<1>2. PublicationOK(p) /\ \A q \in publications \ {p} : q.step # "commit"
  BY <1>1, Zenon DEF ManagerOK
<1>3. p \in PublicationRecords /\ SnapshotOK(p.snapshot) /\ p.snapshot.version > active
      /\ build(Definitions[p.snapshot.version])
  BY <1>1, <1>2, Zenon DEF PublicationOK
<1>4. p.snapshot.version \in DOMAIN Definitions /\ p.snapshot.version \in Nat
  BY <1>3, VersionsNat DEF PublicationRecords, Records
<1>5. /\ builds \in Nat /\ builds' \in Nat /\ builds <= builds' /\ active <= active'
      /\ active' \in DOMAIN Definitions /\ view' \in DOMAIN Definitions /\ build(Definitions[active'])
  BY <1>1, <1>3, <1>4, VersionsNat DEF ManagerOK
<1>6. n \in PublicationRecords /\ n.step = "replace" /\ n.snapshot = p.snapshot /\ n.stale = p.stale
  BY <1>3, Zenon DEF PublicationRecords
<1> HIDE DEF n
<1>7. ASSUME active' = p.snapshot.version PROVE PublicationOK(n)'
  <2>1. SnapshotOK(n.snapshot)' /\ (Reuses(n.snapshot)' <=> Reuses(n.snapshot))
    BY <1>1, <1>3, <1>6 DEF SnapshotOK, Reuses, n
  <2>2. n.snapshot.version <= active'
    BY <1>4, <1>6, <1>7
  <2> QED
    BY <1>1, <1>2, <1>6, <2>1, <2>2 DEF PublicationOK, n
<1>8. \A q \in publications' :
        \/ q \in publications /\ q.step # "commit"
        \/ q = n /\ active' = p.snapshot.version
  BY <1>1, <1>2, Zenon
<1>9. \A q \in publications' :
        \/ q \in publications /\ (q.step = "commit" => active' = active)
        \/ PublicationOK(q)'
  BY <1>7, <1>8, Zenon DEF n
<1>10. \A q \in publications' : q.step # "commit"
  BY <1>6, <1>8
<1> QED
  BY <1>1, <1>5, <1>9, <1>10, CallsMove, Zenon

\* An update of another instance finds the row unlocked.
LEMMA UpdateElsewhereOK ==
  ASSUME ManagerOK, NEW v \in DOMAIN Definitions, UpdateElsewhere(v)
  PROVE  ManagerOK'
<1>1. /\ \A q \in publications : q.step # "commit"
      /\ v > active /\ build(Definitions[v]) /\ active' = v
      /\ publications' = publications /\ builds' = builds
      /\ current' = current /\ view' = view /\ raced' = raced
  BY Zenon DEF UpdateElsewhere, Storable, RowLocked
<1>2. /\ builds \in Nat /\ builds' \in Nat /\ builds <= builds' /\ active <= active'
      /\ view' \in DOMAIN Definitions
  BY <1>1, VersionsNat DEF ManagerOK
<1>3. \A q \in publications' : q \in publications /\ q.step # "commit"
  BY <1>1, Zenon
<1> QED
  BY <1>1, <1>2, <1>3, CallsMove, Zenon

\* Watch: the row that reloadRuntime reads is the active one, and what it builds
\* takes over the queues of the snapshot that is current then.
LEMMA ReloadOK ==
  ASSUME ManagerOK,
         \/ ReadActive
         \/ \E p \in publications : CompareView(p) \/ BuildActive(p) \/ SetView(p)
  PROVE  ManagerOK'
<1>1. /\ builds \in Nat /\ active <= active /\ builds <= builds /\ builds + 1 \in Nat /\ builds <= builds + 1
      /\ active \in DOMAIN Definitions /\ view \in DOMAIN Definitions /\ build(Definitions[active])
      /\ current.version <= active
  BY VersionsNat DEF ManagerOK
<1>2. \A q \in publications, m \in publications : q.step = "commit" /\ m.step = "commit" => q = m
  BY Zenon DEF ManagerOK
<1>3. CASE ReadActive
  <2>1. PICK s : s = [version |-> active, queues |-> <<>>]
    BY Zenon
  <2> DEFINE n == Publication("watch", "compare", s)
  <2>2. /\ publications' = publications \cup {n} /\ builds' = builds /\ active' = active
        /\ current' = current /\ view' = view /\ raced' = raced
    BY <1>3, <2>1, Zenon DEF ReadActive, Begin
  <2>3. s \in Records /\ s.version = active
    BY <1>1, <2>1 DEF Records, Queues
  <2>4. n \in PublicationRecords /\ n.step = "compare" /\ n.snapshot.version = active
    BY <2>3 DEF Publication, PublicationRecords
  <2> HIDE DEF n
  <2>5. PublicationOK(n)'
    BY <1>1, <2>2, <2>4 DEF PublicationOK, n
  <2>6. \A q \in publications' : q \in publications \/ (q = n /\ q.step # "commit")
    BY <2>2, <2>4
  <2>7. \A q \in publications' :
          \/ q \in publications /\ (q.step = "commit" => active' = active)
          \/ PublicationOK(q)'
    BY <2>2, <2>5, <2>6, Zenon DEF n
  <2> QED
    BY <1>1, <1>2, <2>2, <2>6, <2>7, CallsMove, Zenon
<1>4. ASSUME NEW p \in publications, CompareView(p) PROVE ManagerOK'
  <2> DEFINE n == [p EXCEPT !.step = "build"]
  <2>1. /\ p.step = "compare" /\ builds' = builds /\ active' = active
        /\ current' = current /\ view' = view /\ raced' = raced
        /\ publications' = publications \ {p} \/ publications' = (publications \ {p}) \cup {n}
    BY <1>4, Zenon DEF CompareView, Becomes, End
  <2>2. PublicationOK(p)
    BY Zenon DEF ManagerOK
  <2>3. n \in PublicationRecords /\ n.step = "build" /\ n.snapshot = p.snapshot /\ n.stale = p.stale
    BY <2>2, Zenon DEF PublicationOK, PublicationRecords
  <2> HIDE DEF n
  <2>4. PublicationOK(n)'
    BY <2>1, <2>2, <2>3 DEF PublicationOK, n
  <2>5. \A q \in publications' : q \in publications \/ (q = n /\ q.step # "commit")
    BY <2>1, <2>3
  <2>6. \A q \in publications' :
          \/ q \in publications /\ (q.step = "commit" => active' = active)
          \/ PublicationOK(q)'
    BY <2>1, <2>4, <2>5, Zenon DEF n
  <2> QED
    BY <1>1, <1>2, <2>1, <2>5, <2>6, CallsMove, Zenon
<1>5. ASSUME NEW p \in publications, BuildActive(p) PROVE ManagerOK'
  <2> DEFINE v == p.snapshot.version
  <2>1. PICK b : b = Built(v)
    OBVIOUS
  <2> DEFINE n == [p EXCEPT !.step = "replace", !.snapshot = b]
  <2>2. /\ p.step = "build" /\ builds' = builds + 1 /\ active' = active
        /\ current' = current /\ view' = view /\ raced' = raced
        /\ publications' = (publications \ {p}) \cup {n}
    BY <1>5, <2>1, Zenon DEF BuildActive, Becomes
  <2>3. PublicationOK(p) /\ p \in PublicationRecords /\ build(Definitions[v])
    BY Zenon DEF ManagerOK, PublicationOK
  <2>4. v \in DOMAIN Definitions
    BY <2>3 DEF PublicationRecords, Records
  <2>5. /\ b \in Records /\ b.version = v /\ Reuses(b)
        /\ b.queues \in [DOMAIN Definitions[v].providers -> 1..builds']
    BY <2>1, <2>2, <2>4, BuiltOK, Zenon
  <2>6. n \in PublicationRecords /\ n.step = "replace" /\ n.snapshot = b /\ n.stale = p.stale
    BY <2>3, <2>5, Zenon DEF PublicationRecords
  <2> HIDE DEF n
  <2>7. SnapshotOK(b)' /\ Reuses(b)'
    BY <2>2, <2>3, <2>5, Zenon DEF SnapshotOK, Reuses
  <2>8. PublicationOK(n)'
    BY <2>2, <2>3, <2>5, <2>6, <2>7 DEF PublicationOK, n
  <2>9. \A q \in publications' : q \in publications \/ (q = n /\ q.step # "commit")
    BY <2>2, <2>6
  <2>10. \A q \in publications' :
           \/ q \in publications /\ (q.step = "commit" => active' = active)
           \/ PublicationOK(q)'
    BY <2>2, <2>8, <2>9, Zenon DEF n
  <2> QED
    BY <1>1, <1>2, <2>2, <2>9, <2>10, CallsMove, Zenon
<1>6. ASSUME NEW p \in publications, SetView(p) PROVE ManagerOK'
  <2>1. /\ view' = p.snapshot.version /\ builds' = builds /\ active' = active
        /\ current' = current /\ raced' = raced /\ publications' \subseteq publications
    BY <1>6, Zenon DEF SetView, End
  <2>2. PublicationOK(p)
    BY Zenon DEF ManagerOK
  <2>3. p.snapshot.version \in DOMAIN Definitions
    BY <2>2 DEF PublicationOK, PublicationRecords, Records
  <2> QED
    BY <1>1, <1>2, <2>1, <2>3, CallsMove, Zenon
<1> QED
  BY <1>3, <1>4, <1>5, <1>6

\* Manager.Replace.
LEMMA ReplaceOK ==
  ASSUME ManagerOK, NEW p \in publications, ReplaceSnapshot(p)
  PROVE  ManagerOK'
<1> DEFINE n == [p EXCEPT !.step = "view", !.stale = FALSE]
<1>1. /\ p.step = "replace" /\ current' = p.snapshot /\ active' = active /\ view' = view /\ builds' = builds
      /\ publications' = Overtaken(publications \ {p}) \cup {n}
  BY Zenon DEF ReplaceSnapshot
<1>2. PublicationOK(p) /\ p \in PublicationRecords /\ SnapshotOK(p.snapshot)
      /\ build(Definitions[p.snapshot.version]) /\ p.snapshot.version <= active
  BY <1>1 DEF ManagerOK, PublicationOK
<1>3. raced' \in BOOLEAN
  BY Zenon DEF ReplaceSnapshot
<1>4. n \in PublicationRecords /\ n.step = "view" /\ n.snapshot = p.snapshot
  BY <1>2, Zenon DEF PublicationRecords
<1> HIDE DEF n
<1>5. SnapshotOK(current)' /\ SnapshotOK(p.snapshot)'
  BY <1>1, <1>2, Zenon DEF SnapshotOK
<1>6. PublicationOK(n)'
  BY <1>1, <1>2, <1>4, <1>5 DEF PublicationOK, n
<1>7. /\ builds' \in Nat /\ builds <= builds' /\ active <= active' /\ current'.version <= active'
      /\ active' \in DOMAIN Definitions /\ view' \in DOMAIN Definitions /\ build(Definitions[active'])
  BY <1>1, <1>2, VersionsNat DEF ManagerOK
<1>8. \A q \in publications' : q \in Overtaken(publications) \/ q = n
  BY <1>1, Zenon DEF Overtaken
<1>9. \A q \in publications' : q \in Overtaken(publications) \/ (q.step = "view" /\ PublicationOK(q)')
  BY <1>4, <1>6, <1>8, Zenon DEF n
<1> QED
  BY <1>1, <1>3, <1>5, <1>7, <1>9, CallsOvertaken, Zenon

\* A publication nothing comes between.
LEMMA AtOnceOK ==
  ASSUME ManagerOK, NEW v \in DOMAIN Definitions, AtOnce(v), build(Definitions[v]), active <= v,
         \A q \in publications : q.step = "commit" => v = active
  PROVE  ManagerOK'
<1>1. /\ current' = Built(v) /\ active' = v /\ view' = v /\ builds' = builds + 1 /\ raced' = raced
      /\ publications' = Overtaken(publications)
  BY Zenon DEF AtOnce
<1>2. /\ Built(v) \in Records /\ Built(v).version = v
      /\ Built(v).queues \in [DOMAIN Definitions[v].providers -> 1..builds']
  BY <1>1, BuiltOK, Zenon
<1>3. SnapshotOK(current)'
  BY <1>1, <1>2, Zenon DEF SnapshotOK
<1>4. /\ builds' \in Nat /\ builds <= builds' /\ raced' \in BOOLEAN /\ current'.version <= active'
  BY <1>1, <1>2, VersionsNat DEF ManagerOK
<1> QED
  BY <1>1, <1>3, <1>4, CallsOvertaken, Zenon

\* Every step of the manager keeps its state together.
LEMMA ManagerWorks ==
  ASSUME ManagerOK,
         \/ \E v \in DOMAIN Definitions : UpdateAtOnce(v) \/ UpdateElsewhere(v) \/ UpdateRuntime(v)
         \/ ReadActive \/ ReloadAtOnce \/ Publish
  PROVE  ManagerOK'
<1>1. ASSUME NEW v \in DOMAIN Definitions, UpdateAtOnce(v) PROVE ManagerOK'
  <2>1. /\ \A q \in publications : q.step # "commit"
        /\ v > active /\ build(Definitions[v]) /\ AtOnce(v)
    BY <1>1, Zenon DEF UpdateAtOnce, Storable, RowLocked
  <2>2. active <= v
    BY <2>1, VersionsNat DEF ManagerOK
  <2> QED
    BY <2>1, <2>2, AtOnceOK, Zenon
<1>2. CASE ReloadAtOnce
  <2>1. /\ active \in DOMAIN Definitions /\ build(Definitions[active]) /\ AtOnce(active)
        /\ active <= active
    BY <1>2, VersionsNat DEF ReloadAtOnce, ManagerOK
  <2> QED
    BY <2>1, AtOnceOK, Zenon
<1>3. CASE Publish
  BY <1>3, CommitRuntimeOK, ReloadOK, ReplaceOK, Zenon DEF Publish
<1> QED
  BY <1>1, <1>2, <1>3, UpdateElsewhereOK, UpdateRuntimeOK, ReloadOK, Zenon

\* The invariant of the manager includes its types.
LEMMA ManagerTyped == ManagerOK => ManagerTypeOK
BY DEF ManagerOK, SnapshotOK, PublicationOK, PublicationRecords, Records, ManagerTypeOK

-----------------------------------------------------------------------------
(* The state the requests share *)

\* The bound on disturbances is kept.
LEMMA DisturbancesOK ==
  ASSUME SharedOK, Smooth \/ Disturb \/ Disturbs(2)
  PROVE  disturbances' \in 0..MaxDisturbances
BY RequestPathAssumption DEF SharedOK, Smooth, Disturb, Disturbs

\* A step that leaves the shared state alone.
LEMMA SharedStill ==
  ASSUME SharedOK, Smooth \/ Disturb, UNCHANGED <<managerVars, window, admitted, store, policyVars>>
  PROVE  SharedOK'
<1>1. disturbances' \in 0..MaxDisturbances
  BY DisturbancesOK
<1>2. PolicyTypeOK'
  BY DEF SharedOK, PolicyTypeOK, policyVars, NotLoading
<1>3. ManagerOK'
  BY ManagerStill DEF SharedOK
<1> QED
  BY <1>1, <1>2, <1>3 DEF SharedOK

\* The script counts a request only below the limit.
LEMMA AllowShared ==
  ASSUME PathInv, NEW r \in Requests, Allow(r)
  PROVE  SharedOK'
<1> DEFINE m == req[r].ask.model
<1>1. /\ (Smooth \/ Disturb) /\ UNCHANGED <<managerVars, store, policyVars>>
      /\ \/ UNCHANGED <<window, admitted>>
         \/ /\ window[m] < Limit
            /\ window' = [window EXCEPT ![m] = @ + 1] /\ admitted' = [admitted EXCEPT ![m] = @ + 1]
  BY Zenon DEF Allow, ScriptAllows
<1>2. CASE UNCHANGED <<window, admitted>>
  BY <1>1, <1>2, SharedStill DEF PathInv
<1>3. CASE /\ window[m] < Limit
           /\ window' = [window EXCEPT ![m] = @ + 1] /\ admitted' = [admitted EXCEPT ![m] = @ + 1]
  <2>1. req[r].ask \in Asks
    BY HandlerOf, Zenon DEF Handlers
  <2>2. m \in Models
    BY <2>1 DEF Models
  <2>3. window' \in [Models -> 0..Limit] /\ admitted' = window'
    BY <1>3, <2>2, RequestPathAssumption DEF PathInv, SharedOK
  <2>4. disturbances' \in 0..MaxDisturbances
    BY <1>1, DisturbancesOK DEF PathInv
  <2>5. PolicyTypeOK'
    BY <1>1 DEF PathInv, SharedOK, PolicyTypeOK, policyVars, NotLoading
  <2>6. ManagerOK'
    BY <1>1, ManagerStill DEF PathInv, SharedOK
  <2> QED
    BY <1>1, <2>3, <2>4, <2>5, <2>6 DEF PathInv, SharedOK
<1> QED
  BY <1>1, <1>2, <1>3

\* A stored answer was made by the first candidate of the version it is kept for.
LEMMA StoreShared ==
  ASSUME PathInv, NEW r \in Requests, Store(r)
  PROVE  SharedOK'
<1> DEFINE h == req[r]
           e == [version |-> h.snapshot.version, ask |-> h.ask, made |-> h.made]
<1>1. /\ (Smooth \/ Disturb) /\ UNCHANGED <<managerVars, window, admitted, policyVars>> /\ h.step = "store"
      /\ store' \subseteq store \cup {e}
  BY Zenon DEF Store, At, Key, routeVersionFromContext, EncodingStep
<1>2. HandlerOK(h, outbox[r], reservation[r]) /\ h \in Handlers
  BY HandlerOf
<1>3. h.ask \in Asks /\ h.made \in Makers
  BY <1>2, Zenon DEF Handlers
<1>4. h.snapshot.version \in DOMAIN Definitions /\ h.made = Maker(h.snapshot.version, h.ask)
  BY <1>1, <1>2 DEF HandlerOK, Pinned, Made, Admitted
<1> HIDE DEF h
<1>5. e \in Answers /\ e.made = Maker(e.version, e.ask)
  BY <1>3, <1>4 DEF Answers
<1> HIDE DEF e
<1>6. store' \subseteq Answers /\ \A x \in store' : x.made = Maker(x.version, x.ask)
  BY <1>1, <1>5 DEF PathInv, SharedOK
<1>7. disturbances' \in 0..MaxDisturbances
  BY <1>1, DisturbancesOK DEF PathInv
<1>8. PolicyTypeOK'
  BY <1>1 DEF PathInv, SharedOK, PolicyTypeOK, policyVars, NotLoading
<1>9. ManagerOK'
  BY <1>1, ManagerStill DEF PathInv, SharedOK
<1> QED
  BY <1>1, <1>6, <1>7, <1>8, <1>9 DEF PathInv, SharedOK

\* The steps of the policies and a restart keep the versions in their bounds.
LEMMA PolicyShared ==
  ASSUME PathInv, Policy \/ Crash
  PROVE  SharedOK'
<1>1. (Smooth \/ Disturb) /\ UNCHANGED <<window, admitted, store>>
  BY DEF Policy, Crash
<1>2. PolicyTypeOK /\ MaxPolicyVersion \in Nat
  BY PolicyAssumption DEF PathInv, SharedOK
<1>3. \/ \E here \in BOOLEAN : CommitPolicy(here)
      \/ \E v \in puts : Put(v)
      \/ LoadPolicyIndex \/ Replace \/ Refresh
      \/ row' = row /\ index' = row /\ puts' = {} /\ loaded' = NotLoading
  BY DEF Policy, Crash
<1>4. PolicyTypeOK'
  <2>1. ASSUME NEW here \in BOOLEAN, CommitPolicy(here) PROVE PolicyTypeOK'
    BY <2>1, <1>2 DEF CommitPolicy, PolicyTypeOK, NotLoading
  <2>2. ASSUME NEW v \in puts, Put(v) PROVE PolicyTypeOK'
    BY <2>2, <1>2 DEF Put, PolicyTypeOK, NotLoading
  <2>3. CASE LoadPolicyIndex
    <3>1. row \in 0..(MaxPolicyVersion + 1)
      BY <1>2 DEF PolicyTypeOK
    <3> QED
      BY <2>3, <3>1, <1>2 DEF LoadPolicyIndex, PolicyTypeOK, NotLoading
  <2>6. CASE Refresh
    BY <2>6, <1>2 DEF Refresh, PolicyTypeOK, NotLoading
  <2>4. CASE Replace
    BY <2>4, <1>2 DEF Replace, PolicyTypeOK, NotLoading
  <2>5. CASE row' = row /\ index' = row /\ puts' = {} /\ loaded' = NotLoading
    BY <2>5, <1>2 DEF PolicyTypeOK, NotLoading
  <2> QED
    BY <1>3, <2>1, <2>2, <2>3, <2>4, <2>5, <2>6
<1>5. disturbances' \in 0..MaxDisturbances
  BY <1>1, DisturbancesOK DEF PathInv
<1>6. ManagerOK'
  BY ManagerStill, ManagerRestarts DEF PathInv, SharedOK, Policy, Crash
<1> QED
  BY <1>1, <1>4, <1>5, <1>6 DEF PathInv, SharedOK

\* An expiry removes an answer, or starts a new window.
LEMMA ExpireShared ==
  ASSUME PathInv,
         (\E m \in Models : ExpireWindow(m)) \/ (\E e \in store : ExpireResponse(e))
  PROVE  SharedOK'
<1>1. Disturb /\ UNCHANGED <<managerVars, policyVars>>
  BY DEF ExpireWindow, ExpireResponse
<1>2. store' \subseteq store
  BY DEF ExpireWindow, ExpireResponse
<1>3. window' \in [Models -> 0..Limit] /\ admitted' = window'
  BY RequestPathAssumption DEF ExpireWindow, ExpireResponse, PathInv, SharedOK
<1>4. disturbances' \in 0..MaxDisturbances
  BY <1>1, DisturbancesOK DEF PathInv
<1>5. PolicyTypeOK'
  BY <1>1 DEF PathInv, SharedOK, PolicyTypeOK, policyVars, NotLoading
<1>6. ManagerOK'
  BY <1>1, ManagerStill DEF PathInv, SharedOK
<1> QED
  BY <1>1, <1>2, <1>3, <1>4, <1>5, <1>6 DEF PathInv, SharedOK

\* The manager works beside everything else.
LEMMA ManagerShared ==
  ASSUME PathInv, Manager
  PROVE  SharedOK'
<1>1. /\ Smooth \/ Disturb \/ Disturbs(2)
      /\ UNCHANGED <<window, admitted, store, policyVars>>
  BY DEF Manager
<1>2. disturbances' \in 0..MaxDisturbances
  BY <1>1, DisturbancesOK DEF PathInv
<1>3. PolicyTypeOK'
  BY <1>1 DEF PathInv, SharedOK, PolicyTypeOK, policyVars, NotLoading
<1>4. ManagerOK'
  BY ManagerWorks, Zenon DEF PathInv, SharedOK, Manager
<1> QED
  BY <1>1, <1>2, <1>3, <1>4 DEF PathInv, SharedOK

-----------------------------------------------------------------------------
(* The invariant *)

\* The process starts with the first version and no request.
LEMMA InitOK == Init => PathInv
<1> SUFFICES ASSUME Init PROVE PathInv
  OBVIOUS
<1>1. SharedOK
  <2>1. ManagerOK
    BY ManagerStarts DEF Init
  <2>2. window \in [Models -> 0..Limit] /\ admitted = window
    BY RequestPathAssumption DEF Init
  <2>3. PolicyTypeOK
    BY PolicyAssumption DEF Init, PolicyInit, PolicyTypeOK, NotLoading
  <2> QED
    BY <2>1, <2>2, <2>3, RequestPathAssumption DEF Init, SharedOK
<1>2. HandlerOK(New, "none", "none")
  BY NewTyped, NewFields, Zenon DEF HandlerOK, Pinned, Made, Admitted, Calling
<1> QED
  BY <1>1, <1>2, NewTyped DEF Init, PathInv, RequestsOK, OutboxStates, ReservationStates

\* The handlers that touch nothing the requests share.
LEMMA HandlerShared ==
  ASSUME PathInv, NEW r \in Requests,
         \/ Reject(r) \/ \E ask \in Asks : newUsageSession(r, ask)
         \/ PlanRoute(r) \/ reserveQuota(r) \/ Lookup(r) \/ Acquire(r) \/ Execute(r) \/ Stream(r)
         \/ finish(r) \/ Emit(r) \/ Cancel(r) \/ RecoverAbandoned(r) \/ ReapExpired(r)
         \/ \E category \in {"canceled", "upstream"} : ExecuteFails(r, category)
  PROVE  SharedOK'
<1>1. UNCHANGED <<managerVars, window, admitted, store, policyVars>>
  BY Zenon DEF Reject, newUsageSession, PlanRoute, reserveQuota, Lookup, Acquire, Execute, Stream,
         finish, Emit, Cancel, RecoverAbandoned, ReapExpired, ExecuteFails
<1>2. Smooth \/ Disturb
  <2>1. CASE Lookup(r)
    BY <2>1, Zenon DEF Lookup, EncodingStep
  <2>2. CASE Execute(r)
    BY <2>2, Zenon DEF Execute, EncodingStep
  <2>3. CASE RecoverAbandoned(r) \/ ReapExpired(r)
    BY <2>3, Zenon DEF RecoverAbandoned, ReapExpired, Overdue
  <2>4. CASE \E category \in {"canceled", "upstream"} : ExecuteFails(r, category)
    BY <2>4, Zenon DEF ExecuteFails
  <2>5. CASE \/ Reject(r) \/ \E ask \in Asks : newUsageSession(r, ask)
             \/ PlanRoute(r) \/ reserveQuota(r) \/ Acquire(r)
    BY <2>5, Zenon DEF Reject, newUsageSession, PlanRoute, reserveQuota, Acquire
  <2>6. CASE Stream(r) \/ finish(r) \/ Emit(r) \/ Cancel(r)
    BY <2>6, Zenon DEF Stream, finish, Emit, Cancel
  <2> QED
    BY <2>1, <2>2, <2>3, <2>4, <2>5, <2>6
<1> QED
  BY <1>1, <1>2, SharedStill DEF PathInv

\* Every step of a request keeps the invariant.
LEMMA RequestNext ==
  ASSUME PathInv, NEW r \in Requests,
         \/ Reject(r) \/ \E ask \in Asks : newUsageSession(r, ask)
         \/ Handler(r)
         \/ RecoverAbandoned(r) \/ ReapExpired(r) \/ Cancel(r)
  PROVE  PathInv'
<1>1. RequestsOK'
  BY RejectOK, NewUsageSessionOK, AllowOK, PlanRouteOK, ReserveQuotaOK, LookupOK, AcquireOK, ExecuteOK,
     StoreOK, StreamOK, FinishOK, EmitOK, ExecuteFailsOK, RecoverOK, ReapOK, CancelOK, Zenon DEF Handler
<1>2. SharedOK'
  BY HandlerShared, AllowShared, StoreShared, Zenon DEF Handler
<1> QED
  BY <1>1, <1>2 DEF PathInv

\* Every step keeps the invariant.
LEMMA NextOK == PathInv /\ [Next]_pathVars => PathInv'
<1> SUFFICES ASSUME PathInv, [Next]_pathVars PROVE PathInv'
  OBVIOUS
<1>1. ASSUME NEW r \in Requests,
             \/ Reject(r) \/ \E ask \in Asks : newUsageSession(r, ask)
             \/ Handler(r)
             \/ RecoverAbandoned(r) \/ ReapExpired(r) \/ Cancel(r)
      PROVE  PathInv'
  BY <1>1, RequestNext
<1>2. CASE Crash
  BY <1>2, CrashOK, PolicyShared DEF PathInv
<1>3. CASE Policy
  BY <1>3, OthersOK, PolicyShared DEF PathInv, Policy
<1>4. CASE (\E m \in Models : ExpireWindow(m)) \/ (\E e \in store : ExpireResponse(e))
  <2>1. UNCHANGED <<req, outbox, reservation>>
    BY <1>4 DEF ExpireWindow, ExpireResponse
  <2> QED
    BY <1>4, <2>1, OthersOK, ExpireShared DEF PathInv
<1>5. CASE Manager
  <2>1. UNCHANGED <<req, outbox, reservation>>
    BY <1>5 DEF Manager
  <2> QED
    BY <1>5, <2>1, OthersOK, ManagerShared DEF PathInv
<1>6. CASE UNCHANGED pathVars
  <2>1. UNCHANGED <<managerVars, window, admitted, store, policyVars>> /\ Smooth
        /\ UNCHANGED <<req, outbox, reservation>>
    BY <1>6 DEF pathVars, Smooth
  <2> QED
    BY <2>1, OthersOK, SharedStill DEF PathInv
<1> QED
  BY <1>1, <1>2, <1>3, <1>4, <1>5, <1>6 DEF Next

\* For any number of requests, versions and disturbances, what a handler, its usage row
\* and its reservation hold fits together, and what the handlers share fits their plans.
THEOREM PathInvariant == Spec => []PathInv
BY InitOK, NextOK, PTL DEF Spec
-----------------------------------------------------------------------------
(* The properties *)

\* Every variable has its type, for any number of requests and of publications under
\* way: in particular the snapshot of the manager has a queue for each of its providers,
\* made by a build of this process.
THEOREM PathTypeOK == Spec => []TypeOK
<1>1. PathInv => TypeOK
  <2> SUFFICES ASSUME PathInv PROVE TypeOK
    OBVIOUS
  <2>1. ASSUME NEW r \in Requests
        PROVE  /\ req[r].step \in Steps /\ req[r].ask \in Asks
               /\ req[r].snapshot.version \in {0} \cup DOMAIN Definitions
               /\ req[r].cache \in {"hit", "miss", "bypass"}
               /\ {req[r].gone, req[r].policed, req[r].attached, req[r].lost} \subseteq BOOLEAN
    <3>1. req[r] \in Handlers
      BY HandlerOf
    <3>2. /\ req[r].step \in Steps /\ req[r].ask \in Asks /\ req[r].cache \in {"hit", "miss", "bypass"}
          /\ req[r].snapshot.version \in {0} \cup DOMAIN Definitions
      BY <3>1, Zenon DEF Handlers, Versions
    <3>3. /\ req[r].gone \in BOOLEAN /\ req[r].policed \in BOOLEAN
          /\ req[r].attached \in BOOLEAN /\ req[r].lost \in BOOLEAN
      BY <3>1, Zenon DEF Handlers
    <3>4. {req[r].gone, req[r].policed, req[r].attached, req[r].lost} \subseteq BOOLEAN
      BY <3>3, Zenon
    <3> QED
      BY <3>1, <3>2, <3>4
  <2>2. window \in [Models -> Nat] /\ admitted \in [Models -> Nat]
    BY RequestPathAssumption DEF PathInv, SharedOK
  <2>3. ManagerTypeOK
    BY ManagerTyped DEF PathInv, SharedOK
  <2>4. \A e \in store : e.version \in DOMAIN Definitions /\ e.ask \in Asks
    BY DEF PathInv, SharedOK, Answers
  <2> QED
    BY <2>1, <2>2, <2>3, <2>4 DEF PathInv, SharedOK, RequestsOK, TypeOK, OutboxStates,
                                  ReservationStates
<1> QED
  BY <1>1, PathInvariant, PTL

\* The response cache never mixes the answers of two routing versions
\* (responsecache WithRouteVersion), however many versions are published while
\* requests are under way.
THEOREM PathCachedAnswersMatch == Spec => []CachedAnswersMatch
<1>1. PathInv => CachedAnswersMatch
  <2> SUFFICES ASSUME PathInv, NEW r \in Requests, At(r, "finish"), req[r].cache = "hit"
               PROVE  req[r].made = [version |-> req[r].snapshot.version, provider |-> First(r)]
    BY DEF CachedAnswersMatch
  <2>1. /\ req[r].plan = Planned(req[r].snapshot.version, req[r].ask)
        /\ req[r].made = Maker(req[r].snapshot.version, req[r].ask)
    BY HandlerOf DEF HandlerOK, Pinned, Made, At
  <2> QED
    BY <2>1 DEF Maker, First
<1> QED
  BY <1>1, PathInvariant, PTL

\* The script of the rate limiter lets at most Limit requests through between
\* two expiries, whatever the number of requests that race for the window.
THEOREM PathWindowBound == Spec => []WindowBound
<1>1. PathInv => WindowBound
  BY RequestPathAssumption DEF PathInv, SharedOK, WindowBound
<1> QED
  BY <1>1, PathInvariant, PTL

\* No request is past the quota without its pending usage row and, if a policy
\* applied, without the reservation of its own (reserveQuota fails closed).
THEOREM PathCallIsAccounted == Spec => []CallIsAccounted
<1>1. PathInv => CallIsAccounted
  <2> SUFFICES ASSUME PathInv, NEW r \in Requests, req[r].step \in Admitted
               PROVE  outbox[r] # "none" /\ (req[r].policed => req[r].attached /\ reservation[r] # "none")
    BY DEF CallIsAccounted
  <2> QED
    BY HandlerOf, Zenon DEF HandlerOK, Admitted, Calling
<1> QED
  BY <1>1, PathInvariant, PTL

\* Event.Validate refuses an event a handler finalised in exactly two cases: an
\* encoding of a cached answer that fails, and a canceled embedding without a
\* code.
THEOREM PathEventsValid == Spec => []EventsValid
<1>1. PathInv => EventsValid
  <2> SUFFICES ASSUME PathInv, NEW r \in Requests, At(r, "emit")
               PROVE  Validate(r) <=>
                        /\ ~(req[r].cache = "hit" /\ req[r].event.status = "failed")
                        /\ ~(req[r].ask.kind = "embedding" /\ req[r].event.category = "canceled"
                             /\ req[r].event.code = "")
    BY Zenon DEF EventsValid
  <2>1. OutcomeOK(req[r]) /\ req[r].event \in Outcomes
    BY HandlerOf, Zenon DEF HandlerOK, Handlers, At
  <2>2. Validate(r) <=>
          LET e == req[r].event IN
          /\ e.status = "cache_hit" <=> req[r].cache = "hit"
          /\ e.status = "cache_hit" => req[r].ask.kind # "stream"
          /\ e.status \in {"stream_completed", "stream_interrupted"} => req[r].ask.kind = "stream"
          /\ e.status \in FailedStatuses => e.category # "" /\ e.code # ""
    BY DEF Validate
  <2> QED
    BY <2>1, <2>2, Zenon DEF OutcomeOK, FailedStatuses
<1> QED
  BY <1>1, PathInvariant, PTL

\* Emit replaces what RecoverAbandoned wrote into the row of a request that was
\* still at work, so "interrupted" stays only where the event itself was lost.
THEOREM PathOwnEventKept == Spec => []OwnEventKept
<1>1. PathInv => OwnEventKept
  <2> SUFFICES ASSUME PathInv, NEW r \in Requests, outbox[r] = "interrupted",
                      req[r].step = "done"
               PROVE  req[r].lost
    BY DEF OwnEventKept, At
  <2> QED
    BY HandlerOf DEF HandlerOK
<1> QED
  BY <1>1, PathInvariant, PTL

-----------------------------------------------------------------------------
(* The slots of the provider queues *)

\* The steps of a handler that has pinned a snapshot.
Routed == Admitted \cup {"reserve"}

Providers == UNION {DOMAIN Definitions[v].providers : v \in DOMAIN Definitions}

\* The snapshots somebody can still ask for a queue.
Snapshots == {current} \cup {req[r].snapshot : r \in {q \in Requests : req[q].step \in Routed}}

\* A provider whose queue is configured alike from s to t has one queue in both.
Agree(s, t) ==
  s.version <= t.version =>
    \A p \in Providers : SameQueue(p, s.version, t.version) => s.queues[p] = t.queues[p]

SnapshotsAgree ==
  \A s \in Snapshots :
    /\ s.version \in 1..current.version /\ build(Definitions[s.version])
    /\ \A t \in Snapshots : Agree(s, t)

\* No queue has more slots taken than it has.
SlotsHeld ==
  \A r \in Requests : req[r].step \in Calling =>
    Cardinality(InFlight(First(r), req[r].snapshot.queues[First(r)])) <= MaxInFlight

SlotsInv == (raced = FALSE => SnapshotsAgree) /\ SlotsHeld

\* What all steps but Acquire and those that replace the snapshot do to the slots.
Quiet ==
  \A q \in Requests :
    /\ req'[q].step \in Routed => req'[q].snapshot \in Snapshots
    /\ req'[q].step \in Calling =>
         /\ req[q].step \in Calling
         /\ req'[q].snapshot = req[q].snapshot /\ req'[q].plan = req[q].plan

\* The requests in a queue can be counted.
LEMMA InFlightFinite ==
  ASSUME NEW S, S \subseteq Requests
  PROVE  IsFiniteSet(S) /\ Cardinality(S) \in Nat
<1>1. IsFiniteSet(Requests)
  BY FS_Interval, RequestPathAssumption DEF Requests
<1>2. IsFiniteSet(S)
  BY <1>1, FS_Subset, Zenon
<1> QED
  BY <1>2, FS_CardinalityType, Zenon

\* Fewer requests take no more slots.
LEMMA FewerInFlight ==
  ASSUME NEW S, NEW T, S \subseteq T, T \subseteq Requests, NEW n \in Nat, Cardinality(T) <= n
  PROVE  Cardinality(S) <= n
<1>1. IsFiniteSet(T) /\ Cardinality(T) \in Nat /\ Cardinality(S) \in Nat
  BY InFlightFinite
<1>2. Cardinality(S) <= Cardinality(T)
  BY <1>1, FS_Subset
<1> QED
  BY <1>1, <1>2

\* A request that enters takes one more.
LEMMA OneMoreInFlight ==
  ASSUME NEW S, NEW T, NEW r \in Requests, S \subseteq T \cup {r}, T \subseteq Requests,
         NEW n \in Nat, Cardinality(T) < n
  PROVE  Cardinality(S) <= n
<1>1. IsFiniteSet(T) /\ Cardinality(T) \in Nat
  BY InFlightFinite
<1>2. Cardinality(T \cup {r}) = Cardinality(T) \/ Cardinality(T \cup {r}) = Cardinality(T) + 1
  BY <1>1, FS_AddElement, Zenon
<1>3. T \cup {r} \subseteq Requests /\ Cardinality(T \cup {r}) <= n
  BY <1>1, <1>2
<1> QED
  BY <1>3, FewerInFlight, Zenon

\* A step in which nobody enters a queue keeps the slots.
LEMMA QuietSlots ==
  ASSUME SlotsInv, Quiet, UNCHANGED <<current, raced>>
  PROVE  SlotsInv'
<1>1. Snapshots' \subseteq Snapshots
  BY Zenon DEF Snapshots, Quiet
<1>2. raced' = FALSE => SnapshotsAgree'
  BY <1>1, Zenon DEF SlotsInv, SnapshotsAgree
<1>3. ASSUME NEW r \in Requests, req'[r].step \in Calling
      PROVE  (Cardinality(InFlight(First(r), req[r].snapshot.queues[First(r)])) <= MaxInFlight)'
  <2> DEFINE T == InFlight(First(r), req[r].snapshot.queues[First(r)])
  <2>1. /\ req[r].step \in Calling
        /\ req'[r].snapshot = req[r].snapshot /\ req'[r].plan = req[r].plan
    BY <1>3, Zenon DEF Quiet
  <2>2. T' \subseteq T
    BY <2>1, Zenon DEF Quiet, InFlight, First
  <2>3. T \subseteq Requests /\ Cardinality(T) <= MaxInFlight
    BY <2>1, Zenon DEF SlotsInv, SlotsHeld, InFlight
  <2> HIDE DEF T
  <2>4. Cardinality(T') <= MaxInFlight
    BY <2>2, <2>3, FewerInFlight, RequestPathAssumption
  <2> QED
    BY <2>4, Zenon DEF T
<1>4. SlotsHeld'
  BY <1>3, Zenon DEF SlotsHeld
<1> QED
  BY <1>2, <1>4, Zenon DEF SlotsInv

\* A step of one handler that neither enters a queue nor pins other routes.
LEMMA OneQuiet ==
  ASSUME PathInv, NEW r \in Requests, NEW h, req' = [req EXCEPT ![r] = h],
         h.step \in Routed => h.snapshot \in Snapshots,
         h.step \in Calling =>
           req[r].step \in Calling /\ h.snapshot = req[r].snapshot /\ h.plan = req[r].plan
  PROVE  Quiet
<1>1. req \in [Requests -> Handlers]
  BY Zenon DEF PathInv, RequestsOK
<1>2. ASSUME NEW q \in Requests
      PROVE  /\ req'[q].step \in Routed => req'[q].snapshot \in Snapshots
             /\ req'[q].step \in Calling =>
                  /\ req[q].step \in Calling
                  /\ req'[q].snapshot = req[q].snapshot /\ req'[q].plan = req[q].plan
  <2>1. CASE q = r
    <3>1. req'[q] = h
      BY <1>1, <2>1
    <3> QED
      BY <2>1, <3>1, Zenon
  <2>2. CASE q # r
    <3>1. req'[q] = req[q]
      BY <1>1, <2>2
    <3> QED
      BY <3>1, Zenon DEF Snapshots, Routed, Admitted
  <2> QED
    BY <2>1, <2>2, Zenon
<1> QED
  BY <1>2, Zenon DEF Quiet

\* A handler without routes, or whose call has ended, is in no queue.
Elsewhere == {"limit", "plan", "finish", "emit", "done"}

\* A handler that goes to such a step enters no queue.
LEMMA ElsewhereQuiet ==
  ASSUME PathInv, NEW r \in Requests, NEW h, req' = [req EXCEPT ![r] = h], h.step \in Elsewhere
  PROVE  Quiet
<1>1. h.step \notin Routed /\ h.step \notin Calling
  BY DEF Elsewhere, Routed, Admitted, Calling
<1> QED
  BY <1>1, OneQuiet, Zenon

\* A handler that returns, with or without an outcome, gives back its slot.
LEMMA ReturnQuiet ==
  ASSUME PathInv, NEW r \in Requests,
         \/ \E code \in {"", "written"} : Return(r, code)
         \/ \E status, category, code : Finalize(r, status, category, code)
         \/ \E event : Set(r, [req[r] EXCEPT !.step = "finish", !.event = event])
         \/ \E event : Set(r, [req[r] EXCEPT !.step = "finish", !.cache = "bypass", !.event = event])
         \/ \E a, event : Set(r, [req[r] EXCEPT !.step = "finish", !.cache = "hit", !.made = a,
                                                !.event = event])
         \/ \E a, event : Set(r, [req[r] EXCEPT !.step = "finish", !.made = a, !.event = event])
         \/ \E step \in Elsewhere : GoTo(r, step)
  PROVE  Quiet
<1>1. req[r] \in Handlers
  BY HandlerOf, Zenon
<1>2. ASSUME NEW h, Set(r, h), h.step \in Elsewhere PROVE Quiet
  BY <1>2, ElsewhereQuiet, Zenon DEF Set
<1>3. "finish" \in Elsewhere
  BY Zenon DEF Elsewhere
<1>4. ASSUME NEW code, Return(r, code) PROVE Quiet
  <2> DEFINE n == [req[r] EXCEPT !.step = "finish", !.code = code]
  <2>1. Set(r, n) /\ n.step = "finish"
    BY <1>1, <1>4, Zenon DEF Return, Handlers
  <2> QED
    BY <1>2, <1>3, <2>1, Zenon
<1>5. ASSUME NEW event, Set(r, [req[r] EXCEPT !.step = "finish", !.event = event]) PROVE Quiet
  <2> DEFINE n == [req[r] EXCEPT !.step = "finish", !.event = event]
  <2>1. Set(r, n) /\ n.step = "finish"
    BY <1>1, <1>5, Zenon DEF Handlers
  <2> QED
    BY <1>2, <1>3, <2>1, Zenon
<1>6. ASSUME NEW event,
             Set(r, [req[r] EXCEPT !.step = "finish", !.cache = "bypass", !.event = event])
      PROVE  Quiet
  <2> DEFINE n == [req[r] EXCEPT !.step = "finish", !.cache = "bypass", !.event = event]
  <2>1. Set(r, n) /\ n.step = "finish"
    BY <1>1, <1>6, Zenon DEF Handlers
  <2> QED
    BY <1>2, <1>3, <2>1, Zenon
<1>7. ASSUME NEW a, NEW event, Set(r, [req[r] EXCEPT !.step = "finish", !.cache = "hit",
                                                     !.made = a, !.event = event])
      PROVE  Quiet
  <2> DEFINE n == [req[r] EXCEPT !.step = "finish", !.cache = "hit", !.made = a, !.event = event]
  <2>1. Set(r, n) /\ n.step = "finish"
    BY <1>1, <1>7, Zenon DEF Handlers
  <2> QED
    BY <1>2, <1>3, <2>1, Zenon
<1>8. ASSUME NEW a, NEW event, Set(r, [req[r] EXCEPT !.step = "finish", !.made = a, !.event = event])
      PROVE  Quiet
  <2> DEFINE n == [req[r] EXCEPT !.step = "finish", !.made = a, !.event = event]
  <2>1. Set(r, n) /\ n.step = "finish"
    BY <1>1, <1>8, Zenon DEF Handlers
  <2> QED
    BY <1>2, <1>3, <2>1, Zenon
<1>9. ASSUME NEW step \in Elsewhere, GoTo(r, step) PROVE Quiet
  <2> DEFINE n == [req[r] EXCEPT !.step = step]
  <2>1. Set(r, n) /\ n.step = step
    BY <1>1, <1>9, Zenon DEF GoTo, Handlers
  <2>2. n.step \in Elsewhere
    BY <1>9, <2>1, Zenon
  <2> QED
    BY <1>2, <2>1, <2>2, Zenon
<1> QED
  BY <1>4, <1>5, <1>6, <1>7, <1>8, <1>9, Zenon DEF Finalize

\* A handler whose snapshot is pinned keeps it until it returns, and enters a queue
\* by Acquire only.
LEMMA PinnedQuiet ==
  ASSUME PathInv, NEW r \in Requests, NEW h, req' = [req EXCEPT ![r] = h], req[r].step \in Routed,
         h.snapshot = req[r].snapshot, h.plan = req[r].plan,
         h.step \in Calling => req[r].step \in Calling
  PROVE  Quiet
<1>1. req[r].snapshot \in Snapshots
  BY Zenon DEF Snapshots
<1> QED
  BY <1>1, OneQuiet, Zenon

\* The steps before the routes are known.
LEMMA EarlyQuiet ==
  ASSUME PathInv, NEW r \in Requests,
         Reject(r) \/ (\E ask \in Asks : newUsageSession(r, ask)) \/ Allow(r)
  PROVE  Quiet
<1>1. CASE Reject(r)
  BY <1>1, ReturnQuiet, Zenon DEF Reject, Elsewhere
<1>2. CASE \E ask \in Asks : newUsageSession(r, ask)
  <2>1. req[r] \in Handlers
    BY HandlerOf, Zenon
  <2> DEFINE n(a) == [req[r] EXCEPT !.step = "limit", !.ask = a]
             m(a) == [req[r] EXCEPT !.step = "done", !.ask = a, !.lost = TRUE]
  <2>2. \E a \in Asks : req' = [req EXCEPT ![r] = n(a)] \/ req' = [req EXCEPT ![r] = m(a)]
    BY <1>2, Zenon DEF newUsageSession, Set
  <2>3. ASSUME NEW a \in Asks PROVE n(a).step = "limit" /\ m(a).step = "done"
    BY <2>1, Zenon DEF Handlers
  <2> HIDE DEF n, m
  <2>4. ASSUME NEW a \in Asks PROVE n(a).step \in Elsewhere /\ m(a).step \in Elsewhere
    BY <2>3 DEF Elsewhere
  <2> QED
    BY <2>2, <2>4, ElsewhereQuiet, Zenon
<1>3. CASE Allow(r)
  <2>1. (\E code \in {"", "written"} : Return(r, code)) \/ GoTo(r, "plan")
    BY <1>3, Zenon DEF Allow
  <2> QED
    BY <2>1, ReturnQuiet, Zenon DEF Elsewhere
<1> QED
  BY <1>1, <1>2, <1>3

\* PlanRoute pins the current snapshot.
LEMMA PlanRouteQuiet ==
  ASSUME PathInv, NEW r \in Requests, PlanRoute(r)
  PROVE  Quiet
<1> DEFINE n(plan) == [req[r] EXCEPT !.step = "reserve", !.snapshot = current, !.plan = plan]
<1>1. Return(r, "written") \/ \E plan : req' = [req EXCEPT ![r] = n(plan)]
  BY Zenon DEF PlanRoute, Set
<1>2. ASSUME NEW plan, req' = [req EXCEPT ![r] = n(plan)] PROVE Quiet
  <2>1. req[r] \in Handlers
    BY HandlerOf, Zenon
  <2>2. n(plan).step = "reserve" /\ n(plan).snapshot = current
    BY <2>1, Zenon DEF Handlers
  <2> HIDE DEF n
  <2>3. n(plan).step \notin Calling /\ n(plan).snapshot \in Snapshots
    BY <2>2 DEF Calling, Snapshots
  <2> QED
    BY <1>2, <2>3, OneQuiet, Zenon
<1> QED
  BY <1>1, <1>2, ReturnQuiet, Zenon

\* reserveQuota and Lookup keep what PlanRoute has pinned.
LEMMA WaitQuiet ==
  ASSUME PathInv, NEW r \in Requests, reserveQuota(r) \/ Lookup(r)
  PROVE  Quiet
<1> DEFINE step(s) == [req[r] EXCEPT !.step = s]
           reserved(s, p) == [req[r] EXCEPT !.step = s, !.attached = TRUE, !.policed = p]
           missed == [req[r] EXCEPT !.step = "queue", !.cache = "miss"]
<1>1. req[r] \in Handlers
  BY HandlerOf, Zenon
<1>2. req[r].step \in Routed
  BY Zenon DEF reserveQuota, Lookup, At, Routed, Admitted
<1>3. \/ \E code \in {"", "written"} : Return(r, code)
      \/ \E a, event : Set(r, [req[r] EXCEPT !.step = "finish", !.cache = "hit", !.made = a,
                                             !.event = event])
      \/ \E s \in {"lookup", "queue"} : req' = [req EXCEPT ![r] = step(s)]
      \/ \E s \in {"lookup", "queue"} : \E p : req' = [req EXCEPT ![r] = reserved(s, p)]
      \/ req' = [req EXCEPT ![r] = missed]
  BY Zenon DEF reserveQuota, Lookup, AfterReserve, Set, GoTo
<1>5. ASSUME NEW s \in {"lookup", "queue"}, req' = [req EXCEPT ![r] = step(s)] PROVE Quiet
  <2>1. step(s).step = s /\ step(s).snapshot = req[r].snapshot /\ step(s).plan = req[r].plan
    BY <1>1, Zenon DEF Handlers
  <2> HIDE DEF step
  <2>2. step(s).step \notin Calling
    BY <2>1 DEF Calling
  <2> QED
    BY <1>2, <1>5, <2>1, <2>2, PinnedQuiet, Zenon
<1>6. ASSUME NEW s \in {"lookup", "queue"}, NEW p, req' = [req EXCEPT ![r] = reserved(s, p)]
      PROVE  Quiet
  <2>1. /\ reserved(s, p).step = s /\ reserved(s, p).snapshot = req[r].snapshot
        /\ reserved(s, p).plan = req[r].plan
    BY <1>1, Zenon DEF Handlers
  <2> HIDE DEF reserved
  <2>2. reserved(s, p).step \notin Calling
    BY <2>1 DEF Calling
  <2> QED
    BY <1>2, <1>6, <2>1, <2>2, PinnedQuiet, Zenon
<1>7. CASE req' = [req EXCEPT ![r] = missed]
  <2>1. missed.step = "queue" /\ missed.snapshot = req[r].snapshot /\ missed.plan = req[r].plan
    BY <1>1, Zenon DEF Handlers
  <2> HIDE DEF missed
  <2>2. missed.step \notin Calling
    BY <2>1 DEF Calling
  <2> QED
    BY <1>2, <1>7, <2>1, <2>2, PinnedQuiet, Zenon
<1> HIDE DEF step, reserved, missed
<1> QED
  BY <1>3, <1>5, <1>6, <1>7, ReturnQuiet, Zenon

\* A call that goes on as a stream keeps its slot.
LEMMA ExecuteQuiet ==
  ASSUME PathInv, NEW r \in Requests, Execute(r)
  PROVE  Quiet
<1> DEFINE go(s, a) == [req[r] EXCEPT !.step = s, !.made = a]
<1>1. req[r] \in Handlers
  BY HandlerOf, Zenon
<1>2. /\ req[r].step = "execute"
      /\ \/ \E s \in {"store", "streaming"} : \E a : req' = [req EXCEPT ![r] = go(s, a)]
         \/ \E a, event : Set(r, [req[r] EXCEPT !.step = "finish", !.made = a, !.event = event])
  BY Zenon DEF Execute, At, Set
<1>3. req[r].step \in Routed /\ req[r].step \in Calling
  BY <1>2, Zenon DEF Routed, Admitted, Calling
<1>4. ASSUME NEW s \in {"store", "streaming"}, NEW a, req' = [req EXCEPT ![r] = go(s, a)]
      PROVE  Quiet
  <2>1. go(s, a).snapshot = req[r].snapshot /\ go(s, a).plan = req[r].plan
    BY <1>1, Zenon DEF Handlers
  <2> HIDE DEF go
  <2> QED
    BY <1>3, <1>4, <2>1, PinnedQuiet, Zenon
<1> HIDE DEF go
<1> QED
  BY <1>2, <1>4, ReturnQuiet, Zenon

\* The steps in which a handler returns, and those of its session.
LEMMA LateQuiet ==
  ASSUME PathInv, NEW r \in Requests,
         \/ Store(r) \/ Stream(r) \/ finish(r) \/ Emit(r)
         \/ \E category \in {"canceled", "upstream"} : ExecuteFails(r, category)
  PROVE  Quiet
<1>1. CASE Store(r)
  <2>1. \/ \E code \in {"", "written"} : Return(r, code)
        \/ \E status, category, code : Finalize(r, status, category, code)
        \/ \E event : Set(r, [req[r] EXCEPT !.step = "finish", !.event = event])
        \/ \E event : Set(r, [req[r] EXCEPT !.step = "finish", !.cache = "bypass", !.event = event])
    BY <1>1, Zenon DEF Store
  <2> QED
    BY <2>1, ReturnQuiet, Zenon
<1>2. CASE Stream(r)
  <2>1. \/ \E code \in {"", "written"} : Return(r, code)
        \/ \E status, category, code : Finalize(r, status, category, code)
    BY <1>2, Zenon DEF Stream
  <2> QED
    BY <2>1, ReturnQuiet, Zenon
<1>3. CASE \E category \in {"canceled", "upstream"} : ExecuteFails(r, category)
  <2>1. \E status, category, code : Finalize(r, status, category, code)
    BY <1>3, Zenon DEF ExecuteFails
  <2> QED
    BY <2>1, ReturnQuiet, Zenon
<1>4. CASE finish(r) \/ Emit(r)
  <2> DEFINE d == Done(r)
             n(c, e) == [d EXCEPT !.step = "emit", !.cache = c, !.event = e]
             m == [d EXCEPT !.lost = TRUE]
  <2>1. d \in Handlers /\ d.step = "done"
    <3>1. req[r].ask \in Asks
      BY HandlerOf, Zenon DEF Handlers
    <3> QED
      BY <3>1, DoneIs, Zenon
  <2>2. \/ \E c, e : req' = [req EXCEPT ![r] = n(c, e)]
        \/ req' = [req EXCEPT ![r] = d] \/ req' = [req EXCEPT ![r] = m]
    BY <1>4, Zenon DEF finish, Emit, ToEmit
  <2> HIDE DEF d
  <2>3. m.step = "done" /\ \A c, e : n(c, e).step = "emit"
    BY <2>1, Zenon DEF Handlers
  <2> HIDE DEF n, m
  <2>4. d.step \in Elsewhere /\ m.step \in Elsewhere /\ \A c, e : n(c, e).step \in Elsewhere
    BY <2>1, <2>3 DEF Elsewhere
  <2> QED
    BY <2>2, <2>4, ElsewhereQuiet, Zenon
<1> QED
  BY <1>1, <1>2, <1>3, <1>4

\* What happens beside the handlers: nobody enters a queue by it.
LEMMA BesideQuiet ==
  ASSUME PathInv,
         UNCHANGED req \/ \E r \in Requests : Cancel(r)
  PROVE  Quiet
<1>1. CASE UNCHANGED req
  BY <1>1, Zenon DEF Quiet, Snapshots
<1>2. ASSUME NEW r \in Requests, Cancel(r) PROVE Quiet
  <2> DEFINE n == [req[r] EXCEPT !.gone = TRUE]
  <2>1. req' = [req EXCEPT ![r] = n]
    BY <1>2, Zenon DEF Cancel, Set
  <2>2. n.step = req[r].step /\ n.snapshot = req[r].snapshot /\ n.plan = req[r].plan
    <3>1. req[r] \in Handlers
      BY HandlerOf, Zenon
    <3> QED
      BY <3>1, Zenon DEF Handlers
  <2> HIDE DEF n
  <2>3. CASE req[r].step \in Routed
    BY <2>1, <2>2, <2>3, PinnedQuiet, Zenon
  <2>4. CASE req[r].step \notin Routed
    <3>1. n.step \notin Routed /\ n.step \notin Calling
      BY <2>2, <2>4 DEF Routed, Admitted
    <3> QED
      BY <2>1, <3>1, OneQuiet, Zenon
  <2> QED
    BY <2>3, <2>4
<1> QED
  BY <1>1, <1>2

\* Acquire: a request enters a queue that has a slot left.
LEMMA AcquireSlots ==
  ASSUME PathInv, SlotsInv, NEW s \in Requests, Acquire(s)
  PROVE  SlotsInv'
<1> DEFINE n == [req[s] EXCEPT !.step = "execute"]
           Slots(r) == InFlight(First(r), req[r].snapshot.queues[First(r)])
<1>1. /\ req[s].step = "queue" /\ current' = current /\ raced' = raced
      /\ req' = [req EXCEPT ![s] = n] /\ Cardinality(Slots(s)) < MaxInFlight
  BY Zenon DEF Acquire, At, GoTo, Set, managerVars
<1>2. req \in [Requests -> Handlers] /\ req[s] \in Handlers
  BY HandlerOf, Zenon DEF PathInv, RequestsOK
<1>3. n.step = "execute" /\ n.snapshot = req[s].snapshot /\ n.plan = req[s].plan
  BY <1>2, Zenon DEF Handlers
<1> HIDE DEF n
<1>4. ASSUME NEW q \in Requests
      PROVE  /\ req'[q].snapshot = req[q].snapshot /\ req'[q].plan = req[q].plan
             /\ q # s => req'[q].step = req[q].step
             /\ req'[q].step \in Routed => req[q].step \in Routed
  <2>1. req[s].step \in Routed
    BY <1>1 DEF Routed, Admitted
  <2>2. CASE q = s
    <3>1. req'[q] = n
      BY <1>1, <1>2, <2>2
    <3> QED
      BY <1>3, <2>1, <2>2, <3>1, Zenon
  <2>3. CASE q # s
    <3>1. req'[q] = req[q]
      BY <1>1, <1>2, <2>3
    <3> QED
      BY <3>1, <2>3, Zenon
  <2> QED
    BY <2>2, <2>3
<1>5. Snapshots' \subseteq Snapshots
  <2>1. ASSUME NEW q \in Requests, req'[q].step \in Routed PROVE req'[q].snapshot \in Snapshots
    BY <1>4, <2>1, Zenon DEF Snapshots
  <2> QED
    BY <1>1, <2>1, Zenon DEF Snapshots
<1>6. raced' = FALSE => SnapshotsAgree'
  BY <1>1, <1>5, Zenon DEF SlotsInv, SnapshotsAgree
<1>7. ASSUME NEW r \in Requests, req'[r].step \in Calling
      PROVE  (Cardinality(Slots(r)) <= MaxInFlight)'
  <2>1. /\ Slots(r)' \subseteq Slots(r) \cup {s}
        /\ s \in Slots(r)' => First(s) = First(r)
             /\ req[s].snapshot.queues[First(r)] = req[r].snapshot.queues[First(r)]
    BY <1>4, Zenon DEF InFlight, First
  <2>2. Slots(r) \subseteq Requests /\ r \in Slots(r)'
    BY <1>7, Zenon DEF InFlight
  <2>3. CASE s \in Slots(r)'
    <3>1. Slots(s) = Slots(r)
      BY <2>1, <2>3, Zenon
    <3> HIDE DEF Slots
    <3>2. Cardinality(Slots(r)) < MaxInFlight
      BY <1>1, <3>1, Zenon
    <3> QED
      BY <2>1, <2>2, <3>2, OneMoreInFlight, RequestPathAssumption
  <2>4. CASE s \notin Slots(r)'
    <3>1. r # s /\ req[r].step \in Calling
      BY <1>4, <1>7, <2>2, <2>4, Zenon
    <3>2. Cardinality(Slots(r)) <= MaxInFlight
      BY <3>1, Zenon DEF SlotsInv, SlotsHeld
    <3> HIDE DEF Slots
    <3>3. Slots(r)' \subseteq Slots(r)
      BY <2>1, <2>4, Zenon
    <3> QED
      BY <2>2, <3>2, <3>3, FewerInFlight, RequestPathAssumption
  <2> QED
    BY <2>3, <2>4
<1>8. SlotsHeld'
  BY <1>7, Zenon DEF SlotsHeld
<1> QED
  BY <1>6, <1>8, Zenon DEF SlotsInv

\* What was configured alike since snapshot s has the queue of s in a snapshot that
\* takes over the queues of the current one.
LEMMA QueueReused ==
  ASSUME ManagerOK, SnapshotsAgree, NEW n \in Records, Reuses(n), current.version <= n.version,
         build(Definitions[n.version]),
         NEW s \in Snapshots, NEW p \in Providers, SameQueue(p, s.version, n.version)
  PROVE  s.queues[p] = n.queues[p]
<1> DEFINE c == current.version
           v == n.version
<1>1. s.version \in 1..c /\ build(Definitions[c]) /\ Agree(s, current)
  BY Zenon DEF SnapshotsAgree, Snapshots
<1>2. v \in Nat /\ c \in Nat
  BY DefinitionsAssumption DEF ManagerOK, SnapshotOK, Records
<1>3. s.version <= c /\ \A u \in s.version..c : u \in s.version..v
  BY <1>1, <1>2
<1>4. SameQueue(p, s.version, c)
  BY <1>3, Zenon DEF SameQueue
<1>5. s.queues[p] = current.queues[p]
  BY <1>1, <1>3, <1>4, Zenon DEF Agree
<1>6. v \in s.version..v /\ c \in s.version..v
  BY <1>1, <1>2
<1>7. /\ p \in DOMAIN Definitions[v].providers /\ p \in DOMAIN Definitions[c].providers
      /\ Definitions[v].providers[p].queue = Definitions[c].providers[p].queue
  BY <1>1, <1>6, Zenon DEF SameQueue
<1>8. n.queues[p] = current.queues[p]
  BY <1>7 DEF Reuses
<1> QED
  BY <1>5, <1>8

\* Such a snapshot shares the queues that did not change with every one before it.
LEMMA PublishedAgree ==
  ASSUME ManagerOK, SnapshotsAgree, NEW n \in Records, Reuses(n), current.version <= n.version,
         build(Definitions[n.version]), current' = n, req' = req
  PROVE  SnapshotsAgree'
<1> DEFINE c == current.version
           v == n.version
<1>1. v \in Nat /\ c \in Nat
  BY DefinitionsAssumption DEF ManagerOK, SnapshotOK, Records
<1>2. Snapshots' \subseteq Snapshots \cup {n}
  BY Zenon DEF Snapshots
<1>3. \A s \in Snapshots : s.version \in 1..c /\ build(Definitions[s.version])
  BY Zenon DEF SnapshotsAgree
<1>4. ASSUME NEW s \in Snapshots PROVE Agree(s, n) /\ Agree(n, s)
  <2>1. Agree(s, n)
    BY QueueReused, Zenon DEF Agree
  <2>2. v <= s.version => s.version = v
    BY <1>1, <1>3
  <2>3. Agree(n, s)
    BY <2>2, QueueReused, Zenon DEF Agree
  <2> QED
    BY <2>1, <2>3
<1>5. Agree(n, n)
  BY Zenon DEF Agree
<1>6. ASSUME NEW s \in Snapshots \cup {n}, NEW t \in Snapshots \cup {n} PROVE Agree(s, t)
  BY <1>4, <1>5, Zenon DEF SnapshotsAgree
<1>7. ASSUME NEW s \in Snapshots \cup {n} PROVE s.version \in 1..v /\ build(Definitions[s.version])
  <2>1. CASE s \in Snapshots
    BY <2>1, <1>1, <1>3
  <2>2. CASE s = n
    <3>1. c >= 1
      BY DefinitionsAssumption DEF ManagerOK, SnapshotOK, Records
    <3> QED
      BY <2>2, <3>1, <1>1
  <2> QED
    BY <2>1, <2>2
<1> QED
  BY <1>2, <1>6, <1>7, Zenon DEF SnapshotsAgree

\* The manager takes nobody's slot. It publishes a snapshot that was built from the
\* one it replaces, or the race is noted.
LEMMA ManagerSlots ==
  ASSUME PathInv, SlotsInv, Manager
  PROVE  SlotsInv'
<1>1. req' = req /\ ManagerOK
  BY Zenon DEF Manager, PathInv, SharedOK
<1>2. SlotsHeld'
  BY <1>1, Zenon DEF SlotsInv, SlotsHeld, InFlight, First
<1>3. CASE UNCHANGED <<current, raced>>
  <2>1. Snapshots' = Snapshots
    BY <1>1, <1>3, Zenon DEF Snapshots
  <2>2. raced' = FALSE => SnapshotsAgree'
    BY <1>3, <2>1, Zenon DEF SlotsInv, SnapshotsAgree
  <2> QED
    BY <1>2, <2>2, Zenon DEF SlotsInv
<1>4. ASSUME NEW p \in publications, ReplaceSnapshot(p), raced' = FALSE PROVE SnapshotsAgree'
  <2>1. current' = p.snapshot /\ p.step = "replace" /\ PublicationOK(p)
    BY <1>1, <1>4, Zenon DEF ReplaceSnapshot, ManagerOK
  <2>2. p.stale \in BOOLEAN /\ p.snapshot \in Records
    BY <2>1 DEF PublicationOK, PublicationRecords
  <2>3. raced = FALSE /\ p.stale = FALSE
    BY <1>1, <1>4, <2>2, Zenon DEF ReplaceSnapshot, ManagerOK
  <2>4. Reuses(p.snapshot) /\ current.version <= p.snapshot.version /\ build(Definitions[p.snapshot.version])
    BY <2>1, <2>3 DEF PublicationOK
  <2>5. SnapshotsAgree
    BY <2>3, Zenon DEF SlotsInv
  <2> QED
    BY <1>1, <2>1, <2>2, <2>4, <2>5, PublishedAgree, Zenon
<1>5. ASSUME NEW v \in DOMAIN Definitions, AtOnce(v), build(Definitions[v]), current.version <= v,
             raced' = FALSE
      PROVE  SnapshotsAgree'
  <2>1. /\ Built(v).version = v /\ Reuses(Built(v)) /\ Built(v) \in Records
    BY <1>1, <1>5, BuiltOK, Zenon
  <2>2. current' = Built(v) /\ raced = FALSE
    BY <1>5, Zenon DEF AtOnce
  <2>3. SnapshotsAgree
    BY <2>2, Zenon DEF SlotsInv
  <2> HIDE DEF Built
  <2> QED
    BY <1>1, <1>5, <2>1, <2>2, <2>3, PublishedAgree, Zenon
<1>6. \/ UNCHANGED <<current, raced>>
      \/ \E p \in publications : ReplaceSnapshot(p)
      \/ \E v \in DOMAIN Definitions : UpdateAtOnce(v)
      \/ ReloadAtOnce
  BY Zenon DEF Manager, UpdateElsewhere, UpdateRuntime, ReadActive, Publish, CommitRuntime,
     AbortRuntime, CompareView, BuildActive, SetView
<1>7. CASE \E p \in publications : ReplaceSnapshot(p)
  BY <1>2, <1>4, <1>7, Zenon DEF SlotsInv
<1>8. CASE \E v \in DOMAIN Definitions : UpdateAtOnce(v)
  <2>1. PICK v \in DOMAIN Definitions : UpdateAtOnce(v)
    BY <1>8
  <2>2. AtOnce(v) /\ build(Definitions[v]) /\ current.version <= v
    <3>1. AtOnce(v) /\ build(Definitions[v]) /\ v > active
      BY <2>1 DEF UpdateAtOnce, Storable
    <3>2. v \in Nat /\ active \in Nat /\ current.version \in Nat /\ current.version <= active
      BY <1>1, DefinitionsAssumption DEF ManagerOK, SnapshotOK, Records
    <3> QED
      BY <3>1, <3>2
  <2> QED
    BY <1>2, <1>5, <2>2, Zenon DEF SlotsInv
<1>9. CASE ReloadAtOnce
  <2>1. AtOnce(active) /\ build(Definitions[active]) /\ current.version <= active
        /\ active \in DOMAIN Definitions
    BY <1>1, <1>9, Zenon DEF ReloadAtOnce, ManagerOK
  <2> QED
    BY <1>2, <1>5, <2>1, Zenon DEF SlotsInv
<1> QED
  BY <1>3, <1>6, <1>7, <1>8, <1>9

\* A process that starts again has one snapshot, and nobody calls.
LEMMA CrashSlots ==
  ASSUME PathInv, SlotsInv, Crash
  PROVE  SlotsInv'
<1>1. ASSUME NEW r \in Requests PROVE req'[r].step \in {"idle", "done"}
  <2>1. req'[r] = IF Active(r) THEN [Done(r) EXCEPT !.lost = TRUE] ELSE req[r]
    BY DEF Crash
  <2>2. [Done(r) EXCEPT !.lost = TRUE].step = "done"
    <3>1. req[r].ask \in Asks
      BY HandlerOf, Zenon DEF Handlers
    <3>2. Done(r) \in Handlers /\ Done(r).step = "done"
      BY <3>1, DoneIs, Zenon
    <3> QED
      BY <3>2, Zenon DEF Handlers
  <2> QED
    BY <2>1, <2>2, Zenon DEF Active
<1>2. \A r \in Requests : req'[r].step \notin Routed /\ req'[r].step \notin Calling
  BY <1>1 DEF Routed, Admitted, Calling
<1>3. Snapshots' = {current'}
  BY <1>2, Zenon DEF Snapshots
<1>4. current'.version = active /\ current'.version \in 1..current'.version /\ build(Definitions[active])
  <2>1. current'.version = active
    BY DEF Crash, RestartManager, Loaded
  <2>2. active \in DOMAIN Definitions /\ build(Definitions[active])
    BY Zenon DEF PathInv, SharedOK, ManagerOK
  <2> QED
    BY <2>1, <2>2, DefinitionsAssumption
<1>5. Agree(current', current')
  BY Zenon DEF Agree
<1>6. SnapshotsAgree'
  BY <1>3, <1>4, <1>5, Zenon DEF SnapshotsAgree
<1> QED
  BY <1>2, <1>6, Zenon DEF SlotsInv, SlotsHeld

\* At the start there is one snapshot and nobody calls.
LEMMA InitSlots == Init => SlotsInv
<1> SUFFICES ASSUME Init PROVE SlotsInv
  OBVIOUS
<1>1. \A r \in Requests : req[r].step = "idle"
  BY NewFields, Zenon DEF Init
<1>2. \A r \in Requests : req[r].step \notin Routed /\ req[r].step \notin Calling
  BY <1>1 DEF Routed, Admitted, Calling
<1>3. Snapshots = {current}
  BY <1>2, Zenon DEF Snapshots
<1>4. current.version = 1 /\ build(Definitions[1])
  BY DefinitionsAssumption DEF Init, ManagerInit, Loaded, build
<1>5. SnapshotsAgree
  BY <1>3, <1>4 DEF SnapshotsAgree, Agree
<1> QED
  BY <1>2, <1>5, Zenon DEF SlotsInv, SlotsHeld

\* Every step keeps the slots.
LEMMA NextSlots == PathInv /\ SlotsInv /\ [Next]_pathVars => SlotsInv'
<1> SUFFICES ASSUME PathInv, SlotsInv, [Next]_pathVars PROVE SlotsInv'
  OBVIOUS
<1>1. CASE \E r \in Requests : Acquire(r)
  BY <1>1, AcquireSlots, Zenon
<1>2. CASE Manager \/ Crash
  BY <1>2, ManagerSlots, CrashSlots, Zenon
<1>3. ASSUME NEW r \in Requests,
             \/ Reject(r) \/ \E ask \in Asks : newUsageSession(r, ask)
             \/ Allow(r) \/ PlanRoute(r) \/ reserveQuota(r) \/ Lookup(r) \/ Execute(r)
             \/ Store(r) \/ Stream(r) \/ finish(r) \/ Emit(r)
             \/ \E category \in {"canceled", "upstream"} : ExecuteFails(r, category)
      PROVE  SlotsInv'
  <2>1. Quiet
    BY <1>3, EarlyQuiet, PlanRouteQuiet, WaitQuiet, ExecuteQuiet, LateQuiet, Zenon
  <2>2. UNCHANGED <<current, raced>>
    BY <1>3, Zenon DEF Reject, newUsageSession, Allow, PlanRoute, reserveQuota, Lookup, Execute,
       Store, Stream, finish, Emit, ExecuteFails, managerVars
  <2> QED
    BY <2>1, <2>2, QuietSlots, Zenon
<1>4. CASE \/ \E r \in Requests : RecoverAbandoned(r) \/ ReapExpired(r) \/ Cancel(r)
           \/ Policy
           \/ \E m \in Models : ExpireWindow(m)
           \/ \E e \in store : ExpireResponse(e)
           \/ UNCHANGED pathVars
  <2>1. UNCHANGED req \/ \E r \in Requests : Cancel(r)
    BY <1>4, Zenon DEF RecoverAbandoned, ReapExpired, Policy, ExpireWindow, ExpireResponse, pathVars
  <2>2. UNCHANGED <<current, raced>>
    BY <1>4, Zenon DEF RecoverAbandoned, ReapExpired, Cancel, Policy, ExpireWindow,
       ExpireResponse, pathVars, managerVars
  <2> QED
    BY <2>1, <2>2, BesideQuiet, QuietSlots, Zenon
<1> QED
  BY <1>1, <1>2, <1>3, <1>4, Zenon DEF Next, Handler

\* Requests of an old and of a new snapshot share the in-flight limit of a
\* provider whose queue did not change between the two (reuseProviderStates),
\* however many snapshots were published between them and however the updates and
\* reloads that publish them overlap, until the first of them that is replaced by
\* a snapshot that was not built from it.
THEOREM PathSlotsBounded == Spec => []SlotsBounded
<1>1. PathInv /\ SlotsInv => SlotsBounded
  <2> SUFFICES ASSUME PathInv, SlotsInv, ~raced, NEW r \in Requests, req[r].step \in Calling
               PROVE  Cardinality({q \in Requests :
                        /\ req[q].step \in Calling
                        /\ First(q) = First(r)
                        /\ req[q].snapshot.version <= req[r].snapshot.version
                        /\ SameQueue(First(r), req[q].snapshot.version, req[r].snapshot.version)})
                        <= MaxInFlight
    BY Zenon DEF SlotsBounded
  <2> DEFINE p == First(r)
             w == req[r].snapshot.version
             T == InFlight(p, req[r].snapshot.queues[p])
             S == {q \in Requests :
                     /\ req[q].step \in Calling
                     /\ First(q) = p
                     /\ req[q].snapshot.version <= w
                     /\ SameQueue(p, req[q].snapshot.version, w)}
  <2>1. SnapshotsAgree /\ \A q \in Requests : req[q].step \in Calling => req[q].snapshot \in Snapshots
    <3>1. raced = FALSE
      BY Zenon DEF PathInv, SharedOK, ManagerOK
    <3>2. \A q \in Requests : req[q].step \in Calling => req[q].snapshot \in Snapshots
      BY Zenon DEF Snapshots, Routed, Admitted
    <3> QED
      BY <3>1, <3>2, Zenon DEF SlotsInv
  <2>2. w \in DOMAIN Definitions /\ build(Definitions[w]) /\ w \in Nat
    <3>1. w \in 1..current.version /\ build(Definitions[w])
      BY <2>1, Zenon DEF SlotsInv, SnapshotsAgree
    <3>2. current.version \in 1..Len(Definitions) /\ DOMAIN Definitions = 1..Len(Definitions)
          /\ Len(Definitions) \in Nat
      BY DefinitionsAssumption DEF PathInv, SharedOK, ManagerOK, SnapshotOK, Records
    <3> QED
      BY <3>1, <3>2
  <2>3. ASSUME NEW q \in S PROVE q \in T
    <3>1. q \in Requests /\ req[q].step \in Calling /\ First(q) = p /\ req[q].snapshot.version <= w
          /\ SameQueue(p, req[q].snapshot.version, w)
      OBVIOUS
    <3>2. Agree(req[q].snapshot, req[r].snapshot) /\ req[q].snapshot.version \in 1..current.version
      BY <2>1, <3>1, Zenon DEF SlotsInv, SnapshotsAgree
    <3>3. w \in req[q].snapshot.version..w
      BY <2>2, <3>1, <3>2, HandlerOf
    <3>4. p \in DOMAIN Definitions[w].providers
      BY <2>2, <3>1, <3>3, Zenon DEF SameQueue
    <3>5. p \in Providers
      BY <2>2, <3>4, Zenon DEF Providers
    <3>6. req[q].snapshot.queues[p] = req[r].snapshot.queues[p]
      BY <3>1, <3>2, <3>5, Zenon DEF Agree
    <3> QED
      BY <3>1, <3>6, Zenon DEF InFlight
  <2>4. Cardinality(T) <= MaxInFlight /\ T \subseteq Requests
    BY Zenon DEF SlotsInv, SlotsHeld, InFlight
  <2> HIDE DEF S, T
  <2>5. Cardinality(S) <= MaxInFlight
    BY <2>3, <2>4, FewerInFlight, RequestPathAssumption
  <2> QED
    BY <2>5, Zenon DEF S
<1> QED
  BY <1>1, PathInvariant, InitSlots, NextSlots, PTL DEF Spec
=============================================================================
