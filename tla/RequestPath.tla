----------------------------- MODULE RequestPath -----------------------------
(***************************************************************************)
(* A request from authentication to its last database write: the handlers  *)
(* of internal/httpapi (chat.go complete and stream, embeddings.go create, *)
(* usage.go), the rate limiter, the response cache, the route plan, the    *)
(* quota reservation, the call of the provider and the usage event, while  *)
(* routes and policies change and the client may go away at any moment.    *)
(*                                                                         *)
(* One tenant, one API process.  A request asks [kind, model, needs]; two  *)
(* requests that ask the same have the same body.  A call of the provider  *)
(* is one step here (Orchestrator.tla has its attempts), and so is the     *)
(* quota transaction (QuotaLedger.tla) and the write of an outbox row      *)
(* (UsagePipeline.tla).  Whatever does not go smoothly, and every change   *)
(* of the configuration, takes one of MaxDisturbances.                     *)
(***************************************************************************)
EXTENDS SnapshotManager, PolicyIndex

CONSTANTS
  NumRequests,
  Asks,             \* [kind, model, needs]
  Limit,            \* requests of a tenant for a model in a window
  MaxInFlight,      \* of every provider queue
  MaxDisturbances   \* bound on failures, cancellations and changes

ASSUME RequestPathAssumption ==
  /\ Limit \in Nat \ {0} /\ MaxInFlight \in Nat \ {0}
  /\ NumRequests \in Nat /\ MaxDisturbances \in Nat
  /\ Asks # {} /\ \A a \in Asks : a.kind \in {"chat", "stream", "embedding"}

VARIABLES
  window,      \* the limiter's counter in Redis, by model; 0: no key
  admitted,    \* requests let through since the key was set
  store,       \* the response cache: a set of [version, ask, made]
  req,         \* the handler of each request
  outbox,      \* its row of usage_outbox
  reservation, \* its rows of quota_reservations
  disturbances

pathVars ==
  <<window, admitted, store, req, outbox, reservation, disturbances, managerVars, policyVars>>

\* Requests are numbered in the order in which they arrive.
Requests == 1..NumRequests

Models == {a.model : a \in Asks}
Steps == {"idle", "limit", "plan", "reserve", "lookup", "queue", "execute", "store",
          "streaming", "finish", "emit", "done"}

\* The handler holds a provider's queue slot.
Calling == {"execute", "streaming"}

\* Nothing of the provider's answer is used before these steps.
Admitted == {"lookup", "queue", "store"} \cup Calling

NoEvent == [status |-> "", category |-> "", code |-> ""]
Nobody == [version |-> 0, provider |-> ""]

\* gone: the client's context has ended; snapshot, plan: what the request has
\* pinned; policed: a policy applied when the quota was asked; made: by whom
\* the answer was made; lost: the event could not be written.
New == [step |-> "idle", ask |-> CHOOSE a \in Asks : TRUE, gone |-> FALSE,
        snapshot |-> [version |-> 0, queues |-> <<>>], plan |-> <<>>,
        cache |-> "bypass", made |-> Nobody, policed |-> FALSE, attached |-> FALSE,
        code |-> "", event |-> NoEvent, lost |-> FALSE]

Init ==
  /\ window = [m \in Models |-> 0]
  /\ admitted = [m \in Models |-> 0]
  /\ store = {}
  /\ req = [r \in Requests |-> New]
  /\ outbox = [r \in Requests |-> "none"]
  /\ reservation = [r \in Requests |-> "none"]
  /\ disturbances = 0
  /\ ManagerInit /\ PolicyInit

Disturbs(n) ==
  /\ disturbances + n <= MaxDisturbances
  /\ disturbances' = disturbances + n

Disturb == Disturbs(1)

Smooth == UNCHANGED disturbances

At(r, step) == req[r].step = step

Set(r, handler) == req' = [req EXCEPT ![r] = handler]

GoTo(r, step) == Set(r, [req[r] EXCEPT !.step = step])

\* The handler returns without an outcome; code tells whether it wrote an API
\* error, which has a code.
Return(r, code) == Set(r, [req[r] EXCEPT !.step = "finish", !.code = code])

\* usageSession.finalize, and the handler returns.
Outcome(status, category, code) == [status |-> status, category |-> category, code |-> code]

Finalize(r, status, category, code) ==
  Set(r, [req[r] EXCEPT !.step = "finish", !.event = Outcome(status, category, code)])

Done(r) == [New EXCEPT !.step = "done", !.ask = req[r].ask]

First(r) == req[r].plan[1].provider

-----------------------------------------------------------------------------
(* The handler *)

\* The checks before the session: content type, size, JSON, fields, identity.
Arrives(r) == At(r, "idle") /\ \A q \in 1..(r - 1) : ~At(q, "idle")

Reject(r) ==
  /\ Arrives(r)
  /\ Disturb
  /\ GoTo(r, "done")
  /\ UNCHANGED <<managerVars, window, admitted, store, outbox, reservation, policyVars>>

\* newUsageSession writes the pending row, or fails, and then the row may be there.
newUsageSession(r, ask) ==
  /\ Arrives(r)
  /\ \/ Smooth /\ outbox' = [outbox EXCEPT ![r] = "pending"]
        /\ Set(r, [req[r] EXCEPT !.step = "limit", !.ask = ask])
     \/ Disturb /\ outbox' \in {outbox, [outbox EXCEPT ![r] = "pending"]}
        /\ Set(r, [req[r] EXCEPT !.step = "done", !.ask = ask, !.lost = TRUE])
  /\ UNCHANGED <<managerVars, window, admitted, store, reservation, policyVars>>

\* The script: one atomic step of Redis.
ScriptAllows(used) == used < Limit

\* AuthorizeModel and Allow; both return the error of the client's context.
Allow(r) ==
  LET m == req[r].ask.model IN
  /\ At(r, "limit")
  /\ \/ req[r].gone /\ Return(r, "") /\ Smooth /\ UNCHANGED <<window, admitted>>
     \/ /\ ~req[r].gone /\ ScriptAllows(window[m]) /\ GoTo(r, "plan") /\ Smooth
        /\ window' = [window EXCEPT ![m] = @ + 1]
        /\ admitted' = [admitted EXCEPT ![m] = @ + 1]
     \/ /\ ~req[r].gone /\ ~ScriptAllows(window[m]) /\ Return(r, "written") /\ Smooth
        /\ UNCHANGED <<window, admitted>>
     \/ \* the model is not allowed; or Redis fails, and the limiter fails open or closed
        /\ ~req[r].gone /\ Disturb /\ UNCHANGED <<window, admitted>>
        /\ (GoTo(r, "plan") \/ Return(r, "written"))
  /\ UNCHANGED <<managerVars, store, outbox, reservation, policyVars>>

\* Current pins the snapshot, WithRouteVersion its cache namespace.
PlanRoute(r) ==
  /\ At(r, "plan")
  /\ LET d    == Definitions[current.version]
         plan == Plan(d, req[r].ask.model, req[r].ask.needs)
     IN  IF plan.err # "" \/ (req[r].ask.kind = "embedding" /\ EmbeddingRegistry(d) = {})
           THEN Return(r, "written")
           ELSE Set(r, [req[r] EXCEPT !.step = "reserve", !.snapshot = current,
                                      !.plan = plan.candidates])
  /\ Smooth
  /\ UNCHANGED <<managerVars, window, admitted, store, outbox, reservation, policyVars>>

AfterReserve(r) == IF req[r].ask.kind = "stream" THEN "queue" ELSE "lookup"

\* Mutant of reserveQuota: a quota that cannot be asked does not stop the request.
ReserveQuotaOpen(r) ==
  /\ At(r, "reserve")
  /\ \/ ~HasPolicy /\ GoTo(r, AfterReserve(r)) /\ Smooth /\ UNCHANGED reservation
     \/ /\ HasPolicy /\ ~req[r].gone /\ Smooth
        /\ Set(r, [req[r] EXCEPT !.step = AfterReserve(r), !.attached = TRUE,
                                 !.policed = Enabled(row)])
        /\ reservation' = [reservation EXCEPT ![r] = IF Enabled(row) THEN "held" ELSE "none"]
     \/ /\ HasPolicy /\ Disturb
        /\ Set(r, [req[r] EXCEPT !.step = AfterReserve(r), !.policed = Enabled(row)])
        /\ UNCHANGED reservation
  /\ UNCHANGED <<managerVars, window, admitted, store, outbox, policyVars>>

\* Reserve finds the policies that are enabled now.  When it fails it may have
\* committed, and a client that has gone is told so all the same.
reserveQuota(r) ==
  /\ At(r, "reserve")
  /\ \/ ~HasPolicy /\ GoTo(r, AfterReserve(r)) /\ Smooth /\ UNCHANGED reservation
     \/ /\ HasPolicy /\ ~req[r].gone /\ Smooth
        /\ Set(r, [req[r] EXCEPT !.step = AfterReserve(r), !.attached = TRUE,
                                 !.policed = Enabled(row)])
        /\ reservation' = [reservation EXCEPT ![r] = IF Enabled(row) THEN "held" ELSE "none"]
     \/ HasPolicy /\ req[r].gone /\ Return(r, "written") /\ Smooth /\ UNCHANGED reservation
     \/ HasPolicy /\ Enabled(row) /\ Return(r, "written") /\ Disturb /\ UNCHANGED reservation
     \/ /\ HasPolicy /\ Disturb /\ Return(r, "written")
        /\ reservation' \in {reservation} \cup
             (IF Enabled(row) THEN {[reservation EXCEPT ![r] = "held"]} ELSE {})
  /\ UNCHANGED <<managerVars, window, admitted, store, outbox, policyVars>>

-----------------------------------------------------------------------------
(* The response cache *)

\* Mutant of routeVersionFromContext: the version in force now.
RouteVersionNow(r) == current.version

routeVersionFromContext(r) == req[r].snapshot.version

Key(r) == [version |-> routeVersionFromContext(r), ask |-> req[r].ask]

Cached(r) == {e \in store : e.version = Key(r).version /\ e.ask = Key(r).ask}

\* encodeProtocolResponse can fail for clients of the other two chat APIs.
Encoded(r, status) ==
  {Outcome(status, "", "")} \cup
  (IF req[r].ask.kind = "chat" THEN {Outcome("failed", "gateway", "written")} ELSE {})

EncodingStep(event) == IF event.status = "failed" THEN Disturb ELSE Smooth

Lookup(r) ==
  /\ At(r, "lookup")
  /\ \/ req[r].gone /\ Return(r, "") /\ Smooth
     \/ /\ ~req[r].gone /\ Cached(r) = {} /\ Smooth
        /\ Set(r, [req[r] EXCEPT !.step = "queue", !.cache = "miss"])
     \/ \E e \in Cached(r), event \in Encoded(r, "cache_hit") :
          /\ ~req[r].gone /\ EncodingStep(event)
          /\ Set(r, [req[r] EXCEPT !.step = "finish", !.cache = "hit", !.made = e.made,
                                   !.event = event])
     \/ Disturb /\ GoTo(r, "queue")   \* no-store, which does not look at the client; or Redis fails
  /\ UNCHANGED <<managerVars, window, admitted, store, outbox, reservation, policyVars>>

\* Store, and the answer to the client.  The chat handler returns when the
\* client has gone, the embedding handler goes on.
Store(r) ==
  /\ At(r, "store")
  /\ \/ /\ req[r].gone /\ Smooth /\ UNCHANGED store
        /\ IF req[r].ask.kind = "chat" THEN Return(r, "") ELSE Finalize(r, "success", "", "")
     \/ \E event \in Encoded(r, "success") :
          /\ ~req[r].gone /\ EncodingStep(event)
          /\ Set(r, [req[r] EXCEPT !.step = "finish", !.event = event])
          /\ store' = (store \ Cached(r)) \cup
               {[version |-> Key(r).version, ask |-> req[r].ask, made |-> req[r].made]}
     \/ /\ ~req[r].gone /\ Disturb /\ UNCHANGED store
        /\ Set(r, [req[r] EXCEPT !.step = "finish", !.cache = "bypass",
                                 !.event = Outcome("success", "", "")])
  /\ UNCHANGED <<managerVars, window, admitted, outbox, reservation, policyVars>>

-----------------------------------------------------------------------------
(* The provider *)

\* The requests in the same queue object of the provider.
InFlight(p, queue) ==
  {q \in Requests : req[q].step \in Calling /\ First(q) = p /\ req[q].snapshot.queues[p] = queue}

Acquire(r) ==
  /\ At(r, "queue")
  /\ Cardinality(InFlight(First(r), req[r].snapshot.queues[First(r)])) < MaxInFlight
  /\ GoTo(r, "execute")
  /\ Smooth
  /\ UNCHANGED <<managerVars, window, admitted, store, outbox, reservation, policyVars>>

Stores(r, fallbacks) == req[r].cache = "miss" /\ ~fallbacks

\* A later candidate may have answered (Fallbacks > 0).
Execute(r) ==
  /\ At(r, "execute")
  /\ \E i \in DOMAIN req[r].plan :
       LET made  == [version |-> req[r].snapshot.version,
                     provider |-> req[r].plan[i].provider]
       IN  \/ /\ req[r].ask.kind = "stream" \/ Stores(r, i # 1)
              /\ IF i = 1 THEN Smooth ELSE Disturb
              /\ Set(r, [req[r] EXCEPT !.step = IF Stores(r, i # 1) THEN "store" ELSE "streaming",
                                       !.made = made])
           \/ /\ req[r].ask.kind # "stream" /\ ~Stores(r, i # 1)
              /\ \E event \in Encoded(r, "success") :
                   /\ IF i = 1 THEN EncodingStep(event) ELSE Disturb
                   /\ Set(r, [req[r] EXCEPT !.step = "finish", !.made = made, !.event = event])
  /\ UNCHANGED <<managerVars, window, admitted, store, outbox, reservation, policyVars>>

\* Mutant of ExecuteFails: no handler has a code of its own.
ExecuteFailsWithoutCode(r, category) ==
  /\ req[r].step \in {"queue", "execute"}
  /\ IF category = "canceled" /\ req[r].gone THEN Smooth ELSE Disturb
  /\ Finalize(r, IF category = "canceled" THEN "canceled" ELSE "failed", category,
              IF category = "canceled" /\ req[r].gone THEN "" ELSE "written")
  /\ UNCHANGED <<managerVars, window, admitted, store, outbox, reservation, policyVars>>

\* Execute or OpenStream fail.  writeReliabilityError writes nothing when the
\* category is canceled and the client has gone; only the chat handler then has
\* a code of its own.
ExecuteFails(r, category) ==
  /\ req[r].step \in {"queue", "execute"}
  /\ IF category = "canceled" /\ req[r].gone THEN Smooth ELSE Disturb
  /\ LET silent == category = "canceled" /\ req[r].gone IN
     Finalize(r, IF category = "canceled" THEN "canceled" ELSE "failed", category,
              IF silent /\ req[r].ask.kind = "embedding" THEN "" ELSE "written")
  /\ UNCHANGED <<managerVars, window, admitted, store, outbox, reservation, policyVars>>

\* chat.go stream.  The connection cannot stream; then, after the first event,
\* the client has gone, a write or the provider fails, or the last event is
\* written.  FinishError says nothing when the stream was finished already.
Stream(r) ==
  /\ req[r].ask.kind = "stream"
  /\ \/ At(r, "queue") /\ Return(r, "written") /\ Disturb
     \/ /\ At(r, "streaming")
        /\ \/ Finalize(r, "stream_completed", "", "") /\ Smooth
           \/ /\ req[r].gone /\ Smooth
              /\ \E category \in {"client", "canceled"} : Finalize(r, "canceled", category, "written")
           \/ Finalize(r, "failed", "gateway", "written") /\ Disturb
           \/ Finalize(r, "stream_interrupted", "client_write", "written") /\ Disturb
           \/ Finalize(r, "stream_interrupted", "upstream", "written") /\ Disturb
           \/ Return(r, "") /\ Disturb
  /\ UNCHANGED <<managerVars, window, admitted, store, outbox, reservation, policyVars>>

-----------------------------------------------------------------------------
(* The usage session *)

\* finish: an outcome for a handler that has none, with a code in any case.
Final(r) ==
  CASE req[r].event # NoEvent -> req[r].event
    [] req[r].event = NoEvent /\ req[r].gone -> Outcome("canceled", "client", "written")
    [] OTHER -> Outcome("failed", "gateway", "written")

\* The session's last step knows the event and what Validate looks at.
ToEmit(r) == [Done(r) EXCEPT !.step = "emit", !.cache = req[r].cache, !.event = Final(r)]

Settled(r) ==
  IF req[r].attached /\ reservation[r] = "held"
    THEN [reservation EXCEPT ![r] = "ended"] ELSE reservation

\* Mutant of finish: a settlement that fails ends the session.
FinishSettleOrReturn(r) ==
  /\ At(r, "finish")
  /\ \/ /\ Smooth /\ reservation' = Settled(r)
        /\ req' = [req EXCEPT ![r] = ToEmit(r)]
     \/ /\ Settled(r) # reservation /\ Disturb /\ UNCHANGED reservation
        /\ req' = [req EXCEPT ![r] = Done(r)]
  /\ UNCHANGED <<managerVars, window, admitted, store, outbox, policyVars>>

\* finish up to Settle, which may fail (when it does it may have committed).
finish(r) ==
  /\ At(r, "finish")
  /\ req' = [req EXCEPT ![r] = ToEmit(r)]
  /\ \/ Smooth /\ reservation' = Settled(r)
     \/ Settled(r) # reservation /\ Disturb /\ UNCHANGED reservation
  /\ UNCHANGED <<managerVars, window, admitted, store, outbox, policyVars>>

FailedStatuses == {"failed", "canceled", "stream_interrupted"}

\* Event.Validate, for the status, the cache and the codes.  Its checks of ids,
\* lengths and counts (event.go:205-223) have no counterpart: those fields are
\* not in the model.
Validate(r) ==
  LET e == req[r].event IN
  /\ e.status = "cache_hit" <=> req[r].cache = "hit"
  /\ e.status = "cache_hit" => req[r].ask.kind # "stream"
  /\ e.status \in {"stream_completed", "stream_interrupted"} => req[r].ask.kind = "stream"
  /\ e.status \in FailedStatuses => e.category # "" /\ e.code # ""

\* Marshal validates; then the write of the row, which may fail and may be done.
\* writeReady replaces whatever the row holds (ON CONFLICT DO UPDATE).
Emit(r) ==
  /\ At(r, "emit")
  /\ \/ /\ ~Validate(r) /\ Smooth /\ UNCHANGED outbox
        /\ req' = [req EXCEPT ![r] = [Done(r) EXCEPT !.lost = TRUE]]
     \/ /\ Validate(r) /\ Smooth /\ outbox' = [outbox EXCEPT ![r] = "ready"]
        /\ req' = [req EXCEPT ![r] = Done(r)]
     \/ /\ Validate(r) /\ Disturb /\ outbox' \in {outbox, [outbox EXCEPT ![r] = "ready"]}
        /\ req' = [req EXCEPT ![r] = [Done(r) EXCEPT !.lost = TRUE]]
  /\ UNCHANGED <<managerVars, window, admitted, store, reservation, policyVars>>

-----------------------------------------------------------------------------
(* Beside the handlers *)

\* A request that outlasts the timeout of its row, or the lifetime of its
\* reservation, is one more disturbance.
Overdue(r) == IF At(r, "done") THEN Smooth ELSE Disturb

\* RecoverAbandoned: rows that stayed pending for PendingTimeout, whether or not
\* their handlers are still at work.
RecoverAbandoned(r) ==
  /\ outbox[r] = "pending" /\ Overdue(r)
  /\ outbox' = [outbox EXCEPT ![r] = "interrupted"]
  /\ UNCHANGED <<managerVars, window, admitted, store, req, reservation, policyVars>>

\* Mutant of ReapExpired: only reservations whose usage is known are released.
ReapAccounted(r) ==
  /\ reservation[r] = "held" /\ Overdue(r) /\ outbox[r] = "ready"
  /\ reservation' = [reservation EXCEPT ![r] = "ended"]
  /\ UNCHANGED <<managerVars, window, admitted, store, req, outbox, policyVars>>

\* ReapExpired: reservations that stayed for their lifetime.
ReapExpired(r) ==
  /\ reservation[r] = "held" /\ Overdue(r)
  /\ reservation' = [reservation EXCEPT ![r] = "ended"]
  /\ UNCHANGED <<managerVars, window, admitted, store, req, outbox, policyVars>>

Active(r) == req[r].step \notin {"idle", "done"}

Cancel(r) ==
  /\ Active(r) /\ ~req[r].gone
  /\ Disturb
  /\ Set(r, [req[r] EXCEPT !.gone = TRUE])
  /\ UNCHANGED <<managerVars, window, admitted, store, outbox, reservation, policyVars>>

\* The process dies; the next one loads the routes and the policies before it serves.
Crash ==
  /\ \E r \in Requests : Active(r)
  /\ Disturb
  /\ req' = [r \in Requests |-> IF Active(r) THEN [Done(r) EXCEPT !.lost = TRUE] ELSE req[r]]
  /\ index' = row /\ puts' = {} /\ loaded' = NotLoading
  /\ RestartManager
  /\ UNCHANGED <<window, admitted, store, outbox, reservation, row>>

ExpireWindow(m) ==
  /\ window[m] > 0
  /\ Disturb
  /\ window' = [window EXCEPT ![m] = 0]
  /\ admitted' = [admitted EXCEPT ![m] = 0]
  /\ UNCHANGED <<managerVars, store, req, outbox, reservation, policyVars>>

ExpireResponse(e) ==
  /\ Disturb
  /\ store' = store \ {e}
  /\ UNCHANGED <<managerVars, window, admitted, req, outbox, reservation, policyVars>>

\* An update is a disturbance, and so is a publication that takes its time.
Manager ==
  /\ \/ \E v \in DOMAIN Definitions :
          \/ Disturb /\ (UpdateAtOnce(v) \/ UpdateElsewhere(v))
          \/ Disturbs(2) /\ UpdateRuntime(v)
     \/ Disturb /\ ReadActive
     \/ Smooth /\ (ReloadAtOnce \/ Publish)
  /\ UNCHANGED <<window, admitted, store, req, outbox, reservation, policyVars>>

Policy ==
  /\ \/ \E here \in BOOLEAN : CommitPolicy(here) /\ Disturb
     \/ \E v \in puts : Put(v) /\ Smooth
     \/ LoadPolicyIndex /\ Disturb
     \/ Replace /\ Smooth
     \/ Refresh /\ Smooth
  /\ UNCHANGED <<managerVars, window, admitted, store, req, outbox, reservation>>

\* What the goroutine of the handler does.
Handler(r) ==
  \/ Allow(r) \/ PlanRoute(r) \/ reserveQuota(r) \/ Lookup(r) \/ Acquire(r)
  \/ Execute(r) \/ Store(r) \/ Stream(r) \/ finish(r) \/ Emit(r)
  \/ \E category \in {"canceled", "upstream"} : ExecuteFails(r, category)

Next ==
  \/ \E r \in Requests :
       \/ Reject(r) \/ \E ask \in Asks : newUsageSession(r, ask)
       \/ Handler(r)
       \/ RecoverAbandoned(r) \/ ReapExpired(r) \/ Cancel(r)
  \/ Crash \/ Manager \/ Policy
  \/ \E m \in Models : ExpireWindow(m)
  \/ \E e \in store : ExpireResponse(e)

\* What goes on by itself: every call of a handler has a deadline, and the
\* relay, the reaper and the refresh run on tickers.
Progress ==
  \/ \E r \in Requests : RecoverAbandoned(r) \/ ReapExpired(r) \/ Handler(r)
  \/ Policy /\ row' = row

\* Each of these can be done only so often in a row, so it is enough that they
\* do not all stop; in particular nothing is assumed of one request's handler
\* while others run.
Spec == Init /\ [][Next]_pathVars /\ WF_pathVars(Progress)

-----------------------------------------------------------------------------
(* Properties *)

\* Every variable has its type.
TypeOK ==
  /\ ManagerTypeOK
  /\ window \in [Models -> Nat] /\ admitted \in [Models -> Nat]
  /\ \A e \in store : e.version \in DOMAIN Definitions /\ e.ask \in Asks
  /\ \A r \in Requests :
       /\ req[r].step \in Steps /\ req[r].ask \in Asks
       /\ req[r].snapshot.version \in {0} \cup DOMAIN Definitions
       /\ req[r].cache \in {"hit", "miss", "bypass"}
       /\ {req[r].gone, req[r].policed, req[r].attached, req[r].lost} \subseteq BOOLEAN
  /\ outbox \in [Requests -> {"none", "pending", "ready", "interrupted"}]
  /\ reservation \in [Requests -> {"none", "held", "ended"}]
  /\ disturbances \in 0..MaxDisturbances
  /\ PolicyTypeOK

\* "A hot route change therefore cannot mix old responses into the new cache
\* namespace" (responsecache/cache.go WithRouteVersion), in either direction: a
\* cached answer was made by the provider this request would have asked first,
\* under the routes it has pinned.
CachedAnswersMatch ==
  \A r \in Requests : At(r, "finish") /\ req[r].cache = "hit" =>
    req[r].made = [version |-> req[r].snapshot.version, provider |-> First(r)]

\* Between two expiries of its window a model gets at most Limit requests of
\* the tenant through the limiter, those let through without Redis apart.
WindowBound == \A m \in Models : admitted[m] <= Limit

\* A request is past the quota only with its pending usage row written and, if
\* a policy applied to it, with a reservation that Reserve made.
CallIsAccounted ==
  \A r \in Requests : req[r].step \in Admitted =>
    /\ outbox[r] # "none"
    /\ req[r].policed => req[r].attached /\ reservation[r] # "none"

\* The queue of the provider is configured alike in all versions from v to w.
SameQueue(p, v, w) ==
  \A u \in v..w : build(Definitions[u]) =>
    /\ p \in DOMAIN Definitions[u].providers
    /\ Definitions[u].providers[p].queue = Definitions[v].providers[p].queue

\* "ReuseProvider keeps in-flight leases and waiting requests coordinated across
\* runtime snapshots when the provider queue configuration is unchanged"
\* (reliability/queue.go): requests of an old and of a new snapshot share the
\* in-flight limit of a provider whose queue did not change between the two,
\* unless a snapshot was published over one that it was not built from.  Two
\* overlapping builds can each make a queue for the same configuration.
SlotsBounded ==
  ~raced => \A r \in Requests : req[r].step \in Calling =>
    Cardinality({q \in Requests :
      /\ req[q].step \in Calling
      /\ First(q) = First(r)
      /\ req[q].snapshot.version <= req[r].snapshot.version
      /\ SameQueue(First(r), req[q].snapshot.version, req[r].snapshot.version)}) <= MaxInFlight

\* The handlers finalise events that Validate accepts, whatever fails, with two
\* exceptions: a cached chat answer that cannot be encoded for the client (its
\* cache status stays "hit" with a failed outcome), and an embedding whose
\* client left during the call (canceled without an error code).
EventsValid ==
  \A r \in Requests : At(r, "emit") =>
    (Validate(r) <=> /\ ~(req[r].cache = "hit" /\ req[r].event.status = "failed")
                     /\ ~(req[r].ask.kind = "embedding" /\ req[r].event.category = "canceled"
                          /\ req[r].event.code = ""))

\* A request that has returned leaves its own event in the row unless its process
\* died, the event was not valid or the database failed while the row was
\* written: neither a failure of any other part, nor a recovery of abandoned rows
\* that comes while the handler is at work, leaves "interrupted" behind.
OwnEventKept ==
  \A r \in Requests : outbox[r] = "interrupted" /\ At(r, "done") => req[r].lost

\* Whatever fails, no usage row stays pending and no reservation stays held.
EverythingEnds ==
  (\E r \in Requests : outbox[r] = "pending" \/ reservation[r] = "held")
    ~> (\A r \in Requests : outbox[r] # "pending" /\ reservation[r] # "held")

\* Once the policy no longer changes, the index of the process agrees with the
\* table for good, in whatever order Put and the refresh wrote it before.
PolicyConverges == <>[](index = row)
=============================================================================
