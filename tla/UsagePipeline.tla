---------------------------- MODULE UsagePipeline ----------------------------
(***************************************************************************)
(* internal/usage: the path of a usage event from the request to the       *)
(* usage_events table.  An API process writes the usage_outbox row through *)
(* DurableEmitter (pending before the provider is called, ready at the     *)
(* end).  Worker processes relay ready rows to a Redis Stream, read the    *)
(* stream as a consumer group and store the events.                        *)
(*                                                                         *)
(* A row is "old" when updated_at or published_at lies far enough back for *)
(* recoverPending or stalePublishedRecords; an entry of the stream is idle *)
(* when XAUTOCLAIM may take it.  All batches are large enough for Events.  *)
(* Every payload decodes: the poison path and retention are left out.      *)
(***************************************************************************)
EXTENDS Integers, FiniteSets

CONSTANTS
  Events,     \* one per request
  Workers,
  Ids,        \* entry ids of the stream; XADD fails when all are in use
  Losses,     \* subset of {"entry", "everything"}: what Redis may lose
  MaxFaults   \* bound: crashes, failed calls and losses

ASSUME UsageAssumption ==
  /\ IsFiniteSet(Events)
  /\ Losses \subseteq {"entry", "everything"}
  /\ MaxFaults \in Nat

VARIABLES
  request,   \* [Events -> Phases], the request in its API process
  write,     \* [Events -> {"none", "pending", "ready"}], its write that is queued
  outbox,    \* [Events -> Rows], table usage_outbox
  stored,    \* [Events -> Payloads], table usage_events
  stream,    \* [Ids -> Entries], the Redis Stream
  group,     \* whether the consumer group exists
  pc,        \* [Workers -> Steps], where Worker.Run is
  todo,      \* [Workers -> SUBSET Items], records that publishRecords has left
  added,     \* [Workers -> SUBSET Events], records it has added to the stream
  batch,     \* [Workers -> SUBSET Messages], what processBatch works on
  faults     \* faults so far

api == <<request, write>>
database == <<outbox, stored>>
redis == <<stream, group>>
locals == <<pc, todo, added, batch>>
usageVars == <<api, database, redis, locals, faults>>

\* "rejected": Begin reported an error and no provider was called.
Phases == {"idle", "begin", "running", "over", "rejected"}
Payloads == {"none", "real", "interrupted"}
Rows == [state : {"none", "pending", "ready", "published"}, payload : Payloads, old : BOOLEAN]
NoRow == [state |-> "none", payload |-> "none", old |-> FALSE]

\* A record as publishRecords reads it, and an entry as a consumer reads it.
Items == [event : Events, payload : Payloads \ {"none"}]
Messages == [id : Ids, item : Items]
Entries == [item : Items, delivered : BOOLEAN, idle : BOOLEAN]
NoEntry == <<>>

Steps == {"down", "recover", "ready", "caughtUp", "stale", "publish",
          "claim", "read", "store", "acknowledge"}

TypeOK ==
  /\ request \in [Events -> Phases]
  /\ write \in [Events -> {"none", "pending", "ready"}]
  /\ outbox \in [Events -> Rows]
  /\ stored \in [Events -> Payloads]
  /\ stream \in [Ids -> Entries \cup {NoEntry}]
  /\ group \in BOOLEAN
  /\ pc \in [Workers -> Steps]
  /\ todo \in [Workers -> SUBSET Items]
  /\ added \in [Workers -> SUBSET Events]
  /\ batch \in [Workers -> SUBSET Messages]
  /\ faults \in 0..MaxFaults

Init ==
  /\ request = [e \in Events |-> "idle"]
  /\ write = [e \in Events |-> "none"]
  /\ outbox = [e \in Events |-> NoRow]
  /\ stored = [e \in Events |-> "none"]
  /\ stream = [i \in Ids |-> NoEntry]
  /\ group = FALSE
  /\ pc = [w \in Workers |-> "down"]
  /\ todo = [w \in Workers |-> {}]
  /\ added = [w \in Workers |-> {}]
  /\ batch = [w \in Workers |-> {}]
  /\ faults = 0

Fault ==
  /\ faults < MaxFaults
  /\ faults' = faults + 1

-----------------------------------------------------------------------------
(* The API process *)

Begin(e) ==
  /\ request[e] = "idle"
  /\ request' = [request EXCEPT ![e] = "begin"]
  /\ write' = [write EXCEPT ![e] = "pending"]
  /\ UNCHANGED <<database, redis, locals, faults>>

\* enqueue gives up; the write stays in the queue.
BeginTimesOut(e) ==
  /\ request[e] = "begin"
  /\ Fault
  /\ request' = [request EXCEPT ![e] = "rejected"]
  /\ UNCHANGED <<write, database, redis, locals>>

\* INSERT ... ON CONFLICT DO NOTHING.
writePending(e) ==
  /\ write[e] = "pending"
  /\ write' = [write EXCEPT ![e] = "none"]
  /\ outbox' = IF outbox[e].state = "none"
                 THEN [outbox EXCEPT ![e] = [state |-> "pending", payload |-> "none", old |-> FALSE]]
                 ELSE outbox
  /\ request' = IF request[e] = "begin" THEN [request EXCEPT ![e] = "running"] ELSE request
  /\ UNCHANGED <<stored, redis, locals, faults>>

\* The end of the request: Emit queues the event.
Emit(e) ==
  /\ request[e] = "running"
  /\ request' = [request EXCEPT ![e] = "over"]
  /\ write' = [write EXCEPT ![e] = "ready"]
  /\ UNCHANGED <<database, redis, locals, faults>>

\* INSERT ... ON CONFLICT DO UPDATE.
writeReady(e) ==
  /\ write[e] = "ready"
  /\ write' = [write EXCEPT ![e] = "none"]
  /\ outbox' = [outbox EXCEPT ![e] = [state |-> "ready", payload |-> "real", old |-> FALSE]]
  /\ UNCHANGED <<request, stored, redis, locals, faults>>

writeFails(e) ==
  /\ write[e] # "none"
  /\ Fault
  /\ write' = [write EXCEPT ![e] = "none"]
  /\ request' = IF request[e] = "begin" THEN [request EXCEPT ![e] = "rejected"] ELSE request
  /\ UNCHANGED <<database, redis, locals>>

\* The process stops, or the queue is full when Emit comes.
Crash(e) ==
  /\ request[e] \in {"begin", "running"} \/ write[e] # "none"
  /\ Fault
  /\ write' = [write EXCEPT ![e] = "none"]
  /\ request' = [request EXCEPT ![e] = IF @ = "begin" THEN "rejected"
                                       ELSE IF @ = "running" THEN "over" ELSE @]
  /\ UNCHANGED <<database, redis, locals>>

Age(e) ==
  /\ outbox[e].state \in {"pending", "published"} /\ ~outbox[e].old
  /\ outbox' = [outbox EXCEPT ![e].old = TRUE]
  /\ UNCHANGED <<api, stored, redis, locals, faults>>

-----------------------------------------------------------------------------
(* The relay *)

Goto(w, step) == pc' = [pc EXCEPT ![w] = step]

InState(s) == {e \in Events : outbox[e].state = s}
Old(S) == {e \in S : outbox[e].old}
ItemsOf(S) == {[event |-> e, payload |-> outbox[e].payload] : e \in S}

\* One row; the condition on its state is evaluated by the UPDATE.
recoverPending(w) ==
  /\ pc[w] = "recover"
  /\ \E e \in Old(InState("pending")) :
       outbox' = [outbox EXCEPT ![e] = [state |-> "ready", payload |-> "interrupted", old |-> FALSE]]
  /\ UNCHANGED <<api, stored, redis, locals, faults>>

Recovered(w) ==
  /\ pc[w] = "recover"
  /\ Old(InState("pending")) = {}
  /\ Goto(w, "ready")
  /\ UNCHANGED <<api, database, redis, todo, added, batch, faults>>

readyRecords(w) ==
  /\ pc[w] = "ready"
  /\ todo' = [todo EXCEPT ![w] = ItemsOf(InState("ready"))]
  /\ Goto(w, IF InState("ready") = {} THEN "caughtUp" ELSE "publish")
  /\ UNCHANGED <<api, database, redis, added, batch, faults>>

\* An error if there is no group.
consumerCaughtUp(w) ==
  /\ pc[w] = "caughtUp"
  /\ Goto(w, IF group /\ \A i \in Ids : stream[i] = NoEntry THEN "stale" ELSE "claim")
  /\ UNCHANGED <<api, database, redis, todo, added, batch, faults>>

\* Mutant of stalePublishedRecords: a published record is taken for delivered.
stalePublishedIgnored(w) ==
  /\ pc[w] = "stale"
  /\ todo' = [todo EXCEPT ![w] = {}]
  /\ Goto(w, "publish")
  /\ UNCHANGED <<api, database, redis, added, batch, faults>>

stalePublishedRecords(w) ==
  /\ pc[w] = "stale"
  /\ todo' = [todo EXCEPT ![w] = ItemsOf(Old(InState("published")))]
  /\ Goto(w, "publish")
  /\ UNCHANGED <<api, database, redis, added, batch, faults>>

\* Redis never reuses an id; here one is free when nothing refers to it.
FreeIds == {i \in Ids : stream[i] = NoEntry /\ \A v \in Workers : \A m \in batch[v] : m.id # i}

XAdd(w) ==
  /\ pc[w] = "publish"
  /\ \E item \in todo[w] :
       /\ todo' = [todo EXCEPT ![w] = @ \ {item}]
       /\ added' = [added EXCEPT ![w] = @ \cup {item.event}]
       /\ FreeIds # {}
       /\ LET i == CHOOSE j \in FreeIds : TRUE IN
          stream' = [stream EXCEPT ![i] = [item |-> item, delivered |-> FALSE, idle |-> FALSE]]
  /\ UNCHANGED <<api, database, group, pc, batch, faults>>

\* Mutant of markPublished: the row is deleted once it is in the stream.
markDeletes(w) ==
  /\ pc[w] = "publish" /\ todo[w] = {}
  /\ outbox' = [e \in Events |-> IF e \in added[w] THEN NoRow ELSE outbox[e]]
  /\ added' = [added EXCEPT ![w] = {}]
  /\ Goto(w, "claim")
  /\ UNCHANGED <<api, stored, redis, todo, batch, faults>>

\* The UPDATE at the end of publishRecords: by id, whatever the row holds now.
markPublished(w) ==
  /\ pc[w] = "publish" /\ todo[w] = {}
  /\ outbox' = [e \in Events |->
       IF e \in added[w] /\ outbox[e].state # "none"
         THEN [outbox[e] EXCEPT !.state = "published", !.old = FALSE]
         ELSE outbox[e]]
  /\ added' = [added EXCEPT ![w] = {}]
  /\ Goto(w, "claim")
  /\ UNCHANGED <<api, stored, redis, todo, batch, faults>>

RelayGivesUp(w) ==
  /\ Goto(w, "claim")
  /\ todo' = [todo EXCEPT ![w] = {}]
  /\ added' = [added EXCEPT ![w] = {}]
  /\ UNCHANGED <<api, database, redis, batch>>

\* A call of Publish fails; nothing is marked.
RelayFails(w) ==
  /\ pc[w] \in {"recover", "ready", "caughtUp", "stale", "publish"}
  /\ Fault
  /\ RelayGivesUp(w)

StreamFull(w) ==
  /\ pc[w] = "publish" /\ todo[w] # {} /\ FreeIds = {}
  /\ RelayGivesUp(w)
  /\ UNCHANGED faults

-----------------------------------------------------------------------------
(* The consumer *)

MessagesOf(S) == {[id |-> i, item |-> stream[i].item] : i \in S}
Delivered(S) ==
  stream' = [i \in Ids |-> IF i \in S THEN [stream[i] EXCEPT !.delivered = TRUE, !.idle = FALSE]
                           ELSE stream[i]]

Take(w, S, otherwise) ==
  /\ batch' = [batch EXCEPT ![w] = MessagesOf(S)]
  /\ Delivered(S)
  /\ Goto(w, IF S = {} THEN otherwise ELSE "store")
  /\ UNCHANGED <<api, database, group, todo, added, faults>>

Idle == {i \in Ids : stream[i] # NoEntry /\ stream[i].idle}
Fresh == {i \in Ids : stream[i] # NoEntry /\ ~stream[i].delivered}

claim(w) == pc[w] = "claim" /\ group /\ Take(w, Idle, "read")

read(w) == pc[w] = "read" /\ group /\ Take(w, Fresh, "recover")

\* NOGROUP: the loop of Run starts again after RetryBackoff.
NoGroup(w) ==
  /\ pc[w] \in {"claim", "read"} /\ ~group
  /\ Goto(w, "recover")
  /\ UNCHANGED <<api, database, redis, todo, added, batch, faults>>

\* ClaimIdle has passed since the entry was delivered.
BecomesIdle(i) ==
  /\ stream[i] # NoEntry /\ stream[i].delivered /\ ~stream[i].idle
  /\ stream' = [stream EXCEPT ![i].idle = TRUE]
  /\ UNCHANGED <<api, database, group, locals, faults>>

EventsIn(w) == {m.item.event : m \in batch[w]}

\* Mutant of Insert: the conflict updates the row.
InsertOverwrites(w, e) == {m.item.payload : m \in {n \in batch[w] : n.item.event = e}}

\* What usage_events may hold for e after INSERT ... ON CONFLICT DO NOTHING.
Insert(w, e) ==
  IF stored[e] # "none" THEN {stored[e]}
  ELSE {m.item.payload : m \in {n \in batch[w] : n.item.event = e}}

\* One transaction inserts the events and deletes the rows.
putBatch(w) ==
  /\ pc[w] = "store"
  /\ \E row \in [EventsIn(w) -> Payloads] :
       /\ \A e \in EventsIn(w) : row[e] \in Insert(w, e)
       /\ stored' = [e \in Events |-> IF e \in EventsIn(w) THEN row[e] ELSE stored[e]]
  /\ outbox' = [e \in Events |-> IF e \in EventsIn(w) THEN NoRow ELSE outbox[e]]
  /\ Goto(w, "acknowledge")
  /\ UNCHANGED <<api, redis, todo, added, batch, faults>>

\* XACK and XDEL.
acknowledge(w) ==
  /\ pc[w] = "acknowledge"
  /\ stream' = [i \in Ids |-> IF \E m \in batch[w] : m.id = i THEN NoEntry ELSE stream[i]]
  /\ batch' = [batch EXCEPT ![w] = {}]
  /\ Goto(w, "recover")
  /\ UNCHANGED <<api, database, group, todo, added, faults>>

\* A call of processBatch fails; its entries stay pending.
processFails(w) ==
  /\ pc[w] \in {"claim", "read", "store", "acknowledge"}
  /\ Fault
  /\ batch' = [batch EXCEPT ![w] = {}]
  /\ Goto(w, "recover")
  /\ UNCHANGED <<api, database, redis, todo, added>>

\* A worker starts: ensureGroup.
Start(w) ==
  /\ pc[w] = "down"
  /\ group' = TRUE
  /\ Goto(w, "recover")
  /\ UNCHANGED <<api, database, stream, todo, added, batch, faults>>

Stop(w) ==
  /\ pc[w] # "down"
  /\ Fault
  /\ Goto(w, "down")
  /\ todo' = [todo EXCEPT ![w] = {}]
  /\ added' = [added EXCEPT ![w] = {}]
  /\ batch' = [batch EXCEPT ![w] = {}]
  /\ UNCHANGED <<api, database, redis>>

LoseEntry(i) ==
  /\ "entry" \in Losses /\ stream[i] # NoEntry
  /\ Fault
  /\ stream' = [stream EXCEPT ![i] = NoEntry]
  /\ UNCHANGED <<api, database, group, locals>>

\* Redis restarts without its data.
LoseEverything ==
  /\ "everything" \in Losses /\ group
  /\ Fault
  /\ stream' = [i \in Ids |-> NoEntry]
  /\ group' = FALSE
  /\ UNCHANGED <<api, database, locals>>

-----------------------------------------------------------------------------
WorkerStep(w) ==
  \/ Start(w)
  \/ recoverPending(w) \/ Recovered(w) \/ readyRecords(w) \/ consumerCaughtUp(w)
  \/ stalePublishedRecords(w) \/ XAdd(w) \/ markPublished(w) \/ StreamFull(w)
  \/ claim(w) \/ read(w) \/ NoGroup(w) \/ putBatch(w) \/ acknowledge(w)

Next ==
  \/ \E e \in Events :
       \/ Begin(e) \/ BeginTimesOut(e) \/ writePending(e)
       \/ Emit(e) \/ writeReady(e) \/ writeFails(e) \/ Crash(e)
       \/ Age(e)
  \/ \E w \in Workers :
       WorkerStep(w) \/ RelayFails(w) \/ processFails(w) \/ Stop(w)
  \/ \E i \in Ids : BecomesIdle(i) \/ LoseEntry(i)
  \/ LoseEverything

Spec == Init /\ [][Next]_usageVars

\* Workers run and a stopped one is started again; queued writes are made; time
\* passes.  Nothing is assumed of the requests.
FairSpec ==
  /\ Spec
  /\ \A e \in Events : WF_usageVars(writePending(e) \/ writeReady(e)) /\ WF_usageVars(Age(e))
  /\ \A w \in Workers : WF_usageVars(WorkerStep(w))
  /\ \A i \in Ids : WF_usageVars(BecomesIdle(i))

-----------------------------------------------------------------------------
CalledProvider(e) == request[e] \in {"running", "over"}

\* A request that may have called a provider is in the outbox or stored, at
\* every moment: no crash, failed call or loss in Redis makes it vanish.
NothingLost ==
  \A e \in Events : CalledProvider(e) => outbox[e].state # "none" \/ stored[e] # "none"

Ledger == INSTANCE UsageLedger WITH
  accepted <- {e \in Events : request[e] \in {"running", "over"}},
  recorded <- stored

\* Entries are delivered more than once and out of order, and two payloads may
\* be under way for one event; still every event is recorded once and its
\* record never changes.
RecordedOnce == Ledger!LedgerSpec

\* Once Redis has its consumer group for good (a worker that starts creates it),
\* every request that may have called a provider is recorded: although entries
\* were lost after they had been marked as published, workers stop and calls fail.
StoredWithGroup ==
  <>[]group => \A e \in Events : CalledProvider(e) ~> stored[e] # "none"
=============================================================================
