--------------------------- MODULE EventStreamManager ---------------------------
(***************************************************************************)
(* The event-stream manager of pkg/eventstreams/manager.go (esManager).    *)
(*                                                                         *)
(* Every manager operation runs in the goroutine of the request that       *)
(* called it (a Caller).  An operation is a sequence of steps, each one    *)
(* atomic in the code: a lookup or update of the registry under esm.mux,   *)
(* one persistence call, or one call into the per-stream engine, which     *)
(* holds the stream's own mutex.  The pc of a caller names the next step.  *)
(*                                                                         *)
(* The stream engine (eventStream, not under src/) is reduced to what the  *)
(* manager relies on (spec 4.4): its in-memory spec, its run state         *)
(* idle / starting / running, and its source position; its goroutines      *)
(* load the checkpoint, deliver batches and persist their checkpoints.     *)
(* Persistence keeps the event_streams rows in a stable order and the      *)
(* checkpoints; every call a request makes may fail with a storage error. *)
(* A process restart (crash, or exit after Close) loses all memory.        *)
(***************************************************************************)
EXTENDS Naturals, Sequences, SequencesExt, FiniteSets

CONSTANTS
    Ids,             \* stream IDs
    Callers,         \* request goroutines calling the Manager interface
    CallerIds,       \* [Callers -> SUBSET Ids]: the IDs each caller addresses
    Seqs,            \* sequence IDs a request names (initial / reset)
    MaxSeq,          \* bound on a source position
    MaxInst,         \* bound on eventStream objects built in one process life
    PageSize,        \* initialize's pageSize
    ConcurrentClose, \* may requests still run while Close runs?
    None             \* absent stream, checkpoint, argument

ASSUME
    /\ CallerIds \in [Callers -> SUBSET Ids]
    /\ Seqs \subseteq 0..MaxSeq
    /\ MaxInst >= Cardinality(Ids)
    /\ PageSize \in Nat \ {0}
    /\ ConcurrentClose \in BOOLEAN

Statuses == {"started", "stopped", "deleted"}

VARIABLES
    db,         \* event_streams: status of the row of each ID, or "none"
    dbInit,     \* event_streams: initial_sequence_id of each row
    rows,       \* event_streams: the IDs of the rows, in the table's order
    ckpt,       \* checkpoints: the checkpoint of each ID, or None
    inst,       \* the eventStream objects built so far in this process
    streams,    \* esm.streams: ID -> index into inst, or None
    cs,         \* per caller: pc and the locals of its operation
    phase,      \* "init" | "serving" | "closing" | "closed" | "failed"
    initSkip,   \* initialize: skip
    initPage,   \* initialize: the rows of the current page not yet handled
    closeTodo,  \* Close: registry keys its range loop has still to produce
    resetFrom   \* history: the seq of the last ResetStream that returned ok

vars == <<db, dbInit, rows, ckpt, inst, streams, cs, phase, initSkip,
          initPage, closeTodo, resetFrom>>

Stream == [id : Ids, status : Statuses, initSeq : Seqs,
           run : {"idle", "starting", "running"}, pos : 0..MaxSeq]

IdleCaller == [pc |-> "idle", id |-> None, es |-> None, existing |-> None,
               st |-> None, seq |-> None]

-----------------------------------------------------------------------------
(* The stream engine, as the manager uses it (spec 4.4; not under src/).   *)

\* initEventStream: a new eventStream, started at once if its status is started
NewStream(i, st, s) ==
    [id |-> i, status |-> st, initSeq |-> s, pos |-> 0,
     run |-> IF st = "started" THEN "starting" ELSE "idle"]

\* ensureActive: start the source and dispatcher if they are not running;
\* a deleted stream is terminal (spec 4.4) and is not started
Activate(r) ==
    IF r.run = "idle" /\ r.status # "deleted"
    THEN [r EXCEPT !.run = "starting"] ELSE r

\* suspend: stop the source and dispatcher and wait for them to exit; the
\* next Run starts from the checkpoint, so the old position is forgotten
Halt(r) == [r EXCEPT !.run = "idle", !.pos = 0]

EsSuspend(n) == inst' = [inst EXCEPT ![n] = Halt(@)]

\* persistStatus: a sparse update of the row's status, if the row exists
PersistStatus(i, st) == db' = [db EXCEPT ![i] = IF @ = "none" THEN @ ELSE st]

\* stop / delete: persist the target status, then suspend; a deleted stream
\* cannot be stopped
EsStopOrDelete(n, st) ==
    /\ st = "deleted" \/ inst[n].status # "deleted"
    /\ PersistStatus(inst[n].id, st)
    /\ inst' = [inst EXCEPT ![n] = [Halt(@) EXCEPT !.status = st]]

\* start: persist status started, then ensureActive
EsStart(n) ==
    /\ inst[n].status # "deleted"
    /\ PersistStatus(inst[n].id, "started")
    /\ inst' = [inst EXCEPT ![n] = Activate([@ EXCEPT !.status = "started"])]

LoadCheckpoint(n) ==
    /\ inst[n].run = "starting"
    /\ LET i == inst[n].id
       IN inst' = [inst EXCEPT ![n].run = "running",
                               ![n].pos = IF ckpt[i] = None
                                          THEN inst[n].initSeq ELSE ckpt[i]]
    /\ UNCHANGED <<db, dbInit, rows, ckpt, streams, cs, phase, initSkip,
                   initPage, closeTodo, resetFrom>>

\* A batch is delivered to the sink and its checkpoint persisted.
Deliver(n) ==
    /\ inst[n].run = "running"
    /\ inst[n].pos < MaxSeq
    /\ inst' = [inst EXCEPT ![n].pos = @ + 1]
    /\ ckpt' = [ckpt EXCEPT ![inst[n].id] = inst[n].pos + 1]
    /\ resetFrom' = [resetFrom EXCEPT ![inst[n].id] = None]
    /\ UNCHANGED <<db, dbInit, rows, streams, cs, phase, initSkip, initPage,
                   closeTodo>>

\* Run returned without an Exit instruction: restart from the checkpoint.
RuntimeExit(n) ==
    /\ inst[n].run = "running"
    /\ inst' = [inst EXCEPT ![n].run = "starting"]
    /\ UNCHANGED <<db, dbInit, rows, ckpt, streams, cs, phase, initSkip,
                   initPage, closeTodo, resetFrom>>

-----------------------------------------------------------------------------
(* Process start: NewEventStreamManager and initialize.                    *)

MemoryInit ==
    /\ inst = <<>>
    /\ streams = [i \in Ids |-> None]
    /\ cs = [c \in Callers |-> IdleCaller]
    /\ phase = "init"
    /\ initSkip = 0
    /\ initPage = <<>>
    /\ closeTodo = {}

Init ==
    /\ \E S \in SUBSET Ids, st \in [Ids -> Statuses] :
          /\ rows \in SetToSeqs(S)
          /\ db = [i \in Ids |-> IF i \in S THEN st[i] ELSE "none"]
    /\ dbInit = [i \in Ids |-> 0]
    /\ ckpt = [i \in Ids |-> None]
    /\ resetFrom = [i \in Ids |-> None]
    /\ MemoryInit

\* The process exits (a crash, or a shutdown after Close) and starts again:
\* everything in memory is lost, the tables survive.
ProcessRestart ==
    /\ inst' = <<>>
    /\ streams' = [i \in Ids |-> None]
    /\ cs' = [c \in Callers |-> IdleCaller]
    /\ phase' = "init"
    /\ initSkip' = 0
    /\ initPage' = <<>>
    /\ closeTodo' = {}
    /\ UNCHANGED <<db, dbInit, rows, ckpt, resetFrom>>

\* initialize: GetMany(Skip(skip).Limit(pageSize)); no rows ends the loop.
InitFetch ==
    /\ phase = "init"
    /\ initPage = <<>>
    /\ LET last == IF initSkip + PageSize < Len(rows)
                   THEN initSkip + PageSize ELSE Len(rows)
           page == SubSeq(rows, initSkip + 1, last)
       IN IF page = <<>>
          THEN phase' = "serving" /\ UNCHANGED initPage
          ELSE initPage' = page /\ UNCHANGED phase
    /\ UNCHANGED <<db, dbInit, rows, ckpt, inst, streams, cs, initSkip,
                   closeTodo, resetFrom>>

\* Mutant: a deleted row is skipped without being deleted.
InitRowKeepsDeleted ==
    /\ phase = "init"
    /\ initPage # <<>>
    /\ LET i == Head(initPage)
       IN IF db[i] = "deleted"
          THEN UNCHANGED <<db, rows, inst, streams>>
          ELSE /\ inst' = Append(inst, NewStream(i, db[i], dbInit[i]))
               /\ streams' = [streams EXCEPT ![i] = Len(inst) + 1]
               /\ UNCHANGED <<db, rows>>
    /\ initPage' = Tail(initPage)
    /\ initSkip' = IF Tail(initPage) = <<>> THEN initSkip + PageSize
                                            ELSE initSkip
    /\ UNCHANGED <<dbInit, ckpt, cs, phase, closeTodo, resetFrom>>

\* initialize: one row of the page; a deleted row is deleted, any other is
\* built into an eventStream and added.  skip grows after the last row.
InitRow ==
    /\ phase = "init"
    /\ initPage # <<>>
    /\ LET i == Head(initPage)
       IN IF db[i] = "deleted"
          THEN /\ db' = [db EXCEPT ![i] = "none"]
               /\ rows' = Remove(rows, i)
               /\ UNCHANGED <<inst, streams>>
          ELSE /\ inst' = Append(inst, NewStream(i, db[i], dbInit[i]))
               /\ streams' = [streams EXCEPT ![i] = Len(inst) + 1]
               /\ UNCHANGED <<db, rows>>
    /\ initPage' = Tail(initPage)
    /\ initSkip' = IF Tail(initPage) = <<>> THEN initSkip + PageSize
                                            ELSE initSkip
    /\ UNCHANGED <<dbInit, ckpt, cs, phase, closeTodo, resetFrom>>

\* initialize returns an error: GetMany fails, Delete of a deleted row
\* fails, or initEventStream fails.  NewEventStreamManager returns nil and
\* the error; the streams added so far are left as they are.
InitFail ==
    /\ phase = "init"
    /\ phase' = "failed"
    /\ UNCHANGED <<db, dbInit, rows, ckpt, inst, streams, cs, initSkip,
                   initPage, closeTodo, resetFrom>>

-----------------------------------------------------------------------------
(* Requests.  A caller may begin an operation while the manager serves     *)
(* requests (and, if ConcurrentClose, while Close runs).  Early returns    *)
(* that change nothing (404, validation errors) are stuttering steps and   *)
(* are left out; an error after a state change returns to idle.           *)

Accepting == phase = "serving" \/ (ConcurrentClose /\ phase = "closing")

Go(c, pc) == cs' = [cs EXCEPT ![c].pc = pc]
Return(c) == cs' = [cs EXCEPT ![c] = IdleCaller]

\* Begin an operation on a stream that the registry holds (getStream).
BeginOn(c, pc, i, s) ==
    /\ streams[i] # None
    /\ cs' = [cs EXCEPT ![c] = [IdleCaller EXCEPT !.pc = pc, !.id = i,
                                                  !.es = streams[i], !.seq = s]]

UpsertBeforeInit == {"ups_db", "ups_suspend", "ups_init"}

\* UpsertStream: existing = getStream(id) (nil for a NewID); the status
\* defaults to started and must be started or stopped; validateStream.
UpsertStream(c) ==
    /\ Accepting
    /\ cs[c].pc = "idle"
    /\ Len(inst) + Cardinality({d \in Callers : cs[d].pc \in UpsertBeforeInit})
         < MaxInst
    /\ \E i \in CallerIds[c], st \in {"started", "stopped"}, s \in Seqs :
          cs' = [cs EXCEPT ![c] = [IdleCaller EXCEPT !.pc = "ups_db", !.id = i,
                                   !.existing = streams[i], !.st = st, !.seq = s]]
    /\ UNCHANGED <<db, dbInit, rows, ckpt, inst, streams, phase, initSkip,
                   initPage, closeTodo, resetFrom>>

\* UpsertStream: EventStreams().Upsert(esSpec)
UpsertPersist(c) ==
    /\ cs[c].pc = "ups_db"
    /\ LET i == cs[c].id
       IN \/ /\ Return(c)
             /\ UNCHANGED <<db, dbInit, rows, resetFrom>>
          \/ /\ db' = [db EXCEPT ![i] = cs[c].st]
             /\ dbInit' = [dbInit EXCEPT ![i] = cs[c].seq]
             /\ rows' = IF db[i] = "none" THEN Append(rows, i) ELSE rows
             /\ resetFrom' = [resetFrom EXCEPT ![i] = None]
             /\ Go(c, "ups_suspend")
    /\ UNCHANGED <<ckpt, inst, streams, phase, initSkip, initPage, closeTodo>>

\* Mutant: reInit does not suspend the existing stream.
UpsertSuspendSkipped(c) ==
    /\ cs[c].pc = "ups_suspend"
    /\ Go(c, "ups_init")
    /\ UNCHANGED <<db, dbInit, rows, ckpt, inst, streams, phase, initSkip,
                   initPage, closeTodo, resetFrom>>

\* reInit: existing.suspend()
UpsertSuspend(c) ==
    /\ cs[c].pc = "ups_suspend"
    /\ IF cs[c].existing = None THEN UNCHANGED inst
                                ELSE EsSuspend(cs[c].existing)
    /\ Go(c, "ups_init")
    /\ UNCHANGED <<db, dbInit, rows, ckpt, streams, phase, initSkip, initPage,
                   closeTodo, resetFrom>>

\* reInit: existing.suspend returns an error (the caller's context is done,
\* or the shutdown grace timeout passed, spec 5).  The old stream's tasks
\* were cancelled and exit; UpsertStream returns the error with the new
\* spec already persisted and the old stream still registered.
UpsertSuspendFails(c) ==
    /\ cs[c].pc = "ups_suspend"
    /\ cs[c].existing # None
    /\ EsSuspend(cs[c].existing)
    /\ Return(c)
    /\ UNCHANGED <<db, dbInit, rows, ckpt, streams, phase, initSkip, initPage,
                   closeTodo, resetFrom>>

\* reInit: initEventStream returns an error; UpsertStream returns it with
\* the new spec persisted and nothing built or registered for it.
UpsertInitFails(c) ==
    /\ cs[c].pc = "ups_init"
    /\ Return(c)
    /\ UNCHANGED <<db, dbInit, rows, ckpt, inst, streams, phase, initSkip,
                   initPage, closeTodo, resetFrom>>

\* reInit: es = initEventStream(esSpec)
UpsertInit(c) ==
    /\ cs[c].pc = "ups_init"
    /\ inst' = Append(inst, NewStream(cs[c].id, cs[c].st, cs[c].seq))
    /\ cs' = [cs EXCEPT ![c].pc = "ups_add", ![c].es = Len(inst) + 1]
    /\ UNCHANGED <<db, dbInit, rows, ckpt, streams, phase, initSkip, initPage,
                   closeTodo, resetFrom>>

\* reInit: addStream(es).  A key created while Close's range loop runs may
\* or may not be produced by it (Go map iteration).
UpsertAdd(c) ==
    /\ cs[c].pc = "ups_add"
    /\ streams' = [streams EXCEPT ![cs[c].id] = cs[c].es]
    /\ closeTodo' \in IF phase = "closing"
                      THEN {closeTodo, closeTodo \cup {cs[c].id}}
                      ELSE {closeTodo}
    /\ Go(c, "ups_activate")
    /\ UNCHANGED <<db, dbInit, rows, ckpt, inst, phase, initSkip, initPage,
                   resetFrom>>

\* reInit: if *es.spec.Status == started, read without the stream's lock
UpsertActivate(c) ==
    /\ cs[c].pc = "ups_activate"
    /\ IF inst[cs[c].es].status = "started"
       THEN Go(c, "ups_ensure")
       ELSE Return(c)
    /\ UNCHANGED <<db, dbInit, rows, ckpt, inst, streams, phase, initSkip,
                   initPage, closeTodo, resetFrom>>

\* reInit: es.ensureActive(); return nil
UpsertEnsure(c) ==
    /\ cs[c].pc = "ups_ensure"
    /\ inst' = [inst EXCEPT ![cs[c].es] = Activate(@)]
    /\ Return(c)
    /\ UNCHANGED <<db, dbInit, rows, ckpt, streams, phase, initSkip, initPage,
                   closeTodo, resetFrom>>

\* DeleteStream: es = getStream(id)
DeleteStream(c) ==
    /\ Accepting
    /\ cs[c].pc = "idle"
    /\ \E i \in CallerIds[c] : BeginOn(c, "del_es", i, None)
    /\ UNCHANGED <<db, dbInit, rows, ckpt, inst, streams, phase, initSkip,
                   initPage, closeTodo, resetFrom>>

\* DeleteStream: es.delete()
DeleteEs(c) ==
    /\ cs[c].pc = "del_es"
    /\ \/ Return(c) /\ UNCHANGED <<db, inst>>
       \/ EsStopOrDelete(cs[c].es, "deleted") /\ Go(c, "del_db")
    /\ UNCHANGED <<dbInit, rows, ckpt, streams, phase, initSkip, initPage,
                   closeTodo, resetFrom>>

\* DeleteStream: EventStreams().Delete(id)
DeleteRow(c) ==
    /\ cs[c].pc = "del_db"
    /\ LET i == cs[c].id
       IN \/ Return(c) /\ UNCHANGED <<db, rows>>
          \/ /\ db[i] # "none"
             /\ db' = [db EXCEPT ![i] = "none"]
             /\ rows' = Remove(rows, i)
             /\ Go(c, "del_remove")
    /\ UNCHANGED <<dbInit, ckpt, inst, streams, phase, initSkip, initPage,
                   closeTodo, resetFrom>>

\* DeleteStream: removeStream(id).  A key removed before Close's range loop
\* reaches it is not produced.
DeleteRemove(c) ==
    /\ cs[c].pc = "del_remove"
    /\ streams' = [streams EXCEPT ![cs[c].id] = None]
    /\ closeTodo' = closeTodo \ {cs[c].id}
    /\ Return(c)
    /\ UNCHANGED <<db, dbInit, rows, ckpt, inst, phase, initSkip, initPage,
                   resetFrom>>

\* StopStream / StartStream: es = getStream(id)
StopStream(c) ==
    /\ Accepting
    /\ cs[c].pc = "idle"
    /\ \E i \in CallerIds[c] : BeginOn(c, "stop", i, None)
    /\ UNCHANGED <<db, dbInit, rows, ckpt, inst, streams, phase, initSkip,
                   initPage, closeTodo, resetFrom>>

StartStream(c) ==
    /\ Accepting
    /\ cs[c].pc = "idle"
    /\ \E i \in CallerIds[c] : BeginOn(c, "start", i, None)
    /\ UNCHANGED <<db, dbInit, rows, ckpt, inst, streams, phase, initSkip,
                   initPage, closeTodo, resetFrom>>

\* StopStream: es.stop();  StartStream: es.start()
StopEs(c) ==
    /\ cs[c].pc = "stop"
    /\ \/ UNCHANGED <<db, inst>>
       \/ EsStopOrDelete(cs[c].es, "stopped")
    /\ Return(c)
    /\ UNCHANGED <<dbInit, rows, ckpt, streams, phase, initSkip, initPage,
                   closeTodo, resetFrom>>

StartEs(c) ==
    /\ cs[c].pc = "start"
    /\ \/ UNCHANGED <<db, inst>>
       \/ EsStart(cs[c].es)
    /\ Return(c)
    /\ UNCHANGED <<dbInit, rows, ckpt, streams, phase, initSkip, initPage,
                   closeTodo, resetFrom>>

\* ResetStream: es = getStream(id)
ResetStream(c) ==
    /\ Accepting
    /\ cs[c].pc = "idle"
    /\ \E i \in CallerIds[c], s \in Seqs : BeginOn(c, "rst_suspend", i, s)
    /\ UNCHANGED <<db, dbInit, rows, ckpt, inst, streams, phase, initSkip,
                   initPage, closeTodo, resetFrom>>

\* ResetStream: es.suspend()
ResetSuspend(c) ==
    /\ cs[c].pc = "rst_suspend"
    /\ EsSuspend(cs[c].es)
    /\ Go(c, "rst_ckpt")
    /\ UNCHANGED <<db, dbInit, rows, ckpt, streams, phase, initSkip, initPage,
                   closeTodo, resetFrom>>

\* ResetStream: es.suspend returns an error; the tasks exit and the error
\* is returned before the checkpoint is touched.
ResetSuspendFails(c) ==
    /\ cs[c].pc = "rst_suspend"
    /\ EsSuspend(cs[c].es)
    /\ Return(c)
    /\ UNCHANGED <<db, dbInit, rows, ckpt, streams, phase, initSkip, initPage,
                   closeTodo, resetFrom>>

\* ResetStream: Checkpoints().DeleteMany(id)
ResetCheckpoint(c) ==
    /\ cs[c].pc = "rst_ckpt"
    /\ \/ Return(c) /\ UNCHANGED ckpt
       \/ ckpt' = [ckpt EXCEPT ![cs[c].id] = None] /\ Go(c, "rst_update")
    /\ UNCHANGED <<db, dbInit, rows, inst, streams, phase, initSkip, initPage,
                   closeTodo, resetFrom>>

\* Mutant: only the row's initial_sequence_id is updated, not es.spec's.
ResetUpdateRowOnly(c) ==
    /\ cs[c].pc = "rst_update"
    /\ resetFrom' = [resetFrom EXCEPT ![cs[c].id] = None]
    /\ \/ Return(c) /\ UNCHANGED dbInit
       \/ /\ db[cs[c].id] # "none"
          /\ dbInit' = [dbInit EXCEPT ![cs[c].id] = cs[c].seq]
          /\ Go(c, "rst_start")
    /\ UNCHANGED <<db, rows, ckpt, inst, streams, phase, initSkip, initPage,
                   closeTodo>>

\* ResetStream: es.spec.InitialSequenceID = &sequenceID, then UpdateSparse
\* of the row's initial_sequence_id (an error if the row is gone)
ResetUpdate(c) ==
    /\ cs[c].pc = "rst_update"
    /\ inst' = [inst EXCEPT ![cs[c].es].initSeq = cs[c].seq]
    /\ resetFrom' = [resetFrom EXCEPT ![cs[c].id] = None]
    /\ \/ Return(c) /\ UNCHANGED dbInit
       \/ /\ db[cs[c].id] # "none"
          /\ dbInit' = [dbInit EXCEPT ![cs[c].id] = cs[c].seq]
          /\ Go(c, "rst_start")
    /\ UNCHANGED <<db, rows, ckpt, streams, phase, initSkip, initPage,
                   closeTodo>>

\* ResetStream: if *es.spec.Status == started { return es.start() }
ResetRestart(c) ==
    /\ cs[c].pc = "rst_start"
    /\ LET n == cs[c].es
           ok == resetFrom' = [resetFrom EXCEPT ![cs[c].id] = cs[c].seq]
       IN IF inst[n].status = "started"
          THEN \/ UNCHANGED <<db, inst, resetFrom>>
               \/ EsStart(n) /\ ok
          ELSE UNCHANGED <<db, inst>> /\ ok
    /\ Return(c)
    /\ UNCHANGED <<dbInit, rows, ckpt, streams, phase, initSkip, initPage,
                   closeTodo>>

-----------------------------------------------------------------------------
(* Close: for _, es := range esm.streams { es.suspend() }, read without   *)
(* esm.mux.  Unless ConcurrentClose, no request is in flight.              *)

CloseBegin ==
    /\ phase = "serving"
    /\ ConcurrentClose \/ \A c \in Callers : cs[c].pc = "idle"
    /\ phase' = "closing"
    /\ closeTodo' = {i \in Ids : streams[i] # None}
    /\ UNCHANGED <<db, dbInit, rows, ckpt, inst, streams, cs, initSkip,
                   initPage, resetFrom>>

\* Mutant: the key is produced but its stream is not suspended.
CloseStepSkipsSuspend ==
    /\ phase = "closing"
    /\ \E i \in closeTodo : closeTodo' = closeTodo \ {i}
    /\ UNCHANGED <<db, dbInit, rows, ckpt, inst, streams, cs, phase, initSkip,
                   initPage, resetFrom>>

\* The range loop produces a key it has not produced yet; es is the value
\* the map holds for it now.
CloseStep ==
    /\ phase = "closing"
    /\ \E i \in closeTodo :
          /\ EsSuspend(streams[i])
          /\ closeTodo' = closeTodo \ {i}
    /\ UNCHANGED <<db, dbInit, rows, ckpt, streams, cs, phase, initSkip,
                   initPage, resetFrom>>

CloseEnd ==
    /\ phase = "closing"
    /\ closeTodo = {}
    /\ phase' = "closed"
    /\ UNCHANGED <<db, dbInit, rows, ckpt, inst, streams, cs, initSkip,
                   initPage, closeTodo, resetFrom>>

-----------------------------------------------------------------------------

Request(c) ==
    \/ UpsertStream(c) \/ UpsertPersist(c) \/ UpsertSuspend(c)
    \/ UpsertSuspendFails(c)
    \/ UpsertInit(c) \/ UpsertInitFails(c) \/ UpsertAdd(c)
    \/ UpsertActivate(c) \/ UpsertEnsure(c)
    \/ DeleteStream(c) \/ DeleteEs(c) \/ DeleteRow(c) \/ DeleteRemove(c)
    \/ StopStream(c) \/ StopEs(c) \/ StartStream(c) \/ StartEs(c)
    \/ ResetStream(c) \/ ResetSuspend(c) \/ ResetSuspendFails(c)
    \/ ResetCheckpoint(c)
    \/ ResetUpdate(c) \/ ResetRestart(c)

Engine(n) == LoadCheckpoint(n) \/ Deliver(n) \/ RuntimeExit(n)

Next ==
    \/ \E c \in Callers : Request(c)
    \/ \E n \in DOMAIN inst : Engine(n)
    \/ InitFetch \/ InitRow \/ InitFail
    \/ CloseBegin \/ CloseStep \/ CloseEnd
    \/ ProcessRestart

Spec == Init /\ [][Next]_vars

-----------------------------------------------------------------------------
(* Properties                                                              *)

\* A stream is owned when the registry holds it, or a caller of
\* UpsertStream has built it and is about to add it.
Owned(n) ==
    \/ streams[inst[n].id] = n
    \/ \E c \in Callers : cs[c].pc = "ups_add" /\ cs[c].es = n

\* No orphan stream: every eventStream whose source runs is owned and has
\* status started.  An unowned running stream is out of reach of StopStream,
\* DeleteStream and Close, and runs beside the registered one for its ID
\* (UpsertStream's existing/reInit, DeleteStream's removeStream).
NoOrphanStream ==
    \A n \in DOMAIN inst :
        inst[n].run # "idle" => Owned(n) /\ inst[n].status = "started"

\* No request for i is in flight and the manager is serving.
Quiet(i) == phase = "serving" /\ \A c \in Callers : cs[c].id # i

\* Status consistency: when no request for an ID is in flight, the registry
\* holds a stream for it exactly when event_streams has a row, and the
\* stream's status is the row's status (UpsertStream, DeleteStream,
\* StopStream, StartStream and initialize, with storage errors part way).
StatusConsistent ==
    \A i \in Ids : Quiet(i) =>
        /\ (streams[i] = None) <=> (db[i] = "none")
        /\ streams[i] # None => inst[streams[i]].status = db[i]

ResetHonoured ==
    \A i \in Ids : resetFrom[i] # None =>
        /\ ckpt[i] = None
        /\ \A n \in DOMAIN inst :
              inst[n].id = i /\ inst[n].run = "running" =>
                  inst[n].pos = resetFrom[i]

\* A checkpoint is destroyed with its stream (spec 3, 4.4 delete): when no
\* request for an ID is in flight, a checkpoint exists only for an ID that
\* has a row, so a stream later created again under that ID (UpsertStream
\* with an explicit ID) starts from its own initialSequenceID.  DeleteStream
\* and initialize's purge of deleted rows remove the row only.
CheckpointDeletedWithStream ==
    \A i \in Ids : Quiet(i) /\ ckpt[i] # None => db[i] # "none"

\* Close stops all (spec 8.4): once Close has returned, no source runs.
CloseStopsAll ==
    phase = "closed" => \A n \in DOMAIN inst : inst[n].run = "idle"

\* Start-up materialises all (spec 4.5, 8.6): when initialize returns, no
\* row of status deleted is left and every other row has a live stream.
StartupMaterialisesAll ==
    [][phase = "init" /\ phase' = "serving" =>
         \A i \in Ids : /\ db'[i] # "deleted"
                        /\ db'[i] # "none" => streams'[i] # None]_vars

=============================================================================
