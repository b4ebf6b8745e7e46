------------------------------- MODULE StreamEngine -------------------------------
(***************************************************************************)
(* One event stream's engine (spec 4.4, 5): the producer task runs the     *)
(* Source Runtime, whose deliver calls push events into a queue of         *)
(* capacity BatchSize; the dispatcher task collects a batch, sends it to   *)
(* the sink with bounded retries, then persists the checkpoint.  The       *)
(* manager starts and suspends the stream; the runtime may return without *)
(* an Exit and is then restarted from the last checkpoint.                 *)
(*                                                                         *)
(* The Runtime contract (Run, Deliver, SourceInstruction) is in            *)
(* pkg/eventstreams/manager.go; the engine itself is modelled from spec.md. *)
(* Events are the numbers 1..N in source order; checkpoint 0 is none.      *)
(***************************************************************************)
EXTENDS Naturals, Sequences, SequencesExt

CONSTANTS
    N,                       \* events of the source
    BatchSize,               \* batch size, and capacity of the queue
    MaxAttempts,             \* sends of one batch before it is dropped
    MaxExits                 \* bound on runtime exits without Exit

ASSUME /\ N \in Nat /\ BatchSize \in Nat \ {0} /\ MaxAttempts \in Nat \ {0}
       /\ MaxExits \in Nat

VARIABLES
    state,       \* "stopped", "starting", "running" or "draining"
    ckpt,        \* the persisted checkpoint
    srcNext,     \* the next event the Source Runtime delivers
    producerUp,  \* is the producer task (Run) alive?
    queue,       \* events delivered, not yet taken by the dispatcher
    dispatcher,  \* "none", "collect", "send" or "persist"
    batch,       \* the dispatcher's batch
    attempts,    \* failed sends of the current batch
    handled,     \* the last event the sink handled in this run
    exits,       \* runtime exits so far
    dispatched   \* history: the events of every batch sent or dropped

vars == <<state, ckpt, srcNext, producerUp, queue, dispatcher, batch,
          attempts, handled, exits, dispatched>>

Init ==
    /\ state = "stopped"
    /\ ckpt = 0
    /\ srcNext = 1
    /\ producerUp = FALSE
    /\ queue = <<>>
    /\ dispatcher = "none"
    /\ batch = <<>>
    /\ attempts = 0
    /\ handled = 0
    /\ exits = 0
    /\ dispatched = {}

-----------------------------------------------------------------------------
\* Lifecycle, driven by the manager

\* Mutant: Run is called from where the last run stopped delivering, not
\* from the checkpoint.
StartFromLastDelivered ==
    /\ state = "stopped"
    /\ state' = "starting"
    /\ producerUp' = TRUE
    /\ dispatcher' = "collect"
    /\ handled' = ckpt
    /\ attempts' = 0
    /\ UNCHANGED <<ckpt, srcNext, queue, batch, exits, dispatched>>

\* start: spawn the dispatcher and the producer, which calls
\* Run(ctx, spec, checkpointSequenceID, deliver) from the checkpoint.
Start ==
    /\ state = "stopped"
    /\ state' = "starting"
    /\ producerUp' = TRUE
    /\ srcNext' = ckpt + 1
    /\ dispatcher' = "collect"
    /\ handled' = ckpt
    /\ attempts' = 0
    /\ UNCHANGED <<ckpt, queue, batch, exits, dispatched>>

\* Run polls for the first time: the stream is running.
Poll ==
    /\ state = "starting" /\ producerUp
    /\ state' = "running"
    /\ UNCHANGED <<ckpt, srcNext, producerUp, queue, dispatcher, batch,
                   attempts, handled, exits, dispatched>>

\* suspend / stop / delete: Exit on the next deliver, and the per-stream
\* context is cancelled.
Suspend ==
    /\ state \in {"starting", "running"}
    /\ state' = "draining"
    /\ UNCHANGED <<ckpt, srcNext, producerUp, queue, dispatcher, batch,
                   attempts, handled, exits, dispatched>>

\* Both tasks have exited: the stream is stopped, its buffers dropped.
Drained ==
    /\ state = "draining" /\ ~producerUp /\ dispatcher = "none"
    /\ state' = "stopped"
    /\ queue' = <<>>
    /\ batch' = <<>>
    /\ UNCHANGED <<ckpt, srcNext, producerUp, dispatcher, attempts, handled, exits, dispatched>>

-----------------------------------------------------------------------------
\* The producer: the Source Runtime's Run loop

\* deliver(events): blocks while the queue is full (the previous batch is
\* being processed and the current one is full), then queues the event.
ProducerDeliver ==
    /\ producerUp /\ state \in {"starting", "running"}
    /\ srcNext <= N
    /\ Len(queue) < BatchSize
    /\ queue' = Append(queue, srcNext)
    /\ srcNext' = srcNext + 1
    /\ state' = "running"
    /\ UNCHANGED <<ckpt, producerUp, dispatcher, batch, attempts, handled, exits, dispatched>>

\* deliver returns Exit, or the cancelled context wakes Run wherever it
\* blocks (in deliver too): Run returns.
ProducerExit ==
    /\ producerUp /\ state = "draining"
    /\ producerUp' = FALSE
    /\ UNCHANGED <<state, ckpt, srcNext, queue, dispatcher, batch, attempts,
                   handled, exits, dispatched>>

\* Run returns without having been told Exit: "it will be restarted from
\* the last checkpoint".  Only Run is restarted: the dispatcher, its batch
\* and the events already queued by the old run are left as they are.
RuntimeExit ==
    /\ producerUp /\ state \in {"starting", "running"}
    /\ exits < MaxExits
    /\ state' = "starting"
    /\ srcNext' = ckpt + 1
    /\ exits' = exits + 1
    /\ UNCHANGED <<ckpt, producerUp, queue, batch, dispatcher, attempts,
                   handled, dispatched>>

-----------------------------------------------------------------------------
\* The dispatcher: batcher, sink send with retry, checkpointer

\* The next queued event joins the batch.
Collect ==
    /\ dispatcher = "collect" /\ queue # <<>> /\ Len(batch) < BatchSize
    /\ batch' = Append(batch, Head(queue))
    /\ queue' = Tail(queue)
    /\ UNCHANGED <<state, ckpt, srcNext, producerUp, dispatcher, attempts,
                   handled, exits, dispatched>>

\* The batch is full or its timer fired: flush it.
Flush ==
    /\ dispatcher = "collect" /\ batch # <<>>
    /\ dispatcher' = "send"
    /\ attempts' = 0
    /\ UNCHANGED <<state, ckpt, srcNext, producerUp, queue, batch, handled, exits, dispatched>>

\* send: ok; or retryable / fatal, retried after the backoff; after
\* MaxAttempts the batch is dropped (poison pill) and counts as handled.
Send ==
    /\ dispatcher = "send"
    /\ \/ /\ dispatcher' = "persist" /\ handled' = Last(batch)
          /\ dispatched' = dispatched \cup Range(batch)
          /\ UNCHANGED attempts
       \/ /\ attempts + 1 < MaxAttempts
          /\ attempts' = attempts + 1
          /\ UNCHANGED <<dispatcher, handled, dispatched>>
       \/ /\ attempts + 1 = MaxAttempts
          /\ dispatcher' = "persist" /\ handled' = Last(batch)
          /\ dispatched' = dispatched \cup Range(batch)
          /\ UNCHANGED attempts
    /\ UNCHANGED <<state, ckpt, srcNext, producerUp, queue, batch, exits>>

\* The checkpoint advances to the batch's last event and is persisted
\* (storage errors are retried until the write succeeds).
Persist ==
    /\ dispatcher = "persist"
    /\ ckpt' = Last(batch)
    /\ batch' = <<>>
    /\ dispatcher' = "collect"
    /\ UNCHANGED <<state, srcNext, producerUp, queue, attempts, handled, exits, dispatched>>

\* The dispatcher sees the cancelled context and returns.
DispatcherExit ==
    /\ state = "draining" /\ dispatcher # "none"
    /\ dispatcher' = "none"
    /\ UNCHANGED <<state, ckpt, srcNext, producerUp, queue, batch, attempts,
                   handled, exits, dispatched>>

-----------------------------------------------------------------------------

Manager == Start \/ Suspend
Producer == Poll \/ ProducerDeliver \/ ProducerExit \/ RuntimeExit
Dispatcher == Collect \/ Flush \/ Send \/ Persist \/ DispatcherExit

Next == Manager \/ Producer \/ Dispatcher \/ Drained

\* Every task step the scheduler can run is eventually run; the batch
\* timer fires; a send returns; storage recovers.  The manager's calls and
\* the runtime's failures are not forced.
Fairness ==
    /\ WF_vars(Poll) /\ WF_vars(ProducerDeliver) /\ WF_vars(ProducerExit)
    /\ WF_vars(Collect) /\ WF_vars(Flush) /\ WF_vars(Send)
    /\ WF_vars(Persist) /\ WF_vars(DispatcherExit) /\ WF_vars(Drained)

Spec == Init /\ [][Next]_vars /\ Fairness

-----------------------------------------------------------------------------

\* The refinement mapping: the events the sink has been handed are those
\* of the batches sent or dropped; the stream is active while its
\* dispatcher runs.
Abs == INSTANCE StreamAbstract
         WITH done <- dispatched, active <- dispatcher # "none"

\* The engine implements the at-least-once stream: no event reaches the
\* sink before every earlier one has, the persisted checkpoint names an
\* event already sent (a restart from it loses nothing), and while the
\* dispatcher runs every event is eventually sent.  This holds with the
\* restart of line 68, which redelivers from the checkpoint what the old
\* run had already queued.
ImplementsStreamAbstract == Abs!Spec

=============================================================================
