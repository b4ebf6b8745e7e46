------------------------------ MODULE StreamAbstract ------------------------------
(***************************************************************************)
(* What one event stream guarantees across runtime restarts (spec 4.2,     *)
(* 4.4; manager.go line 68): the sink is handed the source's events in     *)
(* batches of at most BatchSize; an event is never handed over before all  *)
(* earlier ones have been (an event may be handed over again after a       *)
(* restart); the checkpoint only ever names an event already handed over.  *)
(* While the stream stays active, every event is eventually handed over.   *)
(***************************************************************************)
EXTENDS Naturals, FiniteSets

CONSTANTS
    N,          \* the source's events are 1..N, in order
    BatchSize   \* the most events one batch carries

VARIABLES
    ckpt,     \* the persisted checkpoint (0: none)
    done,     \* the events handed to the sink so far
    active    \* is the stream's dispatcher running?

avars == <<ckpt, done, active>>

Events == 1..N

\* No gap: with every event, all earlier ones are in the set.
NoGap(S) == \A e \in S : 1..e \subseteq S

Init ==
    /\ ckpt = 0
    /\ done = {}
    /\ active = FALSE

Activate ==
    /\ ~active
    /\ active' = TRUE
    /\ UNCHANGED <<ckpt, done>>

Deactivate ==
    /\ active
    /\ active' = FALSE
    /\ UNCHANGED <<ckpt, done>>

\* The sink is handed a batch B; it leaves no earlier event behind.
Handle(B) ==
    /\ active
    /\ B # {} /\ Cardinality(B) <= BatchSize
    /\ NoGap(done \cup B)
    /\ done' = done \cup B
    /\ UNCHANGED <<ckpt, active>>

\* The checkpoint is set to an event the sink has been handed.
Commit(k) ==
    /\ active
    /\ k \in done
    /\ ckpt' = k
    /\ UNCHANGED <<done, active>>

\* The sink is handed an event it had not been handed before.
Progress == \E B \in SUBSET Events : Handle(B) /\ done' # done

Next ==
    \/ Activate \/ Deactivate
    \/ \E B \in SUBSET Events : Handle(B)
    \/ \E k \in Events : Commit(k)

Spec == Init /\ [][Next]_avars /\ WF_avars(Progress)

=============================================================================
