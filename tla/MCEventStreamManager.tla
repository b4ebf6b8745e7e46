------------------------- MODULE MCEventStreamManager -------------------------
(***************************************************************************)
(* Instances of EventStreamManager for TLC.                                *)
(***************************************************************************)
EXTENDS EventStreamManager, TLC

CONSTANTS s1, s2, r1, r2

\* Two streams, one caller: requests are serialised, the streams' own
\* goroutines, restarts and storage errors interleave with them.
SerialIds == {s1, s2}
SerialCallers == [c \in {r1} |-> {s1, s2}]

\* Two streams, each addressed by its own caller.
OwnCallers == (r1 :> {s1}) @@ (r2 :> {s2})

\* One stream addressed by two concurrent callers.
SharedIds == {s1}
SharedCallers == [c \in {r1, r2} |-> {s1}]
\* An eventStream that is idle, not in the registry and held by no caller
\* can never run again: states that differ only in such streams' fields
\* are identified (TLC VIEW).
Reachable(n) ==
    \/ inst[n].run # "idle"
    \/ \E i \in Ids : streams[i] = n
    \/ \E c \in Callers : n \in {cs[c].es, cs[c].existing}

StateView ==
    <<db, dbInit, rows, ckpt,
      [n \in DOMAIN inst |-> IF Reachable(n) THEN inst[n] ELSE "unreachable"],
      streams, cs, phase, initSkip, initPage, closeTodo, resetFrom>>
=============================================================================
