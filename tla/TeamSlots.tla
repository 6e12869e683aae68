----------------------------- MODULE TeamSlots -----------------------------
(***************************************************************************)
(* What the global task queue promises, without threads, locks and tables: *)
(* tasks wait, a waiting task is admitted to a slot of its team when the   *)
(* team has one left and nothing else of its pipeline is admitted, and an  *)
(* admitted or waiting task may leave at any time.  TaskQueue implements   *)
(* this specification (its property ImplementsTeamSlots).                  *)
(***************************************************************************)
EXTENDS Naturals, FiniteSets

CONSTANTS Tasks, None, Team, Pipeline, Limit

VARIABLES
    waiting,    \* tasks in the queue
    active      \* tasks that hold a slot

slots == <<waiting, active>>

Init == waiting = {} /\ active = {}

Mates(t) == {u \in active : Team[u] = Team[t]}

Rivals(t) == {u \in active : Pipeline[t] # None /\ Pipeline[u] = Pipeline[t]}

\* A new task, or one that is tried again, waits and holds no slot.
Enqueue(t) ==
    /\ waiting' = waiting \cup {t}
    /\ active' = active \ {t}

Admit(t) ==
    /\ t \in waiting
    /\ Cardinality(Mates(t)) < Limit[Team[t]]
    /\ Rivals(t) = {}
    /\ waiting' = waiting \ {t}
    /\ active' = active \cup {t}

\* A task ends, is stopped or is deleted.
Leave(t) ==
    /\ waiting' = waiting \ {t}
    /\ active' = active \ {t}

Next == \E t \in Tasks : Enqueue(t) \/ Admit(t) \/ Leave(t)

Spec == Init /\ [][Next]_slots
=============================================================================
