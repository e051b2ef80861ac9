--------------------------- MODULE AssignmentLease ---------------------------
(***************************************************************************)
(* What the master's dispatching promises, whatever requests race: a task  *)
(* is waiting, or leased to one agent, or neither.  A lease is granted on  *)
(* waiting tasks only and in the step that takes them off the queue; it    *)
(* ends for good, or by expiring, and then the task is waiting again in    *)
(* the same step.  No lease ever passes from one agent to another.         *)
(***************************************************************************)
CONSTANTS Agents, Tasks, NoAgent

VARIABLES
    holder,     \* holder[t]: the agent that holds t's lease, or NoAgent
    waiting     \* the tasks a poll may lease

vars == <<holder, waiting>>

Init ==
    /\ holder = [t \in Tasks |-> NoAgent]
    /\ waiting = {}

\* A task enters the queue when it is created, or when it is given back to it.
Submit(t) ==
    /\ holder[t] = NoAgent
    /\ waiting' = waiting \union {t}
    /\ UNCHANGED holder

Grant(a, S) ==
    /\ S \subseteq waiting
    /\ holder' = [t \in Tasks |-> IF t \in S THEN a ELSE holder[t]]
    /\ waiting' = waiting \ S

\* A report or a cancel takes the task from its holder and from the queue.
Release(t) ==
    /\ holder' = [holder EXCEPT ![t] = NoAgent]
    /\ waiting' = waiting \ {t}

\* Every lease of the agents in A expires at once; R: tasks that those agents
\* had lost earlier and that no one holds.
Expire(A, R) ==
    /\ \A t \in R : holder[t] = NoAgent
    /\ holder' = [t \in Tasks |-> IF holder[t] \in A THEN NoAgent ELSE holder[t]]
    /\ waiting' = waiting \union R \union {t \in Tasks : holder[t] \in A}

Next ==
    \/ \E t \in Tasks : Submit(t) \/ Release(t)
    \/ \E a \in Agents, S \in SUBSET Tasks : Grant(a, S)
    \/ \E A \in SUBSET Agents, R \in SUBSET Tasks : Expire(A, R)

Spec == Init /\ [][Next]_vars
=============================================================================
