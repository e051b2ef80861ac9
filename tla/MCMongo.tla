------------------------------- MODULE MCMongo -------------------------------
(* Instances of MongoBroker for TLC. *)
EXTENDS MongoBroker, TLC

CONSTANTS a1, a2, t1, t2, h1, h2

MCFits == [a \in Agents |-> Tasks]

MongoSymmetry == Permutations(Agents) \union Permutations(Tasks) \union Permutations(Handlers)

\* No statement tells a Busy agent from an Idle one.
MongoView ==
    <<[a \in Agents |-> IF agentStatus[a] = "Busy" THEN "Idle" ELSE agentStatus[a]],
      overdue, taskVars, transactions, call, sweep, history>>
=============================================================================
