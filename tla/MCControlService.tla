-------------------------- MODULE MCControlService --------------------------
(* Instances of ControlService for TLC. *)
EXTENDS ControlService, TLC

CONSTANTS a1, a2, t1, t2, h1, h2

MCFits == [a \in Agents |-> Tasks]

Symmetry == Permutations(Agents) \union Permutations(Tasks) \union Permutations(Handlers)
=============================================================================
