------------------------------ MODULE MCPgLocks ------------------------------
(* Instances of PgLocks for TLC. *)
EXTENDS PgLocks

CONSTANTS a1, a2, t1, t2, h1, h2

MCFits == [a \in Agents |-> Tasks]

\* Which thread serves which request, and which agent is which, makes no difference: h2
\* serves no report, h1 no cancel and no poll of a2.  What this leaves out is two reports,
\* two cancels, or two polls of a2 at the same time.
Focus ==
    /\ tx[h1].op' # "cancel"
    /\ tx[h1].agent' # a2
    /\ tx[h2].op' # "report"
=============================================================================
