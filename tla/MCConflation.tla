---------------------------- MODULE MCConflation ----------------------------
(* A small instance of Conflation for TLC.                                    *)
EXTENDS Conflation

\* An ordinary block, one with more data whose traces exceed the limit by themselves, and the
\* first block of a hard fork.
MCBlockKinds ==
    {[data |-> 1, traces |-> 1, fork |-> FALSE],
     [data |-> 2, traces |-> 4, fork |-> FALSE],
     [data |-> 1, traces |-> 1, fork |-> TRUE]}
=============================================================================
