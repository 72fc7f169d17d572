-------------------------- MODULE MCMessageBridge --------------------------
(* A small instance of MessageBridge for TLC.                                                    *)
EXTENDS MessageBridge

\* Three messages to L2 and two faults of any kind; or two messages to L2, one to L1 and a fault; or
\* one message to L2, one to L1 from before Merkle roots, two after it, and an admin call.
MCBounds ==
    {[l1 |-> 3, l2 |-> 0, legacy |-> <<>>, faults |-> 2, admin |-> 0],
     [l1 |-> 2, l2 |-> 1, legacy |-> <<>>, faults |-> 1, admin |-> 0],
     [l1 |-> 1, l2 |-> 3, legacy |-> <<1>>, faults |-> 0, admin |-> 1]}
=============================================================================
