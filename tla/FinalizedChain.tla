--------------------------- MODULE FinalizedChain ---------------------------
(***************************************************************************)
(* What the rollup promises its users, without the hashes, roles, pauses   *)
(* and proofs it uses to keep the promise: one chain of finalized blobs    *)
(* that only grows, whose data is public, and a queue of forced            *)
(* transactions none of which the chain can pass unhandled.                *)
(***************************************************************************)
EXTENDS Integers, Sequences

CONSTANT End(_)    \* the last L2 block of a chain of blobs

VARIABLES
    finalized,     \* the finalized chain of blobs
    public,        \* chains whose last blob was published
    queue,         \* forced transactions in order of submission
    handled        \* how many of them are settled

vars == <<finalized, public, queue, handled>>

Init ==
    /\ finalized = << >>
    /\ public = {<< >>}
    /\ queue = << >>
    /\ handled = 0

\* More data becomes public; none is withdrawn.
Publish ==
    /\ public \subseteq public'
    /\ UNCHANGED <<finalized, queue, handled>>

\* A forced transaction joins the queue, due after everything finalized and
\* after every transaction queued before it.
Force ==
    LET new == queue'[Len(queue) + 1] IN
    /\ Len(queue') = Len(queue) + 1
    /\ queue' = Append(queue, new)
    /\ new.deadline > End(finalized)
    /\ \A n \in 1..Len(queue) : queue[n].deadline < new.deadline
    /\ UNCHANGED <<finalized, public, handled>>

\* The finalized chain grows by public data.  Transactions are settled in order,
\* before their deadline passed, and none due in the new blocks is left over.
Finalize ==
    /\ Len(finalized) < Len(finalized')
    /\ SubSeq(finalized', 1, Len(finalized)) = finalized
    /\ End(finalized) < End(finalized')
    /\ \A k \in 1..Len(finalized') : SubSeq(finalized', 1, k) \in public
    /\ handled' \in handled..Len(queue)
    /\ \A n \in (handled + 1)..handled' : queue[n].deadline > End(finalized)
    /\ \A n \in (handled' + 1)..Len(queue) : queue[n].deadline > End(finalized')
    /\ UNCHANGED <<public, queue>>

Next == Publish \/ Force \/ Finalize

Spec == Init /\ [][Next]_vars
=============================================================================
