--------------------------- MODULE MCLinethRollup ---------------------------
(* Small instances of LinethRollup for TLC. *)
EXTENDS LinethRollup, TLC

CONSTANTS g, r1, r2, r3, alice, bob, t1, t2, m1, m2, w1, w2, op, rec

MCFrom == (t1 :> alice) @@ (t2 :> bob)
MCTo   == (t1 :> bob) @@ (t2 :> bob)

\* t1 is executed in the blocks that reach r2 and cannot execute again; t2 never
\* could on g, and r3 is the root of a fork in which t1 was left out.
MCExecutable == (g :> {t1}) @@ (r1 :> {t1, t2}) @@ (r2 :> {}) @@ (r3 :> {t1})

B(end, root, ts, messages, sent) ==
    [end |-> end, root |-> root, timestamp |-> ts, messages |-> messages, sent |-> sent]

\* Forced transactions: short blocks, a fork, and a chain that stops half way.
F1 == B(1, r1, 1, << >>, {})
F2 == B(2, r2, 2, << >>, {})
F3 == B(3, r2, 3, << >>, {})
F4 == B(4, r3, 3, << >>, {})
ForcedBlobs       == {F1, F2, F3, F4}
ForcedSubmissions == {<<F1>>, <<F2>>, <<F3>>, <<F4>>}

\* Messages: anchored ones, one L1 never sent, a zero root, blobs sent together.
M1 == B(1, r1, 1, <<m1>>, {w1})
M2 == B(2, r2, 2, <<m1, m2>>, {w1, w2})
M3 == B(2, r3, 2, <<m2>>, {w2})
M4 == B(3, EmptyHash, 2, <<m1>>, {w1})
MessageBlobs       == {M1, M2, M3, M4}
MessageSubmissions == {<<M1>>, <<M2>>, <<M1, M2>>, <<M3>>, <<M4>>}
=============================================================================
