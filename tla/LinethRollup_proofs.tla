------------------------ MODULE LinethRollup_proofs -------------------------
(***************************************************************************)
(* TLAPS proofs about LinethRollup, for every value of its constants: lemmas *)
(* on sequences, submissions and the checks of a finalization, the         *)
(* inductive invariant, the safety properties that follow from it, and the *)
(* refinement of FinalizedChain.                                           *)
(***************************************************************************)
EXTENDS LinethRollup, SequenceTheorems, TLAPS

USE ZenonT(30)

(* Sequences ***************************************************************)

\* A prefix of a sequence is a sequence over the same set.
LEMMA PrefixIsSeq ==
    ASSUME NEW S, NEW s \in Seq(S), NEW k \in 0..Len(s)
    PROVE  /\ SubSeq(s, 1, k) \in Seq(S)
           /\ Len(SubSeq(s, 1, k)) = k
           /\ \A i \in 1..k : SubSeq(s, 1, k)[i] = s[i]
  BY SubSeqProperties, SMTT(30)

\* Appending leaves every prefix of the old sequence in place.
LEMMA PrefixOfAppend ==
    ASSUME NEW S, NEW s \in Seq(S), NEW e \in S, NEW k \in 0..Len(s)
    PROVE  SubSeq(Append(s, e), 1, k) = SubSeq(s, 1, k)
  <1>1. /\ Append(s, e) \in Seq(S) /\ Len(Append(s, e)) = Len(s) + 1
        /\ \A i \in 1..Len(s) : Append(s, e)[i] = s[i]
    BY AppendProperties, SMTT(30)
  <1>2. /\ SubSeq(Append(s, e), 1, k) \in Seq(S) /\ Len(SubSeq(Append(s, e), 1, k)) = k
        /\ \A i \in 1..k : SubSeq(Append(s, e), 1, k)[i] = Append(s, e)[i]
    BY <1>1, PrefixIsSeq, SMTT(30)
  <1>3. /\ SubSeq(s, 1, k) \in Seq(S) /\ Len(SubSeq(s, 1, k)) = k
        /\ \A i \in 1..k : SubSeq(s, 1, k)[i] = s[i]
    BY PrefixIsSeq
  <1> QED BY <1>1, <1>2, <1>3, SeqEqual, SMTT(30)

(* Initial states and frame ***************************************************)

\* The state reached by a chain of blobs is an L2 state.
LEMMA StateOfType ==
    ASSUME NEW shnarf \in Seq(Blob)
    PROVE  StateOf(shnarf) \in L2State
  <1>1. CASE shnarf = << >>
    BY <1>1, StateAssumption, BoundAssumption, EmptySeq, SMTT(30) DEF StateOf, GenesisState, L2State
  <1>2. CASE shnarf # << >>
    <2>1. Len(shnarf) \in Nat \ {0}
      BY <1>2, EmptySeq
    <2>2. shnarf[Len(shnarf)] \in Blob
      BY <2>1, ElementOfSeq, SMTT(30)
    <2> QED BY <1>2, <2>2, BlobAssumption DEF StateOf
  <1> QED BY <1>1, <1>2

\* Both deployments, fresh and upgraded, start in the invariant.
LEMMA InitIInv == Init => IInv
  <1> SUFFICES ASSUME Init PROVE IInv
    OBVIOUS
  <1> USE DEF Init
  <1>0. << >> \in Seq(Blob) /\ << >> \in Seq(Message) /\ << >> \in Seq(ForcedTransaction)
    BY EmptySeq
  <1>1. currentFinalizedState \in FinalizedState
        /\ currentFinalizedState.timestamp = 0
        /\ currentFinalizedState.messageNumber = 0
        /\ currentFinalizedState.messageRollingHash = << >>
        /\ currentFinalizedState.forcedTransactionNumber = 0
        /\ currentFinalizedState.forcedTransactionRollingHash = << >>
    <2>1. CASE currentFinalizedState = FinalizedState5(0, EmptyHash, 0, EmptyHash, 0)
      BY <1>0, <2>1 DEF FinalizedState, FinalizedState5, EmptyHash
    <2>2. CASE currentFinalizedState = FinalizedState3(0, EmptyHash, 0)
      BY <1>0, <2>2, ZenonT(30) DEF FinalizedState, FinalizedState5, FinalizedState3, EmptyHash
    <2> QED BY <2>1, <2>2
  <1>2. TypeOK
    <2>1. stateRootHashes \in [0..MaxL2Block -> Root \cup {EmptyHash}]
      BY StateAssumption
    <2>2. currentL2BlockNumber \in 0..MaxL2Block /\ verifiers \subseteq ProofTypes
      BY BoundAssumption, SMTT(30)
    <2>3. useAddressFilter \in BOOLEAN
      OBVIOUS
    <2> QED BY <1>0, <1>1, <2>1, <2>2, <2>3 DEF TypeOK, Accounts
  <1>3. Len(<< >>) = 0
    BY EmptySeq
  <1>4. SubSeq(<< >>, 1, 0) = << >>
    BY SubSeqEmpty, SMTT(30)
  <1>5. AcceptedDataAvailable
    BY <1>3, <1>4, SMTT(30) DEF AcceptedDataAvailable
  <1>6. DeadlinesIncrease /\ CensorshipResistance /\ NoneForcedBeforeFirstFinalization
    BY <1>3, SMTT(30) DEF DeadlinesIncrease, CensorshipResistance, NoneForcedBeforeFirstFinalization
  <1>7. RootsAreFinalized
    BY BoundAssumption, SMTT(30) DEF RootsAreFinalized
  <1>8. StateOf(currentFinalizedShnarf) = GenesisState
    BY DEF StateOf
  <1>9. FinalizedStateIsL2State
    <2>1. /\ currentL2BlockNumber = 0 /\ stateRootHashes[0] = GenesisRoot
          /\ forcedTransactions = << >> /\ l1Messages = << >>
      BY BoundAssumption, SMTT(30)
    <2>2. IsPrefix(<< >>, << >>)
      BY <1>3, <1>4, SMTT(30) DEF IsPrefix
    <2> HIDE DEF Init
    <2> QED BY <1>1, <1>3, <1>4, <1>8, <2>1, <2>2, SMTT(30) DEF FinalizedStateIsL2State, GenesisState
  <1>10. SettledForAReason /\ ElapsedTimeDoesNotUnderflow
    BY <1>1, SMTT(30) DEF SettledForAReason, ElapsedTimeDoesNotUnderflow, FinalizedForcedTransactions
  <1> QED
    BY <1>2, <1>5, <1>6, <1>7, <1>8, <1>9, <1>10, StateAssumption, SMTT(30) DEF IInv, GenesisState

\* A step that leaves the finalized chain and both queues alone, and moves neither
\* the clock nor the filter's history back, preserves the invariant.
LEMMA FrameIInv ==
    ASSUME IInv, TypeOK',
           UNCHANGED <<chainVars, finalVars, forcedTransactions, l1Messages>>,
           now <= now', everFiltered \subseteq everFiltered', filtered' \subseteq everFiltered'
    PROVE  IInv'
  <1> USE DEF IInv, chainVars, finalVars
  <1>1. AcceptedDataAvailable' /\ DeadlinesIncrease' /\ NoneForcedBeforeFirstFinalization'
        /\ RootsAreFinalized' /\ FinalizedStateIsL2State'
    BY DEF AcceptedDataAvailable, DeadlinesIncrease, NoneForcedBeforeFirstFinalization,
           RootsAreFinalized, FinalizedStateIsL2State
  <1>2. CensorshipResistance'
    BY DEF CensorshipResistance, FinalizedForcedTransactions
  <1>3. SettledForAReason'
    BY DEF SettledForAReason, FinalizedForcedTransactions
  <1>4. ElapsedTimeDoesNotUnderflow'
    BY SMTT(30) DEF ElapsedTimeDoesNotUnderflow, TypeOK, FinalizedState
  <1> QED
    BY <1>1, <1>2, <1>3, <1>4

(* Submitting data and forcing transactions ********************************)

\* submitBlobs: the parent's data is published by the invariant, the rest by the step.
LEMMA SubmitBlobsIInv ==
    ASSUME IInv, NEW operator, NEW parent, NEW blobs \in Submissions,
           SubmitBlobs(operator, parent, blobs)
    PROVE  IInv'
  <1> DEFINE f == parent \o blobs
  <1> USE DEF SubmitBlobs, finalVars, gatewayVars, adminVars
  <1>1. parent \in Seq(Blob) /\ blobs \in Seq(Blob) /\ parent \in blobShnarfExists
    BY BlobAssumption DEF IInv, TypeOK
  <1>2. /\ f \in Seq(Blob) /\ Len(f) = Len(parent) + Len(blobs)
        /\ \A i \in 1..Len(parent) : f[i] = parent[i]
        /\ Len(parent) \in Nat /\ Len(blobs) \in Nat
    BY <1>1, ConcatProperties, LenProperties, SMTT(30)
  <1>3. \A k \in 0..Len(f) : SubSeq(f, 1, k) \in Seq(Blob)
    BY <1>2, PrefixIsSeq
  <1>4. blobShnarfExists' = blobShnarfExists \cup {f}
        /\ posted' = posted \cup {SubSeq(f, 1, k) : k \in (Len(parent) + 1)..Len(f)}
    OBVIOUS
  <1>5. TypeOK'
    <2>1. blobShnarfExists' \subseteq Seq(Blob)
      BY <1>2, <1>4, ZenonT(30) DEF IInv, TypeOK
    <2>2. posted' \subseteq Seq(Blob)
      <3> SUFFICES ASSUME NEW p \in posted' PROVE p \in Seq(Blob)
        OBVIOUS
      <3>1. CASE p \in posted
        BY <3>1 DEF IInv, TypeOK
      <3>2. ASSUME NEW k \in (Len(parent) + 1)..Len(f), p = SubSeq(f, 1, k)
            PROVE  p \in Seq(Blob)
        <4>1. k \in 0..Len(f)
          BY <1>2, SMTT(30)
        <4> QED BY <1>3, <3>2, <4>1
      <3> QED BY <1>4, <3>1, <3>2
    <2> QED BY <2>1, <2>2, ZenonT(30) DEF IInv, TypeOK
  <1>6. AcceptedDataAvailable'
    <2>1. \A k \in 0..Len(parent) : SubSeq(f, 1, k) = SubSeq(parent, 1, k)
      <3> TAKE k \in 0..Len(parent)
      <3>1. /\ SubSeq(f, 1, k) \in Seq(Blob) /\ Len(SubSeq(f, 1, k)) = k
            /\ \A i \in 1..k : SubSeq(f, 1, k)[i] = f[i]
        BY <1>2, PrefixIsSeq, SMTT(30)
      <3>2. /\ SubSeq(parent, 1, k) \in Seq(Blob) /\ Len(SubSeq(parent, 1, k)) = k
            /\ \A i \in 1..k : SubSeq(parent, 1, k)[i] = parent[i]
        BY <1>1, PrefixIsSeq
      <3> QED BY <1>2, <3>1, <3>2, SeqEqual, SMTT(30)
    <2>2. \A k \in 0..Len(f) : SubSeq(f, 1, k) \in posted'
      <3> TAKE k \in 0..Len(f)
      <3>1. CASE k <= Len(parent)
        <4>1. k \in 0..Len(parent)
          BY <1>2, <3>1, SMTT(30)
        <4>2. SubSeq(parent, 1, k) \in posted
          BY <1>1, <4>1 DEF IInv, AcceptedDataAvailable
        <4> QED BY <1>4, <2>1, <4>1, <4>2, ZenonT(30)
      <3>2. CASE k > Len(parent)
        BY <1>2, <1>4, <3>2, SMTT(30)
      <3> QED BY <1>2, <3>1, <3>2, SMTT(30)
    <2> HIDE DEF f
    <2> QED BY <1>4, <2>2, ZenonT(30) DEF IInv, AcceptedDataAvailable
  <1>7. /\ DeadlinesIncrease' /\ NoneForcedBeforeFirstFinalization' /\ RootsAreFinalized'
        /\ FinalizedStateIsL2State'
    BY DEF IInv, DeadlinesIncrease, NoneForcedBeforeFirstFinalization, RootsAreFinalized,
           FinalizedStateIsL2State
  <1>8. CensorshipResistance' /\ SettledForAReason'
    <2>1. CensorshipResistance'
      BY DEF IInv, CensorshipResistance, FinalizedForcedTransactions
    <2>2. SettledForAReason'
      BY DEF IInv, SettledForAReason, FinalizedForcedTransactions
    <2> QED BY <2>1, <2>2
  <1>9. /\ ElapsedTimeDoesNotUnderflow' /\ filtered' \subseteq everFiltered'
        /\ (StateOf(currentFinalizedShnarf).root \in Root)'
    BY DEF IInv, ElapsedTimeDoesNotUnderflow
  <1> QED BY <1>5, <1>6, <1>7, <1>8, <1>9 DEF IInv

\* The deadline the gateway computes is after every finalized block and after
\* every earlier deadline.
LEMMA BlockNumberDeadlineBound ==
    ASSUME IInv
    PROVE  /\ BlockNumberDeadline \in Nat \ {0}
           /\ BlockNumberDeadline > currentL2BlockNumber
           /\ \A i \in 1..Len(forcedTransactions) :
                 forcedTransactions[i].deadline < BlockNumberDeadline
  <1> DEFINE n == Len(forcedTransactions)
             previous == forcedTransactionL2BlockNumbers(n)
             elapsed == now - currentFinalizedState.timestamp
             blocks == elapsed \div L2_BLOCK_DURATION_SECONDS
             deadline == currentL2BlockNumber + blocks + L2_BLOCK_BUFFER
  <1>1. forcedTransactions \in Seq(ForcedTransaction) /\ n \in Nat
    BY LenProperties DEF IInv, TypeOK
  <1>2. \A i \in 1..n : forcedTransactions[i].deadline \in Nat \ {0}
    <2> TAKE i \in 1..n
    <2>1. forcedTransactions[i] \in ForcedTransaction
      BY <1>1, ElementOfSeq
    <2> QED BY <2>1 DEF ForcedTransaction
  <1>3. previous \in Nat
    BY <1>1, <1>2 DEF forcedTransactionL2BlockNumbers
  <1>4. \A i \in 1..n : forcedTransactions[i].deadline <= previous
    BY <1>1, <1>2, SMTT(30) DEF IInv, DeadlinesIncrease, forcedTransactionL2BlockNumbers
  <1>5. elapsed \in Nat
    BY SMTT(30) DEF IInv, TypeOK, FinalizedState, ElapsedTimeDoesNotUnderflow
  <1>6. blocks \in Nat
    <2> HIDE DEF elapsed
    <2> QED BY <1>5, GatewayAssumption, SMTT(30)
  <1>7. currentL2BlockNumber \in Nat
    BY BoundAssumption, SMTT(30) DEF IInv, TypeOK
  <1>8. deadline \in Nat \ {0} /\ deadline > currentL2BlockNumber
    <2> HIDE DEF blocks
    <2> QED BY <1>6, <1>7, GatewayAssumption, SMTT(30)
  <1>9. BlockNumberDeadline
          = IF deadline <= previous THEN previous + BLOCK_NUMBER_DEADLINE_BUFFER ELSE deadline
    BY DEF BlockNumberDeadline
  <1> HIDE DEF deadline, previous, n
  <1>10. /\ BlockNumberDeadline \in Nat \ {0}
         /\ BlockNumberDeadline > currentL2BlockNumber
         /\ BlockNumberDeadline > previous
    BY <1>3, <1>7, <1>8, <1>9, GatewayAssumption, SMTT(30)
  <1> QED BY <1>2, <1>3, <1>4, <1>10, SMTT(30) DEF n

\* sendMessage: what L2 anchored stays a prefix of what L1 sent.
LEMMA SendMessageIInv ==
    ASSUME IInv, NEW message \in Message, SendMessage(message)
    PROVE  IInv'
  <1> DEFINE msgs == StateOf(currentFinalizedShnarf).messages
  <1> USE DEF SendMessage, chainVars, finalVars, gatewayVars, adminVars
  <1>1. l1Messages \in Seq(Message) /\ l1Messages' = Append(l1Messages, message)
    BY DEF IInv, TypeOK
  <1>2. l1Messages' \in Seq(Message) /\ Len(l1Messages') = Len(l1Messages) + 1
        /\ Len(l1Messages) \in Nat
    BY <1>1, AppendProperties, LenProperties, SMTT(30)
  <1>3. TypeOK'
    BY <1>2 DEF IInv, TypeOK
  <1>4. IsPrefix(msgs, l1Messages')
    <2>1. currentFinalizedShnarf \in Seq(Blob)
      BY DEF IInv, TypeOK
    <2>2. msgs \in Seq(Message)
      BY <2>1, StateOfType DEF L2State
    <2>3. Len(msgs) \in 0..Len(l1Messages) /\ SubSeq(l1Messages, 1, Len(msgs)) = msgs
      BY <1>2, <2>2, LenProperties, SMTT(30) DEF IInv, FinalizedStateIsL2State, IsPrefix
    <2>4. SubSeq(l1Messages', 1, Len(msgs)) = SubSeq(l1Messages, 1, Len(msgs))
      BY <1>1, <2>3, PrefixOfAppend, SMTT(30)
    <2> QED BY <1>2, <2>3, <2>4, SMTT(30) DEF IsPrefix
  <1>5. FinalizedStateIsL2State'
    BY <1>4, SMTT(30) DEF IInv, FinalizedStateIsL2State
  <1>6. /\ AcceptedDataAvailable' /\ DeadlinesIncrease' /\ NoneForcedBeforeFirstFinalization'
        /\ RootsAreFinalized'
    BY DEF IInv, AcceptedDataAvailable, DeadlinesIncrease, NoneForcedBeforeFirstFinalization,
           RootsAreFinalized
  <1>7. CensorshipResistance' /\ SettledForAReason'
    <2>1. CensorshipResistance'
      BY DEF IInv, CensorshipResistance, FinalizedForcedTransactions
    <2>2. SettledForAReason'
      BY DEF IInv, SettledForAReason, FinalizedForcedTransactions
    <2> QED BY <2>1, <2>2
  <1>8. /\ ElapsedTimeDoesNotUnderflow' /\ filtered' \subseteq everFiltered'
        /\ (StateOf(currentFinalizedShnarf).root \in Root)'
    BY DEF IInv, ElapsedTimeDoesNotUnderflow
  <1> QED BY <1>3, <1>5, <1>6, <1>7, <1>8 DEF IInv

\* submitForcedTransaction: the new entry is due later than everything before it.
LEMMA SubmitForcedTransactionIInv ==
    ASSUME IInv, NEW tx \in Transaction, SubmitForcedTransaction(tx)
    PROVE  IInv'
  <1> DEFINE n == Len(forcedTransactions)
             new == [tx |-> tx, deadline |-> BlockNumberDeadline]
             settled == currentFinalizedState.forcedTransactionNumber
  <1>1. /\ forcedTransactions \in Seq(ForcedTransaction) /\ n \in Nat
        /\ forcedTransactions' = Append(forcedTransactions, new)
        /\ lastSubmissionBlock' = now
        /\ currentFinalizedState.fields = 5
        /\ UNCHANGED <<chainVars, finalVars, adminVars, l1Messages, now>>
    BY LenProperties DEF IInv, TypeOK, SubmitForcedTransaction, StoreForcedTransaction
  <1>2. /\ new \in ForcedTransaction
        /\ BlockNumberDeadline > currentL2BlockNumber
        /\ \A i \in 1..n : forcedTransactions[i].deadline < BlockNumberDeadline
    BY BlockNumberDeadlineBound DEF ForcedTransaction
  <1>3. /\ forcedTransactions' \in Seq(ForcedTransaction)
        /\ Len(forcedTransactions') = n + 1
        /\ \A i \in 1..n : forcedTransactions'[i] = forcedTransactions[i]
        /\ forcedTransactions'[n + 1] = new
    BY <1>1, <1>2, AppendProperties, SMTT(30)
  <1> USE DEF chainVars, finalVars, adminVars
  <1>4. TypeOK'
    BY <1>1, <1>3 DEF IInv, TypeOK
  <1>5. settled \in 0..n /\ settled' = settled
    BY <1>1, SMTT(30) DEF IInv, TypeOK, FinalizedState, FinalizedStateIsL2State
  <1>6. FinalizedStateIsL2State'
    <2>1. SubSeq(forcedTransactions', 1, settled) = SubSeq(forcedTransactions, 1, settled)
      BY <1>1, <1>2, <1>5, PrefixOfAppend
    <2>2. settled <= Len(forcedTransactions')
      BY <1>1, <1>3, <1>5, SMTT(30)
    <2> QED BY <1>1, <2>1, <2>2, ZenonT(30) DEF IInv, FinalizedStateIsL2State
  <1>7. DeadlinesIncrease'
    <2> SUFFICES ASSUME NEW i \in 1..(n + 1), NEW j \in 1..(n + 1), i < j
                 PROVE  forcedTransactions'[i].deadline < forcedTransactions'[j].deadline
      BY <1>3 DEF DeadlinesIncrease
    <2>1. CASE j = n + 1
      BY <1>1, <1>2, <1>3, <2>1, SMTT(30)
    <2>2. CASE j \in 1..n
      BY <1>1, <1>3, <2>2, SMTT(30) DEF IInv, DeadlinesIncrease
    <2> QED BY <1>1, <2>1, <2>2, SMTT(30)
  <1>8. CensorshipResistance'
    <2> SUFFICES ASSUME NEW i \in 1..(n + 1),
                        forcedTransactions'[i].deadline <= currentL2BlockNumber
                 PROVE  i <= settled
      BY <1>1, <1>3, <1>5, SMTT(30) DEF CensorshipResistance, FinalizedForcedTransactions
    <2>1. i # n + 1
      <3>1. BlockNumberDeadline \in Nat /\ currentL2BlockNumber \in Nat
        BY BlockNumberDeadlineBound, BoundAssumption, SMTT(30) DEF IInv, TypeOK
      <3> QED BY <1>2, <1>3, <3>1, SMTT(30)
    <2>2. i \in 1..n
      BY <1>1, <2>1, SMTT(30)
    <2> QED BY <1>3, <2>2, SMTT(30) DEF IInv, CensorshipResistance, FinalizedForcedTransactions
  <1>9. SettledForAReason'
    <2>1. \A i \in 1..settled : forcedTransactions'[i] = forcedTransactions[i]
      BY <1>1, <1>3, <1>5, SMTT(30)
    <2> QED BY <1>1, <1>5, <2>1, SMTT(30) DEF IInv, SettledForAReason, FinalizedForcedTransactions
  <1>10. /\ AcceptedDataAvailable' /\ NoneForcedBeforeFirstFinalization'
         /\ RootsAreFinalized' /\ ElapsedTimeDoesNotUnderflow'
         /\ filtered' \subseteq everFiltered'
         /\ (StateOf(currentFinalizedShnarf).root \in Root)'
    BY <1>1, SMTT(30) DEF IInv, AcceptedDataAvailable, NoneForcedBeforeFirstFinalization,
           RootsAreFinalized, ElapsedTimeDoesNotUnderflow
  <1> QED BY <1>4, <1>6, <1>7, <1>8, <1>9, <1>10 DEF IInv

(* Finalization ************************************************************)

\* A prefix of another sequence is shorter.
LEMMA StrictPrefix ==
    ASSUME NEW S, NEW s \in Seq(S), NEW t \in Seq(S), s # t, IsPrefix(s, t)
    PROVE  /\ Len(s) \in Nat /\ Len(t) \in Nat /\ Len(s) < Len(t)
           /\ SubSeq(t, 1, Len(s)) = s
  <1>1. Len(s) \in Nat /\ Len(t) \in Nat
    BY LenProperties
  <1>2. SubSeq(t, 1, Len(t)) = t
    BY SubSeqFull
  <1> QED BY <1>1, <1>2, SMTT(30) DEF IsPrefix

\* The execution proof relates the finalized L2 state to the new one.
LEMMA ExecutionProvenExecutes ==
    ASSUME NEW parent \in Seq(Blob), NEW final \in Seq(Blob),
           ExecutionProven(parent, final)
    PROVE  Executes(StateOf(parent), StateOf(final))
  <1>1. /\ Len(parent) \in Nat /\ Len(final) \in Nat /\ Len(parent) < Len(final)
        /\ SubSeq(final, 1, Len(parent)) = parent
    BY StrictPrefix DEF ExecutionProven
  <1>2. /\ Len(final) \in (Len(parent) + 1)..Len(final)
        /\ Len(parent) \in Len(parent)..(Len(final) - 1)
    BY <1>1, SMTT(30)
  <1>3. Executes(StateOf(SubSeq(final, 1, Len(parent))), final[Len(final)])
    BY <1>2 DEF ExecutionProven
  <1>4. final # << >>
    BY <1>1, EmptySeq, SMTT(30)
  <1> QED BY <1>1, <1>3, <1>4 DEF StateOf

\* The claimed last forced transaction is the settled one, also right after the
\* upgrade, and the final one is a stored one at or after it.
LEMMA FinalizedForcedTransactionsAdvance ==
    ASSUME IInv, NEW root, NEW filteredAddresses,
           NEW n \in Nat, NEW h \in Seq(ForcedTransaction), NEW f \in Nat,
           ~ (f > 0 /\ forcedTransactionRollingHashes(f) = EmptyHash),
           LastFinalizedStateMatches(n, h),
           InvaliditiesProven(root, currentL2BlockNumber, filteredAddresses,
                              n, h, f, forcedTransactionRollingHashes(f))
    PROVE  /\ f \in FinalizedForcedTransactions..Len(forcedTransactions)
           /\ forcedTransactionRollingHashes(f) = SubSeq(forcedTransactions, 1, f)
           /\ \A i \in (FinalizedForcedTransactions + 1)..f :
                 InvalidityProven(forcedTransactions[i], root, currentL2BlockNumber,
                                  filteredAddresses)
  <1> DEFINE s == currentFinalizedState
             settled == s.forcedTransactionNumber
             len == Len(forcedTransactions)
             fh == forcedTransactionRollingHashes(f)
  <1>1. /\ forcedTransactions \in Seq(ForcedTransaction) /\ len \in Nat
        /\ settled \in 0..len
        /\ s.forcedTransactionRollingHash = SubSeq(forcedTransactions, 1, settled)
    BY LenProperties, SMTT(30) DEF IInv, TypeOK, FinalizedState, FinalizedStateIsL2State
  <1>2. f \in 0..len /\ fh = SubSeq(forcedTransactions, 1, f)
    BY <1>1, SMTT(30) DEF forcedTransactionRollingHashes
  <1>3. /\ fh \in Seq(ForcedTransaction) /\ Len(fh) = f
        /\ \A i \in 1..f : fh[i] = forcedTransactions[i]
    BY <1>1, <1>2, PrefixIsSeq, SMTT(30)
  <1>4. Len(h) \in Nat /\ Len(h) <= f /\ f = n + f - Len(h)
        /\ \A i \in (Len(h) + 1)..f : InvalidityProven(fh[i], root, currentL2BlockNumber,
                                                        filteredAddresses)
    BY <1>3, LenProperties DEF InvaliditiesProven, IsPrefix
  <1>5. Len(h) = settled
    <2>1. CASE s = FinalizedState5(s.messageNumber, s.messageRollingHash, n, h, s.timestamp)
      <3>1. h = s.forcedTransactionRollingHash
        BY <2>1, SMTT(30) DEF FinalizedState5
      <3> QED BY <1>1, <3>1, PrefixIsSeq, SMTT(30)
    <2>2. CASE s = FinalizedState3(s.messageNumber, s.messageRollingHash, s.timestamp)
      <3>1. s.fields = 3
        BY <2>2 DEF FinalizedState3, FinalizedState5
      <3>2. forcedTransactions = << >>
        BY <3>1 DEF IInv, NoneForcedBeforeFirstFinalization
      <3>3. len = 0
        BY <3>2, EmptySeq
      <3> QED BY <1>1, <1>2, <1>4, <3>3, SMTT(30)
    <2> QED BY <2>1, <2>2 DEF LastFinalizedStateMatches
  <1>6. f \in settled..len
    BY <1>1, <1>2, <1>4, <1>5, SMTT(30)
  <1>7. \A i \in (settled + 1)..f :
           InvalidityProven(forcedTransactions[i], root, currentL2BlockNumber, filteredAddresses)
    <2> TAKE i \in (settled + 1)..f
    <2>1. i \in (Len(h) + 1)..f /\ i \in 1..f
      BY <1>1, <1>5, SMTT(30)
    <2> QED BY <1>3, <1>4, <2>1
  <1> QED BY <1>2, <1>6, <1>7, SMTT(30) DEF FinalizedForcedTransactions

\* The rolling hash check makes what L2 anchored a prefix of what L1 sent.
LEMMA ValidatedMessagesAreSent ==
    ASSUME l1Messages \in Seq(Message), NEW msgs \in Seq(Message),
           ValidateL2ComputedRollingHash(Len(msgs), msgs)
    PROVE  IsPrefix(msgs, l1Messages)
  <1>1. Len(msgs) \in Nat /\ Len(l1Messages) \in Nat
    BY LenProperties
  <1>2. CASE Len(msgs) = 0
    <2>1. msgs = << >> /\ SubSeq(l1Messages, 1, 0) = << >>
      BY <1>2, EmptySeq, SubSeqEmpty, SMTT(30)
    <2> QED BY <1>1, <1>2, <2>1, SMTT(30) DEF IsPrefix
  <1>3. CASE Len(msgs) # 0
    BY <1>1, <1>3 DEF ValidateL2ComputedRollingHash, rollingHashes, IsPrefix, EmptyHash
  <1> QED BY <1>2, <1>3

(* Finalization ************************************************************)

\* finalizeBlocks preserves the invariant.
LEMMA FinalizeBlocksIInv ==
    ASSUME IInv, NEW operator, NEW proofType, NEW finalShnarf, NEW root \in Root,
           NEW filteredAddresses, NEW n \in Nat, NEW h \in Seq(ForcedTransaction), NEW f \in Nat,
           FinalizeBlocks(operator, proofType, finalShnarf, root, filteredAddresses, n, h, f)
    PROVE  IInv'
  <1> DEFINE final == StateOf(finalShnarf)
             settled == FinalizedForcedTransactions
             len == Len(forcedTransactions)
  \* What the handler checks.
  <1>1. /\ finalShnarf \in blobShnarfExists
        /\ ExecutionProven(currentFinalizedShnarf, finalShnarf)
    BY DEF FinalizeBlocks
  <1>2. /\ ~ (f > 0 /\ forcedTransactionRollingHashes(f) = EmptyHash)
        /\ LastFinalizedStateMatches(n, h)
        /\ InvaliditiesProven(root, currentL2BlockNumber, filteredAddresses,
                              n, h, f, forcedTransactionRollingHashes(f))
    BY DEF FinalizeBlocks
  <1>3. /\ stateRootHashes[currentL2BlockNumber] = root
        /\ filteredAddresses \subseteq filtered
        /\ final.timestamp < now
        /\ final.root # EmptyHash
    BY DEF FinalizeBlocks, ValidateFilteredAddresses, IsInThePast
  <1>4. /\ ValidateL2ComputedRollingHash(Len(final.messages), final.messages)
        /\ NextForcedTransactionIsLater(f, final.end)
    BY DEF FinalizeBlocks
  \* What it writes.
  <1>5. /\ stateRootHashes' = [stateRootHashes EXCEPT ![final.end] = final.root]
        /\ currentL2BlockNumber' = final.end
    BY DEF FinalizeBlocks
  <1>6. /\ l2MerkleRoots' = l2MerkleRoots
                               \cup MerkleRootsProven(currentFinalizedShnarf, finalShnarf)
        /\ currentFinalizedShnarf' = finalShnarf
        /\ UNCHANGED <<blobShnarfExists, posted, forcedTransactions, lastSubmissionBlock>>
    BY DEF FinalizeBlocks, chainVars, gatewayVars
  <1>7. UNCHANGED <<adminVars, l1Messages, now>>
    BY DEF FinalizeBlocks
  <1>8. currentFinalizedState' =
              FinalizedState5(Len(final.messages), final.messages, f,
                              forcedTransactionRollingHashes(f), final.timestamp)
    BY DEF FinalizeBlocks
  \* What follows from the invariant.
  <1>9. /\ finalShnarf \in Seq(Blob) /\ currentFinalizedShnarf \in Seq(Blob)
        /\ forcedTransactions \in Seq(ForcedTransaction) /\ len \in Nat
        /\ l1Messages \in Seq(Message)
    BY <1>1, LenProperties DEF IInv, TypeOK
  <1>10. /\ now \in Nat /\ currentL2BlockNumber \in 0..MaxL2Block /\ currentL2BlockNumber \in Nat
         /\ stateRootHashes \in [0..MaxL2Block -> Root \cup {EmptyHash}]
         /\ settled \in Nat
    BY BoundAssumption, SMTT(30) DEF IInv, TypeOK, FinalizedState, FinalizedForcedTransactions
  <1>11. final \in L2State
    BY <1>9, StateOfType
  <1> HIDE DEF final
  <1>12. /\ final.end \in 0..MaxL2Block /\ final.end \in Nat
         /\ final.root \in Root /\ final.timestamp \in Nat
         /\ final.messages \in Seq(Message) /\ final.sent \subseteq L2Message
         /\ Len(final.messages) \in Nat
    BY <1>3, <1>11, BoundAssumption, LenProperties, SMTT(30) DEF L2State
  <1>13. currentL2BlockNumber < final.end
    <2>1. Executes(StateOf(currentFinalizedShnarf), final)
      BY <1>1, <1>9, ExecutionProvenExecutes DEF final
    <2>2. currentL2BlockNumber = StateOf(currentFinalizedShnarf).end
      BY DEF IInv, FinalizedStateIsL2State
    <2> QED BY <2>1, <2>2 DEF Executes
  <1>14. /\ f \in settled..len
         /\ forcedTransactionRollingHashes(f) = SubSeq(forcedTransactions, 1, f)
         /\ \A i \in (settled + 1)..f :
               InvalidityProven(forcedTransactions[i], root, currentL2BlockNumber,
                                filteredAddresses)
    BY <1>2, FinalizedForcedTransactionsAdvance, ZenonT(60)
  <1>15. f \in 0..len /\ SubSeq(forcedTransactions, 1, f) \in Seq(ForcedTransaction)
    BY <1>9, <1>10, <1>14, PrefixIsSeq, SMTT(30)
  <1>16. /\ currentFinalizedState'.fields = 5
         /\ currentFinalizedState'.messageNumber = Len(final.messages)
         /\ currentFinalizedState'.messageRollingHash = final.messages
         /\ currentFinalizedState'.forcedTransactionNumber = f
         /\ currentFinalizedState'.forcedTransactionRollingHash = SubSeq(forcedTransactions, 1, f)
         /\ currentFinalizedState'.timestamp = final.timestamp
    BY <1>8, <1>14 DEF FinalizedState5
  <1>17. currentFinalizedState' \in FinalizedState
    BY <1>8, <1>12, <1>14, <1>15 DEF FinalizedState5, FinalizedState
  <1>18. \A k \in 0..MaxL2Block :
             /\ k # final.end => stateRootHashes'[k] = stateRootHashes[k]
             /\ stateRootHashes[k] # EmptyHash => k # final.end
    <2>1. \A k \in 0..MaxL2Block : stateRootHashes[k] # EmptyHash => k <= currentL2BlockNumber
      BY DEF IInv, RootsAreFinalized
    <2> QED BY <1>5, <1>10, <1>12, <1>13, <2>1, SMTT(30)
  \* The conjuncts of the invariant, one by one.
  <1>19. TypeOK'
    <2>1. l2MerkleRoots' \subseteq SUBSET L2Message
      BY <1>6, <1>12, SMTT(30) DEF IInv, TypeOK, MerkleRootsProven, final
    <2>2. stateRootHashes' \in [0..MaxL2Block -> Root \cup {EmptyHash}]
      BY <1>5, <1>10, <1>12
    <2>3. /\ currentL2BlockNumber' \in 0..MaxL2Block /\ currentFinalizedShnarf' \in Seq(Blob)
      BY <1>5, <1>6, <1>9, <1>12
    <2> QED BY <1>6, <1>7, <1>17, <2>1, <2>2, <2>3 DEF IInv, TypeOK, adminVars
  <1>20. AcceptedDataAvailable'
    BY <1>1, <1>6 DEF IInv, AcceptedDataAvailable
  <1>21. DeadlinesIncrease' /\ NoneForcedBeforeFirstFinalization'
    <2>1. DeadlinesIncrease'
      BY <1>6 DEF IInv, DeadlinesIncrease
    <2>2. NoneForcedBeforeFirstFinalization'
      BY <1>16, SMTT(30) DEF NoneForcedBeforeFirstFinalization
    <2> QED BY <2>1, <2>2
  <1>22. RootsAreFinalized'
    <2> SUFFICES ASSUME NEW k \in 0..MaxL2Block, stateRootHashes'[k] # EmptyHash
                 PROVE  k <= final.end
      BY <1>5 DEF RootsAreFinalized
    <2>1. CASE k = final.end
      BY <1>12, <2>1, SMTT(30)
    <2>2. CASE k # final.end
      <3>1. stateRootHashes[k] # EmptyHash
        BY <1>18, <2>2
      <3>2. k <= currentL2BlockNumber
        BY <3>1 DEF IInv, RootsAreFinalized
      <3> QED BY <1>10, <1>12, <1>13, <3>2, BoundAssumption, SMTT(30)
    <2> QED BY <2>1, <2>2
  <1>23. FinalizedStateIsL2State' /\ (StateOf(currentFinalizedShnarf).root \in Root)'
    <2>1. IsPrefix(final.messages, l1Messages)
      BY <1>4, <1>9, <1>12, ValidatedMessagesAreSent
    <2>2. stateRootHashes'[currentL2BlockNumber'] = final.root
      BY <1>5, <1>10, <1>12
    <2>3. StateOf(currentFinalizedShnarf') = final
      BY <1>6 DEF final
    <2>4. l1Messages' = l1Messages /\ forcedTransactions' = forcedTransactions
      BY <1>6, <1>7
    <2>5. f <= len
      BY <1>9, <1>15, SMTT(30)
    <2>6. FinalizedStateIsL2State'
      BY <1>5, <1>16, <2>1, <2>2, <2>3, <2>4, <2>5 DEF FinalizedStateIsL2State
    <2> QED BY <1>12, <2>3, <2>6
  <1>24. CensorshipResistance'
    <2> SUFFICES ASSUME NEW i \in 1..len, forcedTransactions[i].deadline <= final.end, i > f
                 PROVE  FALSE
      <3>1. /\ forcedTransactions' = forcedTransactions
            /\ currentL2BlockNumber' = final.end
            /\ FinalizedForcedTransactions' = f
        BY <1>5, <1>6, <1>16 DEF FinalizedForcedTransactions
      <3> QED BY <1>9, <1>15, <3>1, SMTT(30) DEF CensorshipResistance
    <2>1. f + 1 \in 1..len /\ i \in 1..len
      BY <1>9, <1>15, SMTT(30)
    <2>2. forcedTransactions[f + 1] \in ForcedTransaction
          /\ forcedTransactions[i] \in ForcedTransaction
      BY <1>9, <2>1, ElementOfSeq
    <2>3. forcedTransactions[f + 1].deadline \in Nat \ {0}
          /\ forcedTransactions[i].deadline \in Nat \ {0}
      BY <2>2 DEF ForcedTransaction
    <2>4. forcedTransactionL2BlockNumbers(f + 1) = forcedTransactions[f + 1].deadline
      BY <2>1 DEF forcedTransactionL2BlockNumbers
    <2>5. forcedTransactions[f + 1].deadline > final.end
      BY <1>4, <1>12, <2>3, <2>4, SMTT(30) DEF NextForcedTransactionIsLater
    <2>6. forcedTransactions[f + 1].deadline <= forcedTransactions[i].deadline
      <3>1. DeadlinesIncrease
        BY DEF IInv
      <3>2. CASE i = f + 1
        BY <2>3, <3>2, SMTT(30)
      <3>3. CASE i # f + 1
        <4>1. f + 1 < i
          BY <1>9, <1>15, <3>3, SMTT(30)
        <4>2. forcedTransactions[f + 1].deadline < forcedTransactions[i].deadline
          BY <2>1, <3>1, <4>1 DEF DeadlinesIncrease
        <4> QED BY <2>3, <4>2, SMTT(30)
      <3> QED BY <3>2, <3>3
    <2> QED BY <1>12, <2>3, <2>5, <2>6, SMTT(30)
  <1>25. SettledForAReason'
    <2> DEFINE Reason(i, roots) ==
                 \/ {From[forcedTransactions[i].tx], To[forcedTransactions[i].tx]}
                       \cap everFiltered # {}
                 \/ \E k \in 0..MaxL2Block :
                       /\ k < forcedTransactions[i].deadline
                       /\ roots[k] # EmptyHash
                       /\ forcedTransactions[i].tx \notin Executable[roots[k]]
    <2>1. \A k \in 0..MaxL2Block :
             stateRootHashes[k] # EmptyHash => stateRootHashes'[k] = stateRootHashes[k]
      BY <1>18
    <2> SUFFICES ASSUME NEW i \in 1..f PROVE Reason(i, stateRootHashes')
      <3>1. /\ forcedTransactions' = forcedTransactions /\ everFiltered' = everFiltered
            /\ FinalizedForcedTransactions' = f
        BY <1>6, <1>7, <1>16 DEF FinalizedForcedTransactions, adminVars
      <3> QED BY <3>1 DEF SettledForAReason
    <2> HIDE DEF Reason
    <2>2. CASE i <= settled
      <3>1. i \in 1..settled
        BY <1>10, <1>15, <2>2, SMTT(30)
      <3>2. Reason(i, stateRootHashes)
        BY <3>1 DEF IInv, SettledForAReason, FinalizedForcedTransactions, Reason
      <3> QED BY <2>1, <3>2 DEF Reason
    <2>3. CASE i > settled
      <3>1. InvalidityProven(forcedTransactions[i], root, currentL2BlockNumber, filteredAddresses)
        BY <1>10, <1>14, <1>15, <2>3, SMTT(30)
      <3>2. filteredAddresses \subseteq everFiltered
        BY <1>3 DEF IInv
      <3>3. forcedTransactions[i] \in ForcedTransaction
        BY <1>9, <1>15, ElementOfSeq, SMTT(30)
      <3>4. forcedTransactions[i].deadline \in Nat
        BY <3>3 DEF ForcedTransaction
      <3>5. currentL2BlockNumber < forcedTransactions[i].deadline
        BY <1>10, <3>1, <3>4, SMTT(30) DEF InvalidityProven
      <3>6. root # EmptyHash /\ stateRootHashes'[currentL2BlockNumber] = root
        BY <1>3, <1>10, <2>1, StateAssumption
      <3> QED BY <1>10, <3>1, <3>2, <3>5, <3>6 DEF InvalidityProven, Reason
    <2>4. i <= settled \/ i > settled
      BY <1>10, <1>15, SMTT(30)
    <2> QED BY <2>2, <2>3, <2>4
  <1>26. ElapsedTimeDoesNotUnderflow'
    BY <1>3, <1>7, <1>10, <1>12, <1>16, SMTT(30) DEF ElapsedTimeDoesNotUnderflow
  <1>27. filtered' \subseteq everFiltered'
    BY <1>7 DEF IInv, adminVars
  <1> QED
    BY <1>19, <1>20, <1>21, <1>22, <1>23, <1>24, <1>25, <1>26, <1>27 DEF IInv

(* The theorems ************************************************************)

\* Calls of role holders touch neither the chain nor the queues.
LEMMA AdminIInv ==
    ASSUME IInv,
           \/ SetLivenessRecoveryOperator
           \/ \E a \in Accounts : RenounceRole(a) \/ GrantRole(a) \/ RevokeRole(a)
           \/ \E t \in ProofTypes : SetVerifierAddress(t) \/ UnsetVerifierAddress(t)
           \/ \E A \in SUBSET Address, on \in BOOLEAN : SetFilteredStatus(A, on)
           \/ \E on \in BOOLEAN : ToggleUseAddressFilter(on)
           \/ \E P \in SUBSET PauseTypes : ChangePause(P)
           \/ NextL1Block
    PROVE  IInv'
  <1> DEFINE Frame == /\ TypeOK'
                      /\ UNCHANGED <<chainVars, finalVars, forcedTransactions, l1Messages>>
                      /\ now <= now'
                      /\ everFiltered \subseteq everFiltered'
                      /\ filtered' \subseteq everFiltered'
  <1>0. Frame => IInv'
    BY FrameIInv
  <1> HIDE DEF Frame
  <1>1. CASE SetLivenessRecoveryOperator
    <2>1. Frame
      BY <1>1, SMTT(30) DEF SetLivenessRecoveryOperator, Accounts, Frame, IInv, TypeOK, chainVars, finalVars,
             gatewayVars, adminVars, AdminStep
    <2> QED BY <1>0, <2>1
  <1>2. ASSUME NEW a \in Accounts, RenounceRole(a) \/ GrantRole(a) \/ RevokeRole(a)
        PROVE  IInv'
    <2>1. Frame
      BY <1>2, SMTT(30) DEF RenounceRole, GrantRole, RevokeRole, Frame, IInv, TypeOK, chainVars, finalVars,
             gatewayVars, adminVars, AdminStep
    <2> QED BY <1>0, <2>1, SMTT(30)
  <1>3. ASSUME NEW t \in ProofTypes, SetVerifierAddress(t) \/ UnsetVerifierAddress(t)
        PROVE  IInv'
    <2>1. Frame
      BY <1>3, SMTT(30) DEF SetVerifierAddress, UnsetVerifierAddress, Frame, IInv, TypeOK, chainVars, finalVars,
             gatewayVars, adminVars, AdminStep
    <2> QED BY <1>0, <2>1
  <1>4. ASSUME NEW A \in SUBSET Address, NEW on \in BOOLEAN, SetFilteredStatus(A, on)
        PROVE  IInv'
    <2>1. Frame
      BY <1>4, SMTT(30) DEF SetFilteredStatus, Frame, IInv, TypeOK, chainVars, finalVars,
             gatewayVars, adminVars, AdminStep
    <2> QED BY <1>0, <2>1
  <1>5. ASSUME NEW on \in BOOLEAN, ToggleUseAddressFilter(on)
        PROVE  IInv'
    <2>1. Frame
      BY <1>5, SMTT(30) DEF ToggleUseAddressFilter, Frame, IInv, TypeOK, chainVars, finalVars,
             gatewayVars, adminVars, AdminStep
    <2> QED BY <1>0, <2>1
  <1>6. ASSUME NEW P \in SUBSET PauseTypes, ChangePause(P)
        PROVE  IInv'
    <2>1. Frame
      BY <1>6, SMTT(30) DEF ChangePause, Frame, IInv, TypeOK, chainVars, finalVars,
             gatewayVars, adminVars, AdminStep
    <2> QED BY <1>0, <2>1
  <1>7. CASE NextL1Block
    <2>1. Frame
      BY <1>7, SMTT(30) DEF NextL1Block, Frame, IInv, TypeOK, chainVars, finalVars,
             gatewayVars, adminVars, AdminStep
    <2> QED BY <1>0, <2>1
  <1> QED BY <1>1, <1>2, <1>3, <1>4, <1>5, <1>6, <1>7

\* The rolling hashes an operator may claim are sequences of forced transactions.
LEMMA ClaimedRollingHashesType ==
    ASSUME IInv, NEW h \in ClaimedRollingHashes
    PROVE  h \in Seq(ForcedTransaction)
  <1>1. forcedTransactions \in Seq(ForcedTransaction)
    BY DEF IInv, TypeOK
  <1>2. PICK k \in 0..Len(forcedTransactions) : h = SubSeq(forcedTransactions, 1, k)
    BY DEF ClaimedRollingHashes
  <1> QED BY <1>1, <1>2, PrefixIsSeq

\* Every step of the contract and of its environment preserves the invariant.
LEMMA NextIInv == IInv /\ [Next]_vars => IInv'
  <1> SUFFICES ASSUME IInv, [Next]_vars PROVE IInv'
    OBVIOUS
  <1>1. ASSUME NEW a \in Accounts, NEW p \in posted \cup Submissions, NEW b \in Submissions,
               SubmitBlobs(a, p, b)
        PROVE  IInv'
    BY <1>1, SubmitBlobsIInv
  <1>2. ASSUME NEW m \in Message, SendMessage(m)
        PROVE  IInv'
    BY <1>2, SendMessageIInv
  <1>3. ASSUME NEW t \in Transaction, SubmitForcedTransaction(t)
        PROVE  IInv'
    BY <1>3, SubmitForcedTransactionIInv
  <1>4. ASSUME NEW a \in Accounts, NEW t \in ProofTypes, NEW s \in posted, NEW r \in Root,
               NEW A \in SUBSET Address, NEW n \in 0..MaxForcedTransactions,
               NEW h \in ClaimedRollingHashes, NEW f \in 0..MaxForcedTransactions,
               FinalizeBlocks(a, t, s, r, A, n, h, f)
        PROVE  IInv'
    <2>1. n \in Nat /\ f \in Nat /\ h \in Seq(ForcedTransaction)
      BY ClaimedRollingHashesType, BoundAssumption, SMTT(30)
    <2> QED BY <1>4, <2>1, FinalizeBlocksIInv
  <1>5. CASE UNCHANGED vars
    <2>1. /\ TypeOK' /\ now <= now' /\ everFiltered \subseteq everFiltered'
          /\ filtered' \subseteq everFiltered'
          /\ UNCHANGED <<chainVars, finalVars, forcedTransactions, l1Messages>>
      BY <1>5, SMTT(30) DEF vars, chainVars, finalVars, gatewayVars, adminVars, IInv, TypeOK
    <2> QED BY <2>1, FrameIInv
  <1> QED BY <1>1, <1>2, <1>3, <1>4, <1>5, AdminIInv DEF Next

\* The inductive invariant holds in every reachable state.
THEOREM Invariance == Spec => []IInv
  BY InitIInv, NextIInv, PTL DEF Spec

\* Type correctness of the contract's storage.
THEOREM TypeCorrectness == Spec => []TypeOK
  <1>1. IInv => TypeOK
    BY DEF IInv
  <1> QED BY <1>1, Invariance, PTL

\* Censorship resistance: for every buffer, block time and history, no forced
\* transaction is left unhandled once its deadline is finalized.
THEOREM ForcedTransactionsAreNotCensored == Spec => []CensorshipResistance
  <1>1. IInv => CensorshipResistance
    BY DEF IInv
  <1> QED BY <1>1, Invariance, PTL

\* No forced transaction is settled that could still execute before its deadline,
\* unless L1 filtered one of its accounts.
THEOREM SettlementIsJustified == Spec => []SettledForAReason
  <1>1. IInv => SettledForAReason
    BY DEF IInv
  <1> QED BY <1>1, Invariance, PTL

\* The finalized storage of the contract is consistent with the finalized chain.
THEOREM FeedbackLoop == Spec => []FinalizedStateIsL2State
  <1>1. IInv => FinalizedStateIsL2State
    BY DEF IInv
  <1> QED BY <1>1, Invariance, PTL

\* All data behind the finalized shnarf has been published on L1.
THEOREM DataAvailability == Spec => []FinalizedDataAvailable
  <1>1. IInv => FinalizedDataAvailable
    BY DEF IInv, AcceptedDataAvailable, FinalizedDataAvailable
  <1> QED BY <1>1, Invariance, PTL

\* The gateway's unchecked subtraction of timestamps never wraps around, whatever is finalized.
THEOREM ElapsedTimeIsNonNegative == Spec => []ElapsedTimeDoesNotUnderflow
  <1>1. IInv => ElapsedTimeDoesNotUnderflow
    BY DEF IInv
  <1> QED BY <1>1, Invariance, PTL

(* Merkle roots *************************************************************)

\* A finalization anchors the messages sent since the last one, under one root.
LEMMA FinalizeBlocksPartitions ==
    ASSUME IInv, MerkleRootsPartitionMessages,
           NEW operator, NEW proofType, NEW finalShnarf, NEW root,
           NEW filteredAddresses, NEW n, NEW h, NEW f,
           FinalizeBlocks(operator, proofType, finalShnarf, root, filteredAddresses, n, h, f)
    PROVE  MerkleRootsPartitionMessages'
  <1> DEFINE sent == StateOf(currentFinalizedShnarf).sent
             final == StateOf(finalShnarf).sent
  <1>1. /\ finalShnarf \in blobShnarfExists
        /\ ExecutionProven(currentFinalizedShnarf, finalShnarf)
        /\ l2MerkleRoots' = l2MerkleRoots \cup MerkleRootsProven(currentFinalizedShnarf, finalShnarf)
        /\ currentFinalizedShnarf' = finalShnarf
    BY DEF FinalizeBlocks
  <1>2. finalShnarf \in Seq(Blob) /\ currentFinalizedShnarf \in Seq(Blob)
    BY <1>1 DEF IInv, TypeOK
  <1>3. sent \subseteq final
    BY <1>1, <1>2, ExecutionProvenExecutes DEF Executes
  <1>4. UNION l2MerkleRoots = sent /\ \A R1, R2 \in l2MerkleRoots : R1 # R2 => R1 \cap R2 = {}
    BY DEF MerkleRootsPartitionMessages
  <1>5. l2MerkleRoots' = l2MerkleRoots \cup ({final \ sent} \ {{}}) /\ StateOf(currentFinalizedShnarf)'.sent = final
    BY <1>1 DEF MerkleRootsProven
  <1> HIDE DEF sent, final
  <1>6. UNION l2MerkleRoots' = final
    <2>1. ASSUME NEW m PROVE m \in UNION l2MerkleRoots' <=> m \in sent \/ m \in final \ sent
      BY <1>4, <1>5
    <2> QED BY <2>1, <1>3
  <1>7. ASSUME NEW R1 \in l2MerkleRoots', NEW R2 \in l2MerkleRoots', R1 # R2 PROVE R1 \cap R2 = {}
    <2>1. \A R \in l2MerkleRoots : R \cap (final \ sent) = {}
      BY <1>4
    <2> QED BY <2>1, <1>4, <1>5, <1>7
  <1> QED BY <1>5, <1>6, <1>7 DEF MerkleRootsPartitionMessages

\* Every L2 message of the finalized chain is below exactly one anchored root, however the chain was
\* cut into finalizations.
THEOREM MessagesAreAnchoredOnce == Spec => []MerkleRootsPartitionMessages
  <1>1. Init => MerkleRootsPartitionMessages
    BY DEF Init, MerkleRootsPartitionMessages, StateOf, GenesisState
  <1>2. IInv /\ MerkleRootsPartitionMessages /\ [Next]_vars => MerkleRootsPartitionMessages'
    <2> SUFFICES ASSUME IInv, MerkleRootsPartitionMessages, [Next]_vars
                 PROVE  MerkleRootsPartitionMessages'
      OBVIOUS
    <2>1. ASSUME NEW a, NEW t, NEW s, NEW r, NEW A, NEW n, NEW h, NEW f,
                 FinalizeBlocks(a, t, s, r, A, n, h, f)
          PROVE  MerkleRootsPartitionMessages'
      BY <2>1, FinalizeBlocksPartitions
    <2>2. CASE UNCHANGED finalVars
      <3>1. UNCHANGED <<l2MerkleRoots, currentFinalizedShnarf>>
        BY <2>2 DEF finalVars
      <3> QED BY <3>1 DEF MerkleRootsPartitionMessages
    <2>3. CASE \/ \E a \in Accounts, p \in posted \cup Submissions, b \in Submissions : SubmitBlobs(a, p, b)
               \/ \E m \in Message : SendMessage(m)
               \/ \E t \in Transaction : SubmitForcedTransaction(t)
               \/ SetLivenessRecoveryOperator
               \/ \E a \in Accounts : RenounceRole(a) \/ GrantRole(a) \/ RevokeRole(a)
               \/ \E t \in ProofTypes : SetVerifierAddress(t) \/ UnsetVerifierAddress(t)
               \/ \E A \in SUBSET Address, on \in BOOLEAN : SetFilteredStatus(A, on)
               \/ \E on \in BOOLEAN : ToggleUseAddressFilter(on)
               \/ \E P \in SUBSET PauseTypes : ChangePause(P)
               \/ NextL1Block
               \/ UNCHANGED vars
      BY <2>2, <2>3 DEF SubmitBlobs, SendMessage, SubmitForcedTransaction, SetLivenessRecoveryOperator,
                        RenounceRole, GrantRole, RevokeRole, SetVerifierAddress, UnsetVerifierAddress,
                        SetFilteredStatus, ToggleUseAddressFilter, ChangePause, NextL1Block, AdminStep, vars
    <2> QED BY <2>1, <2>3 DEF Next
  <1> QED BY <1>1, <1>2, Invariance, PTL DEF Spec

(* Refinement of FinalizedChain *********************************************)

\* A finalization is a Finalize step of the abstract chain.
LEMMA FinalizeBlocksRefines ==
    ASSUME IInv, NEW operator, NEW proofType, NEW finalShnarf, NEW root \in Root,
           NEW filteredAddresses, NEW n \in Nat, NEW h \in Seq(ForcedTransaction), NEW f \in Nat,
           FinalizeBlocks(operator, proofType, finalShnarf, root, filteredAddresses, n, h, f)
    PROVE  /\ Chain!Finalize
           /\ \A k \in 0..MaxL2Block :
                 stateRootHashes[k] # EmptyHash => stateRootHashes'[k] = stateRootHashes[k]
  <1> DEFINE final == StateOf(finalShnarf)
             settled == FinalizedForcedTransactions
             len == Len(forcedTransactions)
  <1>1. IInv'
    BY FinalizeBlocksIInv
  <1>2. /\ ~ (f > 0 /\ forcedTransactionRollingHashes(f) = EmptyHash)
        /\ LastFinalizedStateMatches(n, h)
        /\ finalShnarf \in blobShnarfExists
        /\ ExecutionProven(currentFinalizedShnarf, finalShnarf)
        /\ InvaliditiesProven(root, currentL2BlockNumber, filteredAddresses,
                              n, h, f, forcedTransactionRollingHashes(f))
        /\ stateRootHashes' = [stateRootHashes EXCEPT ![final.end] = final.root]
        /\ currentL2BlockNumber' = final.end
        /\ currentFinalizedShnarf' = finalShnarf
        /\ FinalizedForcedTransactions' = f
        /\ UNCHANGED <<posted, forcedTransactions>>
    BY DEF FinalizeBlocks, FinalizedState5, FinalizedForcedTransactions, chainVars, gatewayVars
  <1>3. /\ finalShnarf \in Seq(Blob) /\ currentFinalizedShnarf \in Seq(Blob)
        /\ forcedTransactions \in Seq(ForcedTransaction) /\ len \in Nat /\ settled \in Nat
        /\ stateRootHashes \in [0..MaxL2Block -> Root \cup {EmptyHash}]
    BY <1>2, LenProperties DEF IInv, TypeOK, FinalizedState, FinalizedForcedTransactions
  <1>4. /\ currentL2BlockNumber = EndOf(currentFinalizedShnarf)
        /\ currentL2BlockNumber \in Nat /\ final.end \in Nat
        /\ currentL2BlockNumber < final.end /\ EndOf(finalShnarf) = final.end
    <2>1. final \in L2State
      BY <1>3, StateOfType
    <2> QED BY <1>2, <1>3, <2>1, ExecutionProvenExecutes, BoundAssumption
           , SMTT(30) DEF Executes, IInv, TypeOK, FinalizedStateIsL2State, EndOf, L2State
  <1>5. /\ f \in settled..len
        /\ \A i \in (settled + 1)..f :
              InvalidityProven(forcedTransactions[i], root, currentL2BlockNumber, filteredAddresses)
    BY <1>2, FinalizedForcedTransactionsAdvance, ZenonT(60)
  <1>6. \A i \in 1..len : forcedTransactions[i].deadline \in Nat
    <2> TAKE i \in 1..len
    <2>1. forcedTransactions[i] \in ForcedTransaction
      BY <1>3, ElementOfSeq
    <2> QED BY <2>1 DEF ForcedTransaction
  <1>7. \A i \in (settled + 1)..f : forcedTransactions[i].deadline > EndOf(currentFinalizedShnarf)
    <2> TAKE i \in (settled + 1)..f
    <2>1. i \in 1..len
      BY <1>3, <1>5, SMTT(30)
    <2>2. currentL2BlockNumber + 1 <= forcedTransactions[i].deadline
      BY <1>5 DEF InvalidityProven
    <2> QED BY <1>4, <1>6, <2>1, <2>2, SMTT(30)
  <1>8. \A i \in (f + 1)..len : forcedTransactions[i].deadline > EndOf(finalShnarf)
    <2> TAKE i \in (f + 1)..len
    <2>1. i \in 1..len /\ ~ (i <= f)
      BY <1>3, <1>5, SMTT(30)
    <2>2. ~ (forcedTransactions[i].deadline <= final.end)
      BY <1>1, <1>2, <2>1, ZenonT(60) DEF IInv, CensorshipResistance
    <2> QED BY <1>4, <1>6, <2>1, <2>2, SMTT(30)
  <1>9. \A k \in 1..Len(finalShnarf) : SubSeq(finalShnarf, 1, k) \in posted
    BY <1>2, <1>3, LenProperties, SMTT(30) DEF IInv, AcceptedDataAvailable
  <1>10. \A k \in 0..MaxL2Block :
            stateRootHashes[k] # EmptyHash => stateRootHashes'[k] = stateRootHashes[k]
    BY <1>2, <1>3, <1>4, BoundAssumption, SMTT(30) DEF IInv, RootsAreFinalized
  <1>11. Chain!Finalize
    <2>1. /\ Len(currentFinalizedShnarf) < Len(currentFinalizedShnarf')
          /\ SubSeq(currentFinalizedShnarf', 1, Len(currentFinalizedShnarf))
               = currentFinalizedShnarf
      BY <1>2, <1>3, StrictPrefix DEF ExecutionProven
    <2> QED BY <1>2, <1>4, <1>5, <1>7, <1>8, <1>9, <2>1, ZenonT(60) DEF Chain!Finalize
  <1> QED BY <1>10, <1>11

\* A forced transaction submitted through the gateway is a Force step.
LEMMA SubmitForcedTransactionRefines ==
    ASSUME IInv, NEW tx \in Transaction, SubmitForcedTransaction(tx)
    PROVE  Chain!Force
  <1> DEFINE new == [tx |-> tx, deadline |-> BlockNumberDeadline]
  <1>1. /\ forcedTransactions \in Seq(ForcedTransaction)
        /\ forcedTransactions' = Append(forcedTransactions, new)
        /\ UNCHANGED <<currentFinalizedShnarf, posted, FinalizedForcedTransactions>>
    BY ZenonT(60)
       DEF IInv, TypeOK, SubmitForcedTransaction, StoreForcedTransaction, chainVars, finalVars,
           FinalizedForcedTransactions
  <1>2. /\ new \in ForcedTransaction
        /\ BlockNumberDeadline > EndOf(currentFinalizedShnarf)
        /\ \A i \in 1..Len(forcedTransactions) :
              forcedTransactions[i].deadline < BlockNumberDeadline
    BY BlockNumberDeadlineBound, ZenonT(60)
       DEF ForcedTransaction, IInv, FinalizedStateIsL2State, EndOf
  <1>3. /\ Len(forcedTransactions') = Len(forcedTransactions) + 1
        /\ forcedTransactions'[Len(forcedTransactions) + 1] = new
    BY <1>1, <1>2, AppendProperties
  <1>4. new.deadline = BlockNumberDeadline
    OBVIOUS
  <1> HIDE DEF new
  <1> QED BY <1>1, <1>2, <1>3, <1>4 DEF Chain!Force

\* Every step of the contract is a step of the abstract chain, or leaves it alone,
\* and finalized roots are never rewritten.
LEMMA StepRefines ==
    ASSUME IInv, [Next]_vars
    PROVE  /\ [Chain!Next]_(Chain!vars)
           /\ \A k \in 0..MaxL2Block :
                 stateRootHashes[k] # EmptyHash => stateRootHashes'[k] = stateRootHashes[k]
           /\ UNCHANGED finalVars \/ Chain!Finalize
  <1>1. ASSUME NEW a \in Accounts, NEW t \in ProofTypes, NEW s \in posted, NEW r \in Root,
               NEW A \in SUBSET Address, NEW n \in 0..MaxForcedTransactions,
               NEW h \in ClaimedRollingHashes, NEW f \in 0..MaxForcedTransactions,
               FinalizeBlocks(a, t, s, r, A, n, h, f)
        PROVE  /\ Chain!Finalize
               /\ \A k \in 0..MaxL2Block :
                     stateRootHashes[k] # EmptyHash => stateRootHashes'[k] = stateRootHashes[k]
    <2>1. n \in Nat /\ f \in Nat /\ h \in Seq(ForcedTransaction)
      BY ClaimedRollingHashesType, BoundAssumption, SMTT(30)
    <2> QED BY <1>1, <2>1, FinalizeBlocksRefines
  <1>2. ASSUME NEW t \in Transaction, SubmitForcedTransaction(t)
        PROVE  Chain!Force /\ UNCHANGED finalVars
    <2>1. Chain!Force
      BY <1>2, SubmitForcedTransactionRefines
    <2>2. UNCHANGED finalVars
      BY <1>2 DEF SubmitForcedTransaction
    <2> QED BY <2>1, <2>2
  <1>3. ASSUME NEW a \in Accounts, NEW p \in posted \cup Submissions, NEW b \in Submissions,
               SubmitBlobs(a, p, b)
        PROVE  Chain!Publish /\ UNCHANGED finalVars
    BY <1>3 DEF SubmitBlobs, Chain!Publish, FinalizedForcedTransactions, finalVars, gatewayVars
  <1>4. CASE \/ \E m \in Message : SendMessage(m)
             \/ SetLivenessRecoveryOperator
             \/ \E a \in Accounts : RenounceRole(a) \/ GrantRole(a) \/ RevokeRole(a)
             \/ \E t \in ProofTypes : SetVerifierAddress(t) \/ UnsetVerifierAddress(t)
             \/ \E A \in SUBSET Address, on \in BOOLEAN : SetFilteredStatus(A, on)
             \/ \E on \in BOOLEAN : ToggleUseAddressFilter(on)
             \/ \E P \in SUBSET PauseTypes : ChangePause(P)
             \/ NextL1Block
             \/ UNCHANGED vars
    <2>1. UNCHANGED <<chainVars, finalVars, forcedTransactions>>
      BY <1>4 DEF SendMessage, SetLivenessRecoveryOperator, RenounceRole, GrantRole, RevokeRole,
                  SetVerifierAddress, UnsetVerifierAddress, SetFilteredStatus,
                  ToggleUseAddressFilter, ChangePause, NextL1Block, vars,
                  gatewayVars, adminVars, AdminStep
    <2>2. UNCHANGED Chain!vars
      BY <2>1 DEF Chain!vars, FinalizedForcedTransactions, chainVars, finalVars
    <2>3. stateRootHashes' = stateRootHashes
      BY <2>1 DEF finalVars
    <2> QED BY <2>1, <2>2, <2>3
  <1>5. UNCHANGED finalVars => stateRootHashes' = stateRootHashes
    BY DEF finalVars
  <1> QED BY <1>1, <1>2, <1>3, <1>4, <1>5, SMTT(30) DEF Next, Chain!Next

\* The rollup implements the chain its users are promised.
THEOREM RollupImplementsFinalizedChain == Spec => ImplementsFinalizedChain
  <1>1. Init => Chain!Init
    <2> SUFFICES ASSUME Init PROVE FinalizedForcedTransactions = 0
      BY DEF Init, Chain!Init
    <2>1. CASE currentFinalizedState = FinalizedState5(0, EmptyHash, 0, EmptyHash, 0)
      BY <2>1 DEF FinalizedForcedTransactions, FinalizedState5
    <2>2. CASE currentFinalizedState = FinalizedState3(0, EmptyHash, 0)
      BY <2>2 DEF FinalizedForcedTransactions, FinalizedState5, FinalizedState3
    <2> QED BY <2>1, <2>2 DEF Init
  <1>2. IInv /\ [Next]_vars => [Chain!Next]_(Chain!vars)
    BY StepRefines
  <1> QED BY <1>1, <1>2, Invariance, PTL DEF Spec, ImplementsFinalizedChain, Chain!Spec

\* Finalization only extends the chain, in every step.
THEOREM FinalizationIsMonotone == Spec => FinalizationOnlyExtends
  <1> DEFINE Extends ==
        /\ IsPrefix(currentFinalizedShnarf, currentFinalizedShnarf')
        /\ \/ UNCHANGED finalVars
           \/ currentL2BlockNumber < currentL2BlockNumber'
        /\ FinalizedForcedTransactions <= FinalizedForcedTransactions'
        /\ \A k \in 0..MaxL2Block :
              stateRootHashes[k] # EmptyHash => stateRootHashes'[k] = stateRootHashes[k]
  <1>1. IInv /\ IInv' /\ [Next]_vars => [Extends]_vars
    <2> SUFFICES ASSUME IInv, IInv', [Next]_vars PROVE Extends
      OBVIOUS
    <2>1. \A k \in 0..MaxL2Block :
             stateRootHashes[k] # EmptyHash => stateRootHashes'[k] = stateRootHashes[k]
      BY StepRefines
    <2>2. /\ currentFinalizedShnarf \in Seq(Blob)
          /\ FinalizedForcedTransactions \in Nat
      BY DEF IInv, TypeOK, FinalizedState, FinalizedForcedTransactions
    <2>3. CASE UNCHANGED finalVars
      <3>1. UNCHANGED <<currentFinalizedShnarf, FinalizedForcedTransactions>>
        BY <2>3 DEF finalVars, FinalizedForcedTransactions
      <3>2. /\ Len(currentFinalizedShnarf) \in Nat
            /\ SubSeq(currentFinalizedShnarf, 1, Len(currentFinalizedShnarf))
                 = currentFinalizedShnarf
        BY <2>2, LenProperties, SubSeqFull
      <3>3. IsPrefix(currentFinalizedShnarf, currentFinalizedShnarf')
        BY <3>1, <3>2, SMTT(30) DEF IsPrefix
      <3> QED BY <2>1, <2>2, <2>3, <3>1, <3>3, SMTT(30)
    <2>4. CASE Chain!Finalize
      <3>0. Len(currentFinalizedShnarf) \in Nat /\ Len(currentFinalizedShnarf') \in Nat
        BY LenProperties DEF IInv, TypeOK
      <3>1. /\ IsPrefix(currentFinalizedShnarf, currentFinalizedShnarf')
            /\ EndOf(currentFinalizedShnarf) < EndOf(currentFinalizedShnarf')
            /\ FinalizedForcedTransactions'
                 \in FinalizedForcedTransactions..Len(forcedTransactions)
        BY <2>4, <3>0, SMTT(30) DEF Chain!Finalize, IsPrefix
      <3>2. currentL2BlockNumber < currentL2BlockNumber'
        BY <3>1, ZenonT(60) DEF IInv, FinalizedStateIsL2State, EndOf
      <3>3. FinalizedForcedTransactions <= FinalizedForcedTransactions'
        <4>1. Len(forcedTransactions) \in Nat
          BY LenProperties DEF IInv, TypeOK
        <4> QED BY <2>2, <3>1, <4>1, SMTT(30)
      <3> QED BY <2>1, <3>1, <3>2, <3>3
    <2> QED BY <2>3, <2>4, StepRefines, ZenonT(60)
  <1> QED BY <1>1, Invariance, PTL DEF Spec, FinalizationOnlyExtends

=============================================================================
