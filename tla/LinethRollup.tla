--------------------------- MODULE LinethRollup ---------------------------
(***************************************************************************)
(* The L1 rollup contract: data submission, finalization, forced           *)
(* transactions and liveness recovery (contracts/src/rollup).              *)
(*                                                                         *)
(* Hashes are modelled by what they commit to, so equal hashes are equal   *)
(* values: a shnarf is the sequence of blobs it chains together, the       *)
(* message rolling hash n is the sequence of the first n message hashes,   *)
(* the forced-transaction rolling hash n is the sequence of the first n    *)
(* forced transactions, and the finalized-state hash is a record of the    *)
(* hashed fields.  The empty hash is the empty sequence.                   *)
(*                                                                         *)
(* A blob is the L2 state its last block reaches.  L2 execution is         *)
(* external; what an aggregation proof establishes is translated from      *)
(* prover/circuits/pi-interconnection/circuit.go.                          *)
(***************************************************************************)
EXTENDS Integers, Sequences, FiniteSets

CONSTANTS
    Blob,                          \* blobs an operator may publish
    Submissions,                   \* blob sequences carried by one L1 transaction
    Message,                       \* L1 -> L2 message hashes
    L2Message,                     \* L2 -> L1 messages
    Address,                       \* L2 accounts
    Transaction,                   \* signed L2 transactions
    From, To,                      \* their signer and recipient
    Root,                          \* L2 state roots
    GenesisRoot,                   \* initialStateRootHash
    Executable,                    \* the transactions a state can execute
    Operators,                     \* accounts granted OPERATOR_ROLE at deployment
    RecoveryOperator,              \* livenessRecoveryOperator
    ProofTypes,                    \* indices of verifiers
    PauseTypes,                    \* pause types that guard these handlers
    L2_BLOCK_BUFFER,
    L2_BLOCK_DURATION_SECONDS,
    BLOCK_NUMBER_DEADLINE_BUFFER,
    SIX_MONTHS_IN_SECONDS,
    InitialFields,                 \* hashed fields at deployment: 5, or 3 after an upgrade
    MaxL2Block,                    \* bound: highest L2 block of any blob
    MaxTime,                       \* bound: last L1 block
    MaxMessages,                   \* bound: messages sent
    MaxForcedTransactions,         \* bound: forced transactions stored
    MaxShnarfs,                    \* bound: shnarfs accepted after genesis
    MaxAdminActions                \* bound: calls made by role holders

EmptyHash == << >>

\* The items s chains are the first ones t chains.
IsPrefix(s, t) == Len(s) <= Len(t) /\ SubSeq(t, 1, Len(s)) = s

ForcedTransaction == [tx : Transaction, deadline : Nat \ {0}]

L2State == [end : 0..MaxL2Block, root : Root \cup {EmptyHash}, timestamp : Nat,
            messages : Seq(Message), sent : SUBSET L2Message]

ASSUME BlobAssumption ==
    /\ Blob \subseteq L2State
    /\ Submissions \subseteq Seq(Blob)

ASSUME StateAssumption ==
    /\ GenesisRoot \in Root
    /\ EmptyHash \notin Root
    /\ Executable \in [Root -> SUBSET Transaction]
    /\ From \in [Transaction -> Address]
    /\ To \in [Transaction -> Address]

ASSUME GatewayAssumption ==
    /\ L2_BLOCK_BUFFER \in Nat \ {0}
    /\ L2_BLOCK_DURATION_SECONDS \in Nat \ {0}
    /\ BLOCK_NUMBER_DEADLINE_BUFFER \in Nat \ {0}
    /\ SIX_MONTHS_IN_SECONDS \in Nat

ASSUME BoundAssumption ==
    /\ MaxL2Block \in Nat
    /\ MaxTime \in Nat \ {0}
    /\ MaxMessages \in Nat
    /\ MaxForcedTransactions \in Nat
    /\ MaxShnarfs \in Nat
    /\ MaxAdminActions \in Nat
    /\ 0 \in ProofTypes
    /\ InitialFields \subseteq {3, 5}

VARIABLES
    \* LinethRollupBase and ShnarfDataAcceptorBase
    blobShnarfExists,              \* shnarfs accepted so far
    currentFinalizedShnarf,
    currentL2BlockNumber,
    stateRootHashes,               \* root finalized for a block, or EmptyHash
    currentFinalizedState,         \* preimage of the finalized-state hash
    forcedTransactions,            \* entry n is forced transaction number n
    l1Messages,                    \* L1MessageManager: rollingHashes[n] is the prefix n
    l2MerkleRoots,                 \* roots with a non-zero depth
    verifiers,                     \* proof types with a verifier
    operators,                     \* holders of OPERATOR_ROLE
    paused,                        \* pause types in force
    \* ForcedTransactionGateway and AddressFilter
    lastSubmissionBlock,
    useAddressFilter,
    filtered,
    \* environment
    now,                           \* L1 block number, and its timestamp
    adminActions,                  \* role-holder calls so far (bound)
    posted,                        \* history: shnarfs whose last blob was published on L1
    everFiltered                   \* history: addresses the filter ever held

chainVars   == <<blobShnarfExists, posted>>
finalVars   == <<currentFinalizedShnarf, currentL2BlockNumber, stateRootHashes,
                 currentFinalizedState, l2MerkleRoots>>
gatewayVars == <<forcedTransactions, lastSubmissionBlock>>
adminVars   == <<verifiers, operators, paused, useAddressFilter, filtered,
                 everFiltered, adminActions>>
vars        == <<chainVars, finalVars, gatewayVars, adminVars, l1Messages, now>>

-----------------------------------------------------------------------------
(* Hashes                                                                  *)

\* FinalizedStateHashing, five fields: what V9 stores after its first finalization.
FinalizedState5(msgNumber, msgHash, ftxNumber, ftxHash, timestamp) ==
    [fields |-> 5, messageNumber |-> msgNumber, messageRollingHash |-> msgHash,
     forcedTransactionNumber |-> ftxNumber, forcedTransactionRollingHash |-> ftxHash,
     timestamp |-> timestamp]

\* FinalizedStateHashing, three fields: what a contract upgraded from V8 still holds.
FinalizedState3(msgNumber, msgHash, timestamp) ==
    [FinalizedState5(msgNumber, msgHash, 0, EmptyHash, timestamp) EXCEPT !.fields = 3]

\* forcedTransactionRollingHashes[n]; the empty hash for a number never stored.
forcedTransactionRollingHashes(n) ==
    IF n <= Len(forcedTransactions) THEN SubSeq(forcedTransactions, 1, n) ELSE EmptyHash

\* forcedTransactionL2BlockNumbers[n]; zero for a number never stored.
forcedTransactionL2BlockNumbers(n) ==
    IF n \in 1..Len(forcedTransactions) THEN forcedTransactions[n].deadline ELSE 0

\* rollingHashes[n] of L1MessageManager.
rollingHashes(n) ==
    IF n <= Len(l1Messages) THEN SubSeq(l1Messages, 1, n) ELSE EmptyHash

-----------------------------------------------------------------------------
(* L2 and the proof system                                                 *)

GenesisState ==
    [end |-> 0, root |-> GenesisRoot, timestamp |-> 0, messages |-> << >>, sent |-> {}]

\* The L2 state a chain of blobs reaches.
StateOf(shnarf) == IF shnarf = << >> THEN GenesisState ELSE shnarf[Len(shnarf)]

\* The blob holds at least one block executed on top of L2 state s.
Executes(s, blob) ==
    /\ s.end < blob.end
    /\ s.timestamp < blob.timestamp
    /\ IsPrefix(s.messages, blob.messages)
    /\ s.sent \subseteq blob.sent

\* Circuit.Define: the blobs after the parent shnarf execute one after the other.
\* Executes is transitive, so each blob executes on top of all earlier states.
ExecutionProven(parentShnarf, finalShnarf) ==
    /\ parentShnarf # finalShnarf /\ IsPrefix(parentShnarf, finalShnarf)
    /\ \A i \in (Len(parentShnarf) + 1)..Len(finalShnarf) :
          \A j \in Len(parentShnarf)..(i - 1) :
              Executes(StateOf(SubSeq(finalShnarf, 1, j)), finalShnarf[i])

\* Mutant: messages of blocks already finalized are anchored again.
MerkleRootsProvenFromGenesis(parentShnarf, finalShnarf) == {StateOf(finalShnarf).sent} \ {{}}

\* Circuit.Define: the roots of the Merkle trees over the L2 -> L1 messages of
\* those blobs.  A root is the set of messages below it; one tree holds them all.
MerkleRootsProven(parentShnarf, finalShnarf) ==
    {StateOf(finalShnarf).sent \ StateOf(parentShnarf).sent} \ {{}}

\* One invalidity proof: the forced transaction cannot execute on the parent state,
\* or its signer or recipient is the filtered address presented to L1.
InvalidityProven(ftx, parentRoot, parentBlock, filteredAddresses) ==
    /\ parentBlock + 1 <= ftx.deadline
    /\ \/ ftx.tx \notin Executable[parentRoot]
       \/ From[ftx.tx] \in filteredAddresses
       \/ To[ftx.tx] \in filteredAddresses

\* checkInvalidityProofs: from the claimed number and rolling hash to the final ones.
InvaliditiesProven(parentRoot, parentBlock, filteredAddresses, lastNumber, lastHash, finalNumber, finalHash) ==
    LET proven == (Len(lastHash) + 1)..Len(finalHash) IN
    /\ IsPrefix(lastHash, finalHash)
    /\ finalNumber = lastNumber + Len(finalHash) - Len(lastHash)
    /\ \A i \in proven : InvalidityProven(finalHash[i], parentRoot, parentBlock, filteredAddresses)
    /\ filteredAddresses \subseteq UNION {{From[finalHash[i].tx], To[finalHash[i].tx]} : i \in proven}

-----------------------------------------------------------------------------

\* initialize of a new network, or the storage of a V8 contract after
\* reinitializeLineaRollupV9.
Init ==
    /\ blobShnarfExists = {<< >>}
    /\ currentFinalizedShnarf = << >>
    /\ currentL2BlockNumber = 0
    /\ stateRootHashes = [n \in 0..MaxL2Block |-> IF n = 0 THEN GenesisRoot ELSE EmptyHash]
    /\ currentFinalizedState \in {FinalizedState5(0, EmptyHash, 0, EmptyHash, 0),
                                  FinalizedState3(0, EmptyHash, 0)}
    /\ currentFinalizedState.fields \in InitialFields
    /\ forcedTransactions = << >>
    /\ l1Messages = << >>
    /\ l2MerkleRoots = {}
    /\ verifiers = {0}
    /\ operators = Operators
    /\ paused = {}
    /\ lastSubmissionBlock = 0
    /\ useAddressFilter = TRUE
    /\ filtered = {}
    /\ now = 1
    /\ adminActions = 0
    /\ posted = {<< >>}
    /\ everFiltered = {}

\* Modifier whenTypeAndGeneralNotPaused.
NotPaused(type) == paused \cap {"GENERAL", type} = {}

\* Mutant: the parent shnarf may be unknown.
SubmitBlobsOnAnyParent(operator, parentShnarf, blobs) ==
    LET finalBlobShnarf == parentShnarf \o blobs IN
    /\ NotPaused("STATE_DATA_SUBMISSION")
    /\ operator \in operators
    /\ blobs # << >>
    /\ finalBlobShnarf \notin blobShnarfExists
    /\ blobShnarfExists' = blobShnarfExists \cup {finalBlobShnarf}
    /\ posted' = posted \cup {SubSeq(finalBlobShnarf, 1, k) :
                                k \in (Len(parentShnarf) + 1)..Len(finalBlobShnarf)}
    /\ UNCHANGED <<finalVars, gatewayVars, adminVars, l1Messages, now>>

(* submitBlobs: the blobs of one transaction are chained to the parent and  *)
(* only the shnarf of the last one is recorded.                            *)
SubmitBlobs(operator, parentShnarf, blobs) ==
    LET finalBlobShnarf == parentShnarf \o blobs IN
    /\ NotPaused("STATE_DATA_SUBMISSION")
    /\ operator \in operators
    /\ blobs # << >>
    /\ parentShnarf \in blobShnarfExists
    /\ finalBlobShnarf \notin blobShnarfExists
    /\ blobShnarfExists' = blobShnarfExists \cup {finalBlobShnarf}
    /\ posted' = posted \cup {SubSeq(finalBlobShnarf, 1, k) :
                                k \in (Len(parentShnarf) + 1)..Len(finalBlobShnarf)}
    /\ UNCHANGED <<finalVars, gatewayVars, adminVars, l1Messages, now>>

\* sendMessage of L1MessageService with _addRollingHash, as far as finalization sees it.
SendMessage(message) ==
    /\ NotPaused("L1_L2")
    /\ Len(l1Messages) < MaxMessages
    /\ l1Messages' = Append(l1Messages, message)
    /\ UNCHANGED <<chainVars, finalVars, gatewayVars, adminVars, now>>

-----------------------------------------------------------------------------
(* Forced transactions                                                     *)

\* Mutant: neither the time since the last finalized block nor the buffer counts.
BlockNumberDeadlineAtFinalizedBlock ==
    LET previous == forcedTransactionL2BlockNumbers(Len(forcedTransactions)) IN
    IF currentL2BlockNumber <= previous THEN previous + BLOCK_NUMBER_DEADLINE_BUFFER
                                        ELSE currentL2BlockNumber

\* Deadline computed by submitForcedTransaction.
BlockNumberDeadline ==
    LET previous == forcedTransactionL2BlockNumbers(Len(forcedTransactions))
        deadline == currentL2BlockNumber
                      + (now - currentFinalizedState.timestamp) \div L2_BLOCK_DURATION_SECONDS
                      + L2_BLOCK_BUFFER
    IN IF deadline <= previous THEN previous + BLOCK_NUMBER_DEADLINE_BUFFER ELSE deadline

\* storeForcedTransaction; the gateway is its only caller.
StoreForcedTransaction(tx, deadline) ==
    /\ deadline > 0
    /\ forcedTransactionL2BlockNumbers(Len(forcedTransactions)) < deadline
    /\ forcedTransactions' = Append(forcedTransactions, [tx |-> tx, deadline |-> deadline])

\* Mutant: the gateway serves a contract that still holds the V8 hash.
SubmitForcedTransactionOnV8State(tx) ==
    /\ Len(forcedTransactions) < MaxForcedTransactions
    /\ now > lastSubmissionBlock
    /\ useAddressFilter => {From[tx], To[tx]} \cap filtered = {}
    /\ StoreForcedTransaction(tx, BlockNumberDeadline)
    /\ lastSubmissionBlock' = now
    /\ UNCHANGED <<chainVars, finalVars, adminVars, l1Messages, now>>

\* submitForcedTransaction.  The caller must present the five fields of the
\* finalized state, so it reverts while the contract holds the V8 hash.
SubmitForcedTransaction(tx) ==
    /\ Len(forcedTransactions) < MaxForcedTransactions
    /\ now > lastSubmissionBlock
    /\ currentFinalizedState.fields = 5
    /\ useAddressFilter => {From[tx], To[tx]} \cap filtered = {}
    /\ StoreForcedTransaction(tx, BlockNumberDeadline)
    /\ lastSubmissionBlock' = now
    /\ UNCHANGED <<chainVars, finalVars, adminVars, l1Messages, now>>

-----------------------------------------------------------------------------
(* Finalization                                                            *)

\* Mutant: the hash is not compared with the one L1 computed.
ValidateL2ComputedRollingHashPresence(number, hash) == (number = 0) <=> (hash = EmptyHash)

\* _validateL2ComputedRollingHash.
ValidateL2ComputedRollingHash(number, hash) ==
    IF number = 0 THEN hash = EmptyHash
    ELSE hash # EmptyHash /\ rollingHashes(number) = hash

\* Mutant: the filter is not consulted.
ValidateAnyAddresses(filteredAddresses) == TRUE

\* _validateFilteredAddresses.
ValidateFilteredAddresses(filteredAddresses) == filteredAddresses \subseteq filtered

\* Mutant: the final timestamp is not compared with the clock.
IsAnyTime(timestamp) == TRUE

\* The FinalizationInTheFuture check of _finalizeBlocks.
IsInThePast(timestamp) == timestamp < now

\* Mutant: only the fields both formats share are compared.
LastFinalizedStateMatchesAnyFormat(ftxNumber, ftxHash) == TRUE

\* The last-finalized-state check of _finalizeBlocks: the five fields must hash
\* to the stored value; failing that, the three fields of V8 must.
LastFinalizedStateMatches(ftxNumber, ftxHash) ==
    LET s == currentFinalizedState IN
    \/ s = FinalizedState5(s.messageNumber, s.messageRollingHash, ftxNumber, ftxHash, s.timestamp)
    \/ s = FinalizedState3(s.messageNumber, s.messageRollingHash, s.timestamp)

\* Mutant: the deadline itself may be finalized without the transaction.
NextForcedTransactionIsNotEarlier(ftxNumber, endBlockNumber) ==
    LET deadline == forcedTransactionL2BlockNumbers(ftxNumber + 1)
    IN ~ (deadline > 0 /\ deadline < endBlockNumber)

\* The forced transaction after the last one handled is due beyond the end block.
NextForcedTransactionIsLater(ftxNumber, endBlockNumber) ==
    LET deadline == forcedTransactionL2BlockNumbers(ftxNumber + 1)
    IN ~ (deadline > 0 /\ deadline <= endBlockNumber)

(* finalizeBlocks with _finalizeBlocks and _verifyProof.  The operator      *)
(* chooses the final shnarf and every field of the finalization data that   *)
(* the proof does not pin to the L2 state of that shnarf.                   *)
FinalizeBlocks(operator, proofType, finalShnarf, parentStateRootHash, filteredAddresses, lastFtxNumber, lastFtxHash, finalFtxNumber) ==
    LET final        == StateOf(finalShnarf)
        finalFtxHash == forcedTransactionRollingHashes(finalFtxNumber)
        newRoots     == MerkleRootsProven(currentFinalizedShnarf, finalShnarf)
    IN
    /\ NotPaused("FINALIZATION")
    /\ operator \in operators
    /\ stateRootHashes[currentL2BlockNumber] = parentStateRootHash
    /\ proofType \in verifiers
    /\ ~ (finalFtxNumber > 0 /\ finalFtxHash = EmptyHash)
    /\ ValidateL2ComputedRollingHash(Len(final.messages), final.messages)
    /\ ValidateFilteredAddresses(filteredAddresses)
    /\ LastFinalizedStateMatches(lastFtxNumber, lastFtxHash)
    /\ IsInThePast(final.timestamp)
    /\ final.root # EmptyHash
    /\ NextForcedTransactionIsLater(finalFtxNumber, final.end)
    /\ finalShnarf \in blobShnarfExists
    /\ newRoots \cap l2MerkleRoots = {}
    /\ ExecutionProven(currentFinalizedShnarf, finalShnarf)
    /\ InvaliditiesProven(parentStateRootHash, currentL2BlockNumber, filteredAddresses,
                          lastFtxNumber, lastFtxHash, finalFtxNumber, finalFtxHash)
    /\ l2MerkleRoots' = l2MerkleRoots \cup newRoots
    /\ stateRootHashes' = [stateRootHashes EXCEPT ![final.end] = final.root]
    /\ currentL2BlockNumber' = final.end
    /\ currentFinalizedShnarf' = finalShnarf
    /\ currentFinalizedState' = FinalizedState5(Len(final.messages), final.messages,
                                                finalFtxNumber, finalFtxHash, final.timestamp)
    /\ UNCHANGED <<chainVars, gatewayVars, adminVars, l1Messages, now>>

-----------------------------------------------------------------------------
(* Roles, pauses and configuration                                         *)

\* Mutant: the six-month comparison is inverted.
SetLivenessRecoveryOperatorEarly ==
    /\ now < currentFinalizedState.timestamp + SIX_MONTHS_IN_SECONDS
    /\ currentFinalizedState.fields = 5
    /\ RecoveryOperator \notin operators
    /\ operators' = operators \cup {RecoveryOperator}
    /\ UNCHANGED <<chainVars, finalVars, gatewayVars, verifiers, paused, useAddressFilter,
                   filtered, everFiltered, adminActions, l1Messages, now>>

\* setLivenessRecoveryOperator: anyone, once the last finalized L2 block is old.
SetLivenessRecoveryOperator ==
    /\ now >= currentFinalizedState.timestamp + SIX_MONTHS_IN_SECONDS
    /\ currentFinalizedState.fields = 5
    /\ RecoveryOperator \notin operators
    /\ operators' = operators \cup {RecoveryOperator}
    /\ UNCHANGED <<chainVars, finalVars, gatewayVars, verifiers, paused, useAddressFilter,
                   filtered, everFiltered, adminActions, l1Messages, now>>

\* A role holder's call, counted against the bound.
AdminStep ==
    /\ adminActions < MaxAdminActions
    /\ adminActions' = adminActions + 1
    /\ UNCHANGED <<chainVars, finalVars, gatewayVars, l1Messages, now>>

\* renounceRole(OPERATOR_ROLE): refused to the recovery operator.
RenounceRole(operator) ==
    /\ operator \in operators
    /\ operator # RecoveryOperator
    /\ operators' = operators \ {operator}
    /\ AdminStep
    /\ UNCHANGED <<verifiers, paused, useAddressFilter, filtered, everFiltered>>

\* grantRole and revokeRole of OPERATOR_ROLE by its admin (OpenZeppelin AccessControl).
GrantRole(operator) ==
    /\ operators' = operators \cup {operator}
    /\ AdminStep
    /\ UNCHANGED <<verifiers, paused, useAddressFilter, filtered, everFiltered>>

RevokeRole(operator) ==
    /\ operators' = operators \ {operator}
    /\ AdminStep
    /\ UNCHANGED <<verifiers, paused, useAddressFilter, filtered, everFiltered>>

\* setVerifierAddress.
SetVerifierAddress(proofType) ==
    /\ verifiers' = verifiers \cup {proofType}
    /\ AdminStep
    /\ UNCHANGED <<operators, paused, useAddressFilter, filtered, everFiltered>>

\* unsetVerifierAddress.
UnsetVerifierAddress(proofType) ==
    /\ verifiers' = verifiers \ {proofType}
    /\ AdminStep
    /\ UNCHANGED <<operators, paused, useAddressFilter, filtered, everFiltered>>

\* setFilteredStatus of AddressFilter.
SetFilteredStatus(addresses, isFiltered) ==
    /\ addresses # {}
    /\ filtered' = IF isFiltered THEN filtered \cup addresses ELSE filtered \ addresses
    /\ everFiltered' = everFiltered \cup filtered'
    /\ AdminStep
    /\ UNCHANGED <<verifiers, operators, paused, useAddressFilter>>

\* toggleUseAddressFilter.
ToggleUseAddressFilter(use) ==
    /\ useAddressFilter # use
    /\ useAddressFilter' = use
    /\ AdminStep
    /\ UNCHANGED <<verifiers, operators, paused, filtered, everFiltered>>

\* Some pause types are set or lifted; who may, and when, is left open here.
ChangePause(types) ==
    /\ paused' = types
    /\ AdminStep
    /\ UNCHANGED <<verifiers, operators, useAddressFilter, filtered, everFiltered>>

\* The next L1 block.
NextL1Block ==
    /\ now < MaxTime
    /\ now' = now + 1
    /\ UNCHANGED <<chainVars, finalVars, gatewayVars, adminVars, l1Messages>>

Accounts == Operators \cup {RecoveryOperator}

\* Rolling hashes an operator may name as the last finalized one.
ClaimedRollingHashes == {SubSeq(forcedTransactions, 1, n) : n \in 0..Len(forcedTransactions)}

Next ==
    \/ \E a \in Accounts, p \in posted \cup Submissions, b \in Submissions :
          Cardinality(blobShnarfExists) <= MaxShnarfs /\ SubmitBlobs(a, p, b)
    \/ \E m \in Message : SendMessage(m)
    \/ \E t \in Transaction : SubmitForcedTransaction(t)
    \/ \E a \in Accounts, t \in ProofTypes, s \in posted, r \in Root,
          A \in SUBSET Address, n \in 0..MaxForcedTransactions, h \in ClaimedRollingHashes,
          f \in 0..MaxForcedTransactions :
          FinalizeBlocks(a, t, s, r, A, n, h, f)
    \/ SetLivenessRecoveryOperator
    \/ \E a \in Accounts : RenounceRole(a) \/ GrantRole(a) \/ RevokeRole(a)
    \/ \E t \in ProofTypes : SetVerifierAddress(t) \/ UnsetVerifierAddress(t)
    \/ \E A \in SUBSET Address, on \in BOOLEAN : SetFilteredStatus(A, on)
    \/ \E on \in BOOLEAN : ToggleUseAddressFilter(on)
    \/ \E P \in SUBSET PauseTypes : ChangePause(P)
    \/ NextL1Block

Spec == Init /\ [][Next]_vars

\* L1 keeps producing blocks, and setLivenessRecoveryOperator is open to anyone.
Fairness == WF_vars(NextL1Block) /\ WF_vars(SetLivenessRecoveryOperator)

FairSpec == Spec /\ Fairness

-----------------------------------------------------------------------------
(* Properties                                                              *)

FinalizedForcedTransactions == currentFinalizedState.forcedTransactionNumber

FinalizedState == [fields : {3, 5}, messageNumber : Nat, messageRollingHash : Seq(Message),
                   forcedTransactionNumber : Nat,
                   forcedTransactionRollingHash : Seq(ForcedTransaction),
                   timestamp : Nat]

\* The types of the contract's storage and of the environment.
TypeOK ==
    /\ blobShnarfExists \subseteq Seq(Blob)
    /\ currentFinalizedShnarf \in Seq(Blob)
    /\ currentL2BlockNumber \in 0..MaxL2Block
    /\ stateRootHashes \in [0..MaxL2Block -> Root \cup {EmptyHash}]
    /\ currentFinalizedState \in FinalizedState
    /\ forcedTransactions \in Seq(ForcedTransaction)
    /\ l1Messages \in Seq(Message)
    /\ l2MerkleRoots \subseteq SUBSET L2Message
    /\ verifiers \subseteq ProofTypes
    /\ operators \subseteq Accounts
    /\ paused \subseteq PauseTypes
    /\ lastSubmissionBlock \in Nat
    /\ useAddressFilter \in BOOLEAN
    /\ filtered \subseteq Address
    /\ everFiltered \subseteq Address
    /\ now \in Nat
    /\ adminActions \in Nat
    /\ posted \subseteq Seq(Blob)

\* Censorship resistance of _finalizeBlocks: no forced transaction whose deadline
\* is within the finalized blocks is left unhandled, whatever operators, admins
\* and users do between its submission and its deadline.  It also means that the
\* circuit's "simulated block <= deadline" never rejects the next one in line.
CensorshipResistance ==
    \A n \in 1..Len(forcedTransactions) :
        forcedTransactions[n].deadline <= currentL2BlockNumber
            => n <= FinalizedForcedTransactions

\* finalizeBlocks settles a forced transaction only for a reason: it could not
\* execute on some finalized state older than its deadline, or L1 had filtered
\* its signer or its recipient.
SettledForAReason ==
    \A n \in 1..FinalizedForcedTransactions :
        LET ftx == forcedTransactions[n] IN
        \/ {From[ftx.tx], To[ftx.tx]} \cap everFiltered # {}
        \/ \E k \in 0..MaxL2Block :
              /\ k < ftx.deadline
              /\ stateRootHashes[k] # EmptyHash
              /\ ftx.tx \notin Executable[stateRootHashes[k]]

\* The feedback loop: the scattered storage finalizeBlocks writes (block number,
\* state root, hashed state) always describes the L2 state of the finalized
\* shnarf, and both its rolling hashes are ones L1 computed itself.
FinalizedStateIsL2State ==
    LET l2 == StateOf(currentFinalizedShnarf)
        s  == currentFinalizedState
    IN /\ currentL2BlockNumber = l2.end
       /\ stateRootHashes[currentL2BlockNumber] = l2.root
       /\ s.timestamp = l2.timestamp
       /\ s.messageRollingHash = l2.messages
       /\ s.messageNumber = Len(l2.messages)
       /\ IsPrefix(l2.messages, l1Messages)
       /\ s.forcedTransactionNumber <= Len(forcedTransactions)
       /\ s.forcedTransactionRollingHash
             = SubSeq(forcedTransactions, 1, s.forcedTransactionNumber)

\* Data availability: every blob behind the finalized shnarf was published on L1,
\* although submitBlobs records only the last shnarf of a transaction.
FinalizedDataAvailable ==
    \A k \in 0..Len(currentFinalizedShnarf) : SubSeq(currentFinalizedShnarf, 1, k) \in posted

\* _addL2MerkleRoots: every L2 -> L1 message of the finalized chain is below
\* exactly one anchored root, so it can be proved on L1 and under one root only.
MerkleRootsPartitionMessages ==
    /\ UNION l2MerkleRoots = StateOf(currentFinalizedShnarf).sent
    /\ \A R1, R2 \in l2MerkleRoots : R1 # R2 => R1 \cap R2 = {}

\* The unchecked subtraction block.timestamp - lastFinalizedTimestamp of the
\* gateway never wraps around, since finalization rejects future timestamps.
ElapsedTimeDoesNotUnderflow == currentFinalizedState.timestamp <= now

-----------------------------------------------------------------------------
(* The inductive invariant behind these properties                         *)

\* Every accepted shnarf, the finalized one among them, has all its data published.
AcceptedDataAvailable ==
    /\ currentFinalizedShnarf \in blobShnarfExists
    /\ \A s \in blobShnarfExists : \A k \in 0..Len(s) : SubSeq(s, 1, k) \in posted

\* Deadlines of forced transactions are strictly increasing.
DeadlinesIncrease ==
    \A i, j \in 1..Len(forcedTransactions) :
        i < j => forcedTransactions[i].deadline < forcedTransactions[j].deadline

\* An upgraded contract accepts no forced transaction before it finalizes, so the
\* free claim its three-field check leaves open can only be the true one.
NoneForcedBeforeFirstFinalization ==
    currentFinalizedState.fields = 3 => forcedTransactions = << >>

\* Roots are stored for finalized blocks only.
RootsAreFinalized ==
    \A k \in 0..MaxL2Block : stateRootHashes[k] # EmptyHash => k <= currentL2BlockNumber

\* Strengthens the properties above into an inductive invariant of the contract.
IInv ==
    /\ TypeOK
    /\ AcceptedDataAvailable
    /\ DeadlinesIncrease
    /\ NoneForcedBeforeFirstFinalization
    /\ RootsAreFinalized
    /\ StateOf(currentFinalizedShnarf).root \in Root
    /\ filtered \subseteq everFiltered
    /\ FinalizedStateIsL2State
    /\ CensorshipResistance
    /\ SettledForAReason
    /\ ElapsedTimeDoesNotUnderflow

\* A finalization never rewrites history: it extends the finalized chain, moves
\* the block number and the forced transactions forward and leaves every root
\* already finalized as it was; nothing else touches this storage.
FinalizationOnlyExtends ==
    [][ /\ IsPrefix(currentFinalizedShnarf, currentFinalizedShnarf')
        /\ \/ UNCHANGED finalVars
           \/ currentL2BlockNumber < currentL2BlockNumber'
        /\ FinalizedForcedTransactions <= FinalizedForcedTransactions'
        /\ \A k \in 0..MaxL2Block :
              stateRootHashes[k] # EmptyHash => stateRootHashes'[k] = stateRootHashes[k] ]_vars

\* setLivenessRecoveryOperator: once the last finalization is six months old, either
\* finalization resumes or the recovery operator gets the operator role.
LivenessIsRecovered ==
    LET lapsed == now >= currentFinalizedState.timestamp + SIX_MONTHS_IN_SECONDS
    IN lapsed ~> (RecoveryOperator \in operators \/ ~ lapsed)

EndOf(shnarf) == StateOf(shnarf).end

Chain == INSTANCE FinalizedChain
           WITH finalized <- currentFinalizedShnarf, public <- posted,
                queue <- forcedTransactions, handled <- FinalizedForcedTransactions,
                End <- EndOf

\* The contract implements the abstract promise of FinalizedChain.
ImplementsFinalizedChain == Chain!Spec
=============================================================================
