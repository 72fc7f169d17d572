------------------------- MODULE ForcedTransactions -------------------------
(* Forced transactions (FTX) after they left L1: the coordinator's            *)
(* ForcedTransactionsApp fetches their events, sends them to the sequencer,   *)
(* records what became of them and holds back conflation meanwhile; the       *)
(* sequencer's LineaForcedTransactionPool includes or rejects them; one of    *)
(* the two conflation pipelines cuts batches: V1 before every block that      *)
(* settled a forced transaction, V2 (RISC-V) by their length only, but with   *)
(* proof requests that list the forced transactions of their blocks.          *)
(*                                                                            *)
(* Every await of the coordinator is a step boundary.  Data is abstracted to  *)
(* the number of a transaction and the block that settles it.                 *)
EXTENDS Integers, FiniteSets

CONSTANTS
    MaxFtx,                 \* forced transactions submitted on L1
    MaxIdleBlocks,          \* bound: L2 blocks that settle no forced transaction
    TxLimitToSendPerTick,
    BlocksPerBatch,         \* conflation.blocksLimit
    MaxRestarts,            \* bound: restarts of the coordinator
    None

\* What the sequencer answers about a transaction it settled.
Status == [block : Nat, included : BOOLEAN]

ASSUME ConstantsAssumption ==
    /\ MaxFtx \in Nat \ {0}
    /\ MaxIdleBlocks \in Nat
    /\ TxLimitToSendPerTick \in Nat \ {0}
    /\ BlocksPerBatch \in Nat \ {0}
    /\ MaxRestarts \in Nat
    /\ None \notin Int \cup Status

Ftx == 1..MaxFtx

VARIABLES
    l1Ftx,                  \* L1: transactions whose event is final
    head,                   \* L2: number of the last block
    pendingTransactions,    \* pool of the sequencer
    statusCache,            \* Ftx -> None or [block, included]
    payload,                \* forced transactions of the payload that head + 1 will have
    tentativeRejections,    \* rejections met while building head + 1
    wire,                   \* sent to the sequencer, not received yet
    dao,                    \* Ftx -> None or the recorded block; survives restarts
    pipeline,               \* the conflation app that runs
    app,                    \* memory of the ForcedTransactionsApp
    tick,                   \* the tick of the sender that is under way
    conflation,             \* memory of ConflationService and its calculator
    requests,               \* execution proof requests handed to the prover
    restarts,
    interrupted             \* history: a restart found a transaction sent and not recorded

chainVars == <<head, pendingTransactions, statusCache, payload, tentativeRejections>>
coordinatorVars == <<pipeline, app, tick, conflation>>
faults == <<restarts, interrupted>>
vars == <<l1Ftx, chainVars, wire, dao, coordinatorVars, requests, faults>>

-----------------------------------------------------------------------------

NoTick == [pc |-> "idle", remaining |-> {}, block |-> None]

NoConflation == [pc |-> "idle", imported |-> 0, lastBlockNumber |-> 0,
                 starts |-> {}]

Least(S) == CHOOSE f \in S : \A g \in S : f <= g

Recorded == {f \in Ftx : dao[f] # None}

\* max(L1 finalized, highest of the DAO); nothing is finalized on L1 meanwhile.
LastProcessed == IF Recorded = {} THEN 0 ELSE CHOOSE f \in Recorded : \A g \in Recorded : g <= f

\* Mutant: the fetcher resumes one event too late.
StartedAppSkipping(lastProcessed) ==
    [ftxQueue              |-> {},
     conflationFtxQueue    |-> {dao[f] : f \in Recorded},
     nextExpectedFtx       |-> lastProcessed + 2,
     nextExpectedFtxNumber |-> lastProcessed + 1,
     safeBlockNumber       |-> IF lastProcessed = 0 THEN 0 ELSE dao[lastProcessed],
     startUpScanFinished   |-> FALSE,
     ftxInSequencerForProcessing |-> {}]

\* ForcedTransactionsApp.start: locked at the last recorded block, or altogether; the
\* recorded blocks are replayed into the queue of the V1 trigger calculator.
StartedApp(lastProcessed) ==
    [ftxQueue              |-> {},
     conflationFtxQueue    |-> {dao[f] : f \in Recorded},
     nextExpectedFtx       |-> lastProcessed + 1,       \* of the L1 events fetcher
     nextExpectedFtxNumber |-> lastProcessed + 1,       \* of the status updater
     safeBlockNumber       |-> IF lastProcessed = 0 THEN 0 ELSE dao[lastProcessed],
     startUpScanFinished   |-> FALSE,
     ftxInSequencerForProcessing |-> {}]

Init ==
    /\ l1Ftx = 0
    /\ head = 1
    /\ pendingTransactions = {}
    /\ statusCache = [f \in Ftx |-> None]
    /\ payload = {}
    /\ tentativeRejections = {}
    /\ wire = {}
    /\ dao = [f \in Ftx |-> None]
    /\ pipeline \in {"V1", "V2"}
    /\ app = StartedApp(0)
    /\ tick = NoTick
    /\ conflation = NoConflation
    /\ requests = {}
    /\ restarts = 0
    /\ interrupted = FALSE

-----------------------------------------------------------------------------
(* L1 and the events fetcher                                               *)

SubmitOnL1 ==
    /\ l1Ftx < MaxFtx
    /\ l1Ftx' = l1Ftx + 1
    /\ UNCHANGED <<chainVars, wire, dao, coordinatorVars, requests, faults>>

\* Mutant: events that are not final yet are taken too.
OnAnyForcedTransaction ==
    /\ app.nextExpectedFtx <= l1Ftx + 1
    /\ app' = [app EXCEPT !.ftxQueue = @ \cup {app.nextExpectedFtx},
                          !.nextExpectedFtx = @ + 1]
    /\ UNCHANGED <<l1Ftx, chainVars, wire, dao, pipeline, tick, conflation, requests, faults>>

\* The next event, in order; the search only goes forward.
OnNewForcedTransaction ==
    /\ app.nextExpectedFtx <= l1Ftx
    /\ app' = [app EXCEPT !.ftxQueue = @ \cup {app.nextExpectedFtx},
                          !.nextExpectedFtx = @ + 1]
    /\ UNCHANGED <<l1Ftx, chainVars, wire, dao, pipeline, tick, conflation, requests, faults>>

\* The search is past the L1 head.
OnSearchStateUpdated ==
    /\ app.nextExpectedFtx > l1Ftx
    /\ ~ app.startUpScanFinished
    /\ app' = [app EXCEPT !.startUpScanFinished = TRUE]
    /\ UNCHANGED <<l1Ftx, chainVars, wire, dao, pipeline, tick, conflation, requests, faults>>

-----------------------------------------------------------------------------
(* ForcedTransactionsSafeBlockNumberManager                                *)

\* Mutant: the lock follows the head.
LockSafeBlockNumberAtHead(headBlockNumber) == headBlockNumber

LockSafeBlockNumberBeforeSendingToSequencer(headBlockNumber) ==
    IF app.safeBlockNumber \notin {None, 0} THEN app.safeBlockNumber ELSE headBlockNumber

IsBelowLock(block) == app.safeBlockNumber # None /\ block < app.safeBlockNumber

\* Mutant: the transactions sent and not settled yet are forgotten.
FtxProcessedBySequencerForgetting(a, f, block) ==
    [a EXCEPT !.ftxInSequencerForProcessing = {},
              !.safeBlockNumber = IF a.startUpScanFinished THEN None ELSE block]

FtxProcessedBySequencer(a, f, block) ==
    LET left == {g \in a.ftxInSequencerForProcessing : g > f}
    IN  [a EXCEPT !.ftxInSequencerForProcessing = left,
                  !.safeBlockNumber = IF left = {} /\ a.startUpScanFinished THEN None ELSE block]

\* Mutant: the release is left to ftxProcessedBySequencer.
UnprocessedFtxQueueIsEmptyIgnored(a) == a

UnprocessedFtxQueueIsEmpty(a) ==
    IF a.startUpScanFinished THEN [a EXCEPT !.safeBlockNumber = None] ELSE a

-----------------------------------------------------------------------------
(* One tick of the sender: the status updater first, then the sending      *)

\* filterOutAlreadyProcessed: the queued transactions that follow without a gap.
Consecutive(a) ==
    {f \in a.ftxQueue : f >= a.nextExpectedFtxNumber /\ a.nextExpectedFtxNumber..f \subseteq a.ftxQueue}

\* getUnprocessedForcedTransactions has nothing to send.
NothingToSend(a) ==
    /\ tick' = NoTick
    /\ app' = IF a.ftxQueue = {} THEN UnprocessedFtxQueueIsEmpty(a) ELSE a

StartTick ==
    /\ tick.pc = "idle"
    /\ IF Consecutive(app) = {}
       THEN NothingToSend(app)
       ELSE /\ tick' = [pc |-> "check", remaining |-> Consecutive(app), block |-> None]
            /\ UNCHANGED app
    /\ UNCHANGED <<l1Ftx, chainVars, wire, dao, pipeline, conflation, requests, faults>>

\* addFtxToConflation: the calculator's queue before the lock; when the manager throws,
\* the tick ends and the next one retries.
ProcessTransaction(f, block) ==
    LET queued == [app EXCEPT !.conflationFtxQueue = @ \cup {block}]
        processed == [FtxProcessedBySequencer(queued, f, block) EXCEPT
                        !.ftxQueue = @ \ {f}, !.nextExpectedFtxNumber = f + 1]
    IN
    \/ /\ IsBelowLock(block)
       /\ app' = queued
       /\ tick' = NoTick
    \/ /\ ~ IsBelowLock(block)
       /\ tick.remaining # {f}
       /\ app' = processed
       /\ tick' = [pc |-> "check", remaining |-> tick.remaining \ {f}, block |-> None]
    \/ /\ ~ IsBelowLock(block)
       /\ tick.remaining = {f}
       /\ NothingToSend(processed)

\* findSequencerProcessingRecord: the DAO, then the sequencer.
FindSequencerProcessingRecord ==
    LET f == Least(tick.remaining) IN
    /\ tick.pc = "check"
    /\ \/ /\ dao[f] # None
          /\ ProcessTransaction(f, dao[f])
       \/ /\ dao[f] = None
          /\ tick' = IF statusCache[f] = None
                     THEN [tick EXCEPT !.pc = "unprocessed"]
                     ELSE [tick EXCEPT !.pc = "save", !.block = statusCache[f].block]
          /\ UNCHANGED app
    /\ UNCHANGED <<l1Ftx, chainVars, wire, dao, pipeline, conflation, requests, faults>>

SaveRecord ==
    LET f == Least(tick.remaining) IN
    /\ tick.pc = "save"
    /\ dao' = [dao EXCEPT ![f] = tick.block]
    /\ ProcessTransaction(f, tick.block)
    /\ UNCHANGED <<l1Ftx, chainVars, wire, pipeline, conflation, requests, faults>>

\* filterOutFtxOutsideDelayWindow keeps none of them.
AllInDelayWindow ==
    /\ tick.pc = "unprocessed"
    /\ NothingToSend(app)
    /\ UNCHANGED <<l1Ftx, chainVars, wire, dao, pipeline, conflation, requests, faults>>

\* ethBlockNumber, for the older ones, past the delay window.
EthBlockNumber ==
    /\ tick.pc = "unprocessed"
    /\ \E f \in tick.remaining :
          tick' = [pc |-> "send", remaining |-> {g \in tick.remaining : g <= f}, block |-> head]
    /\ UNCHANGED <<l1Ftx, chainVars, wire, dao, pipeline, app, conflation, requests, faults>>

\* The lock, the note of what is sent, then the call, whose answer changes nothing.
SendTransactions ==
    LET sent == {f \in tick.remaining : f < Least(tick.remaining) + TxLimitToSendPerTick} IN
    /\ tick.pc = "send"
    /\ app' = [app EXCEPT
                  !.safeBlockNumber = LockSafeBlockNumberBeforeSendingToSequencer(tick.block),
                  !.ftxInSequencerForProcessing = @ \cup sent]
    /\ wire' = wire \cup sent
    /\ tick' = NoTick
    /\ UNCHANGED <<l1Ftx, chainVars, dao, pipeline, conflation, requests, faults>>

-----------------------------------------------------------------------------
(* The sequencer                                                           *)

\* Mutant: the status cache is not asked.
AddForcedTransactionsAgain ==
    /\ wire # {}
    /\ pendingTransactions' = pendingTransactions \cup wire
    /\ wire' = {}
    /\ UNCHANGED <<l1Ftx, head, statusCache, payload, tentativeRejections, dao,
                   coordinatorVars, requests, faults>>

\* linea_sendForcedRawTransaction, which may arrive late and more than once.
AddForcedTransactions ==
    /\ wire # {}
    /\ pendingTransactions' = pendingTransactions \cup {f \in wire : statusCache[f] = None}
    /\ wire' = {}
    /\ UNCHANGED <<l1Ftx, head, statusCache, payload, tentativeRejections, dao,
                   coordinatorVars, requests, faults>>

\* The call times out or fails on its way.
LoseCall ==
    /\ wire # {}
    /\ wire' = {}
    /\ UNCHANGED <<l1Ftx, chainVars, dao, coordinatorVars, requests, faults>>

UpTo(f) == {g \in pendingTransactions : g <= f}

\* processForBlock, any number of times per block: the pending transactions in order
\* up to the first that is not selected; only the very first can be rejected for good.
\* The payload built this time may be the one that is sealed, or not.
ProcessForBlock ==
    /\ pendingTransactions # {}
    /\ \/ \E f \in pendingTransactions :
             /\ payload' = UpTo(f)
             /\ UNCHANGED tentativeRejections
       \/ /\ tentativeRejections' = tentativeRejections \cup {Least(pendingTransactions)}
          /\ payload' \in {payload, {}}
    /\ UNCHANGED <<l1Ftx, head, pendingTransactions, statusCache, wire, dao,
                   coordinatorVars, requests, faults>>

\* Those in the block, and the first that is not if its rejection was met.
SettledBy(body) ==
    {f \in pendingTransactions :
        /\ f \in body \cup tentativeRejections
        /\ UpTo(f) \ {f} \subseteq body}

Settled == {f \in Ftx : statusCache[f] # None}

IdleBlocks == (2..head) \ {statusCache[f].block : f \in Settled}

OnBlockAdded ==
    LET settled == SettledBy(payload) IN
    /\ settled # {} \/ Cardinality(IdleBlocks) < MaxIdleBlocks
    /\ statusCache' = [f \in Ftx |-> IF f \in settled
                                     THEN [block |-> head + 1, included |-> f \in payload]
                                     ELSE statusCache[f]]
    /\ pendingTransactions' = pendingTransactions \ settled
    /\ head' = head + 1
    /\ payload' = {}
    /\ tentativeRejections' = {}
    /\ UNCHANGED <<l1Ftx, wire, dao, coordinatorVars, requests, faults>>

-----------------------------------------------------------------------------
(* Conflation                                                              *)

\* Mutant: the block after the safe one is let through.
IsBlockAfterSafeToConflate(block) ==
    app.safeBlockNumber # None => block <= app.safeBlockNumber + 1

IsBlockSafeToConflate(block) == app.safeBlockNumber # None => block <= app.safeBlockNumber

\* GlobalBlockConflationCalculator.newBlock: the batch so far is cut before the block
\* when it is full or, with ConflationCalculatorByForcedTransaction, when the block
\* settled a forced transaction.
CutsBefore(block) ==
    \/ block = 1
    \/ block = BlocksPerBatch + CHOOSE b \in conflation.starts : \A c \in conflation.starts : c <= b
    \/ pipeline = "V1" /\ block \in app.conflationFtxQueue

\* The batch that ends at the last block.
OpenBatch ==
    {b \in 1..conflation.lastBlockNumber : \A c \in conflation.starts : c <= b}

\* The V1 calculator drops the triggers it is past; with V2, L2ExecutionRequestBuilder
\* reads the DAO for the batch that is cut.
ConflateBlock(block, imported) ==
    /\ conflation' = [conflation EXCEPT
          !.pc = IF block < imported THEN "drain" ELSE "idle",
          !.imported = imported,
          !.lastBlockNumber = block,
          !.starts = IF CutsBefore(block) THEN @ \cup {block} ELSE @]
    /\ \/ /\ pipeline = "V1"
          /\ app' = [app EXCEPT !.conflationFtxQueue = {b \in @ : b > block}]
          /\ UNCHANGED requests
       \/ /\ pipeline = "V2"
          /\ requests' = IF CutsBefore(block) /\ block # 1
                         THEN requests \cup {[blocks |-> OpenBatch,
                                              ftxs |-> {f \in Recorded : dao[f] \in OpenBatch}]}
                         ELSE requests
          /\ UNCHANGED app

\* One round of sendBlocksInOrderToTracesCounter.
SendBlocksInOrder(imported) ==
    LET block == conflation.lastBlockNumber + 1 IN
    /\ \/ /\ IsBlockSafeToConflate(block)
          /\ ConflateBlock(block, imported)
       \/ /\ ~ IsBlockSafeToConflate(block)
          /\ conflation' = [conflation EXCEPT !.pc = "idle", !.imported = imported]
          /\ UNCHANGED <<app, requests>>
    /\ UNCHANGED <<l1Ftx, chainVars, wire, dao, pipeline, tick, faults>>

\* The block monitor hands over the next block; newBlock holds the lock of
\* ConflationService until no block is left that is safe.
NewBlock ==
    /\ conflation.pc = "idle"
    /\ conflation.imported < head
    /\ SendBlocksInOrder(conflation.imported + 1)

NextBlock ==
    /\ conflation.pc = "drain"
    /\ SendBlocksInOrder(conflation.imported)

Sent == wire \cup pendingTransactions \cup Settled

\* The coordinator stops at any point and starts again; conflation resumes after the
\* last block finalized on L1.
Restart ==
    /\ restarts < MaxRestarts
    /\ restarts' = restarts + 1
    /\ interrupted' = (interrupted \/ Sent \ Recorded # {})
    /\ app' = StartedApp(LastProcessed)
    /\ tick' = NoTick
    /\ conflation' = NoConflation
    /\ UNCHANGED <<l1Ftx, chainVars, wire, dao, pipeline, requests>>

-----------------------------------------------------------------------------

Fetcher == OnNewForcedTransaction \/ OnSearchStateUpdated

Sender ==
    \/ StartTick
    \/ FindSequencerProcessingRecord
    \/ SaveRecord
    \/ AllInDelayWindow
    \/ EthBlockNumber
    \/ SendTransactions

Conflate == NewBlock \/ NextBlock

Next ==
    \/ SubmitOnL1
    \/ Fetcher
    \/ Sender
    \/ AddForcedTransactions
    \/ LoseCall
    \/ ProcessForBlock
    \/ OnBlockAdded
    \/ Conflate
    \/ Restart

Spec == Init /\ [][Next]_vars

\* Timers fire, calls are answered, a delay window ends, the sequencer gets a call
\* that is repeated on every tick and settles the transactions it has.
Fairness ==
    /\ WF_vars(Fetcher)
    /\ WF_vars(Sender)
    /\ SF_vars(EthBlockNumber)
    /\ SF_vars(AddForcedTransactions)
    /\ WF_vars(OnBlockAdded /\ pendingTransactions' # pendingTransactions)
    /\ WF_vars(ProcessForBlock /\ payload' # {} /\ payload = {})

FairSpec == Spec /\ Fairness

-----------------------------------------------------------------------------
(* Properties                                                              *)

AppRecord ==
    [ftxQueue : SUBSET Ftx, conflationFtxQueue : SUBSET Nat, nextExpectedFtx : 1..MaxFtx + 1,
     nextExpectedFtxNumber : 1..MaxFtx + 1, safeBlockNumber : Nat \cup {None},
     startUpScanFinished : BOOLEAN, ftxInSequencerForProcessing : SUBSET Ftx]

TickRecord ==
    [pc : {"idle", "check", "save", "unprocessed", "send"}, remaining : SUBSET Ftx,
     block : Nat \cup {None}]

ConflationRecord ==
    [pc : {"idle", "drain"}, imported : Nat, lastBlockNumber : Nat, starts : SUBSET Nat]

\* The types of the variables.
TypeOK ==
    /\ l1Ftx \in 0..MaxFtx
    /\ head \in Nat \ {0}
    /\ pendingTransactions \subseteq Ftx
    /\ statusCache \in [Ftx -> Status \cup {None}]
    /\ payload \subseteq Ftx
    /\ tentativeRejections \subseteq Ftx
    /\ wire \subseteq Ftx
    /\ dao \in [Ftx -> Nat \cup {None}]
    /\ pipeline \in {"V1", "V2"}
    /\ app \in AppRecord
    /\ tick \in TickRecord
    /\ conflation \in ConflationRecord
    /\ restarts \in 0..MaxRestarts
    /\ interrupted \in BOOLEAN

\* The order of processForBlock and onBlockAdded: transactions are settled in the
\* order of their numbers, a block settles none after one it rejected, and so it
\* needs one invalidity proof at most, however often it was built.
SettledInOrder ==
    \A f, g \in Ftx : (f < g /\ g \in Settled) =>
        /\ f \in Settled
        /\ statusCache[f].block <= statusCache[g].block
        /\ statusCache[f].block = statusCache[g].block => statusCache[f].included

\* The status updater works on without gaps, across restarts of the coordinator:
\* the records are those of the first transactions, with the block the sequencer
\* settled them in, and what is no longer queued or to be fetched is recorded.
RecordedWithoutGaps ==
    /\ \A f \in Recorded : f \in Settled /\ dao[f] = statusCache[f].block
    /\ \A f \in Ftx : f < app.nextExpectedFtxNumber => f \in Recorded
    /\ \A f \in Ftx : f \in app.nextExpectedFtxNumber..(app.nextExpectedFtx - 1)
                          => f \in app.ftxQueue

\* The lock of ForcedTransactionsSafeBlockNumberManager: conflation does not advance
\* past a block that settled a forced transaction before the record of it is there.
NoForcedTransactionIsPassed ==
    \A f \in Ftx : (f \in Settled /\ statusCache[f].block < conflation.lastBlockNumber)
                       => f \in Recorded

\* That is so unless the coordinator restarts with a transaction on its way.
NoForcedTransactionIsPassedUninterrupted == ~ interrupted => NoForcedTransactionIsPassed

\* ConflationCalculatorByForcedTransaction: a block that settled a forced transaction
\* is the first of its batch, as the trigger reaches the calculator before the lock
\* lets the block through.
ForcedTransactionsStartBatches ==
    (~ interrupted /\ pipeline = "V1") =>
        \A f \in Ftx : (f \in Settled /\ statusCache[f].block <= conflation.lastBlockNumber)
                           => statusCache[f].block \in conflation.starts

\* L2ExecutionRequestBuilder.build, which reads the DAO on its own: an execution proof
\* request lists the forced transactions that its blocks settled, all of them.
RequestsListTheirForcedTransactions ==
    ~ interrupted =>
        \A r \in requests :
            r.ftxs = {f \in Ftx : f \in Settled /\ statusCache[f].block \in r.blocks}

\* The assertion of ftxProcessedBySequencer: no transaction is settled in a block
\* below the lock that was taken before it was sent.
LockIsBelowStatuses ==
    ~ interrupted =>
        \A f \in Ftx : (f \in Settled /\ f \notin Recorded) => ~ IsBelowLock(statusCache[f].block)

IsPrefix(S) == \A g \in S : 1..g \subseteq S

\* The sequencer gets the transactions in order, without gaps, and settles each once.
PoolIsInOrder ==
    /\ IsPrefix(Settled \cup pendingTransactions)
    /\ IsPrefix(Sent)
    /\ pendingTransactions \cap Settled = {}
    /\ \A f \in Settled : statusCache[f].block \in 1..head

\* A tick works on the transactions that follow the recorded ones.
TickIsInOrder ==
    tick.pc # "idle" =>
        /\ app.nextExpectedFtxNumber \in tick.remaining
        /\ tick.remaining \subseteq app.ftxQueue
        /\ \A g \in tick.remaining : /\ app.nextExpectedFtxNumber <= g
                                     /\ app.nextExpectedFtxNumber..g \subseteq tick.remaining
        /\ tick.pc = "save" => /\ app.nextExpectedFtxNumber \in Settled
                               /\ tick.block = statusCache[app.nextExpectedFtxNumber].block
        /\ tick.pc = "send" => tick.block \in 1..head

\* As long as a transaction is with the sequencer, it is on the lists of the coordinator
\* and the lock, which conflation respects, is not above the block that settles it.
LockIsHeld ==
    ~ interrupted =>
        \A f \in Sent \ Recorded :
            /\ f \in app.ftxInSequencerForProcessing \cap app.ftxQueue
            /\ app.safeBlockNumber \notin {None, 0}
            /\ f \in Settled => /\ app.safeBlockNumber <= statusCache[f].block
                                /\ conflation.lastBlockNumber <= statusCache[f].block

LockIsNotAhead == app.safeBlockNumber # None => app.safeBlockNumber <= head

ConflationFollowsHead ==
    /\ conflation.lastBlockNumber <= conflation.imported /\ conflation.imported <= head
    /\ conflation.pc = "drain" => conflation.lastBlockNumber < conflation.imported

\* What the lock rests on: an inductive invariant.
LockIInv ==
    /\ TypeOK
    /\ PoolIsInOrder
    /\ SettledInOrder
    /\ RecordedWithoutGaps
    /\ \E last \in 0..MaxFtx : Recorded = 1..last
    /\ TickIsInOrder
    /\ LockIsHeld
    /\ LockIsNotAhead
    /\ ConflationFollowsHead

\* The trigger of a block that conflation has not reached is queued once the transaction is recorded,
\* and also when the lock is at its block: then another one, settled by the same block, is recorded.
TriggersAreQueued ==
    (~ interrupted /\ pipeline = "V1") =>
        \A f \in Settled :
            (f \in Recorded \/ statusCache[f].block = app.safeBlockNumber) =>
                \/ statusCache[f].block <= conflation.lastBlockNumber
                \/ statusCache[f].block \in app.conflationFtxQueue

RequestsAreOfBlocks == \A r \in requests : r.blocks \subseteq 1..head

\* The inductive invariant.
IInv ==
    /\ LockIInv
    /\ TriggersAreQueued
    /\ ForcedTransactionsStartBatches
    /\ RequestsAreOfBlocks
    /\ RequestsListTheirForcedTransactions

\* With calls that are lost, late or repeated, and blocks that leave transactions out,
\* every transaction submitted on L1 is recorded in the end and the lock released,
\* unless the coordinator restarts with a transaction on its way.
RecordedAndReleased ==
    []<>(~ interrupted => 1..l1Ftx \subseteq Recorded /\ app.safeBlockNumber = None)
=============================================================================
