--------------------- MODULE ForcedTransactions_proofs ----------------------
(***************************************************************************)
(* TLAPS proofs about ForcedTransactions, for every number of transactions *)
(* and restarts: order and records of the forced transactions, and the     *)
(* lock that holds conflation back.                                        *)
(***************************************************************************)
EXTENDS ForcedTransactions, TLAPS, WellFoundedInduction

USE ZenonT(30)

\* A set of numbers that is not empty has a least one.
LEMMA LeastExists ==
    ASSUME NEW S \in SUBSET Nat, S # {}
    PROVE  Least(S) \in S
  <1> DEFINE R == {ss \in Nat \X Nat : ss[1] < ss[2]}
  <1>1. IsWellFoundedOn(R, Nat)
    BY NatLessThanWellFounded, Zenon DEF OpToRel
  <1> HIDE DEF R
  <1>2. PICK f \in S : \A g \in S : <<g, f>> \notin R
    BY <1>1, WFMin, ZenonT(30)
  <1>3. \A g \in S : ~ (g < f)
    BY <1>2, ZenonT(30) DEF R
  <1>4. \A g \in S : f <= g
    BY <1>3, SMTT(30)
  <1> QED
    BY <1>4, ZenonT(30) DEF Least

\* Nothing happened yet.
LEMMA InitIInv == Init => LockIInv
  <1> SUFFICES ASSUME Init PROVE LockIInv
    OBVIOUS
  <1>1. Settled = {} /\ Recorded = {} /\ Sent = {}
    BY DEF Init, Settled, Recorded, Sent
  <1>2. /\ app \in AppRecord /\ app.nextExpectedFtx = 1 /\ app.nextExpectedFtxNumber = 1
        /\ app.safeBlockNumber = 0
    <2>1. app = [ftxQueue |-> {}, conflationFtxQueue |-> {}, nextExpectedFtx |-> 1,
                 nextExpectedFtxNumber |-> 1, safeBlockNumber |-> 0,
                 startUpScanFinished |-> FALSE, ftxInSequencerForProcessing |-> {}]
      <3>1. {dao[f] : f \in Recorded} = {} /\ 0 + 1 = 1
        BY <1>1, SMTT(30)
      <3>2. app = StartedApp(0)
        BY DEF Init
      <3> QED
        BY <3>1, <3>2, Zenon DEF StartedApp
    <2>2. 1 \in 1..MaxFtx + 1
      BY ConstantsAssumption, SMTT(30)
    <2> QED
      BY <2>1, <2>2 DEF AppRecord
  <1>3. tick \in TickRecord /\ tick.pc = "idle" /\ conflation \in ConflationRecord
    BY DEF Init, NoTick, TickRecord, NoConflation, ConflationRecord
  <1>4. TypeOK
    <2>1. /\ statusCache \in [Ftx -> Status \cup {None}]
          /\ dao \in [Ftx -> Nat \cup {None}]
      BY DEF Init
    <2>2. /\ l1Ftx \in 0..MaxFtx /\ head \in Nat \ {0} /\ restarts \in 0..MaxRestarts
      BY ConstantsAssumption, SMTT(30) DEF Init
    <2>3. /\ pendingTransactions \subseteq Ftx /\ payload \subseteq Ftx
          /\ tentativeRejections \subseteq Ftx /\ wire \subseteq Ftx
          /\ pipeline \in {"V1", "V2"} /\ interrupted \in BOOLEAN
      BY ZenonT(30) DEF Init
    <2> QED
      BY <2>1, <2>2, <2>3, <1>2, <1>3 DEF TypeOK
  <1>5. PoolIsInOrder /\ SettledInOrder /\ TickIsInOrder /\ LockIsHeld
    BY <1>1, <1>3 DEF Init, PoolIsInOrder, IsPrefix, SettledInOrder, TickIsInOrder, LockIsHeld
  <1>6. RecordedWithoutGaps /\ \E last \in 0..MaxFtx : Recorded = 1..last
    <2>1. Recorded = 1..0 /\ 0 \in 0..MaxFtx
      BY <1>1, ConstantsAssumption, SMTT(30)
    <2>2. RecordedWithoutGaps
      BY <1>1, <1>2, ConstantsAssumption, SMTT(30) DEF RecordedWithoutGaps, Ftx
    <2> QED
      BY <2>1, <2>2
  <1>7. ConflationFollowsHead /\ LockIsNotAhead
    BY <1>2, SMTT(30) DEF Init, ConflationFollowsHead, NoConflation, LockIsNotAhead
  <1> QED
    BY <1>4, <1>5, <1>6, <1>7 DEF LockIInv

(* The events fetcher ******************************************************)

\* Events are queued in order.
LEMMA FetcherIInv ==
    ASSUME LockIInv, SubmitOnL1 \/ Fetcher
    PROVE  LockIInv'
  <1>1. /\ UNCHANGED <<chainVars, wire, dao, pipeline, tick, conflation, requests, faults>>
        /\ app \in AppRecord /\ MaxFtx \in Nat /\ l1Ftx \in 0..MaxFtx
    BY ConstantsAssumption
       DEF SubmitOnL1, Fetcher, OnNewForcedTransaction, OnSearchStateUpdated, coordinatorVars,
           LockIInv, TypeOK
  <1>2. /\ PoolIsInOrder' /\ SettledInOrder' /\ ConflationFollowsHead'
        /\ Recorded' = Recorded /\ Settled' = Settled /\ Sent' = Sent
        /\ UNCHANGED <<head, statusCache, tick, conflation, dao, interrupted>>
    <2>1. UNCHANGED <<head, pendingTransactions, statusCache, wire, tick, conflation, dao, interrupted>>
      BY <1>1 DEF chainVars, faults
    <2>2. Recorded' = Recorded /\ Settled' = Settled /\ Sent' = Sent
      BY <2>1 DEF Recorded, Settled, Sent
    <2> QED
      BY <2>1, <2>2 DEF LockIInv, PoolIsInOrder, SettledInOrder, ConflationFollowsHead
  <1>3. /\ app' \in AppRecord /\ l1Ftx' \in 0..MaxFtx
        /\ app.ftxQueue \subseteq app'.ftxQueue
        /\ app'.nextExpectedFtxNumber = app.nextExpectedFtxNumber
        /\ app'.safeBlockNumber = app.safeBlockNumber
        /\ app'.ftxInSequencerForProcessing = app.ftxInSequencerForProcessing
        /\ \/ app'.nextExpectedFtx = app.nextExpectedFtx
           \/ /\ app'.nextExpectedFtx = app.nextExpectedFtx + 1
              /\ app.nextExpectedFtx \in app'.ftxQueue
    <2>1. CASE SubmitOnL1
      <3>1. l1Ftx' \in 0..MaxFtx /\ app' = app
        BY <2>1, <1>1, SMTT(30) DEF SubmitOnL1, coordinatorVars
      <3> QED
        BY <3>1, <1>1
    <2>2. CASE OnNewForcedTransaction
      <3>1. /\ app' = [app EXCEPT !.ftxQueue = @ \cup {app.nextExpectedFtx},
                                  !.nextExpectedFtx = @ + 1]
            /\ app.nextExpectedFtx <= l1Ftx /\ l1Ftx' = l1Ftx
        BY <2>2 DEF OnNewForcedTransaction
      <3>2. app.nextExpectedFtx \in Ftx /\ app.nextExpectedFtx + 1 \in 1..MaxFtx + 1
        BY <3>1, <1>1, SMTT(30) DEF Ftx, AppRecord
      <3> QED
        BY <3>1, <3>2, <1>1, ZenonT(30) DEF AppRecord
    <2>3. CASE OnSearchStateUpdated
      <3>1. app' = [app EXCEPT !.startUpScanFinished = TRUE] /\ l1Ftx' = l1Ftx
        BY <2>3 DEF OnSearchStateUpdated
      <3> QED
        BY <3>1, <1>1, ZenonT(30) DEF AppRecord
    <2> QED
      BY <2>1, <2>2, <2>3 DEF Fetcher
  <1>4. TypeOK'
    BY <1>1, <1>3 DEF LockIInv, TypeOK, chainVars, faults
  <1>5. RecordedWithoutGaps'
    <2>1. app.nextExpectedFtx \in Int /\ app.nextExpectedFtxNumber \in Int
      BY <1>1, SMTT(30) DEF AppRecord
    <2>2. \A f \in Ftx : f \in app'.nextExpectedFtxNumber..(app'.nextExpectedFtx - 1)
                             => f \in app'.ftxQueue
      <3>1. TAKE f \in Ftx
      <3>2. HAVE f \in app'.nextExpectedFtxNumber..(app'.nextExpectedFtx - 1)
      <3>3. CASE f \in app.nextExpectedFtxNumber..(app.nextExpectedFtx - 1)
        BY <3>3, <1>3 DEF LockIInv, RecordedWithoutGaps
      <3>4. CASE f = app.nextExpectedFtx /\ app'.nextExpectedFtx # app.nextExpectedFtx
        BY <3>4, <1>3
      <3> QED
        BY <3>2, <3>3, <3>4, <2>1, <1>3, SMTT(30)
    <2> QED
      BY <2>2, <1>2, <1>3 DEF LockIInv, RecordedWithoutGaps
  <1>6. TickIsInOrder'
    BY <1>2, <1>3 DEF LockIInv, TickIsInOrder
  <1>7. LockIsHeld' /\ LockIsNotAhead'
    BY <1>2, <1>3 DEF LockIInv, LockIsHeld, LockIsNotAhead
  <1> QED
    BY <1>2, <1>4, <1>5, <1>6, <1>7 DEF LockIInv

(* The tick of the sender **************************************************)

\* A tick that ends without sending may release the lock, only if nothing is queued.
LEMMA NothingToSendFields ==
    ASSUME NEW a \in AppRecord, NothingToSend(a)
    PROVE  /\ tick' \in TickRecord /\ tick'.pc = "idle" /\ app' \in AppRecord
           /\ app'.ftxQueue = a.ftxQueue
           /\ app'.nextExpectedFtx = a.nextExpectedFtx
           /\ app'.nextExpectedFtxNumber = a.nextExpectedFtxNumber
           /\ app'.ftxInSequencerForProcessing = a.ftxInSequencerForProcessing
           /\ \/ app'.safeBlockNumber = a.safeBlockNumber
              \/ app'.safeBlockNumber = None /\ a.ftxQueue = {}
  <1>1. tick' \in TickRecord /\ tick'.pc = "idle"
    BY DEF NothingToSend, NoTick, TickRecord
  <1>2. CASE a.ftxQueue = {} /\ a.startUpScanFinished
    <2>1. app' = [a EXCEPT !.safeBlockNumber = None]
      BY <1>2 DEF NothingToSend, UnprocessedFtxQueueIsEmpty
    <2> QED
      BY <2>1, <1>1, <1>2 DEF AppRecord
  <1>3. CASE ~ (a.ftxQueue = {} /\ a.startUpScanFinished)
    <2>1. app' = a
      BY <1>3 DEF NothingToSend, UnprocessedFtxQueueIsEmpty
    <2> QED
      BY <2>1, <1>1
  <1> QED
    BY <1>2, <1>3

\* A step of a tick that records nothing, sends nothing and keeps the lists of the app.
LEMMA TickIInv ==
    ASSUME LockIInv,
           UNCHANGED <<l1Ftx, chainVars, wire, dao, pipeline, conflation, faults>>,
           app' \in AppRecord, tick' \in TickRecord,
           app'.ftxQueue = app.ftxQueue,
           app'.nextExpectedFtx = app.nextExpectedFtx,
           app'.nextExpectedFtxNumber = app.nextExpectedFtxNumber,
           app'.ftxInSequencerForProcessing = app.ftxInSequencerForProcessing,
           \/ app'.safeBlockNumber = app.safeBlockNumber
           \/ app'.safeBlockNumber = None /\ app.ftxQueue = {},
           TickIsInOrder'
    PROVE  LockIInv'
  <1>1. /\ Recorded' = Recorded /\ Settled' = Settled /\ Sent' = Sent
        /\ UNCHANGED <<head, pendingTransactions, statusCache, wire, conflation, dao, interrupted>>
    BY DEF chainVars, faults, Recorded, Settled, Sent
  <1>2. TypeOK'
    BY DEF LockIInv, TypeOK, chainVars, faults
  <1>3. PoolIsInOrder' /\ SettledInOrder' /\ ConflationFollowsHead'
    BY <1>1 DEF LockIInv, PoolIsInOrder, SettledInOrder, ConflationFollowsHead
  <1>4. RecordedWithoutGaps'
    BY <1>1 DEF LockIInv, RecordedWithoutGaps
  <1>5. LockIsHeld'
    <2> SUFFICES ASSUME ~ interrupted, NEW f \in Sent \ Recorded
                 PROVE  /\ f \in app'.ftxInSequencerForProcessing \cap app'.ftxQueue
                        /\ app'.safeBlockNumber \notin {None, 0}
                        /\ f \in Settled => /\ app'.safeBlockNumber <= statusCache[f].block
                                            /\ conflation.lastBlockNumber <= statusCache[f].block
      BY <1>1 DEF LockIsHeld
    <2>1. f \in app.ftxQueue
      BY DEF LockIInv, LockIsHeld
    <2>2. app'.safeBlockNumber = app.safeBlockNumber
      BY <2>1
    <2> QED
      BY <2>2 DEF LockIInv, LockIsHeld
  <1>6. LockIsNotAhead'
    BY <1>1 DEF LockIInv, LockIsNotAhead
  <1> QED
    BY <1>1, <1>2, <1>3, <1>4, <1>5, <1>6 DEF LockIInv

\* A tick starts with the transactions that follow without a gap.
LEMMA StartTickIInv ==
    ASSUME LockIInv, StartTick
    PROVE  LockIInv'
  <1>1. /\ UNCHANGED <<l1Ftx, chainVars, wire, dao, pipeline, conflation, faults>>
        /\ app \in AppRecord
    BY DEF StartTick, LockIInv, TypeOK
  <1>2. CASE Consecutive(app) = {}
    <2>1. NothingToSend(app)
      BY <1>2 DEF StartTick
    <2>2. TickIsInOrder'
      BY <2>1, <1>1, NothingToSendFields DEF TickIsInOrder
    <2> QED
      BY <2>1, <2>2, <1>1, NothingToSendFields, TickIInv
  <1>3. CASE Consecutive(app) # {}
    <2> DEFINE rest == Consecutive(app)
               n == app.nextExpectedFtxNumber
    <2>1. tick' = [pc |-> "check", remaining |-> rest, block |-> None] /\ app' = app
      BY <1>3 DEF StartTick
    <2>2. rest \subseteq app.ftxQueue /\ rest \subseteq Ftx /\ n \in Int
      BY <1>1, SMTT(30) DEF Consecutive, AppRecord
    <2>3. \A g \in rest : n <= g /\ n..g \subseteq app.ftxQueue /\ g \in Int
      BY <2>2, SMTT(30) DEF Consecutive, Ftx
    <2>4. \A g \in rest : n..g \subseteq rest
      <3>1. TAKE g \in rest
      <3>2. ASSUME NEW h \in n..g
            PROVE  h \in rest
        <4>1. h \in app.ftxQueue /\ h >= n /\ n..h \subseteq n..g
          BY <3>2, <2>2, <2>3, SMTT(30)
        <4> QED
          BY <4>1, <2>3 DEF Consecutive
      <3> QED
        BY <3>2
    <2>5. n \in rest
      <3>1. PICK g \in rest : TRUE
        BY <1>3
      <3> QED
        BY <3>1, <2>2, <2>3, <2>4, SMTT(30)
    <2> HIDE DEF rest
    <2>6. tick' \in TickRecord /\ tick'.pc = "check" /\ tick'.remaining = rest
      BY <2>1, <2>2 DEF TickRecord
    <2>7. TickIsInOrder'
      BY <2>1, <2>2, <2>3, <2>4, <2>5, <2>6 DEF TickIsInOrder
    <2> QED
      BY <2>1, <2>6, <2>7, <1>1, TickIInv
  <1> QED
    BY <1>2, <1>3

\* The first of the remaining transactions is the next one expected.
LEMMA LeastRemaining ==
    ASSUME LockIInv, tick.pc # "idle"
    PROVE  Least(tick.remaining) = app.nextExpectedFtxNumber
  <1>1. /\ app.nextExpectedFtxNumber \in tick.remaining
        /\ \A g \in tick.remaining : app.nextExpectedFtxNumber <= g
    BY DEF LockIInv, TickIsInOrder
  <1>2. tick.remaining \subseteq Int
    BY SMTT(30) DEF LockIInv, TypeOK, TickRecord, Ftx
  <1>3. /\ Least(tick.remaining) \in tick.remaining
        /\ \A g \in tick.remaining : Least(tick.remaining) <= g
    BY <1>1 DEF Least
  <1> QED
    BY <1>1, <1>2, <1>3, SMTT(30)

\* What becomes of the transactions found unprocessed: they wait, or the head is asked for.
LEMMA UnprocessedIInv ==
    ASSUME LockIInv, AllInDelayWindow \/ EthBlockNumber
    PROVE  LockIInv'
  <1>1. /\ UNCHANGED <<l1Ftx, chainVars, wire, dao, pipeline, conflation, faults>>
        /\ app \in AppRecord /\ tick \in TickRecord /\ tick.pc = "unprocessed"
    BY DEF AllInDelayWindow, EthBlockNumber, LockIInv, TypeOK
  <1>2. CASE AllInDelayWindow
    <2>1. NothingToSend(app)
      BY <1>2 DEF AllInDelayWindow
    <2>2. TickIsInOrder'
      BY <2>1, <1>1, NothingToSendFields DEF TickIsInOrder
    <2> QED
      BY <2>1, <2>2, <1>1, NothingToSendFields, TickIInv
  <1>3. CASE EthBlockNumber
    <2>1. app' = app /\ head' = head /\ head \in Nat \ {0}
      BY <1>1, <1>3 DEF EthBlockNumber, chainVars, LockIInv, TypeOK
    <2>2. PICK f \in tick.remaining :
             tick' = [pc |-> "send", remaining |-> {g \in tick.remaining : g <= f}, block |-> head]
      BY <1>3, ZenonT(30) DEF EthBlockNumber
    <2>3. tick' \in TickRecord /\ tick'.pc = "send" /\ tick'.block \in 1..head
          /\ tick'.remaining = {g \in tick.remaining : g <= f}
      BY <2>1, <2>2, <1>1, SMTT(30) DEF TickRecord
    <2>4. tick.remaining \subseteq Int /\ app.nextExpectedFtxNumber \in Int
      BY <1>1, SMTT(30) DEF TickRecord, AppRecord, Ftx
    <2>5. TickIsInOrder'
      BY <2>1, <2>3, <2>4, <1>1, SMTT(30) DEF LockIInv, TickIsInOrder
    <2> QED
      BY <2>1, <2>3, <2>5, <1>1, TickIInv
  <1> QED
    BY <1>2, <1>3

\* A transaction whose record is there leaves the lists; the lock moves to its block, which
\* is not above the blocks of the later ones, or is released when there are no later ones.
LEMMA ProcessTransactionIInv ==
    ASSUME LockIInv, tick.pc \in {"check", "save"},
           NEW f, f = app.nextExpectedFtxNumber, f \in Settled,
           NEW block, block = statusCache[f].block,
           dao' = [dao EXCEPT ![f] = block],
           ProcessTransaction(f, block),
           UNCHANGED <<l1Ftx, chainVars, wire, pipeline, conflation, faults>>
    PROVE  LockIInv'
  <1> DEFINE queued == [app EXCEPT !.conflationFtxQueue = @ \cup {block}]
             processed == [FtxProcessedBySequencer(queued, f, block) EXCEPT
                             !.ftxQueue = @ \ {f}, !.nextExpectedFtxNumber = f + 1]
             left == {g \in app.ftxInSequencerForProcessing : g > f}
  <1>1. /\ app \in AppRecord /\ tick \in TickRecord /\ f \in Ftx /\ f \in Int /\ MaxFtx \in Int
        /\ dao \in [Ftx -> Nat \cup {None}] /\ head \in Nat
    BY ConstantsAssumption, SMTT(30) DEF LockIInv, TypeOK, Settled, Ftx
  <1>2. block \in 1..head /\ block \in Nat \ {0} /\ block # None
    BY <1>1, ConstantsAssumption, SMTT(30) DEF LockIInv, PoolIsInOrder
  <1>3. /\ UNCHANGED <<head, pendingTransactions, statusCache, wire, conflation, interrupted>>
        /\ Settled' = Settled /\ Sent' = Sent
    BY DEF chainVars, faults, Settled, Sent
  <1>4. /\ dao' \in [Ftx -> Nat \cup {None}] /\ Recorded' = Recorded \cup {f}
        /\ dao'[f] = block /\ \A g \in Ftx \ {f} : dao'[g] = dao[g]
    <2>1. /\ dao' \in [Ftx -> Nat \cup {None}]
          /\ dao'[f] = block /\ \A g \in Ftx \ {f} : dao'[g] = dao[g]
      BY <1>1, <1>2
    <2> QED
      BY <2>1, <1>1, <1>2, SMTT(30) DEF Recorded
  <1>5. \A g \in Ftx : g <= f => g \in Recorded'
    <2>1. \A g \in Ftx : g < f => g \in Recorded
      BY ZenonT(30) DEF LockIInv, RecordedWithoutGaps
    <2>2. \A g \in Ftx : g <= f => g < f \/ g = f
      <3> HIDE DEF processed, queued, left
      <3> QED
        BY <1>1, SMTT(30) DEF Ftx
    <2>3. Recorded' = Recorded \cup {f}
      BY <1>4
    <2> HIDE DEF processed, queued, left
    <2> QED
      BY <2>1, <2>2, <2>3, ZenonT(30)
  <1>6. \E last \in 0..MaxFtx : Recorded' = 1..last
    <2>1. PICK last \in 0..MaxFtx : Recorded = 1..last
      BY DEF LockIInv
    <2>2. CASE f <= last
      <3>1. f \in Recorded
        BY <2>1, <2>2, <1>1, SMTT(30) DEF Ftx
      <3> QED
        BY <3>1, <2>1, <1>4, SMTT(30)
    <2>3. CASE f > last
      <3>1. \A g \in Ftx : g < f => g \in Recorded
        BY DEF LockIInv, RecordedWithoutGaps
      <3>2. f = last + 1
        <4>1. last + 1 \in Ftx \/ last = MaxFtx
          BY <2>1, <1>1, SMTT(30) DEF Ftx
        <4>2. last + 1 \notin 1..last
          BY <2>1, SMTT(30)
        <4> QED
          BY <4>1, <4>2, <3>1, <2>1, <2>3, <1>1, SMTT(30) DEF Ftx
      <3>3. Recorded' = 1..f
        BY <3>2, <2>1, <1>1, <1>4, SMTT(30)
      <3> QED
        BY <3>3, <1>1, SMTT(30) DEF Ftx
    <2> QED
      BY <2>1, <2>2, <2>3, <1>1, SMTT(30)
  \* The two ways in which a transaction is processed.
  <1>7. /\ queued \in AppRecord
        /\ queued.ftxQueue = app.ftxQueue /\ queued.nextExpectedFtx = app.nextExpectedFtx
        /\ queued.nextExpectedFtxNumber = f /\ queued.safeBlockNumber = app.safeBlockNumber
        /\ queued.ftxInSequencerForProcessing = app.ftxInSequencerForProcessing
    BY <1>1, <1>2, SMTT(30) DEF AppRecord
  <1> HIDE DEF queued
  <1>8. /\ processed \in AppRecord
        /\ processed.ftxQueue = app.ftxQueue \ {f} /\ processed.nextExpectedFtx = app.nextExpectedFtx
        /\ processed.nextExpectedFtxNumber = f + 1
        /\ processed.safeBlockNumber = IF left = {} /\ queued.startUpScanFinished THEN None ELSE block
        /\ processed.ftxInSequencerForProcessing = left
    <2>1. f + 1 \in 1..MaxFtx + 1
      BY <1>1, SMTT(30) DEF Ftx
    <2> QED
      BY <2>1, <1>1, <1>2, <1>7, ZenonT(30) DEF AppRecord, FtxProcessedBySequencer
  <1> HIDE DEF processed
  <1>9. PoolIsInOrder' /\ SettledInOrder' /\ ConflationFollowsHead'
    BY <1>3 DEF LockIInv, PoolIsInOrder, SettledInOrder, ConflationFollowsHead
  <1>10. \A g \in Recorded' : g \in Settled' /\ dao'[g] = statusCache'[g].block
    BY <1>3, <1>4 DEF LockIInv, RecordedWithoutGaps, Recorded
  \* The record is below the lock: the tick ends.
  <1>11. CASE IsBelowLock(block)
    <2>1. app' = queued /\ tick' = NoTick
      BY <1>11 DEF ProcessTransaction, queued
    <2>2. tick' \in TickRecord /\ tick'.pc = "idle"
      BY <2>1 DEF NoTick, TickRecord
    <2>3. TypeOK'
      BY <2>1, <2>2, <1>4, <1>7 DEF LockIInv, TypeOK, chainVars, faults
    <2>4. RecordedWithoutGaps'
      BY <2>1, <1>4, <1>7, <1>10 DEF LockIInv, RecordedWithoutGaps
    <2>5. TickIsInOrder'
      BY <2>2 DEF TickIsInOrder
    <2>6. LockIsHeld' /\ LockIsNotAhead'
      BY <2>1, <1>3, <1>4, <1>7 DEF LockIInv, LockIsHeld, LockIsNotAhead
    <2> QED
      BY <2>3, <2>4, <2>5, <2>6, <1>6, <1>9 DEF LockIInv
  <1>12. CASE ~ IsBelowLock(block)
    <2>1. \/ /\ tick.remaining # {f} /\ app' = processed
             /\ tick' = [pc |-> "check", remaining |-> tick.remaining \ {f}, block |-> None]
          \/ tick.remaining = {f} /\ NothingToSend(processed)
      BY <1>12, SMTT(30) DEF ProcessTransaction, processed, queued
    <2>2. /\ app' \in AppRecord /\ tick' \in TickRecord
          /\ app'.ftxQueue = app.ftxQueue \ {f} /\ app'.nextExpectedFtx = app.nextExpectedFtx
          /\ app'.nextExpectedFtxNumber = f + 1 /\ app'.ftxInSequencerForProcessing = left
          /\ \/ app'.safeBlockNumber = processed.safeBlockNumber
             \/ app'.safeBlockNumber = None /\ app'.ftxQueue = {}
      <3>1. CASE NothingToSend(processed)
        BY <3>1, <1>8, NothingToSendFields
      <3>2. CASE /\ app' = processed
                 /\ tick' = [pc |-> "check", remaining |-> tick.remaining \ {f}, block |-> None]
        <4>1. tick' \in TickRecord
          BY <3>2, <1>1 DEF TickRecord
        <4> QED
          BY <4>1, <3>2, <1>8
      <3> QED
        BY <3>1, <3>2, <2>1
    <2>3. TypeOK'
      BY <2>2, <1>4 DEF LockIInv, TypeOK, chainVars, faults
    <2>4. RecordedWithoutGaps'
      <3>1. \A g \in Ftx : g < f + 1 => g \in Recorded'
        BY <1>1, <1>5, SMTT(30) DEF Ftx
      <3>2. \A g \in Ftx : g \in f + 1..(app.nextExpectedFtx - 1) => g \in app.ftxQueue \ {f}
        BY <1>1, SMTT(30) DEF LockIInv, RecordedWithoutGaps, AppRecord, Ftx
      <3> QED
        BY <3>1, <3>2, <2>2, <1>10 DEF RecordedWithoutGaps
    <2>5. TickIsInOrder'
      <3>1. CASE NothingToSend(processed)
        BY <3>1, <1>8, NothingToSendFields DEF TickIsInOrder
      <3>2. CASE /\ tick.remaining # {f}
                 /\ tick' = [pc |-> "check", remaining |-> tick.remaining \ {f}, block |-> None]
        <4>1. /\ f \in tick.remaining /\ tick.remaining \subseteq app.ftxQueue
              /\ \A g \in tick.remaining : f <= g /\ f..g \subseteq tick.remaining
              /\ tick.remaining \subseteq Int
          BY <1>1, SMTT(30) DEF LockIInv, TickIsInOrder, TickRecord, Ftx
        <4>2. PICK g \in tick.remaining : g # f
          BY <4>1, <3>2
        <4>3. f + 1 \in tick.remaining \ {f}
          BY <4>1, <4>2, <1>1, SMTT(30)
        <4>4. \A h \in tick.remaining \ {f} : f + 1 <= h /\ f + 1..h \subseteq tick.remaining \ {f}
          BY <4>1, <1>1, SMTT(30)
        <4>5. tick'.pc = "check" /\ tick'.remaining = tick.remaining \ {f}
          BY <3>2
        <4> QED
          BY <4>1, <4>3, <4>4, <4>5, <2>2, SMTT(30) DEF TickIsInOrder
      <3> QED
        BY <3>1, <3>2, <2>1
    <2>6. LockIsHeld'
      <3> SUFFICES ASSUME ~ interrupted, NEW g \in Sent \ Recorded'
                   PROVE  /\ g \in app'.ftxInSequencerForProcessing \cap app'.ftxQueue
                          /\ app'.safeBlockNumber \notin {None, 0}
                          /\ g \in Settled => /\ app'.safeBlockNumber <= statusCache[g].block
                                              /\ conflation.lastBlockNumber <= statusCache[g].block
        BY <1>3 DEF LockIsHeld
      <3>1. g \in Sent \ Recorded
        BY <1>4
      <3>2. /\ g \in app.ftxInSequencerForProcessing /\ g \in app.ftxQueue
            /\ g \in Settled => conflation.lastBlockNumber <= statusCache[g].block
        BY <3>1 DEF LockIInv, LockIsHeld
      <3>3. g \in Ftx /\ g > f
        <4>1. g \in Ftx
          BY <3>2, <1>1 DEF AppRecord
        <4> QED
          BY <4>1, <1>1, <1>5, SMTT(30) DEF Ftx
      <3>4. g \in left /\ g \in app'.ftxQueue
        BY <3>2, <3>3, <2>2, <1>1, SMTT(30)
      <3>5. app'.safeBlockNumber = block
        BY <3>4, <2>2, <1>8
      <3>6. g \in Settled => block <= statusCache[g].block
        BY <3>3, <1>1 DEF LockIInv, SettledInOrder
      <3> QED
        BY <3>2, <3>4, <3>5, <3>6, <2>2, <1>1, <1>2, SMTT(30)
    <2>7. LockIsNotAhead'
      BY <2>2, <1>2, <1>3, <1>8, SMTT(30) DEF LockIsNotAhead
    <2> QED
      BY <2>3, <2>4, <2>5, <2>6, <2>7, <1>6, <1>9 DEF LockIInv
  <1> QED
    BY <1>11, <1>12

\* The record of a transaction is looked up, or written with the status of the sequencer.
LEMMA RecordIInv ==
    ASSUME LockIInv, FindSequencerProcessingRecord \/ SaveRecord
    PROVE  LockIInv'
  <1> DEFINE f == app.nextExpectedFtxNumber
  <1>1. /\ tick.pc \in {"check", "save"} /\ Least(tick.remaining) = f
        /\ UNCHANGED <<l1Ftx, chainVars, wire, pipeline, conflation, faults>>
    BY LeastRemaining DEF FindSequencerProcessingRecord, SaveRecord
  <1>2. /\ app \in AppRecord /\ tick \in TickRecord /\ dao \in [Ftx -> Nat \cup {None}]
        /\ statusCache \in [Ftx -> Status \cup {None}]
        /\ f \in Ftx
    BY <1>1 DEF LockIInv, TypeOK, TickIsInOrder, TickRecord
  <1>3. CASE SaveRecord
    <2>1. /\ tick.pc = "save" /\ dao' = [dao EXCEPT ![f] = tick.block]
          /\ ProcessTransaction(f, tick.block)
      BY <1>1, <1>3 DEF SaveRecord
    <2>2. f \in Settled /\ tick.block = statusCache[f].block
      BY <2>1 DEF LockIInv, TickIsInOrder
    <2> QED
      BY <2>1, <2>2, <1>1, ProcessTransactionIInv, ZenonT(30)
  <1>4. CASE FindSequencerProcessingRecord /\ dao[f] # None
    <2>1. tick.pc = "check" /\ dao' = dao /\ ProcessTransaction(f, dao[f])
      BY <1>1, <1>4 DEF FindSequencerProcessingRecord
    <2>2. f \in Settled /\ dao[f] = statusCache[f].block
      BY <1>2, <1>4 DEF LockIInv, RecordedWithoutGaps, Recorded
    <2>3. dao' = [dao EXCEPT ![f] = dao[f]]
      BY <2>1, <1>2
    <2> QED
      BY <2>1, <2>2, <2>3, <1>1, ProcessTransactionIInv, ZenonT(30)
  <1>5. CASE FindSequencerProcessingRecord /\ dao[f] = None
    <2>1. /\ tick.pc = "check" /\ dao' = dao /\ app' = app /\ UNCHANGED <<statusCache, head>>
          /\ tick' = IF statusCache[f] = None THEN [tick EXCEPT !.pc = "unprocessed"]
                     ELSE [tick EXCEPT !.pc = "save", !.block = statusCache[f].block]
      BY <1>1, <1>5 DEF FindSequencerProcessingRecord, chainVars
    <2>2. CASE statusCache[f] = None
      <3>1. /\ tick' \in TickRecord /\ tick'.pc = "unprocessed" /\ tick'.remaining = tick.remaining
        BY <2>1, <2>2, <1>2 DEF TickRecord
      <3>2. TickIsInOrder'
        BY <3>1, <2>1 DEF LockIInv, TickIsInOrder
      <3> QED
        BY <3>1, <3>2, <2>1, <1>1, <1>2, TickIInv
    <2>3. CASE statusCache[f] # None
      <3>1. f \in Settled /\ statusCache[f].block \in Nat
        BY <2>3, <1>2 DEF Settled, Status
      <3>2. /\ tick' \in TickRecord /\ tick'.pc = "save" /\ tick'.remaining = tick.remaining
            /\ tick'.block = statusCache[f].block
        BY <3>1, <2>1, <2>3, <1>2, ZenonT(30) DEF TickRecord
      <3>3. Settled' = Settled
        BY <2>1 DEF Settled
      <3>4. TickIsInOrder'
        BY <3>1, <3>2, <3>3, <2>1 DEF LockIInv, TickIsInOrder
      <3> QED
        BY <3>2, <3>4, <2>1, <1>1, <1>2, TickIInv
    <2> QED
      BY <2>2, <2>3
  <1> QED
    BY <1>3, <1>4, <1>5

\* Conflation is locked, at a block that is not above the head, before the transactions are
\* on their way; what was on its way before keeps its lock.
LEMMA SendTransactionsIInv ==
    ASSUME LockIInv, SendTransactions
    PROVE  LockIInv'
  <1> DEFINE n == app.nextExpectedFtxNumber
             sent == {f \in tick.remaining : f < n + TxLimitToSendPerTick}
  <1>1. tick.pc = "send" /\ Least(tick.remaining) = n
    BY LeastRemaining DEF SendTransactions
  <1>2. /\ app' = [app EXCEPT
                      !.safeBlockNumber = LockSafeBlockNumberBeforeSendingToSequencer(tick.block),
                      !.ftxInSequencerForProcessing = @ \cup sent]
        /\ wire' = wire \cup sent /\ tick' = NoTick
    BY <1>1 DEF SendTransactions
  <1>3. UNCHANGED <<l1Ftx, chainVars, dao, pipeline, conflation, faults>>
    BY DEF SendTransactions
  <1>4. /\ app \in AppRecord /\ tick \in TickRecord /\ wire \subseteq Ftx /\ n \in Int
        /\ head \in Nat /\ TxLimitToSendPerTick \in Nat \ {0}
    BY ConstantsAssumption, SMTT(30) DEF LockIInv, TypeOK, AppRecord
  <1>5. /\ tick.block \in 1..head /\ tick.block \in Nat /\ n \in tick.remaining
        /\ tick.remaining \subseteq app.ftxQueue
        /\ \A g \in tick.remaining : n <= g /\ n..g \subseteq tick.remaining
    BY <1>1, <1>4, SMTT(30) DEF LockIInv, TickIsInOrder
  <1>6. sent \subseteq Ftx /\ sent \subseteq app.ftxQueue
    BY <1>4, <1>5 DEF TickRecord
  <1>7. /\ UNCHANGED <<head, pendingTransactions, statusCache, conflation, dao, interrupted>>
        /\ Settled' = Settled /\ Recorded' = Recorded /\ Sent' = Sent \cup sent
    BY <1>2, <1>3 DEF chainVars, faults, Settled, Recorded, Sent
  <1> DEFINE lock == LockSafeBlockNumberBeforeSendingToSequencer(tick.block)
  <1>8. /\ lock \in Nat
        /\ app.safeBlockNumber \notin {None, 0} => lock = app.safeBlockNumber
        /\ app.safeBlockNumber \in {None, 0} => lock = tick.block
    BY <1>4, <1>5 DEF LockSafeBlockNumberBeforeSendingToSequencer, AppRecord
  <1>9. \A g \in sent : 1..g \subseteq Sent \cup sent
    <2> SUFFICES ASSUME NEW g \in sent, NEW h \in 1..g PROVE h \in Sent \cup sent
      OBVIOUS
    <2>1. g \in Ftx /\ g \in Int /\ h \in Ftx /\ h \in Int
      BY <1>6, ConstantsAssumption, SMTT(30) DEF Ftx
    <2>2. CASE h < n
      <3>1. h \in Settled
        BY <2>1, <2>2 DEF LockIInv, RecordedWithoutGaps
      <3> QED
        BY <3>1 DEF Sent
    <2>3. CASE h >= n
      BY <2>1, <2>3, <1>4, <1>5, SMTT(30)
    <2> QED
      BY <2>1, <2>2, <2>3, <1>4, SMTT(30)
  <1> HIDE DEF sent, lock
  <1>10. /\ app' \in AppRecord /\ app'.ftxQueue = app.ftxQueue
         /\ app'.nextExpectedFtx = app.nextExpectedFtx /\ app'.nextExpectedFtxNumber = n
         /\ app'.safeBlockNumber = lock
         /\ app'.ftxInSequencerForProcessing = app.ftxInSequencerForProcessing \cup sent
    BY <1>2, <1>4, <1>6, <1>8, ZenonT(30) DEF AppRecord, lock
  <1>11. tick' \in TickRecord /\ tick'.pc = "idle"
    BY <1>2 DEF NoTick, TickRecord
  <1>12. TypeOK'
    BY <1>2, <1>3, <1>4, <1>6, <1>10, <1>11 DEF LockIInv, TypeOK, chainVars, faults
  <1>13. PoolIsInOrder'
    <2>1. IsPrefix(Sent \cup sent)
      BY <1>9 DEF LockIInv, PoolIsInOrder, IsPrefix
    <2> QED
      BY <2>1, <1>7 DEF LockIInv, PoolIsInOrder, IsPrefix
  <1>14. SettledInOrder' /\ ConflationFollowsHead' /\ TickIsInOrder'
    BY <1>7, <1>11 DEF LockIInv, SettledInOrder, ConflationFollowsHead, TickIsInOrder
  <1>15. RecordedWithoutGaps'
    BY <1>7, <1>10 DEF LockIInv, RecordedWithoutGaps
  <1>16. LockIsHeld'
    <2> SUFFICES ASSUME ~ interrupted, NEW f \in (Sent \cup sent) \ Recorded
                 PROVE  /\ f \in app'.ftxInSequencerForProcessing \cap app'.ftxQueue
                        /\ lock \notin {None, 0}
                        /\ f \in Settled => /\ lock <= statusCache[f].block
                                            /\ conflation.lastBlockNumber <= statusCache[f].block
      BY <1>7, <1>10 DEF LockIsHeld
    <2>1. CASE f \in Sent
      <3>1. f \in Sent \ Recorded
        BY <2>1
      <3>2. lock = app.safeBlockNumber
        BY <3>1, <1>8 DEF LockIInv, LockIsHeld
      <3> QED
        BY <3>1, <3>2, <1>10 DEF LockIInv, LockIsHeld
    <2>2. CASE f \notin Sent
      <3>1. f \in sent /\ f \notin Settled
        BY <2>2 DEF Sent
      <3>2. lock \notin {None, 0}
        BY <1>5, <1>8, ConstantsAssumption, SMTT(30)
      <3> QED
        BY <3>1, <3>2, <1>6, <1>10
    <2> QED
      BY <2>1, <2>2
  <1>17. LockIsNotAhead'
    BY <1>4, <1>5, <1>7, <1>8, <1>10, SMTT(30) DEF LockIInv, LockIsNotAhead
  <1> QED
    BY <1>7, <1>12, <1>13, <1>14, <1>15, <1>16, <1>17 DEF LockIInv

(* The sequencer ***********************************************************)

\* Calls arrive or get lost, and payloads are built: nothing is settled yet.
LEMMA PoolIInv ==
    ASSUME LockIInv, AddForcedTransactions \/ LoseCall \/ ProcessForBlock
    PROVE  LockIInv'
  <1>1. /\ UNCHANGED <<l1Ftx, head, statusCache, dao, pipeline, app, tick, conflation, faults>>
        /\ Settled' = Settled /\ Recorded' = Recorded
    BY DEF AddForcedTransactions, LoseCall, ProcessForBlock, chainVars, coordinatorVars, Settled,
           Recorded
  <1>2. /\ pendingTransactions \subseteq Ftx /\ payload \subseteq Ftx /\ wire \subseteq Ftx
        /\ tentativeRejections \subseteq Ftx /\ Ftx \subseteq Nat
    BY ConstantsAssumption, SMTT(30) DEF LockIInv, TypeOK, Ftx
  <1>3. /\ payload' \subseteq Ftx /\ tentativeRejections' \subseteq Ftx
        /\ pendingTransactions' \subseteq Ftx /\ wire' \subseteq Ftx
        /\ Sent' \subseteq Sent
        /\ IsPrefix(Settled \cup pendingTransactions')
        /\ IsPrefix(Sent')
        /\ pendingTransactions' \cap Settled = {}
    <2>1. CASE AddForcedTransactions
      <3>1. /\ pendingTransactions' = pendingTransactions \cup {f \in wire : statusCache[f] = None}
            /\ wire' = {} /\ UNCHANGED <<payload, tentativeRejections>>
        BY <2>1 DEF AddForcedTransactions
      <3>2. Settled \cup pendingTransactions' = Sent /\ Sent' = Sent
        BY <3>1, <1>1, <1>2, ZenonT(30) DEF Sent, Settled
      <3> QED
        BY <3>1, <3>2, <1>2, ZenonT(30) DEF LockIInv, PoolIsInOrder, Settled
    <2>2. CASE LoseCall
      <3>1. wire' = {} /\ UNCHANGED <<pendingTransactions, payload, tentativeRejections>>
        BY <2>2 DEF LoseCall, chainVars
      <3>2. Sent' = Settled \cup pendingTransactions
        BY <3>1, <1>1 DEF Sent
      <3> QED
        BY <3>1, <3>2, <1>2, SMTT(30) DEF LockIInv, PoolIsInOrder, Sent
    <2>3. CASE ProcessForBlock
      <3>1. UNCHANGED <<pendingTransactions, wire>> /\ pendingTransactions # {}
        BY <2>3 DEF ProcessForBlock
      <3>2. Least(pendingTransactions) \in pendingTransactions
        BY <3>1, <1>2, LeastExists
      <3>3. payload' \subseteq Ftx /\ tentativeRejections' \subseteq Ftx
        BY <2>3, <3>2, <1>2, ZenonT(30) DEF ProcessForBlock, UpTo
      <3>4. Sent' = Sent
        BY <3>1, <1>1 DEF Sent
      <3> QED
        BY <3>1, <3>3, <3>4, <1>2 DEF LockIInv, PoolIsInOrder
    <2> QED
      BY <2>1, <2>2, <2>3
  <1>4. TypeOK'
    BY <1>1, <1>3 DEF LockIInv, TypeOK, faults
  <1>5. PoolIsInOrder'
    BY <1>1, <1>3 DEF LockIInv, PoolIsInOrder
  <1>6. SettledInOrder' /\ RecordedWithoutGaps' /\ TickIsInOrder'
    BY <1>1 DEF LockIInv, SettledInOrder, RecordedWithoutGaps, TickIsInOrder
  <1>7. LockIsHeld' /\ LockIsNotAhead' /\ ConflationFollowsHead'
    BY <1>1, <1>3 DEF LockIInv, LockIsHeld, LockIsNotAhead, ConflationFollowsHead, faults
  <1> QED
    BY <1>1, <1>4, <1>5, <1>6, <1>7, SMTT(30) DEF LockIInv

\* The type of what the status cache gets.
LEMMA StatusFields ==
    ASSUME NEW n \in Nat, NEW b \in BOOLEAN
    PROVE  [block |-> n, included |-> b] \in Status /\ [block |-> n, included |-> b].block = n
  BY DEF Status

\* A block settles pending transactions in the order of their numbers, and in a block that
\* neither the lock nor conflation has reached.
LEMMA OnBlockAddedIInv ==
    ASSUME LockIInv, OnBlockAdded
    PROVE  LockIInv'
  <1> DEFINE settled == SettledBy(payload)
  <1>1. /\ statusCache' = [f \in Ftx |-> IF f \in settled
                                        THEN [block |-> head + 1, included |-> f \in payload]
                                        ELSE statusCache[f]]
        /\ pendingTransactions' = pendingTransactions \ settled
        /\ head' = head + 1 /\ payload' = {} /\ tentativeRejections' = {}
        /\ UNCHANGED <<l1Ftx, wire, dao, pipeline, app, tick, conflation, faults>>
        /\ Recorded' = Recorded
    BY DEF OnBlockAdded, coordinatorVars, Recorded
  <1>2. /\ pendingTransactions \subseteq Ftx /\ head \in Int /\ head > 0
        /\ statusCache \in [Ftx -> Status \cup {None}] /\ pendingTransactions \cap Settled = {}
    BY SMTT(30) DEF LockIInv, TypeOK, PoolIsInOrder
  <1>3. \A f \in Ftx : f \in Int /\ f >= 1
    BY ConstantsAssumption, SMTT(30) DEF Ftx
  \* A transaction before a settled one is settled by an earlier block, or included in this one.
  <1>4. /\ settled \subseteq pendingTransactions
        /\ \A g \in settled, f \in Ftx : f < g => f \in Settled \/ (f \in settled /\ f \in payload)
    <2>1. settled \subseteq pendingTransactions
      BY DEF SettledBy
    <2>2. ASSUME NEW g \in settled, NEW f \in Ftx, f < g
          PROVE  f \in Settled \/ (f \in settled /\ f \in payload)
      <3>1. f \in Settled \cup pendingTransactions
        <4>1. f \in 1..g /\ g \in Settled \cup pendingTransactions
          BY <2>1, <2>2, <1>2, <1>3, SMTT(30)
        <4> QED
          BY <4>1 DEF LockIInv, PoolIsInOrder, IsPrefix
      <3>2. CASE f \in pendingTransactions
        <4>1. f \in UpTo(g) \ {g} /\ UpTo(g) \ {g} \subseteq payload
          <5>1. g \in pendingTransactions /\ f \in Int /\ g \in Int
            BY <2>1, <2>2, <1>2, <1>3
          <5>2. f \in UpTo(g) \ {g}
            BY <5>1, <2>2, <3>2, SMTT(30) DEF UpTo
          <5>3. UpTo(g) \ {g} \subseteq payload
            BY <2>2 DEF SettledBy
          <5> QED
            BY <5>2, <5>3
        <4>2. UpTo(f) \ {f} \subseteq UpTo(g) \ {g}
          <5> SUFFICES ASSUME NEW h \in pendingTransactions, h <= f, h # f
                       PROVE  h <= g /\ h # g
            BY DEF UpTo
          <5>1. f \in Int /\ g \in Int /\ h \in Int
            BY <2>1, <2>2, <1>2, <1>3
          <5> QED
            BY <5>1, <2>2, SMTT(30)
        <4> QED
          BY <3>2, <4>1, <4>2 DEF SettledBy
      <3> QED
        BY <3>1, <3>2
    <2> QED
      BY <2>1, <2>2
  <1> HIDE DEF settled
  <1>5. /\ \A f \in settled : statusCache'[f] \in Status /\ statusCache'[f].block = head + 1
        /\ \A f \in Ftx \ settled : statusCache'[f] = statusCache[f]
        /\ statusCache' \in [Ftx -> Status \cup {None}]
    <2>1. /\ \A f \in settled : statusCache'[f] = [block |-> head + 1, included |-> f \in payload]
          /\ \A f \in Ftx \ settled : statusCache'[f] = statusCache[f]
      <3>1. settled \subseteq Ftx
        BY <1>2, <1>4
      <3> QED
        BY <3>1, <1>1, Zenon
    <2>2. head + 1 \in Nat
      BY <1>2, SMTT(30)
    <2>3. \A f \in settled : statusCache'[f] \in Status /\ statusCache'[f].block = head + 1
      <3>1. TAKE f \in settled
      <3>2. statusCache'[f] = [block |-> head + 1, included |-> f \in payload]
        BY <2>1
      <3>3. (f \in payload) \in BOOLEAN
        BY SMTT(30)
      <3> QED
        BY <3>2, <3>3, <2>2, StatusFields, Zenon
    <2>4. statusCache' = [f \in Ftx |-> statusCache'[f]]
      BY <1>1, Zenon
    <2>5. \A f \in Ftx : statusCache'[f] \in Status \cup {None}
      BY <2>1, <2>3, <1>2
    <2> QED
      BY <2>1, <2>3, <2>4, <2>5
  <1>6. \A f \in settled : f \in payload => statusCache'[f].included
    <2>1. settled \subseteq Ftx
      BY <1>2, <1>4
    <2> QED
      BY <2>1, <1>1, Zenon
  <1>7. Settled' = Settled \cup settled
    BY <1>2, <1>4, <1>5, ConstantsAssumption DEF Settled
  <1>8. \A f \in Settled : /\ f \in Ftx \ settled /\ statusCache'[f] = statusCache[f]
                           /\ statusCache[f].block \in 1..head
    BY <1>2, <1>4, <1>5, SMTT(30) DEF LockIInv, PoolIsInOrder, Settled
  <1>9. TypeOK'
    BY <1>1, <1>2, <1>5, SMTT(30) DEF LockIInv, TypeOK, faults
  <1>10. Settled' \cup pendingTransactions' = Settled \cup pendingTransactions /\ Sent' = Sent
    BY <1>1, <1>4, <1>7 DEF Sent
  <1>11. PoolIsInOrder'
    <2>1. \A f \in Settled' : statusCache'[f].block \in 1..head'
      <3>1. TAKE f \in Settled'
      <3>2. head' = head + 1
        BY <1>1
      <3>3. CASE f \in Settled
        BY <3>2, <3>3, <1>2, <1>8, SMTT(30)
      <3>4. CASE f \in settled
        BY <3>2, <3>4, <1>2, <1>5, SMTT(30)
      <3> QED
        BY <3>3, <3>4, <1>7
    <2>2. pendingTransactions' \cap Settled' = {}
      BY <1>1, <1>2, <1>7
    <2> QED
      BY <2>1, <2>2, <1>10, ZenonT(30) DEF LockIInv, PoolIsInOrder
  <1>12. SettledInOrder'
    <2> SUFFICES ASSUME NEW f \in Ftx, NEW g \in Ftx, f < g, g \in Settled'
                 PROVE  /\ f \in Settled'
                        /\ statusCache'[f].block <= statusCache'[g].block
                        /\ statusCache'[f].block = statusCache'[g].block => statusCache'[f].included
      BY DEF SettledInOrder
    <2>1. CASE g \in Settled
      <3>1. f \in Settled
        BY <2>1 DEF LockIInv, SettledInOrder
      <3> QED
        BY <2>1, <3>1, <1>7, <1>8 DEF LockIInv, SettledInOrder
    <2>2. CASE g \in settled /\ f \in Settled
      BY <2>2, <1>2, <1>5, <1>7, <1>8, SMTT(30)
    <2>3. CASE g \in settled /\ f \in settled /\ f \in payload
      <3>1. statusCache'[f].block <= statusCache'[g].block
        BY <2>3, <1>2, <1>5, SMTT(30)
      <3> QED
        BY <3>1, <2>3, <1>7, <1>6
    <2> QED
      BY <2>1, <2>2, <2>3, <1>4, <1>7
  <1>13. RecordedWithoutGaps'
    BY <1>1, <1>7, <1>8, ZenonT(30) DEF LockIInv, RecordedWithoutGaps
  <1>14. TickIsInOrder'
    <2>1. \A b : b \in 1..head => b \in 1..head'
      BY <1>1, <1>2, SMTT(30)
    <2> QED
      BY <2>1, <1>1, <1>7, <1>8, ZenonT(30) DEF LockIInv, TickIsInOrder
  <1>15. LockIsNotAhead' /\ ConflationFollowsHead'
    <2>1. app \in AppRecord /\ conflation \in ConflationRecord
      BY SMTT(30) DEF LockIInv, TypeOK
    <2> QED
      BY <2>1, <1>1, <1>2
        , SMTT(30) DEF LockIInv, LockIsNotAhead, ConflationFollowsHead, AppRecord, ConflationRecord
  <1>16. LockIsHeld'
    <2> SUFFICES ASSUME ~ interrupted, NEW f \in Sent \ Recorded
                 PROVE  /\ f \in app.ftxInSequencerForProcessing \cap app.ftxQueue
                        /\ app.safeBlockNumber \notin {None, 0}
                        /\ f \in Settled' => /\ app.safeBlockNumber <= statusCache'[f].block
                                             /\ conflation.lastBlockNumber <= statusCache'[f].block
      BY <1>1, <1>10 DEF LockIsHeld, faults
    <2>1. /\ f \in app.ftxInSequencerForProcessing \cap app.ftxQueue
          /\ app.safeBlockNumber \notin {None, 0}
          /\ f \in Settled => /\ app.safeBlockNumber <= statusCache[f].block
                              /\ conflation.lastBlockNumber <= statusCache[f].block
      BY DEF LockIInv, LockIsHeld
    <2>2. CASE f \in settled
      <3>1. /\ app.safeBlockNumber \in Nat /\ app.safeBlockNumber <= head
            /\ conflation.lastBlockNumber \in Nat /\ conflation.lastBlockNumber <= head
        BY <2>1, <1>2
          , SMTT(30) DEF LockIInv, TypeOK, AppRecord, ConflationRecord, LockIsNotAhead, ConflationFollowsHead
      <3> QED
        BY <3>1, <2>1, <2>2, <1>2, <1>5, SMTT(30)
    <2>3. CASE f \notin settled
      BY <2>1, <2>3, <1>7, <1>8
    <2> QED
      BY <2>2, <2>3, SMTT(30)
  <1> QED
    BY <1>1, <1>9, <1>11, <1>12, <1>13, <1>14, <1>15, <1>16, SMTT(30) DEF LockIInv

(* Conflation and restarts *************************************************)

\* Conflation takes a block the lock lets through, which is not above the block of a
\* transaction that is with the sequencer.
LEMMA ConflateIInv ==
    ASSUME LockIInv, Conflate
    PROVE  LockIInv'
  <1> DEFINE block == conflation.lastBlockNumber + 1
  <1>1. /\ app \in AppRecord /\ conflation \in ConflationRecord /\ head \in Int
        /\ conflation.lastBlockNumber \in Nat /\ conflation.imported \in Nat
        /\ conflation.lastBlockNumber <= conflation.imported /\ conflation.imported <= head
    BY SMTT(30) DEF LockIInv, TypeOK, ConflationRecord, ConflationFollowsHead
  <1>2. PICK imported \in Nat : /\ SendBlocksInOrder(imported)
                                /\ block <= imported /\ imported <= head
    <2>1. CASE NewBlock
      BY <2>1, <1>1, SMTT(30) DEF NewBlock
    <2>2. CASE NextBlock
      <3>1. conflation.lastBlockNumber < conflation.imported
        BY <2>2 DEF NextBlock, LockIInv, ConflationFollowsHead
      <3> QED
        BY <2>2, <3>1, <1>1, SMTT(30) DEF NextBlock
    <2> QED
      BY <2>1, <2>2 DEF Conflate
  <1>3. /\ UNCHANGED <<l1Ftx, chainVars, wire, dao, pipeline, tick, faults>>
        /\ UNCHANGED <<head, pendingTransactions, statusCache, dao, tick, interrupted>>
        /\ Recorded' = Recorded /\ Settled' = Settled /\ Sent' = Sent
    <2>1. UNCHANGED <<l1Ftx, chainVars, wire, dao, pipeline, tick, faults>>
      BY <1>2 DEF SendBlocksInOrder
    <2> QED
      BY <2>1 DEF chainVars, faults, Recorded, Settled, Sent
  <1>4. /\ app' \in AppRecord
        /\ app'.ftxQueue = app.ftxQueue
        /\ app'.nextExpectedFtx = app.nextExpectedFtx
        /\ app'.nextExpectedFtxNumber = app.nextExpectedFtxNumber
        /\ app'.safeBlockNumber = app.safeBlockNumber
        /\ app'.ftxInSequencerForProcessing = app.ftxInSequencerForProcessing
    <2>1. \/ app' = app
          \/ app' = [app EXCEPT !.conflationFtxQueue = {b \in @ : b > block}]
      BY <1>2 DEF SendBlocksInOrder, ConflateBlock
    <2> HIDE DEF block
    <2>2. {b \in app.conflationFtxQueue : b > block} \subseteq Nat
      BY <1>1 DEF AppRecord
    <2> QED
      BY <2>1, <2>2, <1>1 DEF AppRecord
  <1>5. /\ conflation' \in ConflationRecord
        /\ conflation'.imported = imported
        /\ \/ /\ IsBlockSafeToConflate(block)
              /\ conflation'.lastBlockNumber = block
              /\ conflation'.pc = "drain" => block < imported
           \/ /\ conflation'.lastBlockNumber = conflation.lastBlockNumber
              /\ conflation'.pc = "idle"
    <2>1. CASE IsBlockSafeToConflate(block) /\ ConflateBlock(block, imported)
      <3> DEFINE pc == IF block < imported THEN "drain" ELSE "idle"
                 starts == IF CutsBefore(block) THEN conflation.starts \cup {block}
                                                ELSE conflation.starts
      <3>1. conflation' = [conflation EXCEPT !.pc = pc, !.imported = imported,
                                             !.lastBlockNumber = block, !.starts = starts]
        BY <2>1 DEF ConflateBlock
      <3>2. /\ pc \in {"idle", "drain"} /\ starts \subseteq Nat /\ block \in Nat
            /\ pc = "drain" => block < imported
        BY <1>1, SMTT(30) DEF ConflationRecord
      <3> HIDE DEF pc, starts, block
      <3> QED
        BY <3>1, <3>2, <2>1, <1>1, ZenonT(30) DEF ConflationRecord
    <2>2. CASE conflation' = [conflation EXCEPT !.pc = "idle", !.imported = imported]
      BY <2>2, <1>1, ZenonT(30) DEF ConflationRecord
    <2> QED
      BY <2>1, <2>2, <1>2 DEF SendBlocksInOrder
  <1>6. TypeOK'
    BY <1>3, <1>4, <1>5 DEF LockIInv, TypeOK, chainVars, faults
  <1>7. PoolIsInOrder' /\ SettledInOrder'
    BY <1>3, ZenonT(30) DEF LockIInv, PoolIsInOrder, SettledInOrder
  <1>8. RecordedWithoutGaps' /\ TickIsInOrder' /\ LockIsNotAhead'
    BY <1>3, <1>4 DEF LockIInv, RecordedWithoutGaps, TickIsInOrder, LockIsNotAhead
  <1>9. ConflationFollowsHead'
    BY <1>1, <1>2, <1>3, <1>5, SMTT(30) DEF ConflationFollowsHead
  <1>10. LockIsHeld'
    <2> SUFFICES ASSUME ~ interrupted, NEW f \in Sent \ Recorded
                 PROVE  /\ f \in app'.ftxInSequencerForProcessing \cap app'.ftxQueue
                        /\ app'.safeBlockNumber \notin {None, 0}
                        /\ f \in Settled => /\ app'.safeBlockNumber <= statusCache[f].block
                                            /\ conflation'.lastBlockNumber <= statusCache[f].block
      BY <1>3 DEF LockIsHeld
    <2>1. /\ f \in app.ftxInSequencerForProcessing \cap app.ftxQueue
          /\ app.safeBlockNumber \notin {None, 0}
          /\ f \in Settled => /\ app.safeBlockNumber <= statusCache[f].block
                              /\ conflation.lastBlockNumber <= statusCache[f].block
      BY DEF LockIInv, LockIsHeld
    <2>2. ASSUME f \in Settled, IsBlockSafeToConflate(block)
          PROVE  block <= statusCache[f].block
      <3>1. block <= app.safeBlockNumber /\ app.safeBlockNumber <= statusCache[f].block
        BY <2>1, <2>2 DEF IsBlockSafeToConflate
      <3>2. block \in Int /\ app.safeBlockNumber \in Int /\ statusCache[f].block \in Int
        BY <2>1, <2>2, <1>1, SMTT(30) DEF AppRecord, LockIInv, PoolIsInOrder
      <3> QED
        BY <3>1, <3>2, SMTT(30)
    <2> QED
      BY <2>1, <2>2, <1>4, <1>5
  <1> QED
    BY <1>3, <1>6, <1>7, <1>8, <1>9, <1>10 DEF LockIInv

\* A restart resumes after the last record; it is interrupted when a transaction without a
\* record is with the sequencer.
LEMMA RestartIInv ==
    ASSUME LockIInv, Restart
    PROVE  LockIInv'
  <1>1. /\ app' = StartedApp(LastProcessed) /\ tick' = NoTick /\ conflation' = NoConflation
        /\ UNCHANGED <<l1Ftx, chainVars, wire, dao, pipeline>>
        /\ UNCHANGED <<head, pendingTransactions, statusCache, wire, dao>>
        /\ restarts' \in 0..MaxRestarts /\ interrupted' \in BOOLEAN
        /\ ~ interrupted' => Sent \subseteq Recorded
    <2>1. restarts' \in 0..MaxRestarts
      BY ConstantsAssumption, SMTT(30) DEF Restart, LockIInv, TypeOK
    <2>2. interrupted' \in BOOLEAN /\ (~ interrupted' => Sent \subseteq Recorded)
      BY ZenonT(30) DEF Restart
    <2> QED
      BY <2>1, <2>2 DEF Restart, chainVars
  <1>2. Recorded' = Recorded /\ Settled' = Settled /\ Sent' = Sent
    BY <1>1 DEF Recorded, Settled, Sent
  <1>3. PICK last \in 0..MaxFtx : Recorded = 1..last
    BY DEF LockIInv
  <1>4. LastProcessed = last
    <2>1. CASE last = 0
      BY <2>1, <1>3, SMTT(30) DEF LastProcessed
    <2>2. CASE last > 0
      <3>1. last \in Recorded /\ \A g \in Recorded : g <= last
        BY <2>2, <1>3, SMTT(30)
      <3>2. LastProcessed \in Recorded /\ \A g \in Recorded : g <= LastProcessed
        BY <3>1, ZenonT(30) DEF LastProcessed
      <3> QED
        BY <3>1, <3>2, <1>3, SMTT(30)
    <2> QED
      BY <2>1, <2>2, <1>3, SMTT(30)
  <1>5. \A f \in Recorded : /\ f \in Ftx /\ dao[f] \in Nat \ {0} /\ dao[f] <= head
                            /\ dao[f] = statusCache[f].block
    <2>1. TAKE f \in Recorded
    <2>2. f \in Settled /\ dao[f] = statusCache[f].block
      BY DEF LockIInv, RecordedWithoutGaps
    <2>3. statusCache[f].block \in 1..head /\ head \in Int
      BY <2>2, SMTT(30) DEF LockIInv, PoolIsInOrder, TypeOK
    <2> QED
      BY <2>2, <2>3, SMTT(30) DEF Recorded
  <1> DEFINE safe == IF last = 0 THEN 0 ELSE dao[last]
             blocks == {dao[f] : f \in Recorded}
  <1>6. safe \in Nat /\ safe <= head
    <2>1. head \in Nat
      BY DEF LockIInv, TypeOK
    <2>2. CASE last = 0
      BY <2>1, <2>2, SMTT(30)
    <2>3. CASE last # 0
      <3>1. last \in Recorded
        BY <2>3, <1>3, SMTT(30)
      <3> QED
        BY <2>3, <3>1, <1>5
    <2> QED
      BY <2>2, <2>3
  <1>7. blocks \subseteq Nat /\ last + 1 \in 1..MaxFtx + 1
    BY <1>3, <1>5, ConstantsAssumption, SMTT(30)
  <1>8. app' = [ftxQueue |-> {}, conflationFtxQueue |-> blocks, nextExpectedFtx |-> last + 1,
                nextExpectedFtxNumber |-> last + 1, safeBlockNumber |-> safe,
                startUpScanFinished |-> FALSE, ftxInSequencerForProcessing |-> {}]
    BY <1>1, <1>4, Zenon DEF StartedApp
  <1> HIDE DEF safe, blocks
  <1>9. /\ app' \in AppRecord /\ app'.nextExpectedFtx = last + 1
        /\ app'.nextExpectedFtxNumber = last + 1 /\ app'.safeBlockNumber = safe
    BY <1>6, <1>7, <1>8, SMTT(30) DEF AppRecord
  <1>10. /\ tick' \in TickRecord /\ tick'.pc = "idle" /\ conflation' \in ConflationRecord
         /\ conflation'.pc = "idle" /\ conflation'.lastBlockNumber = 0 /\ conflation'.imported = 0
    BY <1>1 DEF NoTick, TickRecord, NoConflation, ConflationRecord
  <1>11. TypeOK'
    BY <1>1, <1>9, <1>10, SMTT(30) DEF LockIInv, TypeOK, chainVars
  <1>12. PoolIsInOrder' /\ SettledInOrder'
    BY <1>1, <1>2 DEF LockIInv, PoolIsInOrder, SettledInOrder
  <1>13. RecordedWithoutGaps'
    <2>1. \A f \in Ftx : f < last + 1 => f \in Recorded
      BY <1>3, ConstantsAssumption, SMTT(30) DEF Ftx
    <2>2. \A f \in Ftx : f \notin (last + 1)..(last + 1 - 1)
      BY <1>3, ConstantsAssumption, SMTT(30) DEF Ftx
    <2> QED
      BY <2>1, <2>2, <1>1, <1>2, <1>9, SMTT(30) DEF LockIInv, RecordedWithoutGaps
  <1>14. TickIsInOrder' /\ LockIsHeld' /\ LockIsNotAhead' /\ ConflationFollowsHead'
    <2>1. TickIsInOrder'
      BY <1>10, SMTT(30) DEF TickIsInOrder
    <2>2. LockIsHeld'
      BY <1>1, <1>2, SMTT(30) DEF LockIsHeld
    <2>3. LockIsNotAhead' /\ ConflationFollowsHead'
      BY <1>1, <1>6, <1>9, <1>10, SMTT(30) DEF LockIsNotAhead, ConflationFollowsHead, LockIInv, TypeOK
    <2> QED
      BY <2>1, <2>2, <2>3
  <1> QED
    BY <1>2, <1>3, <1>11, <1>12, <1>13, <1>14 DEF LockIInv

\* Every step of the model keeps what the lock rests on.
LEMMA NextLockIInv == LockIInv /\ [Next]_vars => LockIInv'
  <1> SUFFICES ASSUME LockIInv, [Next]_vars PROVE LockIInv'
    OBVIOUS
  <1>1. CASE SubmitOnL1 \/ Fetcher
    BY <1>1, FetcherIInv
  <1>2. CASE StartTick
    BY <1>2, StartTickIInv
  <1>3. CASE FindSequencerProcessingRecord \/ SaveRecord
    BY <1>3, RecordIInv
  <1>4. CASE AllInDelayWindow \/ EthBlockNumber
    BY <1>4, UnprocessedIInv
  <1>5. CASE SendTransactions
    BY <1>5, SendTransactionsIInv
  <1>6. CASE AddForcedTransactions \/ LoseCall \/ ProcessForBlock
    BY <1>6, PoolIInv, SMTT(30)
  <1>7. CASE OnBlockAdded
    BY <1>7, OnBlockAddedIInv
  <1>8. CASE Conflate
    BY <1>8, ConflateIInv
  <1>9. CASE Restart
    BY <1>9, RestartIInv
  <1>10. CASE UNCHANGED vars
    <2>1. UNCHANGED <<l1Ftx, chainVars, wire, dao, pipeline, app, tick, conflation, faults>>
      BY <1>10, SMTT(30) DEF vars, coordinatorVars
    <2>2. app' \in AppRecord /\ tick' \in TickRecord /\ TickIsInOrder'
      BY <2>1 DEF LockIInv, TypeOK, TickIsInOrder, Settled, chainVars
    <2> QED
      BY <2>1, <2>2, TickIInv
  <1> QED
    BY <1>1, <1>2, <1>3, <1>4, <1>5, <1>6, <1>7, <1>8, <1>9, <1>10 DEF Next, Sender

(* The batches and the proof requests **************************************)

Batches ==
    /\ TriggersAreQueued
    /\ ForcedTransactionsStartBatches
    /\ RequestsAreOfBlocks
    /\ RequestsListTheirForcedTransactions

\* The blocks of settled transactions are numbers up to the head.
LEMMA SettledBlocks ==
    ASSUME LockIInv, NEW f \in Settled
    PROVE  /\ f \in Ftx /\ statusCache[f].block \in 1..head /\ statusCache[f].block \in Nat
           /\ statusCache[f].block # None
  <1>1. f \in Ftx /\ statusCache[f].block \in 1..head /\ head \in Nat
    BY DEF LockIInv, PoolIsInOrder, TypeOK, Settled
  <1> QED BY <1>1, ConstantsAssumption, SMTT(30)

\* A step that conflates no block, and either leaves the lock or queues the block it is moved to.
LEMMA BatchesFrame ==
    ASSUME LockIInv, Batches,
           UNCHANGED <<head, statusCache, pipeline, conflation, requests, interrupted>>,
           app.conflationFtxQueue \subseteq app'.conflationFtxQueue,
           ~ interrupted =>
              \A f \in Settled : f \in Recorded' \/ statusCache[f].block = app'.safeBlockNumber =>
                 \/ f \in Recorded \/ statusCache[f].block = app.safeBlockNumber
                 \/ statusCache[f].block \in app'.conflationFtxQueue
    PROVE  Batches'
  <1>1. Settled' = Settled
    BY DEF Settled
  <1>2. TriggersAreQueued'
    BY <1>1 DEF Batches, TriggersAreQueued
  <1>3. ForcedTransactionsStartBatches' /\ RequestsAreOfBlocks' /\ RequestsListTheirForcedTransactions'
    BY <1>1 DEF Batches, ForcedTransactionsStartBatches, RequestsAreOfBlocks,
                RequestsListTheirForcedTransactions
  <1> QED BY <1>2, <1>3 DEF Batches

LEMMA FetcherBatches ==
    ASSUME LockIInv, Batches, SubmitOnL1 \/ Fetcher
    PROVE  Batches'
  <1>1. UNCHANGED <<head, statusCache, dao, pipeline, conflation, requests, interrupted>>
    BY DEF SubmitOnL1, Fetcher, OnNewForcedTransaction, OnSearchStateUpdated, coordinatorVars,
           chainVars, faults
  <1>2. app \in AppRecord
    BY DEF LockIInv, TypeOK
  <1>3. /\ app'.conflationFtxQueue = app.conflationFtxQueue
        /\ app'.safeBlockNumber = app.safeBlockNumber
    BY <1>2 DEF SubmitOnL1, Fetcher, OnNewForcedTransaction, OnSearchStateUpdated, coordinatorVars,
                AppRecord
  <1>4. Recorded' = Recorded
    BY <1>1 DEF Recorded
  <1> QED BY <1>1, <1>3, <1>4, BatchesFrame

\* A tick that ends without sending keeps the queue of triggers.
LEMMA NothingToSendLock ==
    ASSUME NEW a \in AppRecord, NothingToSend(a)
    PROVE  /\ app'.conflationFtxQueue = a.conflationFtxQueue
           /\ app'.safeBlockNumber \in {a.safeBlockNumber, None}
  BY DEF NothingToSend, UnprocessedFtxQueueIsEmpty, AppRecord

LEMMA TickBatches ==
    ASSUME LockIInv, Batches, StartTick \/ AllInDelayWindow \/ EthBlockNumber
    PROVE  Batches'
  <1>1. UNCHANGED <<head, statusCache, dao, pipeline, conflation, requests, interrupted>>
    BY DEF StartTick, AllInDelayWindow, EthBlockNumber, chainVars, faults
  <1>2. app \in AppRecord
    BY DEF LockIInv, TypeOK
  <1>3. app' = app \/ NothingToSend(app)
    BY DEF StartTick, AllInDelayWindow, EthBlockNumber
  <1>4. /\ app'.conflationFtxQueue = app.conflationFtxQueue
        /\ app'.safeBlockNumber \in {app.safeBlockNumber, None}
    BY <1>2, <1>3, NothingToSendLock
  <1>5. Recorded' = Recorded
    BY <1>1 DEF Recorded
  <1> QED BY <1>1, <1>4, <1>5, SettledBlocks, BatchesFrame

\* addFtxToConflation puts the block in the queue of triggers before the lock moves to it.
LEMMA RecordBatches ==
    ASSUME LockIInv, Batches, FindSequencerProcessingRecord \/ SaveRecord
    PROVE  Batches'
  <1> DEFINE f == app.nextExpectedFtxNumber
  <1>1. /\ tick.pc \in {"check", "save"} /\ Least(tick.remaining) = f
        /\ UNCHANGED <<head, statusCache, pipeline, conflation, requests, interrupted>>
    BY LeastRemaining DEF FindSequencerProcessingRecord, SaveRecord, chainVars, faults
  <1>2. app \in AppRecord /\ dao \in [Ftx -> Nat \cup {None}] /\ f \in Ftx
    BY <1>1 DEF LockIInv, TypeOK, TickIsInOrder, TickRecord
  <1>3. ASSUME NEW block \in Nat, ProcessTransaction(f, block)
        PROVE  /\ app'.conflationFtxQueue = app.conflationFtxQueue \cup {block}
               /\ app'.safeBlockNumber \in {app.safeBlockNumber, block, None}
    <2> DEFINE queued == [app EXCEPT !.conflationFtxQueue = @ \cup {block}]
               processed == [FtxProcessedBySequencer(queued, f, block) EXCEPT
                               !.ftxQueue = @ \ {f}, !.nextExpectedFtxNumber = f + 1]
    <2>1. /\ queued \in AppRecord /\ queued.conflationFtxQueue = app.conflationFtxQueue \cup {block}
          /\ queued.safeBlockNumber = app.safeBlockNumber
      BY <1>2, <1>3 DEF AppRecord
    <2> HIDE DEF queued
    <2>2. /\ processed \in AppRecord /\ processed.conflationFtxQueue = queued.conflationFtxQueue
          /\ processed.safeBlockNumber \in {block, None}
      <3>1. f + 1 \in 1..MaxFtx + 1
        BY <1>2, ConstantsAssumption, SMTT(30) DEF Ftx
      <3> QED BY <1>2, <1>3, <2>1, <3>1 DEF AppRecord, FtxProcessedBySequencer
    <2>3. app' = queued \/ app' = processed \/ NothingToSend(processed)
      BY <1>3 DEF ProcessTransaction, queued
    <2> HIDE DEF processed
    <2> QED BY <2>1, <2>2, <2>3, NothingToSendLock
  <1>4. CASE SaveRecord
    <2>1. /\ tick.pc = "save" /\ dao' = [dao EXCEPT ![f] = tick.block]
          /\ ProcessTransaction(f, tick.block)
      BY <1>1, <1>4 DEF SaveRecord
    <2>2. f \in Settled /\ tick.block = statusCache[f].block
      BY <2>1 DEF LockIInv, TickIsInOrder
    <2>3. tick.block \in Nat
      BY <2>2, SettledBlocks
    <2>4. \A g \in Recorded' : g = f \/ g \in Recorded
      BY <1>2, <2>1 DEF Recorded
    <2>5. /\ app'.conflationFtxQueue = app.conflationFtxQueue \cup {tick.block}
          /\ app'.safeBlockNumber \in {app.safeBlockNumber, tick.block, None}
      BY <1>3, <2>1, <2>3
    <2> HIDE DEF f
    <2> QED BY <1>1, <2>2, <2>4, <2>5, SettledBlocks, BatchesFrame
  <1>5. CASE FindSequencerProcessingRecord
    <2>1. Recorded' = Recorded
      BY <1>5 DEF FindSequencerProcessingRecord, Recorded
    <2>2. app' = app \/ (dao[f] # None /\ ProcessTransaction(f, dao[f]))
      BY <1>1, <1>5 DEF FindSequencerProcessingRecord
    <2>3. CASE app' = app
      BY <1>1, <2>1, <2>3, BatchesFrame
    <2>4. CASE dao[f] # None /\ ProcessTransaction(f, dao[f])
      <3>1. dao[f] \in Nat
        BY <1>2, <2>4
      <3>2. /\ app'.conflationFtxQueue = app.conflationFtxQueue \cup {dao[f]}
            /\ app'.safeBlockNumber \in {app.safeBlockNumber, dao[f], None}
        BY <1>3, <2>4, <3>1
      <3> HIDE DEF f
      <3> QED BY <1>1, <2>1, <3>2, SettledBlocks, BatchesFrame
    <2> QED BY <2>2, <2>3, <2>4
  <1> QED BY <1>4, <1>5

\* The lock is taken, and not moved, only when every settled transaction is recorded.
LEMMA SendTransactionsBatches ==
    ASSUME LockIInv, Batches, SendTransactions
    PROVE  Batches'
  <1>1. /\ UNCHANGED <<head, statusCache, dao, pipeline, conflation, requests, interrupted>>
        /\ app' = [app EXCEPT
                     !.safeBlockNumber = LockSafeBlockNumberBeforeSendingToSequencer(tick.block),
                     !.ftxInSequencerForProcessing = @ \cup
                        {f \in tick.remaining : f < Least(tick.remaining) + TxLimitToSendPerTick}]
    BY DEF SendTransactions, chainVars, faults
  <1>2. app \in AppRecord
    BY DEF LockIInv, TypeOK
  <1>3. /\ app'.conflationFtxQueue = app.conflationFtxQueue
        /\ app.safeBlockNumber \notin {None, 0} => app'.safeBlockNumber = app.safeBlockNumber
    BY <1>1, <1>2 DEF AppRecord, LockSafeBlockNumberBeforeSendingToSequencer
  <1>4. Recorded' = Recorded
    BY <1>1 DEF Recorded
  <1>5. ~ interrupted => \A f \in Settled : f \in Recorded \/ app.safeBlockNumber \notin {None, 0}
    BY DEF LockIInv, LockIsHeld, Sent
  <1> QED BY <1>1, <1>3, <1>4, <1>5, BatchesFrame

LEMMA PoolBatches ==
    ASSUME LockIInv, Batches, AddForcedTransactions \/ LoseCall \/ ProcessForBlock
    PROVE  Batches'
  <1>1. UNCHANGED <<head, statusCache, dao, pipeline, app, conflation, requests, interrupted>>
    BY DEF AddForcedTransactions, LoseCall, ProcessForBlock, chainVars, coordinatorVars, faults
  <1>2. Recorded' = Recorded
    BY <1>1 DEF Recorded
  <1> QED BY <1>1, <1>2, BatchesFrame

\* The transactions that a new block settles are above the lock and above what is conflated.
LEMMA OnBlockAddedBatches ==
    ASSUME LockIInv, Batches, OnBlockAdded
    PROVE  Batches'
  <1> DEFINE settled == SettledBy(payload)
  <1>1. /\ statusCache' = [f \in Ftx |-> IF f \in settled
                                        THEN [block |-> head + 1, included |-> f \in payload]
                                        ELSE statusCache[f]]
        /\ head' = head + 1
        /\ UNCHANGED <<dao, pipeline, app, conflation, requests, interrupted>>
    BY DEF OnBlockAdded, coordinatorVars, faults
  <1>2. /\ head \in Nat /\ conflation.lastBlockNumber \in Nat /\ conflation.lastBlockNumber <= head
        /\ app.safeBlockNumber \in Nat \cup {None}
        /\ app.safeBlockNumber # None => app.safeBlockNumber <= head
        /\ None \notin Nat
    <2>1. head \in Nat /\ app \in AppRecord /\ conflation \in ConflationRecord
      BY DEF LockIInv, TypeOK
    <2>2. /\ conflation.lastBlockNumber <= conflation.imported /\ conflation.imported <= head
          /\ app.safeBlockNumber # None => app.safeBlockNumber <= head
      BY DEF LockIInv, ConflationFollowsHead, LockIsNotAhead
    <2>3. /\ conflation.lastBlockNumber \in Nat /\ conflation.imported \in Nat
          /\ app.safeBlockNumber \in Nat \cup {None}
      BY <2>1 DEF AppRecord, ConflationRecord
    <2> QED BY <2>1, <2>2, <2>3, ConstantsAssumption, SMTT(30)
  <1>3. settled \cap Settled = {} /\ Recorded' = Recorded /\ Recorded \subseteq Settled
    BY <1>1 DEF LockIInv, PoolIsInOrder, SettledBy, Recorded, RecordedWithoutGaps
  <1> HIDE DEF settled
  <1>4. \A f \in Settled' : \/ f \in Settled /\ statusCache'[f] = statusCache[f]
                            \/ f \notin Settled /\ f \in Ftx /\ statusCache'[f].block = head + 1
    <2> TAKE f \in Settled'
    <2>1. f \in Ftx /\ statusCache'[f] # None
      BY DEF Settled
    <2>2. CASE f \in settled
      BY <1>1, <1>3, <2>1, <2>2
    <2>3. CASE f \notin settled
      BY <1>1, <2>1, <2>3 DEF Settled
    <2> QED BY <2>2, <2>3
  <1>5. \A f \in Settled : f \in Settled' /\ statusCache'[f] = statusCache[f]
    BY <1>1, <1>3 DEF Settled
  <1>6. /\ head + 1 # app.safeBlockNumber /\ ~ (head + 1 <= conflation.lastBlockNumber)
        /\ head + 1 \notin 1..head /\ 1..head \subseteq 1..head'
    BY <1>1, <1>2, SMTT(30)
  <1>7. TriggersAreQueued'
    BY <1>1, <1>3, <1>4, <1>6 DEF Batches, TriggersAreQueued
  <1>8. ForcedTransactionsStartBatches'
    BY <1>1, <1>4, <1>6 DEF Batches, ForcedTransactionsStartBatches
  <1>9. RequestsAreOfBlocks'
    BY <1>1, <1>6 DEF Batches, RequestsAreOfBlocks
  <1>10. RequestsListTheirForcedTransactions'
    <2> SUFFICES ASSUME ~ interrupted, NEW r \in requests
                 PROVE  r.ftxs = {f \in Ftx : f \in Settled' /\ statusCache'[f].block \in r.blocks}
      BY <1>1 DEF RequestsListTheirForcedTransactions
    <2>1. r.ftxs = {f \in Ftx : f \in Settled /\ statusCache[f].block \in r.blocks}
      BY DEF Batches, RequestsListTheirForcedTransactions
    <2>2. r.blocks \subseteq 1..head
      BY DEF Batches, RequestsAreOfBlocks
    <2>3. \A f \in Ftx : f \in Settled' /\ statusCache'[f].block \in r.blocks
                          <=> f \in Settled /\ statusCache[f].block \in r.blocks
      BY <1>4, <1>5, <1>6, <2>2
    <2> QED BY <2>1, <2>3
  <1> QED BY <1>7, <1>8, <1>9, <1>10 DEF Batches

\* A block that is safe to conflate has its trigger, and the blocks before it have their records.
LEMMA SafeBlock ==
    ASSUME LockIInv, Batches, ~ interrupted, IsBlockSafeToConflate(conflation.lastBlockNumber + 1),
           NEW f \in Settled
    PROVE  /\ statusCache[f].block <= conflation.lastBlockNumber => f \in Recorded
           /\ statusCache[f].block = conflation.lastBlockNumber + 1 /\ pipeline = "V1" =>
                  statusCache[f].block \in app.conflationFtxQueue
  <1> DEFINE last == conflation.lastBlockNumber
             block == statusCache[f].block
  <1>1. last \in Nat /\ block \in Nat /\ app.safeBlockNumber \in Nat \cup {None}
    BY SettledBlocks DEF LockIInv, TypeOK, ConflationRecord, AppRecord
  <1>2. f \notin Recorded => /\ app.safeBlockNumber # None /\ app.safeBlockNumber <= block
                             /\ last + 1 <= app.safeBlockNumber
    BY DEF LockIInv, LockIsHeld, Sent, IsBlockSafeToConflate
  <1>3. block = last + 1 /\ pipeline = "V1" =>
           (f \in Recorded \/ block = app.safeBlockNumber => block <= last \/ block \in app.conflationFtxQueue)
    BY DEF Batches, TriggersAreQueued
  <1> HIDE DEF last, block
  <1>4. /\ f \notin Recorded => ~ (block <= last)
        /\ f \notin Recorded /\ block = last + 1 => block = app.safeBlockNumber
        /\ block = last + 1 => ~ (block <= last)
    BY <1>1, <1>2, SMTT(30)
  <1> QED BY <1>3, <1>4 DEF last, block

\* ConflationService: what happens when it goes on with the next block, and when it does not.
LEMMA ConflateBatches ==
    ASSUME LockIInv, Batches, Conflate
    PROVE  Batches'
  <1> DEFINE last == conflation.lastBlockNumber
             block == last + 1
  <1>1. /\ conflation \in ConflationRecord /\ app \in AppRecord /\ last \in Nat /\ block \in Nat
        /\ head \in Nat /\ last <= head
    <2>1. /\ conflation \in ConflationRecord /\ app \in AppRecord /\ head \in Nat
          /\ last <= conflation.imported /\ conflation.imported <= head
      BY DEF LockIInv, TypeOK, ConflationFollowsHead
    <2>2. last \in Nat /\ conflation.imported \in Nat
      BY <2>1 DEF ConflationRecord
    <2> HIDE DEF last
    <2> QED BY <2>1, <2>2, SMTT(30)
  <1>2. PICK imported : SendBlocksInOrder(imported)
    BY DEF Conflate, NewBlock, NextBlock
  <1>3. /\ UNCHANGED <<head, statusCache, dao, pipeline, interrupted>>
        /\ Recorded' = Recorded /\ Settled' = Settled
    BY <1>2 DEF SendBlocksInOrder, chainVars, faults, Recorded, Settled
  <1>4. CASE IsBlockSafeToConflate(block) /\ ConflateBlock(block, imported)
    <2>1. /\ conflation'.lastBlockNumber = block
          /\ conflation'.starts = IF CutsBefore(block) THEN conflation.starts \cup {block}
                                                       ELSE conflation.starts
      BY <1>1, <1>4 DEF ConflateBlock, ConflationRecord
    <2>2. \A b \in Nat : b <= block <=> b <= last \/ b = block
      BY <1>1, SMTT(30)
    <2>3. TriggersAreQueued'
      <3> SUFFICES ASSUME ~ interrupted, pipeline = "V1", NEW f \in Settled,
                          f \in Recorded \/ statusCache[f].block = app'.safeBlockNumber,
                          ~ (statusCache[f].block <= block)
                   PROVE  statusCache[f].block \in app'.conflationFtxQueue
        BY <1>3, <2>1 DEF TriggersAreQueued
      <3>1. /\ app'.conflationFtxQueue = {b \in app.conflationFtxQueue : b > block}
            /\ app'.safeBlockNumber = app.safeBlockNumber
        BY <1>1, <1>4 DEF ConflateBlock, AppRecord
      <3>2. statusCache[f].block \in Nat
        BY SettledBlocks
      <3>3. statusCache[f].block \in app.conflationFtxQueue
        BY <2>2, <3>1, <3>2 DEF Batches, TriggersAreQueued
      <3>4. statusCache[f].block > block
        BY <1>1, <3>2, SMTT(30)
      <3> QED BY <3>1, <3>3, <3>4
    <2>4. ForcedTransactionsStartBatches'
      <3> SUFFICES ASSUME ~ interrupted, pipeline = "V1", NEW f \in Settled, statusCache[f].block <= block
                   PROVE  statusCache[f].block \in conflation'.starts
        BY <1>3, <2>1 DEF ForcedTransactionsStartBatches
      <3>1. statusCache[f].block \in Nat /\ f \in Ftx
        BY SettledBlocks
      <3>2. CASE statusCache[f].block <= last
        BY <2>1, <3>1, <3>2 DEF Batches, ForcedTransactionsStartBatches
      <3>3. CASE statusCache[f].block = block
        <4>1. block \in app.conflationFtxQueue
          BY <1>4, <3>3, SafeBlock
        <4>2. CutsBefore(block)
          BY <4>1 DEF CutsBefore
        <4> QED BY <2>1, <3>3, <4>2
      <3> QED BY <2>2, <3>1, <3>2, <3>3
    <2> DEFINE new == [blocks |-> OpenBatch, ftxs |-> {f \in Recorded : dao[f] \in OpenBatch}]
    <2>5. requests' \subseteq requests \cup {new}
      BY <1>4 DEF ConflateBlock
    <2>6. new.blocks = OpenBatch /\ new.ftxs = {f \in Recorded : dao[f] \in OpenBatch}
      OBVIOUS
    <2> HIDE DEF new
    <2>7. OpenBatch \subseteq 1..head /\ \A b \in OpenBatch : b <= last
      <3>1. OpenBatch \subseteq 1..last
        BY DEF OpenBatch
      <3>2. 1..last \subseteq 1..head /\ \A b \in 1..last : b <= last
        <4> HIDE DEF last
        <4> QED BY <1>1, SMTT(30)
      <3> QED BY <3>1, <3>2
    <2>8. RequestsAreOfBlocks'
      BY <1>3, <2>5, <2>6, <2>7 DEF Batches, RequestsAreOfBlocks
    <2>9. RequestsListTheirForcedTransactions'
      <3> SUFFICES ASSUME ~ interrupted
                   PROVE  new.ftxs = {f \in Ftx : f \in Settled /\ statusCache[f].block \in new.blocks}
        BY <1>3, <2>5 DEF Batches, RequestsListTheirForcedTransactions
      <3>1. \A f \in Recorded : f \in Settled /\ f \in Ftx /\ dao[f] = statusCache[f].block
        BY DEF LockIInv, RecordedWithoutGaps, Recorded
      <3>2. \A f \in Settled : statusCache[f].block \in OpenBatch => f \in Recorded
        BY <1>4, <2>7, SafeBlock
      <3> QED BY <2>6, <3>1, <3>2
    <2> QED BY <2>3, <2>4, <2>8, <2>9 DEF Batches
  <1>5. CASE /\ conflation' = [conflation EXCEPT !.pc = "idle", !.imported = imported]
             /\ UNCHANGED <<app, requests>>
    <2>1. conflation'.lastBlockNumber = last /\ conflation'.starts = conflation.starts
      BY <1>1, <1>5 DEF ConflationRecord
    <2>2. TriggersAreQueued' /\ ForcedTransactionsStartBatches'
      BY <1>3, <1>5, <2>1 DEF Batches, TriggersAreQueued, ForcedTransactionsStartBatches
    <2>3. RequestsAreOfBlocks' /\ RequestsListTheirForcedTransactions'
      BY <1>3, <1>5 DEF Batches, RequestsAreOfBlocks, RequestsListTheirForcedTransactions
    <2> QED BY <2>2, <2>3 DEF Batches
  <1> QED BY <1>2, <1>4, <1>5 DEF SendBlocksInOrder

\* A restart replays the records into the queue of triggers; when it interrupts nothing, every
\* settled transaction has one.
LEMMA RestartBatches ==
    ASSUME LockIInv, Batches, Restart
    PROVE  Batches'
  <1>1. /\ UNCHANGED <<head, statusCache, dao, pipeline, requests>>
        /\ app' = StartedApp(LastProcessed) /\ conflation' = NoConflation
    BY DEF Restart, chainVars
  <1>2. ~ interrupted' => ~ interrupted /\ Sent \subseteq Recorded
    BY DEF Restart
  <1>3. Settled' = Settled /\ Recorded' = Recorded
    BY <1>1 DEF Settled, Recorded
  <1>4. app'.conflationFtxQueue = {dao[f] : f \in Recorded}
    BY <1>1 DEF StartedApp
  <1>5. \A f \in Recorded : dao[f] = statusCache[f].block
    BY DEF LockIInv, RecordedWithoutGaps
  <1>6. conflation'.lastBlockNumber = 0
    BY <1>1 DEF NoConflation
  <1>7. TriggersAreQueued'
    BY <1>1, <1>2, <1>3, <1>4, <1>5 DEF TriggersAreQueued, Sent
  <1>8. ForcedTransactionsStartBatches'
    <2>1. \A f \in Settled : ~ (statusCache[f].block <= 0)
      <3> TAKE f \in Settled
      <3>1. statusCache[f].block \in 1..head /\ head \in Nat
        BY SettledBlocks DEF LockIInv, TypeOK
      <3> QED BY <3>1, SMTT(30)
    <2> QED BY <1>1, <1>3, <1>6, <2>1 DEF ForcedTransactionsStartBatches
  <1>9. RequestsAreOfBlocks' /\ RequestsListTheirForcedTransactions'
    BY <1>1, <1>2, <1>3 DEF Batches, RequestsAreOfBlocks, RequestsListTheirForcedTransactions
  <1> QED BY <1>7, <1>8, <1>9 DEF Batches

(* The theorems ************************************************************)

\* Every step of the model keeps the invariant.
LEMMA NextIInv == IInv /\ [Next]_vars => IInv'
  <1> SUFFICES ASSUME LockIInv, Batches, [Next]_vars PROVE Batches'
    BY NextLockIInv DEF IInv, Batches
  <1>1. CASE SubmitOnL1 \/ Fetcher
    BY <1>1, FetcherBatches
  <1>2. CASE StartTick \/ AllInDelayWindow \/ EthBlockNumber
    BY <1>2, TickBatches
  <1>3. CASE FindSequencerProcessingRecord \/ SaveRecord
    BY <1>3, RecordBatches
  <1>4. CASE SendTransactions
    BY <1>4, SendTransactionsBatches
  <1>5. CASE AddForcedTransactions \/ LoseCall \/ ProcessForBlock
    BY <1>5, PoolBatches
  <1>6. CASE OnBlockAdded
    BY <1>6, OnBlockAddedBatches
  <1>7. CASE Conflate
    BY <1>7, ConflateBatches
  <1>8. CASE Restart
    BY <1>8, RestartBatches
  <1>9. CASE UNCHANGED vars
    <2>1. UNCHANGED <<head, statusCache, dao, pipeline, app, conflation, requests, interrupted>>
      BY <1>9 DEF vars, chainVars, coordinatorVars, faults
    <2>2. Recorded' = Recorded
      BY <2>1 DEF Recorded
    <2> QED BY <2>1, <2>2, BatchesFrame
  <1> QED
    BY <1>1, <1>2, <1>3, <1>4, <1>5, <1>6, <1>7, <1>8, <1>9 DEF Next, Sender

\* The invariant holds in every reachable state of the coordinator, the sequencer and
\* conflation, whatever is lost, repeated or restarted.
THEOREM ForcedTransactionsInvariance == Spec => []IInv
  <1>1. Init => IInv
    <2> SUFFICES ASSUME Init PROVE Batches
      BY InitIInv DEF IInv, Batches
    <2>1. Settled = {} /\ requests = {}
      BY DEF Init, Settled
    <2> QED BY <2>1 DEF Batches, TriggersAreQueued, ForcedTransactionsStartBatches,
                        RequestsAreOfBlocks, RequestsListTheirForcedTransactions
  <1> QED
    BY <1>1, NextIInv, PTL DEF Spec

\* ConflationCalculatorByForcedTransaction: unless a restart interrupts, a block that settled a
\* forced transaction is the first of its batch.
THEOREM BatchesStartWithForcedTransactions == Spec => []ForcedTransactionsStartBatches
  <1>1. IInv => ForcedTransactionsStartBatches
    BY DEF IInv
  <1> QED
    BY <1>1, ForcedTransactionsInvariance, PTL

\* L2ExecutionRequestBuilder: unless a restart interrupts, a proof request lists exactly the forced
\* transactions that its blocks settled, now and after every later block.
THEOREM RequestsAreComplete == Spec => []RequestsListTheirForcedTransactions
  <1>1. IInv => RequestsListTheirForcedTransactions
    BY DEF IInv
  <1> QED
    BY <1>1, ForcedTransactionsInvariance, PTL

\* The status updater records the forced transactions without gaps, with the block that
\* settled them, and forgets none, across restarts of the coordinator.
THEOREM RecordsHaveNoGaps == Spec => []RecordedWithoutGaps
  <1>1. IInv => RecordedWithoutGaps
    BY DEF IInv, LockIInv
  <1> QED
    BY <1>1, ForcedTransactionsInvariance, PTL

\* The sequencer settles forced transactions in the order of their numbers, and rejects one
\* per block at most.
THEOREM SequencerKeepsTheOrder == Spec => []SettledInOrder
  <1>1. IInv => SettledInOrder
    BY DEF IInv, LockIInv
  <1> QED
    BY <1>1, ForcedTransactionsInvariance, PTL

\* The lock of ForcedTransactionsSafeBlockNumberManager holds conflation back until the
\* record of a forced transaction is there, unless a restart interrupts it.
THEOREM ConflationIsHeldBack == Spec => []NoForcedTransactionIsPassedUninterrupted
  <1>1. ASSUME LockIInv, ~ interrupted, NEW f \in Ftx, f \in Settled,
               statusCache[f].block < conflation.lastBlockNumber
        PROVE  f \in Recorded
    <2> SUFFICES ASSUME f \notin Recorded PROVE FALSE
      OBVIOUS
    <2>1. conflation.lastBlockNumber <= statusCache[f].block
      BY <1>1 DEF LockIInv, LockIsHeld, Sent
    <2>2. conflation.lastBlockNumber \in Int /\ statusCache[f].block \in Int
      BY <1>1, SMTT(30) DEF LockIInv, TypeOK, ConflationRecord, PoolIsInOrder
    <2> QED
      BY <1>1, <2>1, <2>2, SMTT(30)
  <1>2. IInv => NoForcedTransactionIsPassedUninterrupted
    BY <1>1 DEF IInv, NoForcedTransactionIsPassedUninterrupted, NoForcedTransactionIsPassed
  <1> QED
    BY <1>2, ForcedTransactionsInvariance, PTL

\* The assertion of ftxProcessedBySequencer never fails, unless a restart interrupts.
THEOREM LockAssertionHolds == Spec => []LockIsBelowStatuses
  <1>1. ASSUME LockIInv, ~ interrupted, NEW f \in Ftx, f \in Settled, f \notin Recorded
        PROVE  ~ IsBelowLock(statusCache[f].block)
    <2>1. app.safeBlockNumber # None /\ app.safeBlockNumber <= statusCache[f].block
      BY <1>1, SMTT(30) DEF LockIInv, LockIsHeld, Sent
    <2>2. app.safeBlockNumber \in Int /\ statusCache[f].block \in Int
      BY <1>1, <2>1, SMTT(30) DEF LockIInv, TypeOK, AppRecord, PoolIsInOrder
    <2> QED
      BY <2>1, <2>2, SMTT(30) DEF IsBelowLock
  <1>2. IInv => LockIsBelowStatuses
    BY <1>1 DEF IInv, LockIsBelowStatuses
  <1> QED
    BY <1>2, ForcedTransactionsInvariance, PTL
=============================================================================
