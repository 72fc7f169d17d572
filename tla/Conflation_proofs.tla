------------------------- MODULE Conflation_proofs --------------------------
(***************************************************************************)
(* TLAPS proofs about Conflation, for every number of blocks, deadline     *)
(* checks and every limit: batches partition the chain.                    *)
(***************************************************************************)
EXTENDS Conflation, TLAPS

USE ZenonT(30)

\* The trigger of the highest priority is one of the triggers.
LEMMA FirstTriggerType ==
    ASSUME NEW T \in SUBSET (Trigger \ {"TIME_LIMIT"}), T # {}
    PROVE  /\ FirstTrigger(T) \in Trigger /\ FirstTrigger(T) \in T
           /\ \A u \in T : Priority[FirstTrigger(T)] <= Priority[u]
  <1> DEFINE First(t) == t \in T /\ \A u \in T : Priority[t] <= Priority[u]
  <1>1. CASE "TARGET_BLOCK_NUMBER" \in T
    <2>1. First("TARGET_BLOCK_NUMBER")
      BY <1>1, SMTT(30) DEF Trigger, Priority
    <2> QED
      BY <2>1, ZenonT(30) DEF FirstTrigger, Trigger
  <1>2. CASE "TARGET_BLOCK_NUMBER" \notin T /\ "HARD_FORK" \in T
    <2>1. First("HARD_FORK")
      BY <1>2, SMTT(30) DEF Trigger, Priority
    <2> QED
      BY <2>1, ZenonT(30) DEF FirstTrigger, Trigger
  <1>3. CASE T \cap {"TARGET_BLOCK_NUMBER", "HARD_FORK"} = {} /\ "DATA_LIMIT" \in T
    <2>1. First("DATA_LIMIT")
      BY <1>3, SMTT(30) DEF Trigger, Priority
    <2> QED
      BY <2>1, ZenonT(30) DEF FirstTrigger, Trigger
  <1>4. CASE T \cap {"TARGET_BLOCK_NUMBER", "HARD_FORK", "DATA_LIMIT"} = {} /\ "TRACES_LIMIT" \in T
    <2>1. First("TRACES_LIMIT")
      BY <1>4, SMTT(30) DEF Trigger, Priority
    <2> QED
      BY <2>1, ZenonT(30) DEF FirstTrigger, Trigger
  <1>5. CASE T = {"BLOCKS_LIMIT"}
    <2>1. First("BLOCKS_LIMIT")
      BY <1>5, SMTT(30) DEF Trigger, Priority
    <2> QED
      BY <2>1, ZenonT(30) DEF FirstTrigger, Trigger
  <1> QED
    BY <1>1, <1>2, <1>3, <1>4, <1>5, ZenonT(30) DEF Trigger

\* The end of the last batch is a block number.
LEMMA LastProvableType ==
    ASSUME batches \in Seq(BatchRecord)
    PROVE  LastProvable \in Int
  <1>1. CASE batches = <<>>
    BY <1>1, SMTT(30) DEF LastProvable
  <1>2. CASE batches # <<>>
    <2>1. Len(batches) \in 1..Len(batches)
      BY <1>2, SMTT(30)
    <2>2. batches[Len(batches)] \in BatchRecord
      BY <2>1, SMTT(30)
    <2> QED
      BY <1>2, <2>2, ConstantsAssumption, SMTT(30) DEF LastProvable, BatchRecord
  <1> QED
    BY <1>1, <1>2

\* Nothing happened yet.
LEMMA InitIInv == Init => BatchIInv
  <1> SUFFICES ASSUME Init PROVE BatchIInv
    OBVIOUS
  <1>1. TypeOK
    BY ConstantsAssumption, SMTT(30) DEF Init, TypeOK, Idle, NoCheck, Lock
  <1>2. Locking
    BY DEF Init, Locking, Idle, NoCheck
  <1>3. Imported = {} /\ LastProvable = 0 /\ DOMAIN batches = {}
    BY SMTT(30) DEF Init, Imported, Conflated, LastProvable
  <1>4. ImportedOnce
    BY <1>3 DEF Init, ImportedOnce
  <1>5. ServedInOrder
    BY SMTT(30) DEF Init, ServedInOrder, Idle
  <1>6. OpenBatchFollows /\ BatchesPartitionTheBlocks
    BY <1>3, SMTT(30) DEF Init, OpenBatchFollows, BatchesPartitionTheBlocks
  <1> QED
    BY <1>1, <1>2, <1>4, <1>5, <1>6 DEF BatchIInv

\* HandleBatchTrigger closes the open batch: what it hands out continues the partition, and
\* the blocks that are left stay in order.  The thread that closes it leaves importer.block.
LEMMA CloseBatch ==
    ASSUME BatchIInv, inflight.start # None,
           NEW trigger \in Trigger, HandleBatchTrigger(Batch(trigger)),
           inflight' = EmptyInflight, UNCHANGED sourceVars,
           importer'.block = importer.block,
           importer'.pc \in {"conflate", "reset", "append"}
               => importer.pc \in {"conflate", "reset", "append"}
    PROVE  /\ service' \in [queue : SUBSET Block, inProgress : SUBSET Block]
           /\ inflight' \in [last : 0..MaxBlock, start : 1..MaxBlock \cup {None},
                             count : Nat, traces : Nat]
           /\ batches' \in Seq(BatchRecord)
           /\ ImportedOnce' /\ ServedInOrder' /\ OpenBatchFollows' /\ BatchesPartitionTheBlocks'
  <1> DEFINE batch == Batch(trigger)
             n == Len(batches)
  <1>1. /\ batches' = Append(batches, batch)
        /\ service' = [service EXCEPT !.inProgress = @ \ batch.blocks]
        /\ UNCHANGED <<inTransit, monitor>>
    BY DEF HandleBatchTrigger, sourceVars
  <1>2. /\ batches \in Seq(BatchRecord) /\ n \in Nat
        /\ service \in [queue : SUBSET Block, inProgress : SUBSET Block]
        /\ inflight.last \in 0..MaxBlock /\ inflight.start \in 1..MaxBlock
        /\ monitor.next \in Int
    <2>1. batches \in Seq(BatchRecord)
      BY DEF BatchIInv, TypeOK
    <2>2. n \in Nat
      BY <2>1, SMTT(30)
    <2>3. service \in [queue : SUBSET Block, inProgress : SUBSET Block]
      BY DEF BatchIInv, TypeOK
    <2>4. inflight.last \in 0..MaxBlock /\ inflight.start \in 1..MaxBlock
      BY DEF BatchIInv, TypeOK
    <2>5. monitor.next \in Int
      BY ConstantsAssumption, SMTT(30) DEF BatchIInv, TypeOK
    <2> QED
      BY <2>1, <2>2, <2>3, <2>4, <2>5
  <1>3. /\ inflight.start = LastProvable + 1 /\ inflight.start <= inflight.last
        /\ LastProvable \in Int
    <2>1. inflight.start = LastProvable + 1 /\ inflight.start <= inflight.last
      BY DEF BatchIInv, OpenBatchFollows
    <2> QED
      BY <2>1, <1>2, LastProvableType
  <1>4. /\ batch.start = inflight.start /\ batch.end = inflight.last
        /\ batch.blocks = {b \in service.inProgress : b.number \in inflight.start..inflight.last}
    BY DEF Batch
  <1>5. batch \in BatchRecord
    BY <1>2, <1>3, ConstantsAssumption, SMTT(30) DEF Batch, BatchRecord
  <1>6. /\ batches' \in Seq(BatchRecord) /\ Len(batches') = n + 1
        /\ \A i \in 1..n : batches'[i] = batches[i]
        /\ batches'[n + 1] = batch
        /\ DOMAIN batches' = 1..n + 1 /\ DOMAIN batches = 1..n
    BY <1>1, <1>2, <1>5, SMTT(30)
  <1>7. /\ service'.queue = service.queue
        /\ service'.inProgress = service.inProgress \ batch.blocks
        /\ service' \in [queue : SUBSET Block, inProgress : SUBSET Block]
    BY <1>1, <1>2, SMTT(30)
  <1>8. /\ inflight'.last = inflight.last /\ inflight'.start = None
        /\ inflight' \in [last : 0..MaxBlock, start : 1..MaxBlock \cup {None},
                          count : Nat, traces : Nat]
    BY ZenonT(30) DEF EmptyInflight, BatchIInv, TypeOK
  <1>9. LastProvable' = inflight.last
    BY <1>4, <1>6, <1>2, SMTT(30) DEF LastProvable
  <1>10. Imported' \subseteq Imported
    <2>1. Conflated' \subseteq Conflated \cup service.inProgress
      BY <1>4, <1>6, <1>2, SMTT(30) DEF Conflated
    <2> QED
      BY <2>1, <1>1, <1>7 DEF Imported
  <1>11. ImportedOnce'
    <2>1. inTransit' \cap service'.inProgress = {}
      BY <1>1, <1>7 DEF BatchIInv, ImportedOnce
    <2> QED
      BY <2>1, <1>1, <1>10 DEF BatchIInv, ImportedOnce
  <1>12. ServedInOrder'
    <2>1. service'.queue \subseteq service'.inProgress
      BY <1>2, <1>4, <1>7, SMTT(30) DEF BatchIInv, ServedInOrder, Block
    <2>2. importer'.pc \in {"conflate", "reset", "append"} =>
             /\ importer'.block \in service'.inProgress \ service'.queue
             /\ importer'.block.number = inflight'.last + 1
      BY <1>2, <1>4, <1>7, <1>8, SMTT(30) DEF BatchIInv, ServedInOrder
    <2> QED
      BY <2>1, <2>2, <1>1, <1>7, <1>8 DEF BatchIInv, ServedInOrder
  <1>13. OpenBatchFollows'
    BY <1>2, <1>8, <1>9, SMTT(30) DEF OpenBatchFollows
  <1>14. BatchesPartitionTheBlocks'
    <2> SUFFICES ASSUME NEW i \in 1..n + 1
                 PROVE  /\ batches'[i].start = IF i = 1 THEN 1 ELSE batches'[i - 1].end + 1
                        /\ batches'[i].start <= batches'[i].end
                        /\ {b.number : b \in batches'[i].blocks} = batches'[i].start..batches'[i].end
                        /\ \A b, c \in batches'[i].blocks : b.number = c.number => b = c
      BY <1>6 DEF BatchesPartitionTheBlocks
    <2>1. CASE i \in 1..n
      <3>1. batches'[i] = batches[i] /\ (i # 1 => batches'[i - 1] = batches[i - 1])
        BY <2>1, <1>2, <1>6, SMTT(30)
      <3> QED
        BY <2>1, <3>1, <1>6 DEF BatchIInv, BatchesPartitionTheBlocks
    <2>2. CASE i = n + 1
      <3>1. batches'[i] = batch
        BY <2>2, <1>6
      <3>2. batch.start = IF i = 1 THEN 1 ELSE batches'[i - 1].end + 1
        <4>1. CASE n = 0
          BY <4>1, <2>2, <1>2, <1>3, <1>4, SMTT(30) DEF LastProvable
        <4>2. CASE n # 0
          BY <4>2, <2>2, <1>2, <1>3, <1>4, <1>6, SMTT(30) DEF LastProvable
        <4> QED
          BY <4>1, <4>2
      <3>3. \A k \in inflight.start..inflight.last : \E b \in service.inProgress : b.number = k
        BY <1>3 DEF BatchIInv, OpenBatchFollows
      <3>4. {b.number : b \in batch.blocks} = batch.start..batch.end
        BY <3>3, <1>4, SMTT(30)
      <3>5. \A b, c \in batch.blocks : b.number = c.number => b = c
        BY <1>4 DEF BatchIInv, ImportedOnce, Imported
      <3> QED
        BY <3>1, <3>2, <3>4, <3>5, <1>3, <1>4
    <2> QED
      BY <2>1, <2>2, <1>2, SMTT(30)
  <1> QED
    BY <1>6, <1>7, <1>8, <1>11, <1>12, <1>13, <1>14

(* The chain and its import ************************************************)

\* Steps of the chain and of the monitor preserve the invariant: only the monitor adds a
\* block, with a number no block had, on top of the one before.
LEMMA ImportIInv ==
    ASSUME BatchIInv, ProduceBlock \/ Reorg \/ MonitorAction \/ FailTracesCounters
    PROVE  BatchIInv'
  <1>1. UNCHANGED <<service, importer, check, owner, inflight, batches>>
    BY DEF ProduceBlock, Reorg, MonitorAction, FailTracesCounters, calculatorVars, out
  <1>2. Locking' /\ OpenBatchFollows' /\ BatchesPartitionTheBlocks' /\ Conflated' = Conflated
    BY <1>1, SMTT(30) DEF BatchIInv, Locking, OpenBatchFollows, LastProvable, BatchesPartitionTheBlocks, Conflated
  <1>3. /\ chain \in Seq(ChainBlock) /\ Len(chain) \in Nat /\ Len(chain) <= MaxBlock
        /\ monitor \in [next : 1..MaxBlock + 1, parent : {0, 1}, stopped : BOOLEAN]
        /\ monitor.next \in Int /\ inTransit \subseteq Block
    <2>1. chain \in Seq(ChainBlock) /\ Len(chain) <= MaxBlock
      BY DEF BatchIInv, TypeOK
    <2>2. Len(chain) \in Nat
      BY <2>1, SMTT(30)
    <2> QED
      BY <2>1, <2>2, ConstantsAssumption, SMTT(30) DEF BatchIInv, TypeOK
  \* The chain alone changes.
  <1>4. CASE ProduceBlock \/ Reorg
    <2>1. UNCHANGED <<monitor, inTransit>>
      BY <1>4 DEF ProduceBlock, Reorg
    <2>2. chain' \in Seq(ChainBlock) /\ Len(chain') <= MaxBlock
      <3>1. CASE ProduceBlock
        <4>1. HeadBranch \in {0, 1}
          <5>1. CASE chain = <<>>
            BY <5>1 DEF HeadBranch
          <5>2. CASE chain # <<>>
            <6>1. Len(chain) \in 1..Len(chain)
              BY <5>2, <1>3, SMTT(30)
            <6>2. chain[Len(chain)] \in ChainBlock
              BY <6>1, <1>3, SMTT(30)
            <6> QED
              BY <5>2, <6>2 DEF HeadBranch, ChainBlock
          <5> QED
            BY <5>1, <5>2
        <4>2. [branch |-> HeadBranch, parent |-> HeadBranch] \in ChainBlock
          BY <4>1 DEF ChainBlock
        <4>3. /\ chain' = Append(chain, [branch |-> HeadBranch, parent |-> HeadBranch])
              /\ Len(chain) < MaxBlock
          BY <3>1 DEF ProduceBlock
        <4> QED
          BY <4>2, <4>3, <1>3, ConstantsAssumption, SMTT(30)
      <3>2. CASE Reorg
        <4>1. PICK n : chain' = [i \in 1..Len(chain) |->
                                   IF i < n THEN chain[i]
                                   ELSE [branch |-> 1, parent |-> IF i = n THEN 0 ELSE 1]]
          BY <3>2, SMTT(30) DEF Reorg
        <4>2. \A i \in 1..Len(chain) : chain[i] \in ChainBlock
          BY <1>3, SMTT(30)
        <4>3. chain' \in [1..Len(chain) -> ChainBlock]
          BY <4>1, <4>2 DEF ChainBlock
        <4>4. chain' \in Seq(ChainBlock) /\ Len(chain') = Len(chain)
          BY <4>3, <1>3, SMTT(30)
        <4> QED
          BY <4>4, <1>3
      <3> QED
        BY <3>1, <3>2, <1>4
    <2>3. TypeOK'
      BY <2>1, <2>2, <1>1 DEF BatchIInv, TypeOK
    <2>4. ImportedOnce' /\ ServedInOrder'
      BY <2>1, <1>1, <1>2 DEF BatchIInv, ImportedOnce, Imported, ServedInOrder
    <2> QED
      BY <2>3, <2>4, <1>2 DEF BatchIInv
  <1>5. CASE MonitorAction
    <2> DEFINE head == chain[monitor.next]
    <2>1. chain' = chain /\ monitor.next \in 1..Len(chain) /\ head \in ChainBlock
      BY <1>5, <1>3, SMTT(30) DEF MonitorAction
    <2>2. CASE ~ IsExpectedChild(head)
      <3>1. monitor' = [monitor EXCEPT !.stopped = TRUE] /\ inTransit' = inTransit
        BY <1>5, <2>2 DEF MonitorAction
      <3>2. /\ monitor'.next = monitor.next /\ monitor'.parent = monitor.parent
            /\ monitor' \in [next : 1..MaxBlock + 1, parent : {0, 1}, stopped : BOOLEAN]
        BY <3>1, <1>3, ZenonT(30)
      <3>3. TypeOK'
        BY <3>1, <3>2, <2>1, <1>1 DEF BatchIInv, TypeOK
      <3>4. ImportedOnce' /\ ServedInOrder'
        BY <3>1, <3>2, <1>1, <1>2 DEF BatchIInv, ImportedOnce, Imported, ServedInOrder
      <3> QED
        BY <3>3, <3>4, <1>2 DEF BatchIInv
    <2>3. CASE IsExpectedChild(head)
      <3>1. /\ monitor' = [monitor EXCEPT !.next = @ + 1, !.parent = head.branch]
            /\ \E kind \in BlockKinds :
                  inTransit' = inTransit \cup {[number |-> monitor.next, branch |-> head.branch,
                                               parent |-> head.parent, kind |-> kind]}
        BY <1>5, <2>3 DEF MonitorAction
      <3>2. PICK new \in Block :
               /\ inTransit' = inTransit \cup {new}
               /\ new.number = monitor.next /\ new.branch = head.branch
               /\ new.parent = monitor.parent
        <4>1. PICK kind \in BlockKinds :
                 inTransit' = inTransit \cup {[number |-> monitor.next, branch |-> head.branch,
                                              parent |-> head.parent, kind |-> kind]}
          BY <3>1
        <4> DEFINE new == [number |-> monitor.next, branch |-> head.branch,
                           parent |-> head.parent, kind |-> kind]
        <4>2. new \in Block
          BY <2>1, <1>3, ConstantsAssumption, SMTT(30) DEF Block, ChainBlock
        <4>3. head.parent = monitor.parent
          BY <2>3 DEF IsExpectedChild
        <4> QED
          BY <4>1, <4>2, <4>3
      <3>3. /\ monitor'.next = monitor.next + 1 /\ monitor'.parent = head.branch
            /\ monitor' \in [next : 1..MaxBlock + 1, parent : {0, 1}, stopped : BOOLEAN]
        <4>1. monitor.next + 1 \in 1..MaxBlock + 1 /\ head.branch \in {0, 1}
          BY <2>1, <1>3, ConstantsAssumption, SMTT(30) DEF ChainBlock
        <4> HIDE DEF head
        <4> QED
          BY <4>1, <3>1, <1>3, ZenonT(30)
      <3>4. TypeOK'
        BY <3>2, <3>3, <2>1, <1>1 DEF BatchIInv, TypeOK
      <3>5. Imported' = Imported \cup {new}
        BY <3>2, <1>1, <1>2 DEF Imported
      <3>6. \A b \in Imported : /\ b.number < monitor.next
                                /\ b.number = monitor.next - 1 => b.branch = monitor.parent
        BY DEF BatchIInv, ImportedOnce
      <3>7. \A b \in Imported : b.number \in Int
        <4>1. service.inProgress \subseteq Block
          BY DEF BatchIInv, TypeOK
        <4>2. Conflated \subseteq Block
          <5>1. \A i \in DOMAIN batches : batches[i].blocks \subseteq Block
            <6>1. \A i \in DOMAIN batches : batches[i] \in BatchRecord
              BY SMTT(30) DEF BatchIInv, TypeOK
            <6> QED
              BY <6>1 DEF BatchRecord
          <5> QED
            BY <5>1 DEF Conflated
        <4> QED
          BY <4>1, <4>2, <1>3, ConstantsAssumption, SMTT(30) DEF Imported, Block
      <3>8. new \notin Imported
        BY <3>2, <3>6, <1>3, SMTT(30)
      <3>9. ImportedOnce'
        <4>1. inTransit' \cap service'.inProgress = {}
          BY <3>2, <3>8, <1>1 DEF BatchIInv, ImportedOnce, Imported
        <4>2. \A b \in Imported' : /\ b.number < monitor'.next
                                   /\ b.number = monitor'.next - 1 => b.branch = monitor'.parent
          BY <3>2, <3>3, <3>5, <3>6, <3>7, <1>3, SMTT(30)
        <4>3. ASSUME NEW b \in Imported', NEW c \in Imported'
              PROVE  /\ b.number = c.number => b = c
                     /\ c.number = b.number + 1 => c.parent = b.branch
          <5>1. CASE b \in Imported /\ c \in Imported
            BY <5>1 DEF BatchIInv, ImportedOnce
          <5>2. CASE b = new /\ c \in Imported
            BY <5>2, <3>2, <3>6, <3>7, <1>3, SMTT(30)
          <5>3. CASE b \in Imported /\ c = new
            BY <5>3, <3>2, <3>6, <3>7, <1>3, SMTT(30)
          <5>4. CASE b = new /\ c = new
            BY <5>4, <3>2, <1>3, SMTT(30)
          <5> QED
            BY <5>1, <5>2, <5>3, <5>4, <3>5
        <4> QED
          BY <4>1, <4>2, <4>3 DEF ImportedOnce
      <3>10. ServedInOrder'
        <4>1. inflight.last < monitor.next /\ inflight.last \in Int
          BY ConstantsAssumption, SMTT(30) DEF BatchIInv, ServedInOrder, TypeOK
        <4> QED
          BY <4>1, <3>2, <3>3, <1>1, <1>3, SMTT(30) DEF BatchIInv, ServedInOrder
      <3> QED
        BY <3>4, <3>9, <3>10, <1>2 DEF BatchIInv
    <2> QED
      BY <2>2, <2>3
  <1>6. CASE FailTracesCounters
    <2>1. inTransit' \subseteq inTransit /\ chain' = chain /\ monitor' = monitor
      BY <1>6 DEF FailTracesCounters
    <2>2. TypeOK'
      BY <2>1, <1>1 DEF BatchIInv, TypeOK
    <2>3. Imported' \subseteq Imported
      BY <2>1, <1>1, <1>2 DEF Imported
    <2>4. ImportedOnce'
      BY <2>1, <2>3, <1>1 DEF BatchIInv, ImportedOnce
    <2>5. ServedInOrder'
      BY <2>1, <1>1 DEF BatchIInv, ServedInOrder
    <2> QED
      BY <2>2, <2>4, <2>5, <1>2 DEF BatchIInv
  <1> QED
    BY <1>4, <1>5, <1>6

(* The importing thread ****************************************************)

\* Going on with the queue leaves the thread idle or about to send.
LEMMA SendBlocksInOrderType ==
    ASSUME NEW queue, NEW last, NEW locks \in [Lock -> Thread \cup {None}],
           SendBlocksInOrder(queue, last, locks)
    PROVE  /\ importer' \in [pc : {"idle", "send"}, block : {None}]
           /\ owner' \in [Lock -> Thread \cup {None}]
           /\ owner'["batch"] = locks["batch"]
  BY DEF SendBlocksInOrder, Thread, Lock

\* Blocks enter the queue in any order and leave it in the order of their numbers.
LEMMA QueueIInv ==
    ASSUME BatchIInv, NewBlock \/ EnterNewBlock
    PROVE  BatchIInv'
  <1>1. UNCHANGED <<chain, monitor, check, inflight, batches>>
    BY DEF NewBlock, EnterNewBlock, sourceVars, calculatorVars, out
  <1>2. BatchesPartitionTheBlocks' /\ Conflated' = Conflated /\ LastProvable' = LastProvable
    BY <1>1, SMTT(30) DEF BatchIInv, BatchesPartitionTheBlocks, Conflated, LastProvable
  <1>3. /\ service \in [queue : SUBSET Block, inProgress : SUBSET Block] /\ inTransit \subseteq Block
        /\ owner \in [Lock -> Thread \cup {None}]
    BY DEF BatchIInv, TypeOK
  <1>4. CASE NewBlock
    <2>1. PICK block \in inTransit :
             /\ inTransit' = inTransit \ {block}
             /\ service' = [queue |-> service.queue \cup {block},
                            inProgress |-> service.inProgress \cup {block}]
             /\ SendBlocksInOrder(service.queue \cup {block}, inflight.last, owner)
      BY <1>4, ZenonT(30) DEF NewBlock
    <2>2. /\ importer' \in [pc : {"idle", "send"}, block : {None}]
          /\ owner' \in [Lock -> Thread \cup {None}] /\ owner'["batch"] = owner["batch"]
      BY <2>1, <1>3, SendBlocksInOrderType
    <2>3. /\ service'.queue = service.queue \cup {block}
          /\ service'.inProgress = service.inProgress \cup {block}
          /\ service' \in [queue : SUBSET Block, inProgress : SUBSET Block]
          /\ inTransit' \subseteq Block
      BY <2>1, <1>3
    <2>4. TypeOK'
      BY <2>2, <2>3, <1>1 DEF BatchIInv, TypeOK
    <2>5. Locking'
      BY <2>2, <1>1 DEF BatchIInv, Locking
    <2>6. Imported' = Imported
      BY <2>1, <2>3, <1>2 DEF Imported
    <2>7. ImportedOnce'
      <3>1. inTransit' \cap service'.inProgress = {}
        BY <2>1, <2>3 DEF BatchIInv, ImportedOnce
      <3> QED
        BY <3>1, <2>6, <1>1 DEF BatchIInv, ImportedOnce
    <2>8. ServedInOrder'
      BY <2>1, <2>2, <2>3, <1>1 DEF BatchIInv, ServedInOrder
    <2>9. OpenBatchFollows'
      BY <2>3, <1>1, <1>2 DEF BatchIInv, OpenBatchFollows
    <2> QED
      BY <2>4, <2>5, <2>7, <2>8, <2>9, <1>2 DEF BatchIInv
  <1>5. CASE EnterNewBlock
    <2>1. PICK block \in NextAvailable(service.queue, inflight.last) :
             /\ service' = [service EXCEPT !.queue = @ \ {block}]
             /\ importer' = [pc |-> "conflate", block |-> block]
      BY <1>5, ZenonT(30) DEF EnterNewBlock
    <2>2. block \in service.queue /\ block.number = inflight.last + 1
      BY <2>1 DEF NextAvailable
    <2>3. /\ service'.queue = service.queue \ {block}
          /\ service'.inProgress = service.inProgress
          /\ service' \in [queue : SUBSET Block, inProgress : SUBSET Block]
      BY <2>1, <1>3
    <2>4. inTransit' = inTransit /\ owner' = [owner EXCEPT !["blob"] = "importer"]
      BY <1>5 DEF EnterNewBlock, sourceVars
    <2>5. owner' \in [Lock -> Thread \cup {None}] /\ owner'["batch"] = owner["batch"]
      BY <2>4, <1>3 DEF Lock, Thread
    <2>6. TypeOK'
      <3>1. importer' \in [pc : {"idle", "send", "conflate", "reset", "append"},
                           block : Block \cup {None}]
        BY <2>1, <2>2, <1>3
      <3> QED
        BY <3>1, <2>3, <2>4, <2>5, <1>1 DEF BatchIInv, TypeOK
    <2>7. Locking'
      BY <2>1, <2>5, <1>1 DEF BatchIInv, Locking
    <2>8. ImportedOnce'
      BY <2>3, <2>4, <1>1, <1>2 DEF BatchIInv, ImportedOnce, Imported
    <2>9. ServedInOrder'
      BY <2>1, <2>2, <2>3, <2>4, <1>1 DEF BatchIInv, ServedInOrder
    <2>10. OpenBatchFollows'
      BY <2>3, <1>1, <1>2 DEF BatchIInv, OpenBatchFollows
    <2> QED
      BY <2>6, <2>7, <2>8, <2>9, <2>10, <1>2 DEF BatchIInv
  <1> QED
    BY <1>4, <1>5

\* conflateBlock preserves the invariant: it closes the open batch before a block that does
\* not fit, while no deadline check works on that batch.
LEMMA ConflateBlockIInv ==
    ASSUME BatchIInv, ConflateBlock
    PROVE  BatchIInv'
  <1>1. /\ importer.pc = "conflate" /\ owner["batch"] = None
        /\ owner' = [owner EXCEPT !["batch"] = "importer"]
        /\ UNCHANGED <<chain, monitor, inTransit, check>>
    BY DEF ConflateBlock, sourceVars
  <1>2. /\ owner \in [Lock -> Thread \cup {None}]
        /\ importer \in [pc : {"idle", "send", "conflate", "reset", "append"},
                         block : Block \cup {None}]
    BY DEF BatchIInv, TypeOK
  <1>3. owner' \in [Lock -> Thread \cup {None}] /\ owner'["batch"] = "importer"
    BY <1>1, <1>2 DEF Lock, Thread
  \* No check is between its locking of the batch and its unlocking.
  <1>4. \A d \in DeadlineChecks : check[d].pc \notin {"batch", "blob", "closed"}
    BY <1>1, ConstantsAssumption DEF BatchIInv, Locking
  <1>5. Locking'
    BY <1>1, <1>3, <1>4 DEF Locking
  <1>6. CASE Triggers(importer.block) # {} /\ inflight.start # None
    <2> DEFINE trigger == FirstTrigger(Triggers(importer.block))
    <2>1. trigger \in Trigger
      <3>1. Triggers(importer.block) \in SUBSET (Trigger \ {"TIME_LIMIT"})
        BY ZenonT(30) DEF Triggers
      <3> QED
        BY <3>1, <1>6, FirstTriggerType
    <2>2. /\ HandleBatchTrigger(Batch(trigger)) /\ inflight' = EmptyInflight
          /\ importer' = [importer EXCEPT !.pc = "reset"] /\ UNCHANGED sourceVars
      BY <1>6 DEF ConflateBlock
    <2>3. /\ importer'.pc = "reset" /\ importer'.block = importer.block
          /\ importer' \in [pc : {"idle", "send", "conflate", "reset", "append"},
                            block : Block \cup {None}]
      BY <2>2, <1>2
    <2> HIDE DEF trigger
    <2>4. /\ service' \in [queue : SUBSET Block, inProgress : SUBSET Block]
          /\ inflight' \in [last : 0..MaxBlock, start : 1..MaxBlock \cup {None},
                            count : Nat, traces : Nat]
          /\ batches' \in Seq(BatchRecord)
          /\ ImportedOnce' /\ ServedInOrder' /\ OpenBatchFollows' /\ BatchesPartitionTheBlocks'
      BY <2>1, <2>2, <2>3, <1>1, <1>6, CloseBatch
    <2>5. TypeOK'
      BY <2>3, <2>4, <1>1, <1>3 DEF BatchIInv, TypeOK
    <2> QED
      BY <2>4, <2>5, <1>5 DEF BatchIInv
  <1>7. CASE ~ (Triggers(importer.block) # {} /\ inflight.start # None)
    <2>1. /\ importer' = [importer EXCEPT !.pc = "append"]
          /\ UNCHANGED <<service, inflight, batches>>
      BY <1>7 DEF ConflateBlock, out
    <2>2. /\ importer'.pc = "append" /\ importer'.block = importer.block
          /\ importer' \in [pc : {"idle", "send", "conflate", "reset", "append"},
                            block : Block \cup {None}]
      BY <2>1, <1>2
    <2>3. TypeOK'
      BY <2>1, <2>2, <1>1, <1>3 DEF BatchIInv, TypeOK
    <2>4. ImportedOnce' /\ OpenBatchFollows' /\ BatchesPartitionTheBlocks'
      BY <2>1, <1>1, SMTT(30) DEF BatchIInv, ImportedOnce, Imported, Conflated, OpenBatchFollows, LastProvable,
                        BatchesPartitionTheBlocks
    <2>5. ServedInOrder'
      BY <2>1, <2>2, <1>1 DEF BatchIInv, ServedInOrder
    <2> QED
      BY <2>3, <2>4, <2>5, <1>5 DEF BatchIInv
  <1> QED
    BY <1>6, <1>7

\* The calculators append the block to the open batch, or open one with it.
LEMMA AppendBlockIInv ==
    ASSUME BatchIInv, AppendBlock
    PROVE  BatchIInv'
  <1> DEFINE block == importer.block
             locks == [owner EXCEPT !["batch"] = None, !["blob"] = None]
  <1>1. /\ importer.pc = "append"
        /\ inflight' = [last   |-> block.number,
                        start  |-> IF inflight.start = None THEN block.number ELSE inflight.start,
                        count  |-> inflight.count + 1,
                        traces |-> inflight.traces + block.kind.traces]
        /\ SendBlocksInOrder(service.queue, block.number, locks)
    BY SMTT(30) DEF AppendBlock
  <1>2. UNCHANGED <<chain, monitor, inTransit, service, check, batches>>
    BY DEF AppendBlock, sourceVars, out
  <1>3. /\ owner \in [Lock -> Thread \cup {None}] /\ owner["batch"] = "importer"
        /\ batches \in Seq(BatchRecord) /\ service.inProgress \subseteq Block
        /\ inTransit \subseteq Block
    BY <1>1 DEF BatchIInv, TypeOK, Locking
  <1>4. locks \in [Lock -> Thread \cup {None}]
    BY <1>3, SMTT(30) DEF Lock
  <1>5. /\ importer' \in [pc : {"idle", "send"}, block : {None}]
        /\ owner' \in [Lock -> Thread \cup {None}]
    BY <1>1, <1>4, SendBlocksInOrderType, ZenonT(30)
  <1>6. /\ block \in service.inProgress \ service.queue /\ block \in Block
        /\ block.number = inflight.last + 1
    BY <1>1, <1>3 DEF BatchIInv, ServedInOrder
  <1>7. /\ inflight.last \in Int /\ block.number \in 1..MaxBlock /\ block.number \in Int
        /\ block.kind.traces \in Nat
    <2>1. block.number \in 1..MaxBlock /\ block.kind \in BlockKinds
      BY <1>6 DEF Block
    <2>2. inflight.last \in Int /\ MaxBlock \in Int
      BY ConstantsAssumption, SMTT(30) DEF BatchIInv, TypeOK
    <2>3. block.kind.traces \in Nat
      BY <2>1, ConstantsAssumption
    <2> QED
      BY <2>1, <2>2, <2>3, SMTT(30)
  <1> HIDE DEF block, locks
  <1>8. TypeOK'
    <2>1. inflight' \in [last : 0..MaxBlock, start : 1..MaxBlock \cup {None},
                         count : Nat, traces : Nat]
      <3>1. /\ inflight.start \in 1..MaxBlock \cup {None}
            /\ inflight.count \in Nat /\ inflight.traces \in Nat
        BY DEF BatchIInv, TypeOK
      <3>2. block.number \in 0..MaxBlock
        BY <1>7, ConstantsAssumption, SMTT(30)
      <3> QED
        BY <3>1, <3>2, <1>1, <1>7, SMTT(30)
    <2> QED
      BY <2>1, <1>2, <1>5 DEF BatchIInv, TypeOK
  <1>9. Locking'
    <2>1. \A d \in DeadlineChecks : check[d].pc \notin {"batch", "blob", "closed"}
      BY <1>3, ConstantsAssumption DEF BatchIInv, Locking
    <2> QED
      BY <2>1, <1>2, <1>5 DEF Locking
  <1>10. ImportedOnce' /\ BatchesPartitionTheBlocks'
    <2>1. Imported' = Imported
      BY <1>2 DEF Imported, Conflated
    <2>2. ImportedOnce'
      BY <2>1, <1>2 DEF BatchIInv, ImportedOnce
    <2> QED
      BY <2>2, <1>2 DEF BatchIInv, BatchesPartitionTheBlocks
  <1>11. ServedInOrder'
    <2>1. inflight'.last = inflight.last + 1 /\ importer'.pc \in {"idle", "send"}
      BY <1>1, <1>5, <1>6
    <2>2. block.number < monitor.next
      BY <1>6 DEF BatchIInv, ImportedOnce, Imported
    <2>3. \A b \in inTransit \cup service.queue : b.number > inflight.last + 1
      <3>1. TAKE b \in inTransit \cup service.queue
      <3>2. b # block
        BY <1>6 DEF BatchIInv, ImportedOnce
      <3>3. b \in Imported /\ block \in Imported
        BY <1>6 DEF BatchIInv, ServedInOrder, Imported
      <3>4. b.number # block.number
        BY <3>2, <3>3 DEF BatchIInv, ImportedOnce
      <3>5. b.number > inflight.last /\ b.number \in Int
        <4>1. b \in Block
          BY <1>3 DEF BatchIInv, ServedInOrder
        <4> QED
          BY <4>1, ConstantsAssumption, SMTT(30) DEF BatchIInv, ServedInOrder, Block
      <3> QED
        BY <3>4, <3>5, <1>6, <1>7, SMTT(30)
    <2> QED
      BY <2>1, <2>2, <2>3, <1>2, <1>6 DEF BatchIInv, ServedInOrder
  <1>12. OpenBatchFollows'
    <2>1. LastProvable' = LastProvable /\ LastProvable \in Int
      BY <1>2, <1>3, LastProvableType DEF LastProvable
    <2>2. inflight'.last = inflight.last + 1 /\ inflight'.start # None
      BY <1>1, <1>6, <1>7, ConstantsAssumption
    <2>3. inflight'.start = LastProvable + 1 /\ inflight'.start <= inflight'.last
      <3>1. CASE inflight.start = None
        BY <3>1, <2>1, <1>1, <1>6, <1>7, SMTT(30) DEF BatchIInv, OpenBatchFollows
      <3>2. CASE inflight.start # None
        BY <3>2, <2>1, <1>1, <1>6, <1>7, SMTT(30) DEF BatchIInv, OpenBatchFollows
      <3> QED
        BY <3>1, <3>2
    <2>4. \A n \in LastProvable + 1..inflight.last + 1 : \E b \in service.inProgress : b.number = n
      <3>1. TAKE n \in LastProvable + 1..inflight.last + 1
      <3>2. CASE n = inflight.last + 1
        BY <3>2, <1>6
      <3>3. CASE n # inflight.last + 1
        BY <3>3, <2>1, <1>7, SMTT(30) DEF BatchIInv, OpenBatchFollows
      <3> QED
        BY <3>2, <3>3
    <2> QED
      BY <2>1, <2>2, <2>3, <2>4, <1>2 DEF OpenBatchFollows
  <1> QED
    BY <1>8, <1>9, <1>10, <1>11, <1>12 DEF BatchIInv

\* Steps that touch neither blocks nor batches only have to respect the locks.
LEMMA FrameIInv ==
    ASSUME BatchIInv, UNCHANGED <<chain, monitor, inTransit, service, inflight, batches>>,
           Locking',
           importer' \in [pc : {"idle", "send", "conflate", "reset", "append"},
                          block : Block \cup {None}],
           importer'.block = importer.block,
           importer'.pc \in {"conflate", "reset", "append"}
               => importer.pc \in {"conflate", "reset", "append"},
           check' \in [DeadlineChecks ->
                         [pc : {"idle", "requested", "trigger", "batch", "blob", "closed", "reset"},
                          head : 0..MaxBlock, inline : BOOLEAN]],
           owner' \in [Lock -> Thread \cup {None}]
    PROVE  BatchIInv'
  <1>1. TypeOK'
    BY SMTT(30) DEF BatchIInv, TypeOK
  <1>2. ImportedOnce' /\ OpenBatchFollows' /\ BatchesPartitionTheBlocks'
    BY SMTT(30) DEF BatchIInv, ImportedOnce, Imported, Conflated, OpenBatchFollows, LastProvable,
           BatchesPartitionTheBlocks
  <1>3. ServedInOrder'
    BY DEF BatchIInv, ServedInOrder
  <1> QED
    BY <1>1, <1>2, <1>3 DEF BatchIInv

\* The thread resets the deadline and goes on to append the block.
LEMMA ResetDeadlineIInv ==
    ASSUME BatchIInv, ResetDeadline
    PROVE  BatchIInv'
  <1>1. /\ importer.pc = "reset" /\ importer' = [importer EXCEPT !.pc = "append"]
        /\ UNCHANGED <<chain, monitor, inTransit, service, inflight, batches, check, owner>>
    BY DEF ResetDeadline, sourceVars, out
  <1>2. /\ importer'.pc = "append" /\ importer'.block = importer.block
        /\ importer' \in [pc : {"idle", "send", "conflate", "reset", "append"},
                          block : Block \cup {None}]
    <2>1. importer \in [pc : {"idle", "send", "conflate", "reset", "append"},
                       block : Block \cup {None}]
      BY SMTT(60) DEF BatchIInv, TypeOK
    <2> QED
      BY <2>1, <1>1
  <1>3. Locking'
    BY <1>1, <1>2 DEF BatchIInv, Locking
  <1>4. /\ owner' \in [Lock -> Thread \cup {None}]
        /\ check' \in [DeadlineChecks ->
                         [pc : {"idle", "requested", "trigger", "batch", "blob", "closed", "reset"},
                          head : 0..MaxBlock, inline : BOOLEAN]]
    BY <1>1 DEF BatchIInv, TypeOK
  <1> QED
    BY <1>1, <1>2, <1>3, <1>4, FrameIInv

(* The deadline checks *****************************************************)

\* Deadline checks preserve the invariant: from HandleConflationTrigger to ResetByDeadline a
\* check owns the batch, which is open until it closes it.
LEMMA DeadlineIInv ==
    ASSUME BatchIInv, NEW d \in DeadlineChecks,
           CheckConflationDeadline(d) \/ FindNoMoreBlocks(d) \/ GiveUpCheck(d) \/ Proceed(d)
    PROVE  BatchIInv'
  <1> DEFINE Check == [pc : {"idle", "requested", "trigger", "batch", "blob", "closed", "reset"},
                       head : 0..MaxBlock, inline : BOOLEAN]
  <1>1. /\ importer' = importer /\ UNCHANGED <<chain, monitor, inTransit>>
        /\ importer \in [pc : {"idle", "send", "conflate", "reset", "append"},
                         block : Block \cup {None}]
    BY DEF BatchIInv, TypeOK, CheckConflationDeadline, FindNoMoreBlocks, GiveUpCheck, Proceed,
           HandleConflationTrigger, EnterBlobCalculator, CloseByDeadline, ResetByDeadline,
           FinishCheck, sourceVars
  <1>2. /\ check \in [DeadlineChecks -> Check] /\ owner \in [Lock -> Thread \cup {None}]
        /\ d \in Thread /\ Len(chain) \in 0..MaxBlock
    <2>1. Len(chain) \in Nat /\ Len(chain) <= MaxBlock
      BY SMTT(30) DEF BatchIInv, TypeOK
    <2> QED
      BY <2>1, ConstantsAssumption, SMTT(30) DEF BatchIInv, TypeOK, Thread
  <1>3. /\ importer.pc \in {"reset", "append"} => owner["batch"] = "importer"
        /\ \A e \in DeadlineChecks :
              /\ check[e].pc \in {"batch", "blob", "closed"} => owner["batch"] = e
              /\ check[e].pc \in {"batch", "blob"} => inflight.start # None
    BY DEF BatchIInv, Locking
  <1> HIDE DEF Check
  <1>4. ASSUME NEW c \in Check, check' = [check EXCEPT ![d] = c],
               owner' \in [Lock -> Thread \cup {None}], owner'["batch"] = owner["batch"],
               c.pc \in {"batch", "blob", "closed"} => check[d].pc \in {"batch", "blob"},
               UNCHANGED <<service, inflight, batches>>, c.pc # "closed"
        PROVE  BatchIInv'
    <2>1. check' \in [DeadlineChecks -> Check]
      BY <1>2, <1>4, SMTT(30)
    <2>2. Locking'
      <3>1. check'[d] = c /\ \A e \in DeadlineChecks \ {d} : check'[e] = check[e]
        BY <1>2, <1>4
      <3>2. c.pc \in {"batch", "blob", "closed"} => owner["batch"] = d /\ inflight.start # None
        BY <1>3, <1>4
      <3> QED
        BY <3>1, <3>2, <1>1, <1>3, <1>4 DEF Locking
    <2> QED
      BY <2>1, <2>2, <1>1, <1>4, FrameIInv DEF Check
  <1>5. CASE CheckConflationDeadline(d)
    <2>1. PICK inline \in BOOLEAN :
             /\ check' = [check EXCEPT ![d] = [pc |-> "requested", head |-> Len(chain), inline |-> inline]]
             /\ owner' = [owner EXCEPT !["deadline"] = IF inline THEN d ELSE None]
      BY <1>5, ZenonT(30) DEF CheckConflationDeadline
    <2>2. [pc |-> "requested", head |-> Len(chain), inline |-> inline] \in Check
      BY <1>2 DEF Check
    <2>3. owner' \in [Lock -> Thread \cup {None}] /\ owner'["batch"] = owner["batch"]
      BY <2>1, <1>2, SMTT(30) DEF Lock
    <2>4. UNCHANGED <<service, inflight, batches>>
      BY <1>5 DEF CheckConflationDeadline, calculatorVars, out
    <2> QED
      BY <2>1, <2>2, <2>3, <2>4, <1>4, ZenonT(30)
  <1>6. CASE FindNoMoreBlocks(d)
    <2> DEFINE c == [check[d] EXCEPT !.pc = "trigger", !.head = 0]
    <2>1. check' = [check EXCEPT ![d] = c] /\ UNCHANGED <<service, inflight, batches, owner>>
      BY <1>6, <1>2, ZenonT(30) DEF FindNoMoreBlocks, calculatorVars, out, Check
    <2>2. c \in Check /\ c.pc = "trigger"
      <3>1. check[d] \in Check /\ 0 \in 0..MaxBlock
        BY <1>2, ConstantsAssumption, SMTT(30)
      <3> QED
        BY <3>1, ZenonT(30) DEF Check
    <2> HIDE DEF c
    <2> QED
      BY <2>1, <2>2, <1>2, <1>4, ZenonT(30)
  <1>7. CASE GiveUpCheck(d)
    <2>1. /\ check' = [check EXCEPT ![d] = NoCheck]
          /\ owner' = [owner EXCEPT !["deadline"] = IF check[d].inline THEN None ELSE @]
          /\ UNCHANGED <<service, inflight, batches>>
      BY <1>7 DEF GiveUpCheck, calculatorVars, out
    <2>2. NoCheck \in Check /\ NoCheck.pc = "idle"
      BY ConstantsAssumption, SMTT(30) DEF NoCheck, Check
    <2>3. owner' \in [Lock -> Thread \cup {None}] /\ owner'["batch"] = owner["batch"]
      BY <2>1, <1>2 DEF Lock
    <2> QED
      BY <2>1, <2>2, <2>3, <1>4, ZenonT(30)
  <1>8. CASE HandleConflationTrigger(d)
    <2>1. check[d].pc = "trigger" /\ owner["batch"] = None /\ UNCHANGED <<service, inflight, batches>>
      BY <1>8 DEF HandleConflationTrigger, calculatorVars, out
    <2>2. CASE inflight.start = None
      <3> DEFINE c == [check[d] EXCEPT !.pc = "reset"]
      <3>1. check' = [check EXCEPT ![d] = c] /\ owner' = owner
        BY <1>8, <2>2 DEF HandleConflationTrigger
      <3>2. c \in Check /\ c.pc = "reset"
        BY <1>2 DEF Check
      <3> HIDE DEF c
      <3> QED
        BY <3>1, <3>2, <2>1, <1>2, <1>4, ZenonT(30)
    <2>3. CASE inflight.start # None
      <3> DEFINE c == [check[d] EXCEPT !.pc = "batch"]
      <3>1. check' = [check EXCEPT ![d] = c] /\ owner' = [owner EXCEPT !["batch"] = d]
        BY <1>8, <2>3 DEF HandleConflationTrigger
      <3>2. c \in Check /\ c.pc = "batch"
        BY <1>2 DEF Check
      <3>3. owner' \in [Lock -> Thread \cup {None}] /\ owner'["batch"] = d
        BY <3>1, <1>2 DEF Lock
      <3> HIDE DEF c
      <3>4. check' \in [DeadlineChecks -> Check]
        BY <3>1, <3>2, <1>2
      \* Nobody else was at work on the batch.
      <3>5. /\ importer.pc \notin {"reset", "append"}
            /\ \A e \in DeadlineChecks : check[e].pc \notin {"batch", "blob", "closed"}
        BY <2>1, <1>3, ConstantsAssumption
      <3>6. Locking'
        BY <3>1, <3>2, <3>3, <3>5, <2>1, <2>3, <1>1, <1>2 DEF Locking
      <3> QED
        BY <3>3, <3>4, <3>6, <2>1, <1>1, FrameIInv DEF Check
    <2> QED
      BY <2>2, <2>3
  <1>9. CASE EnterBlobCalculator(d)
    <2> DEFINE c == [check[d] EXCEPT !.pc = "blob"]
    <2>1. /\ check[d].pc = "batch" /\ check' = [check EXCEPT ![d] = c]
          /\ owner' = [owner EXCEPT !["blob"] = d] /\ UNCHANGED <<service, inflight, batches>>
      BY <1>9 DEF EnterBlobCalculator, calculatorVars, out
    <2>2. c \in Check /\ c.pc = "blob"
      BY <1>2 DEF Check
    <2>3. owner' \in [Lock -> Thread \cup {None}] /\ owner'["batch"] = owner["batch"]
      BY <2>1, <1>2 DEF Lock
    <2> HIDE DEF c
    <2> QED
      BY <2>1, <2>2, <2>3, <1>4, ZenonT(30)
  <1>10. CASE CloseByDeadline(d)
    <2> DEFINE c == [check[d] EXCEPT !.pc = "closed"]
    <2>1. /\ check[d].pc = "blob" /\ check' = [check EXCEPT ![d] = c]
          /\ owner' = [owner EXCEPT !["blob"] = None]
          /\ HandleBatchTrigger(Batch("TIME_LIMIT")) /\ inflight' = EmptyInflight
          /\ UNCHANGED sourceVars
      BY <1>10 DEF CloseByDeadline
    <2>2. c \in Check /\ c.pc = "closed"
      BY <1>2 DEF Check
    <2>3. owner' \in [Lock -> Thread \cup {None}] /\ owner'["batch"] = owner["batch"]
      BY <2>1, <1>2 DEF Lock
    <2> HIDE DEF c
    <2>4. check' \in [DeadlineChecks -> Check]
      BY <2>1, <2>2, <1>2
    <2>5. /\ service' \in [queue : SUBSET Block, inProgress : SUBSET Block]
          /\ inflight' \in [last : 0..MaxBlock, start : 1..MaxBlock \cup {None},
                            count : Nat, traces : Nat]
          /\ batches' \in Seq(BatchRecord)
          /\ ImportedOnce' /\ ServedInOrder' /\ OpenBatchFollows' /\ BatchesPartitionTheBlocks'
      <3>1. "TIME_LIMIT" \in Trigger /\ inflight.start # None
        BY <2>1, <1>3 DEF Trigger
      <3> QED
        BY <3>1, <2>1, <1>1, CloseBatch
    <2>6. TypeOK'
      BY <2>3, <2>4, <2>5, <1>1, SMTT(30) DEF BatchIInv, TypeOK, Check
    <2>7. Locking'
      <3>1. owner["batch"] = d
        BY <2>1, <1>3, SMTT(30)
      <3>2. \A e \in DeadlineChecks \ {d} : check[e].pc \notin {"batch", "blob", "closed"}
        BY <3>1, <1>3
      <3>3. \A e \in DeadlineChecks \ {d} : check'[e] = check[e]
        BY <2>1, <1>2
      <3>4. check'[d] = c
        BY <2>1, <1>2
      <3> QED
        BY <3>1, <3>2, <3>3, <3>4, <2>2, <2>3, <1>1, <1>3 DEF Locking
    <2> QED
      BY <2>5, <2>6, <2>7 DEF BatchIInv
  <1>11. CASE ResetByDeadline(d)
    <2> DEFINE c == [check[d] EXCEPT !.pc = "reset"]
    <2>1. /\ check[d].pc = "closed" /\ check' = [check EXCEPT ![d] = c]
          /\ owner' = [owner EXCEPT !["batch"] = None] /\ UNCHANGED <<service, inflight, batches>>
      BY <1>11 DEF ResetByDeadline, out
    <2>2. c \in Check /\ c.pc = "reset"
      BY <1>2 DEF Check
    <2>3. owner' \in [Lock -> Thread \cup {None}]
      BY <2>1, <1>2 DEF Lock
    <2> HIDE DEF c
    <2>4. check' \in [DeadlineChecks -> Check] /\ check'[d] = c
          /\ \A e \in DeadlineChecks \ {d} : check'[e] = check[e]
      BY <2>1, <2>2, <1>2, SMTT(30)
    <2>5. Locking'
      <3>1. owner["batch"] = d /\ d # "importer"
        BY <2>1, <1>3, ConstantsAssumption, SMTT(30)
      <3>2. importer.pc \notin {"reset", "append"}
        BY <3>1, <1>3
      <3>3. \A e \in DeadlineChecks \ {d} : check[e].pc \notin {"batch", "blob", "closed"}
        BY <3>1, <1>3
      <3> QED
        BY <3>2, <3>3, <2>2, <2>4, <1>1, SMTT(30) DEF Locking
    <2> QED
      BY <2>1, <2>3, <2>4, <2>5, <1>1, FrameIInv DEF Check
  <1>12. CASE FinishCheck(d)
    <2>1. /\ check' = [check EXCEPT ![d] = NoCheck]
          /\ owner' = [owner EXCEPT !["deadline"] = None]
          /\ UNCHANGED <<service, inflight, batches>>
      BY <1>12 DEF FinishCheck, out
    <2>2. NoCheck \in Check /\ NoCheck.pc = "idle"
      BY ConstantsAssumption, SMTT(30) DEF NoCheck, Check
    <2>3. owner' \in [Lock -> Thread \cup {None}] /\ owner'["batch"] = owner["batch"]
      BY <2>1, <1>2 DEF Lock
    <2> QED
      BY <2>1, <2>2, <2>3, <1>4, ZenonT(30)
  <1> QED
    BY <1>5, <1>6, <1>7, <1>8, <1>9, <1>10, <1>11, <1>12 DEF Proceed

(* The theorems ************************************************************)

\* Every step preserves the invariant.
LEMMA NextIInv == BatchIInv /\ [Next]_vars => BatchIInv'
  <1> SUFFICES ASSUME BatchIInv, [Next]_vars PROVE BatchIInv'
    OBVIOUS
  <1>1. CASE Next
    <2>1. CASE ProduceBlock \/ Reorg \/ MonitorAction \/ FailTracesCounters
      BY <2>1, ImportIInv
    <2>2. CASE NewBlock \/ EnterNewBlock
      BY <2>2, QueueIInv
    <2>3. CASE ConflateBlock
      BY <2>3, ConflateBlockIInv
    <2>4. CASE ResetDeadline
      BY <2>4, ResetDeadlineIInv
    <2>5. CASE AppendBlock
      BY <2>5, AppendBlockIInv
    <2>6. CASE \E d \in DeadlineChecks :
                  CheckConflationDeadline(d) \/ FindNoMoreBlocks(d) \/ GiveUpCheck(d) \/ Proceed(d)
      BY <2>6, DeadlineIInv
    <2> QED
      BY <1>1, <2>1, <2>2, <2>3, <2>4, <2>5, <2>6 DEF Next, Import
  <1>2. CASE UNCHANGED vars
    <2>1. UNCHANGED <<chain, monitor, inTransit, service, importer, check, owner, inflight, batches>>
      BY <1>2 DEF vars, sourceVars, calculatorVars, out
    <2>2. TypeOK' /\ Locking'
      BY <2>1, SMTT(30) DEF BatchIInv, TypeOK, Locking
    <2>3. ImportedOnce' /\ OpenBatchFollows' /\ BatchesPartitionTheBlocks' /\ ServedInOrder'
      BY <2>1, SMTT(30) DEF BatchIInv, ImportedOnce, Imported, Conflated, OpenBatchFollows, LastProvable,
                  BatchesPartitionTheBlocks, ServedInOrder
    <2> QED
      BY <2>2, <2>3 DEF BatchIInv
  <1> QED
    BY <1>1, <1>2

\* The invariant holds in every reachable state of the coordinator's conflation.
THEOREM ConflationInvariance == Spec => []BatchIInv
  BY InitIInv, NextIInv, PTL DEF Spec

\* For every chain, every order in which trace counters arrive, every number of deadline
\* checks and every limit, the batches cover the blocks without gap, overlap or repetition.
THEOREM ConflationIsAPartition == Spec => []BatchesPartitionTheBlocks
  <1>1. BatchIInv => BatchesPartitionTheBlocks
    BY DEF BatchIInv
  <1> QED
    BY <1>1, ConflationInvariance, PTL

\* The blocks of all batches are one chain, whenever the L2 node reorganizes.
THEOREM ConflationFollowsOneChain == Spec => []BatchesFollowOneChain
  <1>1. BatchIInv => BatchesFollowOneChain
    BY DEF BatchIInv, ImportedOnce, Imported, BatchesFollowOneChain
  <1> QED
    BY <1>1, ConflationInvariance, PTL

=============================================================================
