----------------------------- MODULE Conflation -----------------------------
(* Conflation (V1) in the coordinator: L2 blocks become batches, batches       *)
(* become blobs.  The BlockCreationMonitor follows the L2 chain;               *)
(* BlockToBatchSubmissionCoordinator asks for trace counters of several blocks *)
(* at once, so blocks reach the ConflationService in any order; the service    *)
(* feeds the calculators in order; a timer closes the batch of a silent chain. *)
(*                                                                             *)
(* The importing thread and the deadline checks run concurrently.  Their       *)
(* monitors are modelled as locks, in the order in which the code takes them:  *)
(*   service   ConflationServiceImpl                                           *)
(*   blob      GlobalBlobAwareConflationCalculator                             *)
(*   batch     GlobalBlockConflationCalculator                                 *)
(*   deadline  ConflationTriggerCalculatorByTimeDeadline                       *)
(* A step ends where the thread has to wait for the next lock.                 *)
EXTENDS Integers, Sequences, FiniteSets

CONSTANTS
    MaxBlock,           \* bound: blocks of the L2 chain
    BlockKinds,         \* what distinguishes blocks: records [data, traces, fork]
    BlocksLimit,        \* conflation.blocksLimit
    TracesLimit,        \* limit of the trace counters, one module
    DataLimit,          \* capacity of the blob compressor
    BatchOverhead,      \* what startNewBatch adds to the compressed data
    BatchesLimit,       \* batches in a blob
    TargetEndBlocks,    \* ends of aggregations that may be configured
    FetchLimit,         \* l2FetchBlocksLimit: how far import runs ahead of proving
    DeadlineChecks,     \* bound: deadline checks under way at a time
    None

ASSUME ConstantsAssumption ==
    /\ MaxBlock \in Nat \ {0}
    /\ BlockKinds \subseteq [data : 1..DataLimit, traces : Nat, fork : BOOLEAN]
    /\ BlocksLimit \in Nat \ {0}
    /\ TracesLimit \in Nat \ {0}
    /\ DataLimit \in Nat \ {0}
    /\ BatchOverhead \in Nat
    /\ BatchesLimit \in Nat \ {0}
    /\ TargetEndBlocks \subseteq Nat
    /\ FetchLimit \in Nat /\ FetchLimit > BlocksLimit
    /\ "importer" \notin DeadlineChecks
    /\ None \notin Int \cup DeadlineChecks \cup {"importer"}

Thread == DeadlineChecks \cup {"importer"}

Lock == {"service", "blob", "batch", "deadline"}

VARIABLES
    chain,          \* the canonical L2 chain: its blocks, first to last
    monitor,        \* BlockCreationMonitor: [next, parent, stopped]
    inTransit,      \* blocks whose trace counters were requested
    service,        \* ConflationServiceImpl: [queue, inProgress]
    importer,       \* the thread in ConflationServiceImpl.newBlock: [pc, block]
    check,          \* DeadlineChecks -> [pc, head, inline]
    owner,          \* Lock -> the thread that holds it, or None
    inflight,       \* GlobalBlockConflationCalculator: [last, start, count, traces]
    deadline,       \* ...ByTimeDeadline: [started, last]
    compressor,     \* ...ByDataCompressed and its compressor: [blocks, size, drained]
    blob,           \* GlobalBlobAwareConflationCalculator: [batches, counters]
    targets,        \* aggregationTargetEndBlocks
    batches,        \* conflated batches handed to the listener
    blobs           \* blobs handed to the blob handler

sourceVars == <<chain, monitor, inTransit>>
calculatorVars == <<inflight, deadline, compressor, blob, targets>>
out == <<batches, blobs>>
vars == <<sourceVars, service, importer, check, owner, calculatorVars, out>>

-----------------------------------------------------------------------------

Idle == [pc |-> "idle", block |-> None]

NoCheck == [pc |-> "idle", head |-> 0, inline |-> FALSE]

EmptyCompressor == [blocks |-> <<>>, size |-> 0, drained |-> FALSE]

Init ==
    /\ chain = <<>>
    /\ monitor = [next |-> 1, parent |-> 0, stopped |-> FALSE]
    /\ inTransit = {}
    /\ service = [queue |-> {}, inProgress |-> {}]
    /\ importer = Idle
    /\ check = [d \in DeadlineChecks |-> NoCheck]
    /\ owner = [l \in Lock |-> None]
    /\ inflight = [last |-> 0, start |-> None, count |-> 0, traces |-> 0]
    /\ deadline = [started |-> FALSE, last |-> 0]
    /\ compressor = EmptyCompressor
    /\ blob = [batches |-> <<>>, counters |-> <<>>]
    /\ targets \in SUBSET TargetEndBlocks
    /\ batches = <<>>
    /\ blobs = <<>>

-----------------------------------------------------------------------------
(* The L2 chain and its import                                                *)

\* The branch a block is on stands for its hash.
HeadBranch == IF chain = <<>> THEN 0 ELSE chain[Len(chain)].branch

ProduceBlock ==
    /\ Len(chain) < MaxBlock
    /\ chain' = Append(chain, [branch |-> HeadBranch, parent |-> HeadBranch])
    /\ UNCHANGED <<monitor, inTransit, service, importer, check, owner, calculatorVars, out>>

\* At most once, the node switches to another branch: the blocks from n on.  A switch that
\* replaces no imported block is not noticed.
Reorg ==
    /\ HeadBranch = 0
    /\ \E n \in 1..monitor.next - 1 :
          chain' = [i \in 1..Len(chain) |->
                       IF i < n THEN chain[i]
                       ELSE [branch |-> 1, parent |-> IF i = n THEN 0 ELSE 1]]
    /\ UNCHANGED <<monitor, inTransit, service, importer, check, owner, calculatorVars, out>>

\* Any batch handed out may be proven by now.
LastProvable == IF batches = <<>> THEN 0 ELSE batches[Len(batches)].end

\* Mutant: the limit itself is excluded.
NextBlockNumberBelowLimit == monitor.next - LastProvable < FetchLimit

NextBlockNumberWithinLimit == monitor.next - LastProvable <= FetchLimit

\* Mutant: the parent hash is not compared.
IsAnyChild(block) == TRUE

\* block.parentHash.contentEquals(expectedParentBlockHash)
IsExpectedChild(block) == block.parent = monitor.parent

\* One tick of the BlockCreationMonitor.  What a block holds is chosen where it is first read.
MonitorAction ==
    /\ ~ monitor.stopped
    /\ NextBlockNumberWithinLimit
    /\ monitor.next <= Len(chain)
    /\ LET block == chain[monitor.next] IN
       IF IsExpectedChild(block)
       THEN /\ \E kind \in BlockKinds :
                  inTransit' = inTransit \cup {[number |-> monitor.next, branch |-> block.branch,
                                               parent |-> block.parent, kind |-> kind]}
            /\ monitor' = [monitor EXCEPT !.next = @ + 1, !.parent = block.branch]
       ELSE /\ monitor' = [monitor EXCEPT !.stopped = TRUE]
            /\ UNCHANGED inTransit
    /\ UNCHANGED <<chain, service, importer, check, owner, calculatorVars, out>>

\* acceptBlock: the traces API answered with an error; the block is not asked for again.
FailTracesCounters ==
    /\ \E block \in inTransit : inTransit' = inTransit \ {block}
    /\ UNCHANGED <<chain, monitor, service, importer, check, owner, calculatorVars, out>>

-----------------------------------------------------------------------------
(* Trigger calculators                                                        *)

CanAppendBlock(c, block) == c.size + block.kind.data <= DataLimit

AreTracesOverLimit(block) == inflight.traces + block.kind.traces > TracesLimit

\* Mutant: one block more than the limit.
IsBlocksLimitExceeded == inflight.count > BlocksLimit

IsBlocksLimitReached == inflight.count >= BlocksLimit

Trigger == {"TARGET_BLOCK_NUMBER", "HARD_FORK", "DATA_LIMIT", "TRACES_LIMIT", "BLOCKS_LIMIT", "TIME_LIMIT"}

Triggers(block) ==
    {t \in Trigger \ {"TIME_LIMIT"} :
        CASE t = "TARGET_BLOCK_NUMBER" -> block.number - 1 \in targets
          [] t = "HARD_FORK"           -> block.kind.fork
          [] t = "DATA_LIMIT"          -> ~ CanAppendBlock(compressor, block)
          [] t = "TRACES_LIMIT"        -> AreTracesOverLimit(block)
          [] t = "BLOCKS_LIMIT"        -> IsBlocksLimitReached}

Priority == [TARGET_BLOCK_NUMBER |-> 1, HARD_FORK |-> 4, DATA_LIMIT |-> 5,
             TRACES_LIMIT |-> 6, TIME_LIMIT |-> 7, BLOCKS_LIMIT |-> 8]

FirstTrigger(triggers) == CHOOSE t \in triggers : \A u \in triggers : Priority[t] <= Priority[u]

\* Mutant: emptied by every reset.
ResetDataAlways(c) == [EmptyCompressor EXCEPT !.drained = TRUE]

\* The compressor is emptied only once its data was fetched.
ResetData(c) == IF c.drained THEN [EmptyCompressor EXCEPT !.drained = TRUE] ELSE c

StartNewBatch(c) == [c EXCEPT !.size = @ + BatchOverhead]

AppendData(c, block) == [blocks |-> Append(c.blocks, block), size |-> c.size + block.kind.data,
                         drained |-> FALSE]

-----------------------------------------------------------------------------
(* Closing batches and blobs                                                  *)

\* Mutant: a hard fork closes the batch but not the blob.
BlobCutOffTriggersWithoutFork == {"DATA_LIMIT", "TIME_LIMIT", "TARGET_BLOCK_NUMBER"}

BlobCutOffTriggers == {"DATA_LIMIT", "TIME_LIMIT", "TARGET_BLOCK_NUMBER", "HARD_FORK"}

AggregationCutOffTriggers == {"HARD_FORK"}

\* toConflationResult, with the blocks that handleConflation takes from blocksInProgress.
Batch(trigger) ==
    [start |-> inflight.start, end |-> inflight.last, trigger |-> trigger,
     blocks |-> {b \in service.inProgress : b.number \in inflight.start..inflight.last}]

IsInBatches(block, closed) == \E i \in DOMAIN closed : block.number \in closed[i].start..closed[i].end

\* Mutant: the overflow by the start of a new batch is not noticed.
ClosesBlobByTrigger(trigger, closed) ==
    trigger \in BlobCutOffTriggers \/ Len(closed) >= BatchesLimit

\* The elements of s at some of its places, in their order.
At(s, places) ==
    [k \in 1..Cardinality(places) |->
        s[CHOOSE i \in places : Cardinality({j \in places : j <= i}) = k]]

\* The blob is complete, or cannot take the newest block once another batch is started.
ClosesBlob(trigger, closed) ==
    \/ trigger \in BlobCutOffTriggers
    \/ Len(closed) >= BatchesLimit
    \/ ~ CanAppendBlock(StartNewBatch(compressor), blob.counters[Len(blob.counters)])

\* handleBatchTrigger, handleConflation and, when the blob is complete,
\* fireBlobTriggerAndResetState; then the reset of the calculators that have no lock.
HandleBatchTrigger(batch) ==
    LET closed == Append(blob.batches, batch)
    IN  /\ batches' = Append(batches, batch)
        /\ targets' = targets \cup (IF batch.trigger \in AggregationCutOffTriggers THEN {batch.end} ELSE {})
        /\ service' = [service EXCEPT !.inProgress = @ \ batch.blocks]
        /\ IF ClosesBlob(batch.trigger, closed)
           THEN /\ blobs' = Append(blobs, [batches |-> closed, content |-> compressor.blocks,
                                           size |-> compressor.size])
                /\ blob' = [batches  |-> <<>>,
                            counters |-> At(blob.counters, {i \in DOMAIN blob.counters :
                                                               ~ IsInBatches(blob.counters[i], closed)})]
                /\ compressor' = ResetData([compressor EXCEPT !.drained = TRUE])
           ELSE /\ blob' = [blob EXCEPT !.batches = closed]
                /\ compressor' = ResetData(StartNewBatch(compressor))
                /\ UNCHANGED blobs

\* Mutant: the empty batch starts at block 0.
EmptyInflightAtZero == [inflight EXCEPT !.start = 0, !.count = 0, !.traces = 0]

\* A batch without blocks; last survives a reset.
EmptyInflight == [inflight EXCEPT !.start = None, !.count = 0, !.traces = 0]

-----------------------------------------------------------------------------
(* The importing thread                                                       *)

\* Mutant: the first block of the queue, whatever its number.
FirstQueued(queue, last) == {b \in queue : \A c \in queue : b.number <= c.number}

\* The block sendBlocksInOrderToTracesCounter sends next, if any.
NextAvailable(queue, last) == {b \in queue : b.number = last + 1}

\* The thread goes on with the next block of the queue, or leaves newBlock.
SendBlocksInOrder(queue, last, locks) ==
    LET done == NextAvailable(queue, last) = {} IN
    /\ importer' = [pc |-> IF done THEN "idle" ELSE "send", block |-> None]
    /\ owner' = [locks EXCEPT !["service"] = IF done THEN None ELSE "importer"]

\* ConflationServiceImpl.newBlock; the trace counters arrived.
NewBlock ==
    /\ importer.pc = "idle"
    /\ owner["service"] = None
    /\ \E block \in inTransit :
          LET queue == service.queue \cup {block} IN
          /\ inTransit' = inTransit \ {block}
          /\ service' = [queue |-> queue, inProgress |-> service.inProgress \cup {block}]
          /\ SendBlocksInOrder(queue, inflight.last, owner)
    /\ UNCHANGED <<chain, monitor, check, calculatorVars, out>>

\* The block enters GlobalBlobAwareConflationCalculator.newBlock.
EnterNewBlock ==
    /\ importer.pc = "send"
    /\ owner["blob"] = None
    /\ \E block \in NextAvailable(service.queue, inflight.last) :
          /\ service' = [service EXCEPT !.queue = @ \ {block}]
          /\ blob' = [blob EXCEPT !.counters = Append(@, block)]
          /\ importer' = [pc |-> "conflate", block |-> block]
    /\ owner' = [owner EXCEPT !["blob"] = "importer"]
    /\ UNCHANGED <<sourceVars, check, inflight, deadline, compressor, targets, out>>

\* conflateBlock up to the first use of the deadline calculator.
ConflateBlock ==
    /\ importer.pc = "conflate"
    /\ owner["batch"] = None
    /\ owner' = [owner EXCEPT !["batch"] = "importer"]
    /\ LET triggers == Triggers(importer.block) IN
       IF triggers # {} /\ inflight.start # None
       THEN /\ HandleBatchTrigger(Batch(FirstTrigger(triggers)))
            /\ inflight' = EmptyInflight
            /\ importer' = [importer EXCEPT !.pc = "reset"]
       ELSE /\ importer' = [importer EXCEPT !.pc = "append"]
            /\ UNCHANGED <<service, inflight, compressor, blob, targets, out>>
    /\ UNCHANGED <<sourceVars, check, deadline>>

ResetDeadline ==
    /\ importer.pc = "reset"
    /\ owner["deadline"] = None
    /\ deadline' = [deadline EXCEPT !.started = FALSE]
    /\ importer' = [importer EXCEPT !.pc = "append"]
    /\ UNCHANGED <<sourceVars, service, check, owner, inflight, compressor, blob, targets, out>>

\* The rest of conflateBlock: every calculator appends the block.
AppendBlock ==
    LET block == importer.block IN
    /\ importer.pc = "append"
    /\ owner["deadline"] = None
    /\ inflight' = [last   |-> block.number,
                    start  |-> IF inflight.start = None THEN block.number ELSE inflight.start,
                    count  |-> inflight.count + 1,
                    traces |-> inflight.traces + block.kind.traces]
    /\ compressor' = AppendData(compressor, block)
    /\ deadline' = [started |-> TRUE, last |-> block.number]
    /\ SendBlocksInOrder(service.queue, block.number,
                          [owner EXCEPT !["batch"] = None, !["blob"] = None])
    /\ UNCHANGED <<sourceVars, service, check, blob, targets, out>>

-----------------------------------------------------------------------------
(* The deadline checks                                                        *)

MayLock(d, lock) == owner[lock] \in {None, d}

\* checkConflationDeadline: the deadline of the first block has passed.  The answer of the
\* node is handled by another thread, or inline, with the lock of the calculator held.
CheckConflationDeadline(d) ==
    /\ check[d].pc = "idle"
    /\ owner["deadline"] = None
    /\ deadline.started
    /\ \E inline \in BOOLEAN :
          /\ check' = [check EXCEPT ![d] = [pc |-> "requested", head |-> Len(chain), inline |-> inline]]
          /\ owner' = [owner EXCEPT !["deadline"] = IF inline THEN d ELSE None]
    /\ UNCHANGED <<sourceVars, service, importer, calculatorVars, out>>

\* The node's latest block, of some moment since the request, is the last one conflated.
FindNoMoreBlocks(d) ==
    /\ check[d].pc = "requested"
    /\ deadline.last \in check[d].head..Len(chain)
    /\ check' = [check EXCEPT ![d].pc = "trigger", ![d].head = 0]
    /\ UNCHANGED <<sourceVars, service, importer, owner, calculatorVars, out>>

\* There are more blocks, the last one is too recent, or the request failed.
GiveUpCheck(d) ==
    /\ check[d].pc = "requested"
    /\ check' = [check EXCEPT ![d] = NoCheck]
    /\ owner' = [owner EXCEPT !["deadline"] = IF check[d].inline THEN None ELSE @]
    /\ UNCHANGED <<sourceVars, service, importer, calculatorVars, out>>

\* Without an open batch toConflationResult throws, which the check catches.
HandleConflationTrigger(d) ==
    /\ check[d].pc = "trigger"
    /\ owner["batch"] = None
    /\ IF inflight.start = None
       THEN /\ check' = [check EXCEPT ![d].pc = "reset"]
            /\ UNCHANGED owner
       ELSE /\ check' = [check EXCEPT ![d].pc = "batch"]
            /\ owner' = [owner EXCEPT !["batch"] = d]
    /\ UNCHANGED <<sourceVars, service, importer, calculatorVars, out>>

EnterBlobCalculator(d) ==
    /\ check[d].pc = "batch"
    /\ owner["blob"] = None
    /\ owner' = [owner EXCEPT !["blob"] = d]
    /\ check' = [check EXCEPT ![d].pc = "blob"]
    /\ UNCHANGED <<sourceVars, service, importer, calculatorVars, out>>

CloseByDeadline(d) ==
    /\ check[d].pc = "blob"
    /\ owner["service"] = None
    /\ HandleBatchTrigger(Batch("TIME_LIMIT"))
    /\ inflight' = EmptyInflight
    /\ owner' = [owner EXCEPT !["blob"] = None]
    /\ check' = [check EXCEPT ![d].pc = "closed"]
    /\ UNCHANGED <<sourceVars, importer, deadline>>

\* The end of fireConflationAndResetState.
ResetByDeadline(d) ==
    /\ check[d].pc = "closed"
    /\ MayLock(d, "deadline")
    /\ deadline' = [deadline EXCEPT !.started = FALSE]
    /\ owner' = [owner EXCEPT !["batch"] = None]
    /\ check' = [check EXCEPT ![d].pc = "reset"]
    /\ UNCHANGED <<sourceVars, service, importer, inflight, compressor, blob, targets, out>>

\* The reset that ends the check, whatever became of the trigger.
FinishCheck(d) ==
    /\ check[d].pc = "reset"
    /\ MayLock(d, "deadline")
    /\ deadline' = [deadline EXCEPT !.started = FALSE]
    /\ owner' = [owner EXCEPT !["deadline"] = None]
    /\ check' = [check EXCEPT ![d] = NoCheck]
    /\ UNCHANGED <<sourceVars, service, importer, inflight, compressor, blob, targets, out>>

-----------------------------------------------------------------------------

Import == NewBlock \/ EnterNewBlock \/ ConflateBlock \/ ResetDeadline \/ AppendBlock

Proceed(d) ==
    \/ HandleConflationTrigger(d) \/ EnterBlobCalculator(d) \/ CloseByDeadline(d)
    \/ ResetByDeadline(d) \/ FinishCheck(d)

Next ==
    \/ ProduceBlock \/ Reorg \/ MonitorAction \/ FailTracesCounters
    \/ Import
    \/ \E d \in DeadlineChecks :
          CheckConflationDeadline(d) \/ FindNoMoreBlocks(d) \/ GiveUpCheck(d) \/ Proceed(d)

Spec == Init /\ [][Next]_vars

\* Threads that can run do; the timer ticks; a silent chain is seen as silent in the end.
FairSpec ==
    /\ Spec
    /\ WF_vars(MonitorAction)
    /\ WF_vars(Import)
    /\ WF_vars(\E d \in DeadlineChecks : CheckConflationDeadline(d))
    /\ SF_vars(\E d \in DeadlineChecks : FindNoMoreBlocks(d))
    /\ WF_vars(\E d \in DeadlineChecks : Proceed(d))

-----------------------------------------------------------------------------
(* Properties                                                                 *)

Block == [number : 1..MaxBlock, branch : {0, 1}, parent : {0, 1}, kind : BlockKinds]

ChainBlock == [branch : {0, 1}, parent : {0, 1}]

BatchRecord == [start : 1..MaxBlock, end : 1..MaxBlock, trigger : Trigger, blocks : SUBSET Block]

\* Types of the state.
TypeOK ==
    /\ chain \in Seq(ChainBlock) /\ Len(chain) <= MaxBlock
    /\ monitor \in [next : 1..MaxBlock + 1, parent : {0, 1}, stopped : BOOLEAN]
    /\ inTransit \subseteq Block
    /\ service \in [queue : SUBSET Block, inProgress : SUBSET Block]
    /\ importer \in [pc : {"idle", "send", "conflate", "reset", "append"}, block : Block \cup {None}]
    /\ check \in [DeadlineChecks ->
                     [pc : {"idle", "requested", "trigger", "batch", "blob", "closed", "reset"},
                      head : 0..MaxBlock, inline : BOOLEAN]]
    /\ owner \in [Lock -> Thread \cup {None}]
    /\ inflight \in [last : 0..MaxBlock, start : 1..MaxBlock \cup {None}, count : Nat, traces : Nat]
    /\ batches \in Seq(BatchRecord)

\* Batches follow each other without gap or overlap, none is empty, and each carries exactly
\* one block for every number of its interval, whatever the order in which trace counters
\* arrived and whichever of the importing thread and the deadline checks closed it.
BatchesPartitionTheBlocks ==
    \A i \in DOMAIN batches :
        /\ batches[i].start = IF i = 1 THEN 1 ELSE batches[i - 1].end + 1
        /\ batches[i].start <= batches[i].end
        /\ {b.number : b \in batches[i].blocks} = batches[i].start..batches[i].end
        /\ \A b, c \in batches[i].blocks : b.number = c.number => b = c

Conflated == UNION {batches[i].blocks : i \in DOMAIN batches}

\* The blocks of all batches are one chain: every block is the child of the one before, even
\* if the L2 node switched branches while blocks were under way.
BatchesFollowOneChain ==
    \A b, c \in Conflated : c.number = b.number + 1 => c.parent = b.branch

\* The open batch belongs to the thread that works on it.
Locking ==
    /\ importer.pc \in {"reset", "append"} => owner["batch"] = "importer"
    /\ \A d \in DeadlineChecks :
          /\ check[d].pc \in {"batch", "blob", "closed"} => owner["batch"] = d
          /\ check[d].pc \in {"batch", "blob"} => inflight.start # None

Imported == inTransit \cup service.inProgress \cup Conflated

\* The monitor imports every number once, along one branch.
ImportedOnce ==
    /\ inTransit \cap service.inProgress = {}
    /\ \A b \in Imported :
          /\ b.number < monitor.next
          /\ b.number = monitor.next - 1 => b.branch = monitor.parent
    /\ \A b, c \in Imported :
          /\ b.number = c.number => b = c
          /\ c.number = b.number + 1 => c.parent = b.branch

\* The block under way is the next one; what is queued comes after the last one.
ServedInOrder ==
    /\ inflight.last < monitor.next
    /\ service.queue \subseteq service.inProgress
    /\ \A b \in inTransit \cup service.queue : b.number > inflight.last
    /\ importer.pc \in {"conflate", "reset", "append"} =>
          /\ importer.block \in service.inProgress \ service.queue
          /\ importer.block.number = inflight.last + 1

\* The open batch starts where the batches end, and its blocks are there.
OpenBatchFollows ==
    /\ IF inflight.start = None THEN inflight.last = LastProvable
       ELSE inflight.start = LastProvable + 1 /\ inflight.start <= inflight.last
    /\ \A n \in LastProvable + 1..inflight.last : \E b \in service.inProgress : b.number = n

\* An inductive invariant: what batches contain follows from who may touch the open batch
\* (the monitors of the calculators) and from what reaches the service.
BatchIInv ==
    /\ TypeOK
    /\ Locking
    /\ ImportedOnce
    /\ ServedInOrder
    /\ OpenBatchFollows
    /\ BatchesPartitionTheBlocks

\* The batches of a sequence of blobs.
BatchesOf(bs) ==
    LET first[n \in 0..Len(bs)] == IF n = 0 THEN <<>> ELSE first[n - 1] \o bs[n].batches
    IN  first[Len(bs)]

BlocksOf(s) == UNION {s[j].blocks : j \in DOMAIN s}

\* Blobs consist of the batches in order, each batch in one blob, and the compressed data of
\* a blob is that of the blocks of its batches: closing a blob neither drops nor repeats
\* blocks that the compressor holds.
BlobsHoldTheirBatches ==
    /\ batches = BatchesOf(blobs) \o blob.batches
    /\ \A i \in DOMAIN blobs :
          /\ {blobs[i].content[j] : j \in DOMAIN blobs[i].content} = BlocksOf(blobs[i].batches)
          /\ Len(blobs[i].content) = Cardinality(BlocksOf(blobs[i].batches))

TracesOf(batch) ==
    LET upTo[n \in batch.start - 1..batch.end] ==
            IF n < batch.start THEN 0
            ELSE upTo[n - 1] + (CHOOSE b \in batch.blocks : b.number = n).kind.traces
    IN  upTo[batch.end]

\* No batch has more blocks than the limit or, unless it is a single oversized block, more
\* traces than the prover can take; no blob has more data or batches than fits.
LimitsAreKept ==
    /\ \A i \in DOMAIN batches :
          /\ Cardinality(batches[i].blocks) <= BlocksLimit
          /\ Cardinality(batches[i].blocks) > 1 => TracesOf(batches[i]) <= TracesLimit
    /\ \A i \in DOMAIN blobs :
          /\ blobs[i].size <= DataLimit
          /\ Len(blobs[i].batches) <= BatchesLimit

\* The exceptions of conflateBlock's second half never happen: when the calculators append a
\* block it still fits the blob and the batch, although the blob may have been closed or a
\* batch started since the check.  The blocks counted for the blob are then exactly those
\* since its start, so that its start and end time are known when it is closed.
AppendNeverThrows ==
    importer.pc = "append" =>
        /\ CanAppendBlock(compressor, importer.block)
        /\ inflight.count < BlocksLimit
        /\ inflight.count > 0 => ~ AreTracesOverLimit(importer.block)
        /\ blob.counters[Len(blob.counters)] = importer.block
        /\ blob.counters[1].number =
              IF blob.batches = <<>> THEN LastProvable + 1 ELSE blob.batches[1].start
        /\ Len(blob.counters) = importer.block.number - blob.counters[1].number + 1

\* A block after a configured end of an aggregation, and the first block of a hard fork,
\* is never in a batch or in a blob with the block before.
ForksAndTargetsStartBlobs ==
    \A b \in Conflated :
        (b.kind.fork \/ b.number - 1 \in targets) =>
            /\ \A i \in DOMAIN batches : b \in batches[i].blocks => batches[i].start = b.number
            /\ \A i \in DOMAIN blobs : b.number \in {blobs[i].content[j].number : j \in DOMAIN blobs[i].content}
                                          => blobs[i].content[1].number = b.number

BlobRecord == [batches : Seq(BatchRecord), content : Seq(Block), size : 0..DataLimit]

CalculatorTypes ==
    /\ compressor \in [blocks : Seq(Block), size : 0..DataLimit, drained : BOOLEAN]
    /\ blob \in [batches : Seq(BatchRecord), counters : Seq(Block)]
    /\ targets \subseteq Nat
    /\ blobs \in Seq(BlobRecord)

IsImporting == importer.pc \in {"conflate", "reset", "append"}
IsAppending == importer.pc \in {"reset", "append"}

\* The open blob belongs to the thread that works on it.
BlobLocking ==
    /\ IsImporting => owner["blob"] = "importer"
    /\ \A d \in DeadlineChecks : check[d].pc = "blob" => owner["blob"] = d

\* Where the open blob starts.
BlobStart == IF blob.batches = <<>> THEN LastProvable + 1 ELSE blob.batches[1].start

\* The batches of the open blob are the last ones; no batch of it is left when no batch is open,
\* except between closing a batch and appending the next block.
OpenBlobFollows ==
    /\ Len(blob.batches) < BatchesLimit
    /\ BlobStart \in 1..LastProvable + 1
    /\ \A j \in DOMAIN blob.batches :
          /\ \E i \in DOMAIN batches : blob.batches[j] = batches[i]
          /\ BlobStart <= blob.batches[j].start /\ blob.batches[j].end <= LastProvable
    /\ \A n \in BlobStart..LastProvable :
          \E j \in DOMAIN blob.batches : n \in blob.batches[j].start..blob.batches[j].end
    /\ inflight.start = None /\ ~ IsAppending => blob.batches = <<>>

\* The blocks counted for the open blob: those since its start, with the block under way.
CountersFollow ==
    /\ Len(blob.counters) = (IF IsImporting THEN inflight.last + 1 ELSE inflight.last) - BlobStart + 1
    /\ \A i \in DOMAIN blob.counters : blob.counters[i].number = BlobStart + i - 1
    /\ IsImporting => blob.counters[Len(blob.counters)] = importer.block

OpenBlocks ==
    {b \in service.inProgress : inflight.start # None /\ b.number \in inflight.start..inflight.last}

OpenBatch == [start |-> inflight.start, end |-> inflight.last, blocks |-> OpenBlocks]

\* The compressor holds the blocks of the open blob in order.
CompressorFollows ==
    /\ Len(compressor.blocks) = inflight.last - BlobStart + 1
    /\ \A j \in DOMAIN compressor.blocks :
          /\ compressor.blocks[j] \in BlocksOf(blob.batches) \cup OpenBlocks
          /\ compressor.blocks[j].number = BlobStart + j - 1
    /\ inflight.start # None => ~ compressor.drained
    /\ inflight.start = None /\ ~ IsAppending => compressor.size = 0

\* The counts of the open batch, and that the next block fits.
OpenBatchFits ==
    /\ IF inflight.start = None THEN inflight.count = 0 /\ inflight.traces = 0
       ELSE /\ inflight.count = inflight.last - inflight.start + 1
            /\ inflight.count <= BlocksLimit
            /\ inflight.count > 1 => inflight.traces <= TracesLimit
            /\ inflight.traces = TracesOf(OpenBatch)
    /\ IsAppending => /\ CanAppendBlock(compressor, importer.block)
                      /\ inflight.count < BlocksLimit
                      /\ inflight.count > 0 => ~ AreTracesOverLimit(importer.block)

StartsBlob(b) == b.kind.fork \/ b.number - 1 \in targets

\* What ForksAndTargetsStartBlobs says of the open batch and the open blob.
OpenForksAndTargets ==
    /\ \A b \in OpenBlocks : StartsBlob(b) => b.number = inflight.start
    /\ \A b \in BlocksOf(blob.batches) \cup OpenBlocks : StartsBlob(b) => b.number = BlobStart
    /\ IsAppending /\ StartsBlob(importer.block) => inflight.start = None /\ blob.batches = <<>>

BlobsAreConflated ==
    \A i \in DOMAIN blobs : \A j \in DOMAIN blobs[i].content : blobs[i].content[j] \in Conflated

\* The inductive invariant: the calculators agree on the blocks of the open batch and blob.
IInv ==
    /\ BatchIInv
    /\ CalculatorTypes
    /\ BlobLocking
    /\ OpenBlobFollows
    /\ CountersFollow
    /\ CompressorFollows
    /\ OpenBatchFits
    /\ OpenForksAndTargets
    /\ BlobsAreConflated
    /\ BlobsHoldTheirBatches
    /\ LimitsAreKept
    /\ ForksAndTargetsStartBlobs

\* What a thread waits for.
Awaits(t) ==
    IF t = "importer"
    THEN CASE importer.pc = "send"                -> "blob"
           [] importer.pc = "conflate"            -> "batch"
           [] importer.pc \in {"reset", "append"} -> "deadline"
           [] OTHER                            -> None
    ELSE CASE check[t].pc = "trigger"               -> "batch"
           [] check[t].pc = "batch"                 -> "blob"
           [] check[t].pc = "blob"                  -> "service"
           [] check[t].pc \in {"closed", "reset"}   -> "deadline"
           [] OTHER                                 -> None

\* Threads that wait for each other.
LockCycle ==
    \E S \in SUBSET Thread :
        /\ S # {}
        /\ \A t \in S : Awaits(t) # None /\ owner[Awaits(t)] \in S \ {t}

\* A block of the chain got lost on its way to the service.
BlockIsMissing ==
    \E n \in inflight.last + 1..monitor.next - 1 :
        \A b \in inTransit \cup service.queue : b.number # n

\* A batch is open and no deadline runs for it.
DeadlineIsMissing == inflight.start # None /\ ~ deadline.started

\* Once the L2 chain is silent every block ends up in a batch, unless the import is stopped
\* by a reorg, the trace counters of a block are never delivered, the final reset of a
\* deadline check cleared the deadline of the batch opened meanwhile, or the threads
\* block each other: nothing else keeps a block from being conflated.
EveryBlockIsConflated ==
    []<>(\/ LastProvable = Len(chain)
         \/ monitor.stopped \/ BlockIsMissing \/ DeadlineIsMissing \/ LockCycle)

=============================================================================
