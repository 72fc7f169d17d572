---------------------------- MODULE MessageBridge ----------------------------
(* The message bridge between L1 and L2: the message services of both chains, the rate          *)
(* limiters inside them, and the coordinator's message anchoring, which carries L1 messages     *)
(* to L2.  Messages to L1 travel with finalization: a Merkle root of messages per finalization. *)
(*                                                                                               *)
(* A transaction is one step.  A claim calls the recipient, which may send messages but not     *)
(* claim (nonReentrant); the status is written before the call, so such a nested call is a      *)
(* step of its own after the claim.  A call that reverts changes nothing and is no step.        *)
EXTENDS Integers, Sequences, FiniteSets

CONSTANTS
    Amounts,                 \* what a message can carry: its value and the postman's fee together
    InitialMinimumFee,       \* minimumFeeInWei at deployment, the fee of the block's coinbase
    MinimumFees,             \* values setMinimumFee may set
    Limits,                  \* values resetRateLimitAmount may set
    InitialLimit,            \* limitInWei of both services at deployment
    Period,                  \* periodInSeconds of both services
    L2Ether,                 \* ether on L2, all of it in the message service at genesis
    EventsQueueMaxCapacity,  \* l1 messages the coordinator holds before it stops fetching
    MaxMessagesToAnchor,     \* maxMessagesToAnchorPerL2Transaction
    MaxMessages,             \* bound: messages of either direction
    Bounds,                  \* bounds of one behaviour: [l1, l2, legacy, faults, admin]
    None

ASSUME BridgeAssumption ==
    /\ Amounts \subseteq Nat
    /\ InitialMinimumFee \in Nat
    /\ MinimumFees \subseteq Nat
    /\ Limits \subseteq Nat
    /\ InitialLimit \in Nat \ {0}
    /\ Period \in Nat \ {0}
    /\ L2Ether \in Nat
    /\ EventsQueueMaxCapacity \in Nat \ {0}
    /\ MaxMessagesToAnchor \in 1..100
    /\ MaxMessages \in Nat
    /\ \A b \in Bounds : /\ b.l1 \in 0..MaxMessages
                         /\ b.l2 \in 0..MaxMessages
                         /\ b.legacy \in Seq(Amounts) /\ Len(b.legacy) <= MaxMessages

VARIABLES
    l1Messages,      \* messages sent on L1, by number: [amount, block]
    l1Final,         \* the last L1 block that is final
    l1Balance,       \* ether of the message service on L1
    l2MerkleRoots,   \* l2MerkleRootsDepths: roots, each the set of message numbers below it
    messageClaimed,  \* _messageClaimedBitMap
    inboxL2L1,       \* inboxL2L1MessageStatus: hashes received before roots were introduced
    l1Limiter,       \* RateLimiter on L1: [left, used, limit], left the time to the period's end
    l2Messages,      \* amounts of the messages sent on L2, by number
    l2Finalized,     \* number of L2 messages the finalized L2 blocks have sent
    l2Balance,       \* ether of the message service on L2
    l2Limiter,       \* RateLimiter on L2
    minimumFee,      \* minimumFeeInWei
    lastAnchored,    \* lastAnchoredL1MessageNumber
    rollingHash,     \* l1RollingHashes[lastAnchored] on L2: the hashes that went into it
    inboxL1L2,       \* inboxL1L2MessageStatus
    pendingTx,       \* the anchoring transaction in the mempool of L2, or None
    eventsQueue,     \* MessageSent events the coordinator is to anchor
    lastFetched,     \* lastFetchedMessageNumber
    poller,          \* L1MessageSentEventsPoller: the number it fetches from, or None
    anchoring,       \* MessageAnchoringService: [step, last, events]
    deliveredOnL1,   \* history: calls made for each message to L1
    deliveredOnL2,   \* history: calls made for each message to L2
    bound,           \* the bounds of this behaviour
    faults,          \* bound: faults so far
    admin            \* bound: admin calls so far

l1Sending == <<l1Messages, l1Final>>
l1Claiming == <<l2MerkleRoots, messageClaimed, inboxL2L1>>
l1 == <<l1Sending, l1Claiming, l1Balance, l1Limiter>>
anchored == <<lastAnchored, rollingHash, inboxL1L2>>
l2 == <<l2Messages, l2Finalized, l2Balance, l2Limiter, minimumFee, anchored>>
coordinator == <<eventsQueue, lastFetched, poller, anchoring>>
history == <<deliveredOnL1, deliveredOnL2>>
bounds == <<bound, faults, admin>>
vars == <<l1, l2, pendingTx, coordinator, history, bounds>>

Hashes == [number: 1..MaxMessages, amount: Amounts]

\* Hash of an L1 message: the number is part of it, so equal messages have different hashes.
L1Hash(n) == [number |-> n, amount |-> l1Messages[n].amount]
L2Hash(n) == [number |-> n, amount |-> l2Messages[n]]

\* rollingHashes[n] on L1: each message hashes the hash of its predecessors.
RollingHashes(n) == [i \in 1..n |-> L1Hash(i)]

Status == {"UNKNOWN", "RECEIVED", "CLAIMED"}
Idle == [step |-> "idle", last |-> 0, events |-> <<>>]

\* The elements of s at some of its places, in their order.
At(s, places) ==
    [k \in 1..Cardinality(places) |->
        s[CHOOSE i \in places : Cardinality({j \in places : j <= i}) = k]]

\* Adds up a sequence of amounts.
SumOf(s) == LET sum[i \in 0..Len(s)] == IF i = 0 THEN 0 ELSE sum[i - 1] + s[i] IN sum[Len(s)]

\* A deployment whose first rate limit period has ended.
Init ==
    /\ bound \in Bounds /\ faults = 0 /\ admin = 0
    /\ l1Messages = <<>> /\ l1Final = 0
    /\ l1Balance = SumOf(bound.legacy)
    /\ l2MerkleRoots = {} /\ messageClaimed = {}
    /\ l2Messages = bound.legacy /\ l2Finalized = Len(bound.legacy)
    /\ inboxL2L1 = {[number |-> n, amount |-> bound.legacy[n]] : n \in 1..Len(bound.legacy)}
    /\ l1Limiter = [left |-> -1, used |-> 0, limit |-> InitialLimit]
    /\ l2Limiter = [left |-> -1, used |-> 0, limit |-> InitialLimit]
    /\ l2Balance = L2Ether
    /\ minimumFee = InitialMinimumFee
    /\ lastAnchored = 0 /\ rollingHash = <<>>
    /\ inboxL1L2 = [h \in Hashes |-> "UNKNOWN"]
    /\ pendingTx = None
    /\ eventsQueue = <<>> /\ lastFetched = 0 /\ poller = None /\ anchoring = Idle
    /\ deliveredOnL1 = [h \in Hashes |-> 0]
    /\ deliveredOnL2 = [h \in Hashes |-> 0]

-----------------------------------------------------------------------------
(* RateLimiter.                                                                                  *)

PeriodExpired(limiter) == limiter.left < 0

\* Mutant: a new period does not start from zero.
UsedAmountForever(limiter, amount) == limiter.used + amount

UsedAmount(limiter, amount) == IF PeriodExpired(limiter) THEN amount ELSE limiter.used + amount

WithinLimit(limiter, amount) == amount = 0 \/ UsedAmount(limiter, amount) <= limiter.limit

AddUsedAmount(limiter, amount) ==
    IF amount = 0 THEN limiter
    ELSE [limiter EXCEPT !.used = UsedAmount(limiter, amount),
                         !.left = IF PeriodExpired(limiter) THEN Period ELSE @]

LimitReset(limiter, amount) ==
    IF PeriodExpired(limiter) THEN [left |-> Period, used |-> 0, limit |-> amount]
    ELSE [limiter EXCEPT !.limit = amount, !.used = IF amount < @ THEN amount ELSE @]

ResetRateLimitAmount ==
    /\ admin < bound.admin /\ admin' = admin + 1
    /\ \E amount \in Limits :
          \/ l1Limiter' = LimitReset(l1Limiter, amount) /\ UNCHANGED l2Limiter
          \/ l2Limiter' = LimitReset(l2Limiter, amount) /\ UNCHANGED l1Limiter
    /\ UNCHANGED <<l1Sending, l1Claiming, l1Balance>>
    /\ UNCHANGED <<l2Messages, l2Finalized, l2Balance, minimumFee, anchored>>
    /\ UNCHANGED <<pendingTx, coordinator, history, bound, faults>>

ResetAmountUsedInPeriod ==
    /\ admin < bound.admin /\ admin' = admin + 1
    /\ \/ l1Limiter' = [l1Limiter EXCEPT !.used = 0] /\ UNCHANGED l2Limiter
       \/ l2Limiter' = [l2Limiter EXCEPT !.used = 0] /\ UNCHANGED l1Limiter
    /\ UNCHANGED <<l1Sending, l1Claiming, l1Balance>>
    /\ UNCHANGED <<l2Messages, l2Finalized, l2Balance, minimumFee, anchored>>
    /\ UNCHANGED <<pendingTx, coordinator, history, bound, faults>>

\* Time passes; a period that has ended stays ended.
Passed(limiter) == [limiter EXCEPT !.left = IF @ < 0 THEN @ ELSE @ - 1]

Tick ==
    /\ l1Limiter' = Passed(l1Limiter)
    /\ l2Limiter' = Passed(l2Limiter)
    /\ UNCHANGED <<l1Sending, l1Claiming, l1Balance>>
    /\ UNCHANGED <<l2Messages, l2Finalized, l2Balance, minimumFee, anchored>>
    /\ UNCHANGED <<pendingTx, coordinator, history, bounds>>

-----------------------------------------------------------------------------
(* The message service on L1.                                                                    *)

\* sendMessage.  The message is in the block after the last final one.
L1SendMessage ==
    /\ Len(l1Messages) < bound.l1
    /\ \E a \in Amounts :
          /\ l1Messages' = Append(l1Messages, [amount |-> a, block |-> l1Final + 1])
          /\ l1Balance' = l1Balance + a
    /\ UNCHANGED <<l1Final, l1Claiming, l1Limiter, l2, pendingTx, coordinator, history, bounds>>

\* A block becomes final; blocks without messages are left out.
L1BlockIsFinal ==
    /\ l1Messages # <<>>
    /\ l1Messages[Len(l1Messages)].block > l1Final
    /\ l1Final' = l1Final + 1
    /\ UNCHANGED <<l1Messages, l1Claiming, l1Balance, l1Limiter, l2, pendingTx, coordinator, history, bounds>>

\* L1 is reorganised: the last message of the block that is not final is gone.
L1Reorganisation ==
    /\ faults < bound.faults /\ faults' = faults + 1
    /\ l1Messages # <<>>
    /\ l1Messages[Len(l1Messages)].block > l1Final
    /\ l1Messages' = SubSeq(l1Messages, 1, Len(l1Messages) - 1)
    /\ l1Balance' = l1Balance - l1Messages[Len(l1Messages)].amount
    /\ UNCHANGED <<l1Final, l1Claiming, l1Limiter, l2, pendingTx, coordinator, history, bound, admin>>

\* Finalization of L2 blocks: what they anchored must be what L1 sent (_validateL2ComputedRollingHash),
\* and the messages they sent become a Merkle root (_addL2MerkleRoots).
FinalizeBlocks ==
    /\ lastAnchored <= Len(l1Messages)
    /\ rollingHash = RollingHashes(lastAnchored)
    /\ \E n \in l2Finalized + 1..Len(l2Messages) :
          /\ l2Finalized + 1..n \notin l2MerkleRoots
          /\ l2MerkleRoots' = l2MerkleRoots \cup {l2Finalized + 1..n}
          /\ l2Finalized' = n
    /\ UNCHANGED <<l1Sending, messageClaimed, inboxL2L1, l1Balance, l1Limiter>>
    /\ UNCHANGED <<l2Messages, l2Balance, l2Limiter, minimumFee, anchored>>
    /\ UNCHANGED <<pendingTx, coordinator, history, bounds>>

\* The call of the recipient and the fees: all of the amount leaves the service.
DeliverOnL1(h) ==
    /\ WithinLimit(l1Limiter, h.amount)
    /\ l1Limiter' = AddUsedAmount(l1Limiter, h.amount)
    /\ l1Balance >= h.amount
    /\ l1Balance' = l1Balance - h.amount
    /\ deliveredOnL1' = [deliveredOnL1 EXCEPT ![h] = @ + 1]

SetL2L1MessageToClaimed(n) ==
    /\ n \notin messageClaimed
    /\ messageClaimed' = messageClaimed \cup {n}

\* Claims a message a Merkle root contains; the proof fixes every field of the message.
ClaimMessageWithProof ==
    /\ \E root \in l2MerkleRoots : \E n \in root :
          /\ SetL2L1MessageToClaimed(n)
          /\ DeliverOnL1(L2Hash(n))
    /\ UNCHANGED <<l1Sending, l2MerkleRoots, inboxL2L1, l2, pendingTx, coordinator, deliveredOnL2, bounds>>

\* claimMessage (V1), for a message received before there were Merkle roots.
ClaimMessageV1 ==
    /\ \E h \in inboxL2L1 :
          /\ inboxL2L1' = inboxL2L1 \ {h}
          /\ DeliverOnL1(h)
    /\ UNCHANGED <<l1Sending, l2MerkleRoots, messageClaimed, l2, pendingTx, coordinator, deliveredOnL2, bounds>>

-----------------------------------------------------------------------------
(* The message service on L2.                                                                    *)

\* Mutant: the message keeps the coinbase's fee.
WholePayment(payment) == payment

\* What sendMessage records of a payment: the coinbase's fee is paid out at once.
PostmanFeeAndValue(payment) == payment - minimumFee

\* sendMessage, paid from ether that has left the message service before.
L2SendMessage ==
    /\ Len(l2Messages) < bound.l2
    /\ \E a \in Amounts :
          LET payment == a + minimumFee
              amount == PostmanFeeAndValue(payment)
          IN /\ payment <= L2Ether - l2Balance
             /\ WithinLimit(l2Limiter, amount)
             /\ l2Limiter' = AddUsedAmount(l2Limiter, amount)
             /\ l2Messages' = Append(l2Messages, amount)
             /\ l2Balance' = l2Balance + payment - minimumFee
    /\ UNCHANGED <<l1, l2Finalized, minimumFee, anchored, pendingTx, coordinator, history, bounds>>

SetMinimumFee ==
    /\ admin < bound.admin /\ admin' = admin + 1
    /\ minimumFee' \in MinimumFees
    /\ UNCHANGED <<l1, l2Messages, l2Finalized, l2Balance, l2Limiter, anchored>>
    /\ UNCHANGED <<pendingTx, coordinator, history, bound, faults>>

UpdateL1L2MessageStatusToClaimed(h) ==
    /\ inboxL1L2[h] = "RECEIVED"
    /\ inboxL1L2' = [inboxL1L2 EXCEPT ![h] = "CLAIMED"]

L2ClaimMessage ==
    /\ \E h \in Hashes :
          /\ UpdateL1L2MessageStatusToClaimed(h)
          /\ l2Balance >= h.amount
          /\ l2Balance' = l2Balance - h.amount
          /\ deliveredOnL2' = [deliveredOnL2 EXCEPT ![h] = @ + 1]
    /\ UNCHANGED <<l1, l2Messages, l2Finalized, l2Limiter, minimumFee, lastAnchored, rollingHash>>
    /\ UNCHANGED <<pendingTx, coordinator, deliveredOnL1, bounds>>

\* The places of a transaction whose hashes the inbox does not know yet; a repeated hash is new once.
NewHashes(hashes) ==
    {i \in DOMAIN hashes : /\ inboxL1L2[hashes[i]] = "UNKNOWN"
                           /\ \A j \in 1..i - 1 : hashes[j] # hashes[i]}

\* anchorL1L2MessageHashes succeeds: neither numbers nor rolling hash are out of step with L1.
AnchoringSucceeds(tx) ==
    LET new == NewHashes(tx.hashes)
    IN /\ Len(tx.hashes) \in 1..100
       /\ tx.rollingHash # <<>>
       /\ tx.start - 1 = lastAnchored
       /\ lastAnchored + Cardinality(new) = tx.final
       /\ rollingHash \o At(tx.hashes, new) = tx.rollingHash

\* The transaction is executed; one that reverts is gone as well.
AnchorL1L2MessageHashes ==
    /\ pendingTx # None
    /\ pendingTx' = None
    /\ IF AnchoringSucceeds(pendingTx)
       THEN /\ lastAnchored' = pendingTx.final
            /\ rollingHash' = pendingTx.rollingHash
            /\ inboxL1L2' = [h \in Hashes |->
                  IF \E i \in NewHashes(pendingTx.hashes) : pendingTx.hashes[i] = h
                  THEN "RECEIVED" ELSE inboxL1L2[h]]
       ELSE UNCHANGED anchored
    /\ UNCHANGED <<l1, l2Messages, l2Finalized, l2Balance, l2Limiter, minimumFee>>
    /\ UNCHANGED <<coordinator, history, bounds>>

-----------------------------------------------------------------------------
(* The coordinator's message anchoring: two periodic services share the queue.  A tick of       *)
(* either waits for the other chain in the middle.                                               *)

\* L1MessageSentEventsPoller.action, up to the search on L1: after a start the first number comes
\* from L2, later from the events fetched before.
PollNextMessageNumber ==
    /\ poller = None
    /\ Len(eventsQueue) < EventsQueueMaxCapacity
    /\ lastFetched' = IF lastFetched > 0 THEN lastFetched ELSE lastAnchored
    /\ poller' = lastFetched' + 1
    /\ UNCHANGED <<l1, l2, pendingTx, eventsQueue, anchoring, history, bounds>>

\* The block a RollingHashUpdated event is found in.
BlockOf(n) == l1Messages[n].block

\* Mutant: the search goes on to the latest block.
WholeBlocksToLatest(first, last) ==
    /\ first > 1 => BlockOf(first - 1) < BlockOf(first)
    /\ last < Len(l1Messages) => BlockOf(last + 1) > BlockOf(last)

\* Messages first..last are what a search for MessageSent events returns: whole blocks, up to a limit
\* of events, of time, or to the last final block.
WholeBlocks(first, last) ==
    /\ first > 1 => BlockOf(first - 1) < BlockOf(first)
    /\ last < Len(l1Messages) => BlockOf(last + 1) > BlockOf(last)
    /\ BlockOf(last) <= l1Final

\* findL1MessageSentEvents: a search that starts with the block of message n.
Fetched(n, first, last) ==
    /\ n \in first..last
    /\ BlockOf(first) = BlockOf(n)
    /\ WholeBlocks(first, last)

\* The rest of the action.  When message n is not final yet, there is nothing to fetch.
PollFetch ==
    /\ poller # None
    /\ poller' = None
    /\ \/ /\ poller \in 1..Len(l1Messages) => BlockOf(poller) > l1Final
          /\ UNCHANGED <<eventsQueue, lastFetched>>
       \/ \E first, last \in 1..Len(l1Messages) :
             /\ Fetched(poller, first, last)
             /\ eventsQueue' = eventsQueue \o [i \in 1..last - first + 1 |-> L1Hash(first + i - 1)]
             /\ lastFetched' = last
    /\ UNCHANGED <<l1, l2, pendingTx, anchoring, history, bounds>>

\* MessageAnchoringService.action: reads the last anchored number from L2 ...
AnchoringReadsLast ==
    /\ anchoring.step = "idle"
    /\ eventsQueue # <<>>
    /\ anchoring' = [step |-> "clean", last |-> lastAnchored, events |-> <<>>]
    /\ UNCHANGED <<l1, l2, pendingTx, eventsQueue, lastFetched, poller, history, bounds>>

\* ... removes what is anchored from the queue and takes the first of the rest ...
AnchoringTakesEvents ==
    /\ anchoring.step = "clean"
    /\ LET rest == At(eventsQueue, {i \in DOMAIN eventsQueue : eventsQueue[i].number > anchoring.last})
           taken == IF Len(rest) < MaxMessagesToAnchor THEN Len(rest) ELSE MaxMessagesToAnchor
       IN /\ eventsQueue' = rest
          /\ anchoring' = IF rest = <<>> THEN Idle
                          ELSE [step |-> "send", last |-> anchoring.last, events |-> SubSeq(rest, 1, taken)]
    /\ UNCHANGED <<l1, l2, pendingTx, lastFetched, poller, history, bounds>>

\* The transaction for some events: the rolling hash is the one L1 emitted for the last of them.
AnchoringTx(events) ==
    LET final == events[Len(events)].number
    IN [hashes |-> events, start |-> events[1].number, final |-> final,
        rollingHash |-> RollingHashes(final)]

\* Mutant: the transaction is sent without eth_call.
CanSendUnchecked(events) == events[Len(events)].number <= Len(l1Messages)

\* ... and sends a transaction, if L1 has that rolling hash and eth_call says that the transaction
\* succeeds.  It has the nonce of the latest block: with another one pending it replaces that one,
\* or is refused.
CanSend(events) ==
    /\ events[Len(events)].number <= Len(l1Messages)
    /\ AnchoringSucceeds(AnchoringTx(events))

AnchoringSends ==
    /\ anchoring.step = "send"
    /\ anchoring' = Idle
    /\ \/ /\ CanSend(anchoring.events)
          /\ pendingTx' = AnchoringTx(anchoring.events)
       \/ /\ CanSend(anchoring.events) => pendingTx # None
          /\ UNCHANGED pendingTx
    /\ UNCHANGED <<l1, l2, eventsQueue, lastFetched, poller, history, bounds>>

\* A request fails or times out: the tick ends, and the timer starts the next one.
RequestFails ==
    /\ faults < bound.faults /\ faults' = faults + 1
    /\ \/ poller # None /\ poller' = None /\ UNCHANGED anchoring
       \/ anchoring # Idle /\ anchoring' = Idle /\ UNCHANGED poller
    /\ UNCHANGED <<l1, l2, pendingTx, eventsQueue, lastFetched, history, bound, admin>>

\* The mempool loses the transaction.
TransactionIsLost ==
    /\ faults < bound.faults /\ faults' = faults + 1
    /\ pendingTx # None
    /\ pendingTx' = None
    /\ UNCHANGED <<l1, l2, coordinator, history, bound, admin>>

\* The coordinator restarts: everything it holds is in memory.
Restart ==
    /\ faults < bound.faults /\ faults' = faults + 1
    /\ eventsQueue' = <<>> /\ lastFetched' = 0
    /\ poller' = None /\ anchoring' = Idle
    /\ UNCHANGED <<l1, l2, pendingTx, history, bound, admin>>

-----------------------------------------------------------------------------

PollerStep == PollNextMessageNumber \/ PollFetch
AnchoringStep == AnchoringReadsLast \/ AnchoringTakesEvents \/ AnchoringSends

Next ==
    \/ L1SendMessage \/ L1BlockIsFinal \/ L1Reorganisation
    \/ FinalizeBlocks \/ ClaimMessageWithProof \/ ClaimMessageV1
    \/ L2SendMessage \/ L2ClaimMessage \/ AnchorL1L2MessageHashes
    \/ PollNextMessageNumber \/ PollFetch
    \/ AnchoringReadsLast \/ AnchoringTakesEvents \/ AnchoringSends
    \/ RequestFails \/ TransactionIsLost \/ Restart
    \/ ResetRateLimitAmount \/ ResetAmountUsedInPeriod \/ SetMinimumFee
    \/ Tick

Spec == Init /\ [][Next]_vars

\* L1 finalizes its blocks, L2 executes what is in its mempool, the timers of the coordinator fire,
\* the rollup finalizes, time passes, and somebody (a postman, or the recipient) claims.
FairSpec ==
    /\ Spec
    /\ WF_vars(L1BlockIsFinal) /\ WF_vars(AnchorL1L2MessageHashes)
    /\ WF_vars(PollerStep) /\ WF_vars(AnchoringStep)
    /\ WF_vars(FinalizeBlocks) /\ WF_vars(Tick)
    /\ WF_vars(ClaimMessageWithProof) /\ WF_vars(ClaimMessageV1) /\ WF_vars(L2ClaimMessage)

-----------------------------------------------------------------------------

(* The inductive invariant.                                                                      *)

L1Message == [amount: Amounts, block: Nat]
Limiter == [left: Int, used: Int, limit: Int]
AnchoringState == [step: {"idle", "clean", "send"}, last: Nat, events: Seq(Hashes)]
Transaction == [hashes: Seq(Hashes), start: Nat, final: Nat, rollingHash: Seq(Hashes)]

TypeOK ==
    /\ bound \in Bounds
    /\ l1Messages \in Seq(L1Message) /\ Len(l1Messages) <= MaxMessages
    /\ l1Final \in Nat
    /\ l2Messages \in Seq(Amounts) /\ Len(l2Messages) <= MaxMessages
    /\ l2Finalized \in Len(bound.legacy)..Len(l2Messages)
    /\ l1Limiter \in Limiter /\ l2Limiter \in Limiter
    /\ minimumFee \in Nat
    /\ lastAnchored \in Nat /\ rollingHash \in Seq(Hashes)
    /\ inboxL1L2 \in [Hashes -> Status]
    /\ pendingTx \in Transaction \cup {None}
    /\ eventsQueue \in Seq(Hashes) /\ lastFetched \in Nat
    /\ poller \in Nat \cup {None}
    /\ anchoring \in AnchoringState

\* Sequences of consecutive L1 messages, all of them in final blocks.
AreFinalMessages(s) ==
    \A i \in 1..Len(s) :
        /\ s[i].number \in 1..Len(l1Messages)
        /\ s[i].number = s[1].number + i - 1
        /\ s[i] = L1Hash(s[i].number)
        /\ BlockOf(s[i].number) <= l1Final

BlocksAreInOrder ==
    \A m, n \in 1..Len(l1Messages) : m <= n => BlockOf(m) <= BlockOf(n) /\ BlockOf(n) <= l1Final + 1

\* What the coordinator holds is final on L1 and without gaps, and ends where it goes on fetching.
CoordinatorFollowsL1 ==
    /\ AreFinalMessages(eventsQueue)
    /\ AreFinalMessages(anchoring.events)
    /\ anchoring.step = "send" => anchoring.events # <<>>
    /\ poller # None => poller = lastFetched + 1
    /\ eventsQueue # <<>> =>
          /\ eventsQueue[Len(eventsQueue)].number = lastFetched
          /\ lastFetched < Len(l1Messages) => BlockOf(lastFetched + 1) > BlockOf(lastFetched)

\* A transaction in the mempool will not revert: nothing L2 executes before it changes what eth_call saw.
PendingSucceeds ==
    pendingTx # None =>
        /\ pendingTx.hashes # <<>>
        /\ AreFinalMessages(pendingTx.hashes)
        /\ pendingTx = AnchoringTx(pendingTx.hashes)
        /\ AnchoringSucceeds(pendingTx)

\* The inbox of L2 has the first messages of L1, each of them, and no other.
InboxIsL1Prefix ==
    /\ lastAnchored <= Len(l1Messages)
    /\ lastAnchored > 0 => BlockOf(lastAnchored) <= l1Final
    /\ rollingHash = RollingHashes(lastAnchored)
    /\ \A h \in Hashes :
          inboxL1L2[h] # "UNKNOWN" <=> h.number <= lastAnchored /\ h = L1Hash(h.number)

ClaimedOnL1(h) ==
    /\ h.number <= Len(l2Messages) /\ h = L2Hash(h.number)
    /\ IF h.number <= Len(bound.legacy) THEN h \notin inboxL2L1 ELSE h.number \in messageClaimed

\* What L2 delivered is what its inbox remembers as claimed.
L2DeliversClaimed ==
    deliveredOnL2 = [h \in Hashes |-> IF inboxL1L2[h] = "CLAIMED" THEN 1 ELSE 0]

\* What L1 delivered is what its bits and its old inbox remember as claimed, and all of it is final.
L1DeliversClaimed ==
    /\ deliveredOnL1 = [h \in Hashes |-> IF ClaimedOnL1(h) THEN 1 ELSE 0]
    /\ \A root \in l2MerkleRoots : root \subseteq Len(bound.legacy) + 1..l2Finalized
    /\ messageClaimed \subseteq Len(bound.legacy) + 1..l2Finalized
    /\ \A h \in inboxL2L1 : h.number \in 1..Len(bound.legacy) /\ h = L2Hash(h.number)

\* The inbox of L2 is the final prefix of the messages of L1, the coordinator's queue and transactions
\* continue it without gaps, and on both chains a message was delivered if and only if it is claimed.
ChannelIInv ==
    /\ TypeOK
    /\ BlocksAreInOrder
    /\ CoordinatorFollowsL1
    /\ PendingSucceeds
    /\ InboxIsL1Prefix
    /\ L2DeliversClaimed
    /\ L1DeliversClaimed

\* What the messages that were not delivered yet are to be paid.
OwedOnL1 ==
    SumOf([n \in 1..Len(l2Messages) |-> IF deliveredOnL1[L2Hash(n)] = 0 THEN l2Messages[n] ELSE 0])
OwedOnL2 ==
    SumOf([n \in 1..Len(l1Messages) |-> IF deliveredOnL2[L1Hash(n)] = 0 THEN l1Messages[n].amount ELSE 0])

\* Ether is neither made nor lost: L1 holds what both chains owe and what circulates on L2.
EtherIsConserved ==
    /\ l1Balance = OwedOnL1 + OwedOnL2 + (L2Ether - l2Balance)
    /\ l2Balance \in 0..L2Ether

\* The inductive invariant of the bridge.
IInv == ChannelIInv /\ EtherIsConserved

-----------------------------------------------------------------------------

ToL2 == INSTANCE MessageChannel WITH sent <- [n \in 1..Len(l1Messages) |-> l1Messages[n].amount], delivered <- deliveredOnL2
ToL1 == INSTANCE MessageChannel WITH sent <- l2Messages, delivered <- deliveredOnL1

\* Each direction is a channel that delivers what was sent, at most once: across restarts of the
\* coordinator, lost, repeated and reverted anchoring transactions, reorganisations of L1, and
\* both ways to claim on L1.
ImplementsMessageChannels == ToL2!Spec /\ ToL1!Spec

\* The message service on L1 can pay every message to L1 that has not been claimed, whatever fees
\* L2 has taken and however deposits on L1 were reorganised.
L1IsSolvent == l1Balance >= OwedOnL1

\* Every message is delivered in the end; only a rate limit below its amount can hold one back.
EveryMessageIsDelivered ==
    []<>(/\ \A n \in 1..Len(l1Messages) : deliveredOnL2[L1Hash(n)] = 1
         /\ \A n \in 1..Len(l2Messages) : \/ deliveredOnL1[L2Hash(n)] = 1
                                          \/ l2Messages[n] > l1Limiter.limit)
=============================================================================
