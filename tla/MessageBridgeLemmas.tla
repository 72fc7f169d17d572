------------------------ MODULE MessageBridgeLemmas -------------------------
(***************************************************************************)
(* Facts the proofs about MessageBridge rest on: sequences of consecutive  *)
(* final messages of L1, what a step leaves alone, and that the message    *)
(* services of the two chains, their limiters, and the faults, preserve the *)
(* invariant.                                                              *)
(***************************************************************************)
EXTENDS MessageBridge, TLAPS, FiniteSetTheorems

USE ZenonT(30)

-----------------------------------------------------------------------------
(* Sequences and hashes                                                      *)

\* The number of integers from a to b.
LEMMA IntervalSize ==
    ASSUME NEW a \in Int, NEW b \in Int, a <= b + 1
    PROVE  Cardinality(a..b) = b - a + 1
  <1>1. Cardinality(a..b) = IF a > b THEN 0 ELSE b - a + 1
    BY FS_Interval
  <1> QED
    BY <1>1, SMTT(30)

\* The elements of a sequence at its last places are a subsequence.
LEMMA AtInterval ==
    ASSUME NEW S, NEW s \in Seq(S), NEW a \in 1..Len(s) + 1
    PROVE  At(s, a..Len(s)) = SubSeq(s, a, Len(s))
  <1> DEFINE last == Len(s)
             n == last - a + 1
             place(k) == CHOOSE i \in a..last : Cardinality({j \in a..last : j <= i}) = k
  <1>0. last \in Nat /\ a \in Nat /\ 1 <= a /\ a <= last + 1
    BY SMTT(30)
  <1>1. At(s, a..last) = [k \in 1..Cardinality(a..last) |-> s[place(k)]]
    BY DEF At
  <1>2. SubSeq(s, a, last) = [k \in 1..n |-> s[k + a - 1]]
    BY SMTT(30)
  <1> HIDE DEF last
  <1>3. Cardinality(a..last) = n
    BY <1>0, IntervalSize, SMTT(30)
  <1>4. ASSUME NEW k \in 1..n PROVE place(k) = k + a - 1
    <2>1. ASSUME NEW i \in a..last PROVE Cardinality({j \in a..last : j <= i}) = i - a + 1
      <3>1. {j \in a..last : j <= i} = a..i
        BY <1>0, SMTT(30)
      <3>2. Cardinality(a..i) = i - a + 1
        BY <1>0, IntervalSize, SMTT(30)
      <3> QED
        BY <3>1, <3>2, ZenonT(30)
    <2>2. k + a - 1 \in a..last
      BY <1>0, SMTT(30)
    <2>3. ASSUME NEW i \in a..last PROVE Cardinality({j \in a..last : j <= i}) = k <=> i = k + a - 1
      <3>1. Cardinality({j \in a..last : j <= i}) = i - a + 1
        BY <2>1
      <3>2. i - a + 1 = k <=> i = k + a - 1
        BY <1>0, SMTT(30)
      <3> QED
        BY <3>1, <3>2
    <2> QED
      BY <2>2, <2>3
  <1> HIDE DEF place, n
  <1>5. [k \in 1..n |-> s[place(k)]] = [k \in 1..n |-> s[k + a - 1]]
    BY <1>4
  <1> QED
    BY <1>1, <1>2, <1>3, <1>5, ZenonT(30) DEF last

\* The first k elements of a sequence.
LEMMA PrefixOf ==
    ASSUME NEW S, NEW s \in Seq(S), NEW k \in 0..Len(s)
    PROVE  /\ SubSeq(s, 1, k) \in Seq(S) /\ Len(SubSeq(s, 1, k)) = k
           /\ \A i \in 1..k : SubSeq(s, 1, k)[i] = s[i]
  <1>1. 1 \in 1..Len(s) + 1
    BY SMTT(30)
  <1>2. k \in Nat /\ k <= Len(s) /\ k - 1 + 1 = k
    BY SMTT(30)
  <1> QED
    BY <1>1, <1>2, SMTT(30)

\* The hash of a message sent on L1 is a hash with its number.
LEMMA L1HashType ==
    ASSUME l1Messages \in Seq(L1Message), Len(l1Messages) <= MaxMessages, NEW n \in 1..Len(l1Messages)
    PROVE  L1Hash(n) \in Hashes /\ L1Hash(n).number = n
  <1>1. l1Messages[n] \in L1Message
    BY SMTT(30)
  <1>2. l1Messages[n].amount \in Amounts
    BY <1>1 DEF L1Message
  <1>3. n \in 1..MaxMessages
    BY BridgeAssumption, SMTT(30)
  <1> QED
    BY <1>2, <1>3 DEF L1Hash, Hashes

\* What a hash is made of.
LEMMA AmountType == \A h \in Hashes : h.number \in 1..MaxMessages /\ h.amount \in Amounts /\ h.amount \in Int
  <1>1. \A h \in Hashes : h.number \in 1..MaxMessages /\ h.amount \in Amounts
    BY DEF Hashes
  <1>2. Amounts \subseteq Int
    BY BridgeAssumption, SMTT(30)
  <1> QED
    BY <1>1, <1>2, ZenonT(30)

\* The hash of a message sent on L2 is a hash with its number.
LEMMA L2HashType ==
    ASSUME l2Messages \in Seq(Amounts), Len(l2Messages) <= MaxMessages, NEW n \in 1..Len(l2Messages)
    PROVE  L2Hash(n) \in Hashes /\ L2Hash(n).number = n
  BY BridgeAssumption, SMTT(30) DEF L2Hash, Hashes

-----------------------------------------------------------------------------
(* What a step leaves alone                                                  *)

\* A step that leaves L1 alone keeps the order of its blocks.
LEMMA BlocksFrame == BlocksAreInOrder /\ UNCHANGED l1Sending => BlocksAreInOrder'
  BY DEF BlocksAreInOrder, BlockOf, l1Sending

\* A step that leaves L1 and the coordinator alone keeps what the coordinator knows of L1.
LEMMA CoordinatorFrame ==
    CoordinatorFollowsL1 /\ UNCHANGED <<l1Sending, coordinator>> => CoordinatorFollowsL1'
  BY DEF CoordinatorFollowsL1, AreFinalMessages, BlockOf, L1Hash, l1Sending, coordinator

\* The same for a step that drops the events taken from the queue.
LEMMA QueueFrame ==
    ASSUME CoordinatorFollowsL1, UNCHANGED <<l1Sending, eventsQueue, lastFetched, poller>>,
           anchoring'.events = <<>>, anchoring'.step # "send"
    PROVE  CoordinatorFollowsL1'
  <1>1. UNCHANGED <<l1Messages, l1Final>>
    BY DEF l1Sending
  <1>2. AreFinalMessages(eventsQueue)'
    BY <1>1 DEF CoordinatorFollowsL1, AreFinalMessages, BlockOf, L1Hash
  <1>3. AreFinalMessages(anchoring.events)'
    BY SMTT(30) DEF AreFinalMessages
  <1> QED
    BY <1>1, <1>2, <1>3 DEF CoordinatorFollowsL1, BlockOf

\* A transaction in the mempool succeeds as long as L1 and the inbox of L2 stay as they are.
LEMMA PendingFrame ==
    PendingSucceeds /\ UNCHANGED <<l1Sending, pendingTx, anchored>> => PendingSucceeds'
  <1> SUFFICES ASSUME PendingSucceeds, UNCHANGED <<l1Sending, pendingTx, anchored>>, pendingTx # None
               PROVE  PendingSucceeds'
    BY DEF PendingSucceeds
  <1>1. AreFinalMessages(pendingTx.hashes)'
    BY DEF PendingSucceeds, AreFinalMessages, BlockOf, L1Hash, l1Sending
  <1>2. (pendingTx = AnchoringTx(pendingTx.hashes))'
    BY DEF PendingSucceeds, AnchoringTx, RollingHashes, L1Hash, l1Sending
  <1>3. AnchoringSucceeds(pendingTx)'
    BY SMTT(30) DEF PendingSucceeds, AnchoringSucceeds, NewHashes, anchored
  <1> QED
    BY <1>1, <1>2, <1>3 DEF PendingSucceeds

\* A step that leaves L1 and the inbox of L2 alone keeps the inbox a prefix of L1.
LEMMA InboxFrame ==
    InboxIsL1Prefix /\ UNCHANGED <<l1Sending, anchored>> => InboxIsL1Prefix'
  BY DEF InboxIsL1Prefix, RollingHashes, L1Hash, BlockOf, l1Sending, anchored

\* A step that claims nothing on L2 delivers nothing there.
LEMMA L2DeliversFrame ==
    L2DeliversClaimed /\ UNCHANGED <<inboxL1L2, deliveredOnL2>> => L2DeliversClaimed'
  BY DEF L2DeliversClaimed

\* A step that claims nothing on L1 delivers nothing there.
LEMMA L1DeliversFrame ==
    L1DeliversClaimed /\ UNCHANGED <<l1Claiming, l2Messages, l2Finalized, deliveredOnL1, bound>>
        => L1DeliversClaimed'
  BY DEF L1DeliversClaimed, ClaimedOnL1, L2Hash, l1Claiming

\* The variables of both chains that the invariant speaks of, but the limiters and the fee.
chains == <<l1Sending, l1Claiming, l2Messages, l2Finalized, anchored, pendingTx, history, bound>>

\* A step that changes only limiters and fee keeps the invariant.
LEMMA ChainsFrame ==
    ASSUME ChannelIInv, UNCHANGED <<chains, coordinator>>,
           l1Limiter' \in Limiter, l2Limiter' \in Limiter, minimumFee' \in Nat
    PROVE  ChannelIInv'
  <1>1. TypeOK'
    BY DEF ChannelIInv, TypeOK, chains, l1Sending, l1Claiming, anchored, coordinator, history
  <1>2. BlocksAreInOrder' /\ CoordinatorFollowsL1' /\ PendingSucceeds'
    BY BlocksFrame, CoordinatorFrame, PendingFrame DEF ChannelIInv, chains
  <1>3. InboxIsL1Prefix' /\ L2DeliversClaimed' /\ L1DeliversClaimed'
    BY InboxFrame, L2DeliversFrame, L1DeliversFrame DEF ChannelIInv, chains, anchored, history
  <1> QED
    BY <1>1, <1>2, <1>3 DEF ChannelIInv

\* A step that changes nothing keeps the invariant.
LEMMA StutterIInv == ChannelIInv /\ UNCHANGED vars => ChannelIInv'
  <1> SUFFICES ASSUME ChannelIInv, UNCHANGED vars PROVE ChannelIInv'
    OBVIOUS
  <1>1. UNCHANGED <<chains, coordinator, l1Limiter, l2Limiter, minimumFee>>
    BY DEF vars, chains, l1, l2, bounds
  <1> QED
    BY <1>1, ChainsFrame DEF ChannelIInv, TypeOK

\* A step of the coordinator leaves the chains as they are.
LEMMA CoordinatorSteps ==
    ASSUME ChannelIInv, UNCHANGED <<l1, l2, history, bound>>,
           pendingTx' \in Transaction \cup {None}, PendingSucceeds',
           eventsQueue' \in Seq(Hashes), lastFetched' \in Nat, poller' \in Nat \cup {None},
           anchoring' \in AnchoringState, CoordinatorFollowsL1'
    PROVE  ChannelIInv'
  <1>1. TypeOK'
    BY DEF ChannelIInv, TypeOK, l1, l1Sending, l2, anchored
  <1>2. BlocksAreInOrder'
    BY BlocksFrame DEF ChannelIInv, l1
  <1>3. InboxIsL1Prefix' /\ L2DeliversClaimed' /\ L1DeliversClaimed'
    BY InboxFrame, L2DeliversFrame, L1DeliversFrame DEF ChannelIInv, l1, l2, anchored, history
  <1> QED
    BY <1>1, <1>2, <1>3 DEF ChannelIInv

\* A claim on L1 changes only what L1 knows of messages to it.
LEMMA ClaimOnL1Frame ==
    ASSUME ChannelIInv, UNCHANGED <<l1Sending, l2MerkleRoots, l2, pendingTx, coordinator, deliveredOnL2, bounds>>,
           l1Limiter' \in Limiter, L1DeliversClaimed'
    PROVE  ChannelIInv'
  <1> USE DEF ChannelIInv
  <1>1. TypeOK'
    BY DEF TypeOK, l1Sending, l2, anchored, coordinator, bounds
  <1>2. BlocksAreInOrder' /\ CoordinatorFollowsL1' /\ PendingSucceeds' /\ InboxIsL1Prefix'
    BY BlocksFrame, CoordinatorFrame, PendingFrame, InboxFrame DEF l2
  <1>3. L2DeliversClaimed'
    BY L2DeliversFrame DEF l2, anchored
  <1> QED
    BY <1>1, <1>2, <1>3

\* The state of the anchoring service between its ticks.
LEMMA IdleType == Idle \in AnchoringState /\ Idle.events = <<>> /\ Idle.step = "idle"
  BY SMTT(30) DEF Idle, AnchoringState

\* What the rate limiter computes has its type.
LEMMA LimiterTypes ==
    ASSUME NEW limiter \in Limiter, NEW amount \in Int
    PROVE  /\ AddUsedAmount(limiter, amount) \in Limiter
           /\ LimitReset(limiter, amount) \in Limiter
           /\ Passed(limiter) \in Limiter
           /\ [limiter EXCEPT !.used = 0] \in Limiter
  <1>1. limiter.left \in Int /\ limiter.used \in Int /\ limiter.limit \in Int
    BY DEF Limiter
  <1>2. UsedAmount(limiter, amount) \in Int /\ Period \in Int
    BY <1>1, BridgeAssumption, SMTT(30) DEF UsedAmount
  <1>3. AddUsedAmount(limiter, amount) \in Limiter
    BY <1>1, <1>2, ZenonT(30) DEF AddUsedAmount, Limiter
  <1>4. LimitReset(limiter, amount) \in Limiter
    <2>1. CASE PeriodExpired(limiter)
      BY <1>2, <2>1, SMTT(30) DEF LimitReset, Limiter
    <2>2. CASE ~PeriodExpired(limiter)
      <3> DEFINE used == IF amount < limiter.used THEN amount ELSE limiter.used
      <3>1. used \in Int
        BY <1>1
      <3>2. LimitReset(limiter, amount) = [limiter EXCEPT !.limit = amount, !.used = used]
        BY <2>2 DEF LimitReset, Limiter
      <3> HIDE DEF used
      <3> QED
        BY <3>1, <3>2, ZenonT(30) DEF Limiter
    <2> QED
      BY <2>1, <2>2
  <1>5. Passed(limiter) \in Limiter
    BY <1>1, SMTT(30) DEF Passed, Limiter
  <1>6. [limiter EXCEPT !.used = 0] \in Limiter
    BY <1>1, SMTT(30) DEF Limiter
  <1> QED
    BY <1>3, <1>4, <1>5, <1>6

-----------------------------------------------------------------------------
(* Final messages of L1 stay                                                 *)

\* AreFinalMessages for messages msgs on L1 and last final block fin.
FinalIn(msgs, fin, s) ==
    \A i \in 1..Len(s) :
        /\ s[i].number \in 1..Len(msgs)
        /\ s[i].number = s[1].number + i - 1
        /\ s[i] = [number |-> s[i].number, amount |-> msgs[s[i].number].amount]
        /\ msgs[s[i].number].block <= fin

\* RollingHashes for messages msgs on L1.
RollingIn(msgs, n) == [i \in 1..n |-> [number |-> i, amount |-> msgs[i].amount]]

\* The messages in blocks up to fin are also in other messages with last final block fin2.
FinalStay(msgs, fin, msgs2, fin2) ==
    /\ fin <= fin2
    /\ \A n \in 1..Len(msgs) : msgs[n].block <= fin => n \in 1..Len(msgs2) /\ msgs2[n] = msgs[n]

\* Final messages stay final messages.
LEMMA FinalInStays ==
    ASSUME NEW msgs \in Seq(L1Message), NEW fin \in Nat, NEW msgs2 \in Seq(L1Message), NEW fin2 \in Nat,
           FinalStay(msgs, fin, msgs2, fin2), NEW s, FinalIn(msgs, fin, s)
    PROVE  FinalIn(msgs2, fin2, s)
  <1> SUFFICES ASSUME NEW i \in 1..Len(s)
               PROVE  /\ s[i].number \in 1..Len(msgs2)
                      /\ s[i].number = s[1].number + i - 1
                      /\ s[i] = [number |-> s[i].number, amount |-> msgs2[s[i].number].amount]
                      /\ msgs2[s[i].number].block <= fin2
    BY DEF FinalIn
  <1> DEFINE n == s[i].number
  <1>1. /\ n \in 1..Len(msgs)
        /\ n = s[1].number + i - 1
        /\ s[i] = [number |-> n, amount |-> msgs[n].amount]
        /\ msgs[n].block <= fin
    BY DEF FinalIn
  <1>2. n \in 1..Len(msgs2) /\ msgs2[n] = msgs[n]
    BY <1>1 DEF FinalStay
  <1>3. msgs[n] \in L1Message
    BY <1>1, SMTT(30)
  <1>4. msgs[n].block \in Nat
    BY <1>3 DEF L1Message
  <1>5. msgs[n].block <= fin2
    BY <1>1, <1>4, SMTT(30) DEF FinalStay
  <1> QED
    BY <1>1, <1>2, <1>5

\* The blocks of the messages up to a final one are final.
LEMMA EarlierAreFinal ==
    ASSUME TypeOK, BlocksAreInOrder, NEW n \in 1..Len(l1Messages), BlockOf(n) <= l1Final,
           NEW m \in 1..n
    PROVE  BlockOf(m) <= l1Final
  <1>1. m \in 1..Len(l1Messages)
    BY SMTT(30) DEF TypeOK
  <1>2. l1Messages[m] \in L1Message /\ l1Messages[n] \in L1Message
    BY <1>1, SMTT(30) DEF TypeOK
  <1>3. BlockOf(m) \in Nat /\ BlockOf(n) \in Nat
    BY <1>2 DEF BlockOf, L1Message
  <1>4. BlockOf(m) <= BlockOf(n)
    BY <1>1, SMTT(30) DEF BlocksAreInOrder
  <1> QED
    BY <1>3, <1>4, SMTT(30) DEF TypeOK

\* The messages up to a final one stay, and so does their rolling hash.
LEMMA FinalRollingStays ==
    ASSUME TypeOK, BlocksAreInOrder, FinalStay(l1Messages, l1Final, l1Messages', l1Final'),
           NEW n \in 1..Len(l1Messages), BlockOf(n) <= l1Final
    PROVE  /\ n <= Len(l1Messages')
           /\ \A m \in 1..n : m \in 1..Len(l1Messages) /\ l1Messages'[m] = l1Messages[m]
           /\ RollingIn(l1Messages', n) = RollingIn(l1Messages, n)
  <1>1. ASSUME NEW m \in 1..n
        PROVE  /\ m \in 1..Len(l1Messages) /\ m \in 1..Len(l1Messages')
               /\ l1Messages'[m] = l1Messages[m]
    <2>1. m \in 1..Len(l1Messages)
      BY SMTT(30) DEF TypeOK
    <2>2. BlockOf(m) <= l1Final
      BY EarlierAreFinal
    <2> QED
      BY <2>1, <2>2 DEF FinalStay, BlockOf
  <1>2. n \in 1..n
    BY SMTT(30) DEF TypeOK
  <1>3. n <= Len(l1Messages')
    BY <1>1, <1>2, SMTT(30)
  <1>4. RollingIn(l1Messages', n) = RollingIn(l1Messages, n)
    BY <1>1 DEF RollingIn
  <1> QED
    BY <1>1, <1>3, <1>4

\* A step of L1 that keeps its final messages.
L1Steps ==
    /\ l1Messages' \in Seq(L1Message) /\ l1Final' \in Nat
    /\ FinalStay(l1Messages, l1Final, l1Messages', l1Final')

\* Such a step keeps the inbox of L2 a prefix of L1 ...
LEMMA InboxStays ==
    ASSUME TypeOK, BlocksAreInOrder, InboxIsL1Prefix, L1Steps, UNCHANGED anchored
    PROVE  InboxIsL1Prefix'
  <1>1. CASE lastAnchored = 0
    <2>1. rollingHash' = RollingHashes(lastAnchored)'
      BY <1>1, SMTT(30) DEF InboxIsL1Prefix, RollingHashes, anchored
    <2>2. \A h \in Hashes : h.number \in 1..MaxMessages
      BY DEF Hashes
    <2>3. \A h \in Hashes : ~(h.number <= lastAnchored)
      BY <1>1, <2>2, BridgeAssumption, SMTT(30)
    <2>4. \A h \in Hashes : ~(inboxL1L2[h] # "UNKNOWN")
      BY <2>3 DEF InboxIsL1Prefix
    <2>5. lastAnchored' <= Len(l1Messages')
      BY <1>1, SMTT(30) DEF L1Steps, anchored
    <2> QED
      BY <1>1, <2>1, <2>3, <2>4, <2>5, SMTT(30) DEF InboxIsL1Prefix, anchored
  <1>2. CASE lastAnchored # 0
    <2>1. lastAnchored \in 1..Len(l1Messages) /\ BlockOf(lastAnchored) <= l1Final
      BY <1>2, SMTT(30) DEF InboxIsL1Prefix, TypeOK
    <2>2. /\ lastAnchored <= Len(l1Messages')
          /\ \A m \in 1..lastAnchored : m \in 1..Len(l1Messages) /\ l1Messages'[m] = l1Messages[m]
          /\ RollingIn(l1Messages', lastAnchored) = RollingIn(l1Messages, lastAnchored)
      BY <2>1, FinalRollingStays DEF L1Steps
    <2>3. rollingHash' = RollingHashes(lastAnchored)'
      BY <2>2 DEF InboxIsL1Prefix, RollingHashes, RollingIn, L1Hash, anchored
    <2>4. ASSUME NEW h \in Hashes
          PROVE  (inboxL1L2[h] # "UNKNOWN" <=> h.number <= lastAnchored /\ h = L1Hash(h.number))'
      <3>1. h.number \in 1..MaxMessages
        BY DEF Hashes
      <3>2. h.number <= lastAnchored => h.number \in 1..lastAnchored
        BY <3>1, BridgeAssumption, SMTT(30) DEF TypeOK
      <3>3. h.number <= lastAnchored => L1Hash(h.number)' = L1Hash(h.number)
        BY <2>2, <3>2 DEF L1Hash
      <3> QED
        BY <3>3 DEF InboxIsL1Prefix, anchored
    <2>5. BlockOf(lastAnchored)' <= l1Final'
      <3>1. lastAnchored \in 1..lastAnchored
        BY <2>1, SMTT(30) DEF TypeOK
      <3>2. l1Messages[lastAnchored] \in L1Message
        BY <2>1, SMTT(30) DEF TypeOK
      <3>3. BlockOf(lastAnchored) \in Nat
        BY <3>2 DEF L1Message, BlockOf
      <3>4. BlockOf(lastAnchored)' = BlockOf(lastAnchored)
        BY <2>2, <3>1 DEF BlockOf, anchored
      <3> QED
        BY <2>1, <3>3, <3>4, SMTT(30) DEF L1Steps, FinalStay, TypeOK
    <2> QED
      BY <2>2, <2>3, <2>4, <2>5 DEF InboxIsL1Prefix, anchored
  <1> QED
    BY <1>1, <1>2

\* ... the transaction in the mempool successful ...
LEMMA PendingStays ==
    ASSUME TypeOK, BlocksAreInOrder, PendingSucceeds, L1Steps, UNCHANGED <<pendingTx, anchored>>
    PROVE  PendingSucceeds'
  <1> SUFFICES ASSUME pendingTx # None
               PROVE  PendingSucceeds'
    BY DEF PendingSucceeds
  <1> DEFINE s == pendingTx.hashes
             n == s[Len(s)].number
  <1>1. FinalIn(l1Messages, l1Final, s) /\ s # <<>>
    BY ZenonT(30) DEF PendingSucceeds, AreFinalMessages, FinalIn, L1Hash, BlockOf
  <1>2. FinalIn(l1Messages', l1Final', s)
    BY <1>1, FinalInStays DEF L1Steps, TypeOK
  <1>3. AreFinalMessages(pendingTx.hashes)'
    BY <1>2 DEF AreFinalMessages, FinalIn, L1Hash, BlockOf
  <1>4. pendingTx \in Transaction
    BY DEF TypeOK
  <1>5. s \in Seq(Hashes)
    BY <1>4 DEF Transaction
  <1>6. Len(s) \in 1..Len(s)
    BY <1>1, <1>5, SMTT(30)
  <1>7. n \in 1..Len(l1Messages) /\ BlockOf(n) <= l1Final
    BY <1>1, <1>6, ZenonT(30) DEF FinalIn, BlockOf
  <1>8. RollingIn(l1Messages', n) = RollingIn(l1Messages, n)
    BY <1>7, FinalRollingStays DEF L1Steps
  <1>9. (pendingTx = AnchoringTx(pendingTx.hashes))'
    BY <1>8, ZenonT(30) DEF PendingSucceeds, AnchoringTx, RollingHashes, RollingIn, L1Hash
  <1>10. AnchoringSucceeds(pendingTx)'
    BY ZenonT(30) DEF PendingSucceeds, AnchoringSucceeds, NewHashes, anchored
  <1> QED
    BY <1>3, <1>9, <1>10 DEF PendingSucceeds

\* ... and what the coordinator holds final, if the block after its queue is another one.
LEMMA CoordinatorStays ==
    ASSUME TypeOK, CoordinatorFollowsL1, L1Steps, UNCHANGED coordinator,
           eventsQueue # <<>> /\ lastFetched' < Len(l1Messages') =>
               BlockOf(lastFetched + 1)' > BlockOf(lastFetched)'
    PROVE  CoordinatorFollowsL1'
  <1>1. FinalIn(l1Messages, l1Final, eventsQueue) /\ FinalIn(l1Messages, l1Final, anchoring.events)
    BY DEF CoordinatorFollowsL1, AreFinalMessages, FinalIn, L1Hash, BlockOf
  <1>2. /\ FinalIn(l1Messages', l1Final', eventsQueue)
        /\ FinalIn(l1Messages', l1Final', anchoring.events)
    BY <1>1, FinalInStays DEF L1Steps, TypeOK
  <1>3. AreFinalMessages(eventsQueue)' /\ AreFinalMessages(anchoring.events)'
    BY <1>2 DEF AreFinalMessages, FinalIn, L1Hash, BlockOf, coordinator
  <1> QED
    BY <1>3 DEF CoordinatorFollowsL1, coordinator

-----------------------------------------------------------------------------
(* Final messages without gaps                                               *)

\* A part of final messages without gaps is final messages without gaps.
LEMMA FinalSubSeq ==
    ASSUME NEW msgs \in Seq(L1Message), NEW fin \in Nat, NEW s \in Seq(Hashes), FinalIn(msgs, fin, s),
           NEW a \in 1..Len(s) + 1, NEW b \in 0..Len(s)
    PROVE  /\ SubSeq(s, a, b) \in Seq(Hashes)
           /\ Len(SubSeq(s, a, b)) = IF a <= b THEN b - a + 1 ELSE 0
           /\ \A i \in 1..b - a + 1 : SubSeq(s, a, b)[i] = s[a + i - 1]
           /\ FinalIn(msgs, fin, SubSeq(s, a, b))
  <1> DEFINE t == SubSeq(s, a, b)
  <1>1. \A i \in a..b : s[i] \in Hashes
    BY SMTT(30)
  <1>2. a \in Int /\ b \in Int
    BY SMTT(30)
  <1>3. /\ t \in Seq(Hashes)
        /\ Len(t) = IF a <= b THEN b - a + 1 ELSE 0
        /\ \A i \in 1..b - a + 1 : t[i] = s[a + i - 1]
    BY <1>1, <1>2, SMTT(30)
  <1> HIDE DEF t
  <1>4. FinalIn(msgs, fin, t)
    <2> SUFFICES ASSUME NEW i \in 1..Len(t)
                 PROVE  /\ t[i].number \in 1..Len(msgs)
                        /\ t[i].number = t[1].number + i - 1
                        /\ t[i] = [number |-> t[i].number, amount |-> msgs[t[i].number].amount]
                        /\ msgs[t[i].number].block <= fin
      BY DEF FinalIn
    <2>1. i \in 1..b - a + 1 /\ 1 \in 1..b - a + 1
      BY <1>2, <1>3, SMTT(30)
    <2>2. t[i] = s[a + i - 1] /\ t[1] = s[a]
      BY <1>2, <1>3, <2>1, SMTT(30)
    <2>3. a + i - 1 \in 1..Len(s) /\ a \in 1..Len(s)
      BY <2>1, SMTT(30)
    <2>4. s[a].number = s[1].number + a - 1 /\ s[a + i - 1].number = s[1].number + (a + i - 1) - 1
      BY <2>3, ZenonT(30) DEF FinalIn
    <2>5. s[1].number \in Nat
      <3>1. 1 \in 1..Len(s)
        BY <2>3, SMTT(30)
      <3>2. s[1].number \in 1..Len(msgs)
        BY <3>1, ZenonT(30) DEF FinalIn
      <3> QED
        BY <3>2, SMTT(30)
    <2>6. t[i].number = t[1].number + i - 1
      <3>1. t[i].number = s[1].number + (a + i - 1) - 1 /\ t[1].number = s[1].number + a - 1
        BY <2>2, <2>4
      <3>2. i \in Int
        BY <1>2, <2>1, SMTT(30)
      <3>3. \A p \in Nat : p + (a + i - 1) - 1 = (p + a - 1) + i - 1
        BY <1>2, <3>2, SMTT(30)
      <3>4. s[1].number + (a + i - 1) - 1 = (s[1].number + a - 1) + i - 1
        BY <2>5, <3>3, ZenonT(30)
      <3> QED
        BY <3>1, <3>4
    <2> QED
      BY <2>2, <2>3, <2>6, ZenonT(30) DEF FinalIn
  <1> QED
    BY <1>3, <1>4 DEF t

\* So are final messages followed by the next ones.
LEMMA FinalConcat ==
    ASSUME NEW msgs \in Seq(L1Message), NEW fin \in Nat, NEW q \in Seq(Hashes), NEW f \in Seq(Hashes),
           FinalIn(msgs, fin, q), FinalIn(msgs, fin, f),
           q # <<>> /\ f # <<>> => f[1].number = q[Len(q)].number + 1
    PROVE  FinalIn(msgs, fin, q \o f)
  <1> DEFINE s == q \o f
  <1>1. /\ s \in Seq(Hashes) /\ Len(s) = Len(q) + Len(f)
        /\ \A i \in 1..Len(q) + Len(f) : s[i] = IF i <= Len(q) THEN q[i] ELSE f[i - Len(q)]
    BY SMTT(30)
  <1> HIDE DEF s
  <1> SUFFICES ASSUME NEW i \in 1..Len(s)
               PROVE  /\ s[i].number \in 1..Len(msgs)
                      /\ s[i].number = s[1].number + i - 1
                      /\ s[i] = [number |-> s[i].number, amount |-> msgs[s[i].number].amount]
                      /\ msgs[s[i].number].block <= fin
    BY ZenonT(30) DEF FinalIn, s
  <1>2. i \in 1..Len(q) + Len(f) /\ 1 \in 1..Len(q) + Len(f) /\ Len(q) \in Nat /\ Len(f) \in Nat
    BY <1>1, SMTT(30)
  <1>3. CASE i <= Len(q)
    <2>0. i \in 1..Len(q) /\ 1 <= Len(q)
      BY <1>2, <1>3, SMTT(30)
    <2>1. s[i] = q[i] /\ s[1] = q[1]
      BY <1>1, <1>2, <1>3, <2>0
    <2> QED
      BY <2>0, <2>1 DEF FinalIn
  <1>4. CASE ~(i <= Len(q))
    <2> DEFINE j == i - Len(q)
    <2>1. j \in 1..Len(f) /\ s[i] = f[j] /\ 1 \in 1..Len(f)
      BY <1>1, <1>2, <1>4, SMTT(30)
    <2>2. f[j].number = f[1].number + j - 1
      BY <2>1, ZenonT(30) DEF FinalIn
    <2>3. s[i].number = s[1].number + i - 1
      <3>1. CASE Len(q) = 0
        <4>1. s[1] = f[1] /\ j = i
          BY <1>1, <1>2, <3>1, SMTT(30)
        <4> QED
          BY <2>1, <2>2, <4>1
      <3>2. CASE Len(q) # 0
        <4>1. s[1] = q[1] /\ Len(q) \in 1..Len(q) /\ 1 \in 1..Len(q) /\ q # <<>> /\ f # <<>>
          BY <1>1, <1>2, <2>1, <3>2, SMTT(30)
        <4>2. q[Len(q)].number = q[1].number + Len(q) - 1 /\ q[1].number \in 1..Len(msgs)
          BY <4>1, ZenonT(30) DEF FinalIn
        <4>3. f[1].number = q[1].number + Len(q) - 1 + 1
          BY <4>1, <4>2
        <4>4. \A p \in Nat : ((p + Len(q) - 1) + 1) + (i - Len(q)) - 1 = p + i - 1
          BY <1>2, SMTT(30)
        <4>5. q[1].number \in Nat
          BY <4>2, SMTT(30)
        <4>6. s[i].number = ((q[1].number + Len(q) - 1) + 1) + (i - Len(q)) - 1
          BY <2>1, <2>2, <4>3
        <4> QED
          BY <4>1, <4>4, <4>5, <4>6, ZenonT(30)
      <3> QED
        BY <3>1, <3>2
    <2> QED
      BY <2>1, <2>3, ZenonT(30) DEF FinalIn
  <1> QED
    BY <1>3, <1>4

\* The events after a number are the last ones of a queue without gaps.
LEMMA KeptPlaces ==
    ASSUME NEW q \in Seq(Hashes), NEW last \in Nat,
           \A i \in 1..Len(q) : q[i].number \in Nat /\ q[i].number = q[1].number + i - 1
    PROVE  \E a \in 1..Len(q) + 1 : {i \in DOMAIN q : q[i].number > last} = a..Len(q)
  <1> DEFINE len == Len(q)
             p == q[1].number
             kept == {i \in DOMAIN q : q[i].number > last}
  <1>1. len \in Nat /\ DOMAIN q = 1..len
    BY SMTT(30)
  <1>2. CASE len = 0
    <2>1. kept = 1..len
      BY <1>1, <1>2, SMTT(30)
    <2>2. 1 \in 1..len + 1
      BY <1>2, SMTT(30)
    <2> QED
      BY <2>1, <2>2
  <1>3. CASE len # 0
    <2>1. p \in Nat
      <3>1. 1 \in 1..len
        BY <1>1, <1>3, SMTT(30)
      <3> QED
        BY <3>1
    <2>2. kept = {i \in 1..len : p + i - 1 > last}
      BY <1>1
    <2> HIDE DEF p, len, kept
    <2>3. CASE p + len - 1 <= last
      <3>1. kept = len + 1..len
        BY <1>1, <2>1, <2>2, <2>3, SMTT(30)
      <3>2. len + 1 \in 1..len + 1
        BY <1>1, SMTT(30)
      <3> QED
        BY <3>1, <3>2 DEF len, kept
    <2>4. CASE p > last
      <3>1. kept = 1..len
        BY <1>1, <2>1, <2>2, <2>4, SMTT(30)
      <3>2. 1 \in 1..len + 1
        BY <1>1, SMTT(30)
      <3> QED
        BY <3>1, <3>2 DEF len, kept
    <2>5. CASE p <= last /\ p + len - 1 > last
      <3>1. kept = last - p + 2..len
        BY <1>1, <2>1, <2>2, <2>5, SMTT(30)
      <3>2. last - p + 2 \in 1..len + 1
        BY <1>1, <2>1, <2>5, SMTT(30)
      <3> QED
        BY <3>1, <3>2 DEF len, kept
    <2>6. p + len - 1 <= last \/ p > last \/ (p <= last /\ p + len - 1 > last)
      BY <1>1, <2>1, SMTT(30)
    <2> QED
      BY <2>3, <2>4, <2>5, <2>6, ZenonT(30)
  <1> QED
    BY <1>2, <1>3

\* The events of a search are final messages without gaps, and continue the queue.
LEMMA FetchedEvents ==
    ASSUME ChannelIInv, NEW first \in 1..Len(l1Messages), NEW last \in 1..Len(l1Messages), poller # None,
           Fetched(poller, first, last)
    PROVE  LET f == [i \in 1..last - first + 1 |-> L1Hash(first + i - 1)]
           IN /\ f \in Seq(Hashes) /\ f # <<>>
              /\ FinalIn(l1Messages, l1Final, f)
              /\ eventsQueue # <<>> => f[1].number = eventsQueue[Len(eventsQueue)].number + 1
              /\ f[Len(f)].number = last
  <1> USE DEF ChannelIInv
  <1> DEFINE f == [i \in 1..last - first + 1 |-> L1Hash(first + i - 1)]
             n == last - first + 1
  <1>0. l1Messages \in Seq(L1Message) /\ Len(l1Messages) \in Nat
    BY SMTT(30) DEF TypeOK
  <1>1. /\ first <= last /\ first \in Nat /\ last \in Nat /\ n \in Nat /\ n >= 1
        /\ poller \in Nat /\ first <= poller /\ poller <= last
    BY <1>0, SMTT(30) DEF Fetched, TypeOK
  <1>2. \A i \in 1..n : /\ first + i - 1 \in 1..Len(l1Messages) /\ first + i - 1 <= last
                        /\ first + i - 1 \in 1..last
    BY <1>0, <1>1, SMTT(30)
  <1>3. \A i \in 1..n : L1Hash(first + i - 1) \in Hashes /\ L1Hash(first + i - 1).number = first + i - 1
    BY <1>2, L1HashType DEF TypeOK
  <1>4. /\ f \in Seq(Hashes) /\ Len(f) = n
        /\ \A i \in 1..n : f[i] = L1Hash(first + i - 1) /\ f[i].number = first + i - 1
    <2> HIDE DEF n
    <2>1. f = [i \in 1..n |-> L1Hash(first + i - 1)]
      BY DEF n
    <2> HIDE DEF f
    <2>2. f \in [1..n -> Hashes]
      BY <1>3, <2>1
    <2>3. f \in Seq(Hashes) /\ Len(f) = n
      BY <1>1, <2>2, SMTT(30)
    <2>4. \A i \in 1..n : f[i] = L1Hash(first + i - 1)
      BY <2>1
    <2> QED
      BY <1>3, <2>3, <2>4
  <1> HIDE DEF f
  <1>5. f # <<>> /\ f[1].number = first /\ f[Len(f)].number = last
    <2>1. 1 \in 1..n /\ n \in 1..n /\ first + 1 - 1 = first /\ first + n - 1 = last
      BY <1>1, SMTT(30)
    <2>2. f[1].number = first /\ f[n].number = last
      BY <1>4, <2>1
    <2>3. f # <<>>
      BY <1>1, <1>4, SMTT(30)
    <2> QED
      BY <1>4, <2>2, <2>3
  <1>6. FinalIn(l1Messages, l1Final, f)
    <2>1. BlockOf(last) <= l1Final
      BY DEF Fetched, WholeBlocks
    <2>2. ASSUME NEW i \in 1..Len(f)
          PROVE  /\ f[i].number \in 1..Len(l1Messages)
                 /\ f[i].number = f[1].number + i - 1
                 /\ f[i] = [number |-> f[i].number, amount |-> l1Messages[f[i].number].amount]
                 /\ l1Messages[f[i].number].block <= l1Final
      <3>1. i \in 1..n /\ f[i].number = first + i - 1 /\ f[i] = L1Hash(first + i - 1)
        BY <1>4, <2>2
      <3>2. first + i - 1 \in 1..Len(l1Messages) /\ first + i - 1 \in 1..last
        BY <1>2, <3>1
      <3>3. BlockOf(first + i - 1) <= l1Final
        BY <2>1, <3>2, EarlierAreFinal
      <3> QED
        BY <1>5, <3>1, <3>2, <3>3 DEF BlockOf, L1Hash
    <2> QED
      BY <2>2 DEF FinalIn
  <1>7. ASSUME eventsQueue # <<>> PROVE first = eventsQueue[Len(eventsQueue)].number + 1
    <2> DEFINE end == lastFetched
    <2>1. eventsQueue[Len(eventsQueue)].number = end /\ poller = end + 1
      BY <1>7 DEF CoordinatorFollowsL1
    <2>2. Len(eventsQueue) \in 1..Len(eventsQueue)
      BY <1>7, SMTT(30) DEF TypeOK
    <2>3. end \in 1..Len(l1Messages)
      BY <1>7, <2>1, <2>2 DEF CoordinatorFollowsL1, AreFinalMessages
    <2>4. end < Len(l1Messages) /\ end + 1 \in 1..Len(l1Messages)
      BY <1>0, <1>1, <2>1, <2>3, SMTT(30)
    <2>5. BlockOf(end + 1) > BlockOf(end)
      BY <1>7, <2>4 DEF CoordinatorFollowsL1
    <2>6. BlockOf(first) = BlockOf(end + 1)
      BY <2>1 DEF Fetched
    <2>7. l1Messages[end] \in L1Message /\ l1Messages[first] \in L1Message
      BY <1>0, <2>3, SMTT(30)
    <2>8. BlockOf(end) \in Nat /\ BlockOf(first) \in Nat
      BY <2>7 DEF BlockOf, L1Message
    <2>9. ~(first <= end)
      <3> SUFFICES ASSUME first <= end PROVE FALSE
        OBVIOUS
      <3>1. BlockOf(first) <= BlockOf(end)
        BY <2>3 DEF BlocksAreInOrder
      <3> QED
        BY <2>5, <2>6, <2>8, <3>1, SMTT(30)
    <2>10. first = end + 1
      BY <1>1, <2>1, <2>3, <2>9, SMTT(30)
    <2> QED
      BY <2>1, <2>10
  <1> QED
    BY <1>4, <1>5, <1>6, <1>7, ZenonT(30) DEF f

\* A transaction whose hashes are counted right has only new ones.
LEMMA AllAreNew ==
    ASSUME TypeOK, NEW s \in Seq(Hashes), Cardinality(NewHashes(s)) = Len(s)
    PROVE  NewHashes(s) = 1..Len(s)
  <1>1. Len(s) \in Nat /\ DOMAIN s = 1..Len(s)
    BY SMTT(30)
  <1>2. NewHashes(s) \subseteq 1..Len(s)
    BY <1>1, ZenonT(30) DEF NewHashes
  <1>3. IsFiniteSet(1..Len(s)) /\ Cardinality(1..Len(s)) = Len(s)
    <2>1. IsFiniteSet(1..Len(s))
      BY <1>1, FS_Interval, SMTT(30)
    <2>2. 1 <= Len(s) + 1 /\ Len(s) - 1 + 1 = Len(s)
      BY <1>1, SMTT(30)
    <2>3. Cardinality(1..Len(s)) = Len(s) - 1 + 1
      BY <1>1, <2>2, IntervalSize, SMTT(30)
    <2> QED
      BY <2>1, <2>2, <2>3
  <1> QED
    BY <1>2, <1>3, FS_Subset

-----------------------------------------------------------------------------
(* Initial states and the steps of L1                                        *)

\* The invariant holds at deployment.
LEMMA InitIInv == Init => ChannelIInv
  <1> SUFFICES ASSUME Init PROVE ChannelIInv
    OBVIOUS
  <1>1. bound.legacy \in Seq(Amounts) /\ Len(bound.legacy) <= MaxMessages
    BY BridgeAssumption DEF Init
  <1>2. l1Limiter \in Limiter /\ l2Limiter \in Limiter
    BY BridgeAssumption, SMTT(30) DEF Init, Limiter
  <1>3. anchoring \in AnchoringState
    BY SMTT(30) DEF Init, Idle, AnchoringState
  <1>4. inboxL1L2 \in [Hashes -> Status]
    BY DEF Init, Status
  <1>5. TypeOK
    BY <1>1, <1>2, <1>3, <1>4, BridgeAssumption, SMTT(30) DEF Init, TypeOK
  <1>6. BlocksAreInOrder
    BY SMTT(30) DEF Init, BlocksAreInOrder
  <1>7. CoordinatorFollowsL1
    BY SMTT(30) DEF Init, CoordinatorFollowsL1, AreFinalMessages, Idle
  <1>8. PendingSucceeds
    BY DEF Init, PendingSucceeds
  <1>9. InboxIsL1Prefix
    <2>1. \A h \in Hashes : h.number \in 1..MaxMessages
      BY DEF Hashes
    <2>2. \A h \in Hashes : ~(h.number <= lastAnchored)
      BY <2>1, BridgeAssumption, SMTT(30) DEF Init
    <2> QED
      BY <2>2, SMTT(30) DEF Init, InboxIsL1Prefix, RollingHashes
  <1>10. L2DeliversClaimed
    BY DEF Init, L2DeliversClaimed
  <1>11. L1DeliversClaimed
    <2>1. ASSUME NEW h \in Hashes PROVE ~ClaimedOnL1(h)
      <3>1. h.number \in 1..MaxMessages
        BY DEF Hashes
      <3>2. h.number \in 1..Len(bound.legacy) /\ h = L2Hash(h.number) => h \in inboxL2L1
        BY DEF Init, L2Hash
      <3> QED
        BY <1>1, <3>1, <3>2, BridgeAssumption, SMTT(30) DEF Init, ClaimedOnL1
    <2>2. \A h \in inboxL2L1 : h.number \in 1..Len(bound.legacy) /\ h = L2Hash(h.number)
      BY SMTT(30) DEF Init, L2Hash
    <2> QED
      BY <2>1, <2>2 DEF Init, L1DeliversClaimed
  <1> QED
    BY <1>5, <1>6, <1>7, <1>8, <1>9, <1>10, <1>11 DEF ChannelIInv

\* A message in a block that is not final changes nothing anyone relies on.
LEMMA L1SendMessageIInv == ChannelIInv /\ L1SendMessage => ChannelIInv'
  <1> SUFFICES ASSUME ChannelIInv, L1SendMessage PROVE ChannelIInv'
    OBVIOUS
  <1> USE DEF ChannelIInv
  <1> PICK a \in Amounts : l1Messages' = Append(l1Messages, [amount |-> a, block |-> l1Final + 1])
    BY DEF L1SendMessage
  <1> DEFINE m == [amount |-> a, block |-> l1Final + 1]
  <1>0. UNCHANGED <<l1Final, l1Claiming, l1Limiter, l2, pendingTx, coordinator, history, bounds>>
    BY DEF L1SendMessage
  <1>1. m \in L1Message
    BY SMTT(30) DEF L1Message, TypeOK
  <1>2. /\ l1Messages' \in Seq(L1Message) /\ Len(l1Messages') = Len(l1Messages) + 1
        /\ Len(l1Messages') <= MaxMessages
        /\ \A n \in 1..Len(l1Messages) : l1Messages'[n] = l1Messages[n]
        /\ l1Messages'[Len(l1Messages) + 1] = m
    <2>1. bound.l1 \in 0..MaxMessages
      BY BridgeAssumption DEF TypeOK
    <2> QED
      BY <1>1, <2>1, BridgeAssumption, SMTT(30) DEF TypeOK, L1SendMessage
  <1>3. TypeOK'
    BY <1>0, <1>2 DEF TypeOK, l1Claiming, l2, anchored, coordinator, history, bounds
  <1>4. L1Steps
    BY <1>0, <1>2, SMTT(30) DEF L1Steps, FinalStay, TypeOK
  <1>5. BlocksAreInOrder'
    <2> SUFFICES ASSUME NEW i \in 1..Len(l1Messages'), NEW j \in 1..Len(l1Messages'), i <= j
                 PROVE  BlockOf(i)' <= BlockOf(j)' /\ BlockOf(j)' <= l1Final' + 1
      BY DEF BlocksAreInOrder
    <2>1. \A n \in 1..Len(l1Messages) : BlockOf(n)' = BlockOf(n) /\ BlockOf(n) <= l1Final + 1
      <3>1. \A n \in 1..Len(l1Messages) : n <= n
        BY SMTT(30)
      <3> QED
        BY <1>2, <3>1 DEF BlocksAreInOrder, BlockOf
    <2>2. l1Messages'[Len(l1Messages) + 1].block = l1Final + 1
      BY <1>2, SMTT(30)
    <2>3. CASE j \in 1..Len(l1Messages)
      <3>1. i \in 1..Len(l1Messages)
        BY <2>3, SMTT(30) DEF TypeOK
      <3> QED
        BY <1>0, <2>1, <2>3, <3>1 DEF BlocksAreInOrder
    <2>4. CASE j = Len(l1Messages) + 1
      <3>1. i \in 1..Len(l1Messages) \/ i = Len(l1Messages) + 1
        BY <1>2, SMTT(30) DEF TypeOK
      <3>2. BlockOf(j)' = l1Final + 1
        BY <2>2, <2>4, <1>0, <1>2 DEF BlockOf
      <3>3. BlockOf(i)' <= l1Final + 1
        BY <2>1, <2>2, <3>1, <1>0, <1>2, SMTT(30) DEF BlockOf, TypeOK
      <3> QED
        BY <1>0, <3>2, <3>3, SMTT(30) DEF TypeOK
    <2>5. j \in 1..Len(l1Messages) \/ j = Len(l1Messages) + 1
      BY <1>2, SMTT(30) DEF TypeOK
    <2> QED
      BY <2>3, <2>4, <2>5
  <1>6. CoordinatorFollowsL1'
    <2>1. ASSUME eventsQueue # <<>>, lastFetched' < Len(l1Messages')
          PROVE  BlockOf(lastFetched + 1)' > BlockOf(lastFetched)'
      <3>1. Len(eventsQueue) \in 1..Len(eventsQueue)
        BY <2>1, SMTT(30) DEF TypeOK
      <3>2. lastFetched \in 1..Len(l1Messages) /\ BlockOf(lastFetched) <= l1Final
        BY <2>1, <3>1 DEF CoordinatorFollowsL1, AreFinalMessages
      <3>3. l1Messages[lastFetched] \in L1Message
        BY <3>2, SMTT(30) DEF TypeOK
      <3>4. BlockOf(lastFetched) \in Nat /\ BlockOf(lastFetched)' = BlockOf(lastFetched)
        BY <1>0, <1>2, <3>2, <3>3 DEF BlockOf, L1Message, coordinator
      <3>5. CASE lastFetched = Len(l1Messages)
        <4>1. BlockOf(lastFetched + 1)' = l1Final + 1
          BY <1>0, <1>2, <3>5, SMTT(30) DEF BlockOf, coordinator
        <4> QED
          BY <3>2, <3>4, <4>1, SMTT(30) DEF TypeOK
      <3>6. CASE lastFetched < Len(l1Messages)
        <4>1. lastFetched + 1 \in 1..Len(l1Messages)
          BY <3>2, <3>6, SMTT(30) DEF TypeOK
        <4>2. BlockOf(lastFetched + 1)' = BlockOf(lastFetched + 1)
          BY <1>0, <1>2, <4>1 DEF BlockOf, coordinator
        <4> QED
          BY <2>1, <3>4, <3>6, <4>2 DEF CoordinatorFollowsL1
      <3> QED
        BY <3>2, <3>5, <3>6, SMTT(30) DEF TypeOK
    <2> QED
      BY <1>0, <1>4, <2>1, CoordinatorStays, SMTT(30)
  <1>7. PendingSucceeds' /\ InboxIsL1Prefix'
    BY <1>0, <1>4, PendingStays, InboxStays DEF l2
  <1>8. L2DeliversClaimed' /\ L1DeliversClaimed'
    BY <1>0, L2DeliversFrame, L1DeliversFrame DEF l2, anchored, history, bounds
  <1> QED
    BY <1>3, <1>5, <1>6, <1>7, <1>8

\* A block becomes final.
LEMMA L1BlockIsFinalIInv == ChannelIInv /\ L1BlockIsFinal => ChannelIInv'
  <1> SUFFICES ASSUME ChannelIInv, L1BlockIsFinal PROVE ChannelIInv'
    OBVIOUS
  <1> USE DEF ChannelIInv
  <1>0. /\ UNCHANGED <<l1Messages, l1Claiming, l1Limiter, l2, pendingTx, coordinator, history, bounds>>
        /\ l1Final' = l1Final + 1
    BY DEF L1BlockIsFinal
  <1>1. TypeOK'
    BY <1>0, SMTT(30) DEF TypeOK, l1Claiming, l2, anchored, coordinator, history, bounds
  <1>2. L1Steps
    BY <1>0, SMTT(30) DEF L1Steps, FinalStay, TypeOK
  <1>3. BlocksAreInOrder'
    <2>1. ASSUME NEW n \in 1..Len(l1Messages), BlockOf(n) <= l1Final + 1
          PROVE  BlockOf(n) <= l1Final' + 1
      <3>1. l1Messages[n] \in L1Message
        BY SMTT(30) DEF TypeOK
      <3>2. BlockOf(n) \in Nat
        BY <3>1 DEF BlockOf, L1Message
      <3> QED
        BY <1>0, <2>1, <3>2, SMTT(30) DEF TypeOK
    <2> QED
      BY <1>0, <2>1 DEF BlocksAreInOrder, BlockOf
  <1>4. CoordinatorFollowsL1'
    <2>1. eventsQueue # <<>> /\ lastFetched' < Len(l1Messages') =>
               BlockOf(lastFetched + 1)' > BlockOf(lastFetched)'
      BY <1>0 DEF CoordinatorFollowsL1, BlockOf, coordinator
    <2> QED
      BY <1>0, <1>2, <2>1, CoordinatorStays
  <1>5. PendingSucceeds' /\ InboxIsL1Prefix'
    BY <1>0, <1>2, PendingStays, InboxStays DEF l2
  <1>6. L2DeliversClaimed' /\ L1DeliversClaimed'
    BY <1>0, L2DeliversFrame, L1DeliversFrame DEF l2, anchored, history, bounds
  <1> QED
    BY <1>1, <1>3, <1>4, <1>5, <1>6

\* A reorganisation drops only a message nobody has seen.
LEMMA L1ReorganisationIInv == ChannelIInv /\ L1Reorganisation => ChannelIInv'
  <1> SUFFICES ASSUME ChannelIInv, L1Reorganisation PROVE ChannelIInv'
    OBVIOUS
  <1> USE DEF ChannelIInv
  <1> DEFINE last == Len(l1Messages)
  <1>0. UNCHANGED <<l1Final, l1Claiming, l1Limiter, l2, pendingTx, coordinator, history, bound, admin>>
    BY DEF L1Reorganisation
  <1>1. last \in 1..MaxMessages /\ BlockOf(last) > l1Final
    BY BridgeAssumption, SMTT(30) DEF L1Reorganisation, BlockOf, TypeOK
  <1>2. /\ l1Messages' \in Seq(L1Message) /\ Len(l1Messages') = last - 1
        /\ Len(l1Messages') <= MaxMessages
        /\ \A n \in 1..last - 1 : l1Messages'[n] = l1Messages[n]
    <2>1. l1Messages \in Seq(L1Message) /\ last <= MaxMessages
      BY DEF TypeOK
    <2>2. l1Messages' = SubSeq(l1Messages, 1, last - 1)
      BY DEF L1Reorganisation
    <2>3. last - 1 \in 0..last
      BY <1>1, SMTT(30)
    <2> DEFINE t == SubSeq(l1Messages, 1, last - 1)
    <2>4. /\ t \in Seq(L1Message) /\ Len(t) = last - 1
          /\ \A n \in 1..last - 1 : t[n] = l1Messages[n]
      BY <2>1, <2>3, PrefixOf, ZenonT(30)
    <2>5. last - 1 <= MaxMessages
      BY <1>1, BridgeAssumption, SMTT(30)
    <2> HIDE DEF t
    <2> QED
      BY <2>2, <2>4, <2>5 DEF t
  <1>3. TypeOK'
    BY <1>0, <1>2 DEF TypeOK, l1Claiming, l2, anchored, coordinator, history
  <1>4. \A n \in 1..last : BlockOf(n) \in Nat
    <2> SUFFICES ASSUME NEW n \in 1..last PROVE BlockOf(n) \in Nat
      OBVIOUS
    <2>1. l1Messages[n] \in L1Message
      BY SMTT(30) DEF TypeOK
    <2> QED
      BY <2>1 DEF BlockOf, L1Message
  <1>5. \A n \in 1..last : BlockOf(n) <= l1Final => n \in 1..last - 1
    BY <1>1, <1>4, SMTT(30) DEF TypeOK
  <1>6. L1Steps
    <2>1. l1Final' \in Nat /\ l1Final <= l1Final'
      BY <1>0, SMTT(30) DEF TypeOK
    <2>2. \A n \in 1..last : l1Messages[n].block <= l1Final => n \in 1..last - 1
      BY <1>5 DEF BlockOf
    <2>3. FinalStay(l1Messages, l1Final, l1Messages', l1Final')
      BY <1>2, <2>1, <2>2 DEF FinalStay
    <2> QED
      BY <1>2, <2>1, <2>3 DEF L1Steps
  <1>7. BlocksAreInOrder'
    <2>1. \A n \in 1..last - 1 : n \in 1..last /\ BlockOf(n)' = BlockOf(n)
      BY <1>1, <1>2, SMTT(30) DEF BlockOf
    <2> QED
      BY <1>0, <1>2, <2>1, SMTT(30) DEF BlocksAreInOrder
  <1>8. CoordinatorFollowsL1'
    <2>1. ASSUME eventsQueue # <<>>, lastFetched' < Len(l1Messages')
          PROVE  BlockOf(lastFetched + 1)' > BlockOf(lastFetched)'
      <3>1. Len(eventsQueue) \in 1..Len(eventsQueue)
        BY <2>1, SMTT(30) DEF TypeOK
      <3>2. lastFetched \in 1..last
        BY <2>1, <3>1 DEF CoordinatorFollowsL1, AreFinalMessages
      <3>3. lastFetched \in 1..last - 1 /\ lastFetched + 1 \in 1..last - 1 /\ lastFetched < last
        BY <1>0, <1>2, <2>1, <3>2, SMTT(30) DEF coordinator, TypeOK
      <3>4. /\ BlockOf(lastFetched)' = BlockOf(lastFetched)
            /\ BlockOf(lastFetched + 1)' = BlockOf(lastFetched + 1)
        BY <1>0, <1>2, <3>3 DEF BlockOf, coordinator
      <3> QED
        BY <2>1, <3>3, <3>4 DEF CoordinatorFollowsL1
    <2> QED
      BY <1>0, <1>6, <2>1, CoordinatorStays
  <1>9. PendingSucceeds' /\ InboxIsL1Prefix'
    BY <1>0, <1>6, PendingStays, InboxStays DEF l2
  <1>10. L2DeliversClaimed' /\ L1DeliversClaimed'
    BY <1>0, L2DeliversFrame, L1DeliversFrame DEF l2, anchored, history
  <1> QED
    BY <1>3, <1>7, <1>8, <1>9, <1>10

-----------------------------------------------------------------------------
(* Rate limiters, fees and faults                                            *)

\* Time, and the admin calls of limiters and fee.
LEMMA LimiterStepsIInv ==
    ChannelIInv /\ (ResetRateLimitAmount \/ ResetAmountUsedInPeriod \/ SetMinimumFee \/ Tick) => ChannelIInv'
  <1> SUFFICES ASSUME ChannelIInv, ResetRateLimitAmount \/ ResetAmountUsedInPeriod \/ SetMinimumFee \/ Tick
               PROVE  ChannelIInv'
    OBVIOUS
  <1>0. l1Limiter \in Limiter /\ l2Limiter \in Limiter /\ minimumFee \in Nat
    BY DEF ChannelIInv, TypeOK
  <1>1. CASE ResetRateLimitAmount
    <2>1. PICK amount \in Limits :
              \/ l1Limiter' = LimitReset(l1Limiter, amount) /\ UNCHANGED l2Limiter
              \/ l2Limiter' = LimitReset(l2Limiter, amount) /\ UNCHANGED l1Limiter
      BY <1>1 DEF ResetRateLimitAmount
    <2>2. amount \in Int
      BY BridgeAssumption, SMTT(30)
    <2>3. l1Limiter' \in Limiter /\ l2Limiter' \in Limiter
      BY <1>0, <2>1, <2>2, LimiterTypes, ZenonT(30)
    <2>4. UNCHANGED <<chains, coordinator, minimumFee>>
      BY <1>1 DEF ResetRateLimitAmount, chains
    <2> QED
      BY <1>0, <2>3, <2>4, ChainsFrame
  <1>2. CASE ResetAmountUsedInPeriod
    <2>1. l1Limiter' \in Limiter /\ l2Limiter' \in Limiter
      BY <1>0, <1>2, LimiterTypes, SMTT(30) DEF ResetAmountUsedInPeriod
    <2>2. UNCHANGED <<chains, coordinator, minimumFee>>
      BY <1>2 DEF ResetAmountUsedInPeriod, chains
    <2> QED
      BY <1>0, <2>1, <2>2, ChainsFrame
  <1>3. CASE SetMinimumFee
    <2>1. minimumFee' \in Nat
      BY <1>3, BridgeAssumption DEF SetMinimumFee
    <2>2. UNCHANGED <<chains, coordinator, l1Limiter, l2Limiter>>
      BY <1>3 DEF SetMinimumFee, chains, l1
    <2> QED
      BY <1>0, <2>1, <2>2, ChainsFrame
  <1>4. CASE Tick
    <2>1. l1Limiter' \in Limiter /\ l2Limiter' \in Limiter
      <3>1. 0 \in Int
        BY SMTT(30)
      <3> QED
        BY <1>0, <1>4, <3>1, LimiterTypes DEF Tick
    <2>2. UNCHANGED <<chains, coordinator, minimumFee>>
      BY <1>4 DEF Tick, chains, bounds
    <2> QED
      BY <1>0, <2>1, <2>2, ChainsFrame
  <1> QED
    BY <1>1, <1>2, <1>3, <1>4

\* A request fails, a transaction is lost, or the coordinator restarts with nothing.
LEMMA FaultsIInv == ChannelIInv /\ (RequestFails \/ TransactionIsLost \/ Restart) => ChannelIInv'
  <1> SUFFICES ASSUME ChannelIInv, RequestFails \/ TransactionIsLost \/ Restart PROVE ChannelIInv'
    OBVIOUS
  <1> USE DEF ChannelIInv
  <1>0. UNCHANGED <<l1, l2, history, bound>>
    BY DEF RequestFails, TransactionIsLost, Restart
  <1>1. CASE RequestFails
    <2>1. PendingSucceeds'
      BY <1>0, <1>1, PendingFrame DEF RequestFails, l1, l2
    <2>2. anchoring' \in AnchoringState /\ poller' \in Nat \cup {None}
      BY <1>1, IdleType DEF RequestFails, TypeOK
    <2>3. UNCHANGED <<l1Sending, pendingTx, eventsQueue, lastFetched>>
      BY <1>0, <1>1 DEF RequestFails, l1
    <2>4. (anchoring' = anchoring \/ anchoring' = Idle) /\ (poller' = poller \/ poller' = None)
      BY <1>1, SMTT(30) DEF RequestFails
    <2>5. CoordinatorFollowsL1'
      <3>1. /\ UNCHANGED AreFinalMessages(eventsQueue)
            /\ \A n : UNCHANGED BlockOf(n)
        BY <2>3 DEF AreFinalMessages, BlockOf, L1Hash, l1Sending
      <3>2. CASE anchoring' = anchoring
        <4>1. UNCHANGED AreFinalMessages(anchoring.events)
          BY <2>3, <3>2 DEF AreFinalMessages, BlockOf, L1Hash, l1Sending
        <4> QED
          BY <2>3, <2>4, <3>1, <3>2, <4>1 DEF CoordinatorFollowsL1, l1Sending
      <3>3. CASE anchoring' = Idle
        <4>1. 1..Len(<<>>) = {}
          BY SMTT(30)
        <4>2. AreFinalMessages(anchoring.events)' /\ anchoring'.step # "send"
          BY <3>3, <4>1, IdleType DEF AreFinalMessages
        <4> QED
          BY <2>3, <2>4, <3>1, <4>2 DEF CoordinatorFollowsL1, l1Sending
      <3> QED
        BY <2>4, <3>2, <3>3
    <2> QED
      BY <1>0, <2>1, <2>2, <2>3, <2>5, CoordinatorSteps DEF TypeOK
  <1>2. CASE TransactionIsLost
    <2>1. PendingSucceeds' /\ pendingTx' \in Transaction \cup {None}
      BY <1>2 DEF TransactionIsLost, PendingSucceeds
    <2>2. UNCHANGED <<l1Sending, coordinator>>
      BY <1>0, <1>2 DEF TransactionIsLost, l1
    <2>3. CoordinatorFollowsL1'
      BY <2>2, CoordinatorFrame
    <2> QED
      BY <1>0, <2>1, <2>2, <2>3, CoordinatorSteps, SMTT(30) DEF TypeOK, coordinator
  <1>3. CASE Restart
    <2>1. PendingSucceeds' /\ UNCHANGED pendingTx
      BY <1>0, <1>3, PendingFrame DEF Restart, l1, l2
    <2>2. /\ eventsQueue' = <<>> /\ lastFetched' = 0
          /\ poller' = None /\ anchoring' = Idle
      BY <1>3 DEF Restart
    <2>3. CoordinatorFollowsL1'
      BY <2>2, IdleType, SMTT(30) DEF CoordinatorFollowsL1, AreFinalMessages
    <2> QED
      BY <1>0, <2>1, <2>2, <2>3, IdleType, CoordinatorSteps, SMTT(30) DEF TypeOK
  <1> QED
    BY <1>1, <1>2, <1>3

-----------------------------------------------------------------------------
(* Messages to L1                                                            *)

\* A new message on L2 has a number nobody has claimed.
LEMMA L2SendMessageIInv == ChannelIInv /\ L2SendMessage => ChannelIInv'
  <1> SUFFICES ASSUME ChannelIInv, L2SendMessage PROVE ChannelIInv'
    OBVIOUS
  <1> USE DEF ChannelIInv
  <1> DEFINE old == Len(bound.legacy)
             last == Len(l2Messages)
  <1>0. UNCHANGED <<l1, l2Finalized, minimumFee, anchored, pendingTx, coordinator, history, bounds>>
    BY DEF L2SendMessage
  <1>1. PICK b \in Amounts :
            LET amount == PostmanFeeAndValue(b + minimumFee)
            IN /\ l2Limiter' = AddUsedAmount(l2Limiter, amount)
               /\ l2Messages' = Append(l2Messages, amount)
    BY DEF L2SendMessage
  <1>2. PostmanFeeAndValue(b + minimumFee) = b /\ b \in Int
    BY BridgeAssumption, SMTT(30) DEF PostmanFeeAndValue, TypeOK
  <1>3. l2Limiter' = AddUsedAmount(l2Limiter, b) /\ l2Messages' = Append(l2Messages, b)
    BY <1>1, <1>2
  <1>4. l2Limiter' \in Limiter
    BY <1>2, <1>3, LimiterTypes, ZenonT(30) DEF TypeOK
  <1>5. old \in Nat /\ last \in Nat /\ l2Finalized \in old..last
    BY BridgeAssumption, SMTT(30) DEF TypeOK
  <1>6. /\ l2Messages' \in Seq(Amounts) /\ Len(l2Messages') = last + 1
        /\ \A n \in 1..last : l2Messages'[n] = l2Messages[n]
    BY <1>3, SMTT(30) DEF TypeOK
  <1>7. last + 1 <= MaxMessages
    <2>1. bound.l2 \in 0..MaxMessages
      BY BridgeAssumption DEF TypeOK
    <2> QED
      BY <1>5, <2>1, BridgeAssumption, SMTT(30) DEF L2SendMessage
  <1>8. l2Finalized' \in Len(bound.legacy)'..Len(l2Messages')
    BY <1>0, <1>5, <1>6, SMTT(30) DEF bounds
  <1>9. TypeOK'
    BY <1>0, <1>4, <1>6, <1>7, <1>8 DEF TypeOK, l1, l1Sending, anchored, coordinator, bounds
  <1>10. BlocksAreInOrder' /\ CoordinatorFollowsL1' /\ PendingSucceeds' /\ InboxIsL1Prefix'
    BY <1>0, BlocksFrame, CoordinatorFrame, PendingFrame, InboxFrame DEF l1
  <1>11. L2DeliversClaimed'
    BY <1>0, L2DeliversFrame DEF anchored, history
  <1>12. ASSUME NEW h \in Hashes PROVE ClaimedOnL1(h)' <=> ClaimedOnL1(h)
    <2>1. UNCHANGED <<inboxL2L1, messageClaimed, bound>>
      BY <1>0 DEF l1, l1Claiming, bounds
    <2>2. h.number \in 1..MaxMessages
      BY AmountType
    <2>3. CASE h.number \in 1..last
      <3>1. h.number <= Len(l2Messages') /\ h.number <= last
        BY <1>5, <1>6, <2>2, <2>3, BridgeAssumption, SMTT(30)
      <3>2. L2Hash(h.number)' = L2Hash(h.number)
        BY <1>6, <2>3 DEF L2Hash
      <3> QED
        BY <2>1, <3>1, <3>2 DEF ClaimedOnL1
    <2>4. CASE h.number \notin 1..last
      <3>1. ~(h.number <= last) /\ ~(h.number <= old) /\ h.number \notin old + 1..l2Finalized
        BY <1>5, <2>2, <2>4, BridgeAssumption, SMTT(30)
      <3> QED
        BY <2>1, <3>1, ZenonT(30) DEF ClaimedOnL1, L1DeliversClaimed
    <2> QED
      BY <2>3, <2>4
  <1>13. L1DeliversClaimed'
    <2>1. UNCHANGED <<inboxL2L1, l2MerkleRoots, messageClaimed, bound, deliveredOnL1>>
      BY <1>0 DEF l1, l1Claiming, bounds, history
    <2>2. \A h \in inboxL2L1 : h.number \in 1..last /\ h = L2Hash(h.number)
      BY <1>5, SMTT(30) DEF L1DeliversClaimed
    <2>3. \A h \in inboxL2L1 : h = L2Hash(h.number)'
      BY <1>6, <2>2 DEF L2Hash
    <2>4. deliveredOnL1' = [h \in Hashes |-> IF ClaimedOnL1(h)' THEN 1 ELSE 0]
      BY <1>12, <2>1 DEF L1DeliversClaimed
    <2> QED
      BY <1>0, <2>1, <2>3, <2>4 DEF L1DeliversClaimed
  <1> QED
    BY <1>9, <1>10, <1>11, <1>13

\* The new Merkle root continues the finalized messages.
LEMMA FinalizeBlocksIInv == ChannelIInv /\ FinalizeBlocks => ChannelIInv'
  <1> SUFFICES ASSUME ChannelIInv, FinalizeBlocks PROVE ChannelIInv'
    OBVIOUS
  <1> USE DEF ChannelIInv
  <1>0. /\ UNCHANGED <<l1Sending, messageClaimed, inboxL2L1, l1Limiter>>
        /\ UNCHANGED <<l2Messages, l2Limiter, minimumFee, anchored>>
        /\ UNCHANGED <<pendingTx, coordinator, history, bounds>>
    BY DEF FinalizeBlocks
  <1>1. PICK n \in l2Finalized + 1..Len(l2Messages) :
            l2MerkleRoots' = l2MerkleRoots \cup {l2Finalized + 1..n} /\ l2Finalized' = n
    BY DEF FinalizeBlocks
  <1>2. Len(bound.legacy) \in Nat /\ Len(l2Messages) \in Nat
    BY BridgeAssumption, SMTT(30) DEF TypeOK
  <1>3. l2Finalized \in Len(bound.legacy)..Len(l2Messages)
    BY DEF TypeOK
  <1>4. l2Finalized' \in Len(bound.legacy)..Len(l2Messages)
    BY <1>1, <1>2, <1>3, SMTT(30)
  <1>5. TypeOK'
    BY <1>0, <1>4 DEF TypeOK, l1Sending, anchored, coordinator, bounds
  <1>6. BlocksAreInOrder' /\ CoordinatorFollowsL1' /\ PendingSucceeds' /\ InboxIsL1Prefix'
    BY <1>0, BlocksFrame, CoordinatorFrame, PendingFrame, InboxFrame
  <1>7. L2DeliversClaimed'
    BY <1>0, L2DeliversFrame DEF anchored, history
  <1>8. L1DeliversClaimed'
    <2> DEFINE old == Len(bound.legacy)
    <2>1. old + 1..l2Finalized \subseteq old + 1..l2Finalized'
      BY <1>1, <1>2, <1>3, SMTT(30)
    <2>2. l2Finalized + 1..n \subseteq old + 1..l2Finalized'
      BY <1>1, <1>2, <1>3, SMTT(30)
    <2>3. \A root \in l2MerkleRoots' : root \subseteq old + 1..l2Finalized'
      BY <1>1, <2>1, <2>2, ZenonT(30) DEF L1DeliversClaimed
    <2>4. messageClaimed' \subseteq old + 1..l2Finalized'
      BY <1>0, <2>1 DEF L1DeliversClaimed
    <2>5. deliveredOnL1' = [h \in Hashes |-> IF ClaimedOnL1(h)' THEN 1 ELSE 0]
      BY <1>0 DEF L1DeliversClaimed, ClaimedOnL1, L2Hash, history, bounds
    <2>6. (\A h \in inboxL2L1 : h.number \in 1..Len(bound.legacy) /\ h = L2Hash(h.number))'
      BY <1>0 DEF L1DeliversClaimed, L2Hash, bounds
    <2> QED
      BY <1>0, <2>3, <2>4, <2>5, <2>6 DEF L1DeliversClaimed, bounds
  <1> QED
    BY <1>5, <1>6, <1>7, <1>8

\* The claimed message is below a root, thus sent after the old ones, and its bit was not set.
LEMMA ClaimMessageWithProofIInv == ChannelIInv /\ ClaimMessageWithProof => ChannelIInv'
  <1> SUFFICES ASSUME ChannelIInv, ClaimMessageWithProof PROVE ChannelIInv'
    OBVIOUS
  <1> USE DEF ChannelIInv
  <1> DEFINE old == Len(bound.legacy)
  <1>0. UNCHANGED <<l1Sending, l2MerkleRoots, inboxL2L1, l2, pendingTx, coordinator, deliveredOnL2, bounds>>
    BY DEF ClaimMessageWithProof
  <1>a. PICK root \in l2MerkleRoots :
            \E n \in root : SetL2L1MessageToClaimed(n) /\ DeliverOnL1(L2Hash(n))
    BY DEF ClaimMessageWithProof
  <1>1. PICK n \in root : SetL2L1MessageToClaimed(n) /\ DeliverOnL1(L2Hash(n))
    BY <1>a
  <1>2. old \in Nat /\ Len(l2Messages) \in Nat /\ l2Finalized \in old..Len(l2Messages)
    BY BridgeAssumption, SMTT(30) DEF TypeOK
  <1>3. n \in old + 1..l2Finalized
    BY <1>1 DEF L1DeliversClaimed
  <1>4. n \in 1..Len(l2Messages) /\ ~(n <= old)
    BY <1>2, <1>3, SMTT(30)
  <1>5. L2Hash(n) \in Hashes /\ L2Hash(n).number = n
    BY <1>4, L2HashType DEF TypeOK
  <1>6. L2Hash(n).amount \in Int
    BY <1>5, AmountType
  <1>7. l1Limiter' \in Limiter
    BY <1>1, <1>6, LimiterTypes, ZenonT(30) DEF DeliverOnL1, TypeOK
  <1>8. /\ n \notin messageClaimed /\ messageClaimed' = messageClaimed \cup {n}
        /\ deliveredOnL1' = [deliveredOnL1 EXCEPT ![L2Hash(n)] = @ + 1]
    BY <1>1 DEF SetL2L1MessageToClaimed, DeliverOnL1
  <1>9. deliveredOnL1 = [h \in Hashes |-> IF ClaimedOnL1(h) THEN 1 ELSE 0]
    BY DEF L1DeliversClaimed
  <1>10. ~ClaimedOnL1(L2Hash(n))
    BY <1>4, <1>5, <1>8 DEF ClaimedOnL1
  <1>11. ASSUME NEW h \in Hashes
         PROVE  ClaimedOnL1(h)' <=> (ClaimedOnL1(h) \/ h = L2Hash(n))
    <2>1. UNCHANGED <<l2Messages, inboxL2L1, bound>>
      BY <1>0 DEF l2, bounds
    <2>2. CASE h = L2Hash(n)
      BY <1>4, <1>5, <1>8, <2>1, <2>2, SMTT(30) DEF ClaimedOnL1, L2Hash
    <2>3. CASE h # L2Hash(n)
      <3>1. h = L2Hash(h.number) => h.number # n
        BY <2>3
      <3> QED
        BY <1>8, <2>1, <2>3, <3>1 DEF ClaimedOnL1, L2Hash
    <2> QED
      BY <2>2, <2>3
  <1>12. deliveredOnL1' = [h \in Hashes |-> IF ClaimedOnL1(h)' THEN 1 ELSE 0]
    BY <1>5, <1>8, <1>9, <1>10, <1>11, SMTT(30)
  <1>13. L1DeliversClaimed'
    BY <1>0, <1>3, <1>8, <1>12 DEF L1DeliversClaimed, L2Hash, l2, bounds
  <1> QED
    BY <1>0, <1>7, <1>13, ClaimOnL1Frame

\* The claimed message is an old one, and was still in the inbox.
LEMMA ClaimMessageV1IInv == ChannelIInv /\ ClaimMessageV1 => ChannelIInv'
  <1> SUFFICES ASSUME ChannelIInv, ClaimMessageV1 PROVE ChannelIInv'
    OBVIOUS
  <1> USE DEF ChannelIInv
  <1> DEFINE old == Len(bound.legacy)
  <1>0. UNCHANGED <<l1Sending, l2MerkleRoots, messageClaimed, l2, pendingTx, coordinator, deliveredOnL2, bounds>>
    BY DEF ClaimMessageV1
  <1>1. PICK g \in inboxL2L1 : inboxL2L1' = inboxL2L1 \ {g} /\ DeliverOnL1(g)
    BY DEF ClaimMessageV1
  <1>2. old \in Nat /\ Len(l2Messages) \in Nat /\ l2Finalized \in old..Len(l2Messages)
    BY BridgeAssumption, SMTT(30) DEF TypeOK
  <1>3. g.number \in 1..old /\ g = L2Hash(g.number)
    BY <1>1 DEF L1DeliversClaimed
  <1>4. g.number \in 1..Len(l2Messages) /\ g.number <= old
    BY <1>2, <1>3, SMTT(30)
  <1>5. g \in Hashes
    BY <1>3, <1>4, L2HashType DEF TypeOK
  <1>6. g.amount \in Int
    BY <1>5, AmountType
  <1>7. l1Limiter' \in Limiter
    BY <1>1, <1>6, LimiterTypes, ZenonT(30) DEF DeliverOnL1, TypeOK
  <1>8. deliveredOnL1' = [deliveredOnL1 EXCEPT ![g] = @ + 1]
    BY <1>1 DEF DeliverOnL1
  <1>9. deliveredOnL1 = [h \in Hashes |-> IF ClaimedOnL1(h) THEN 1 ELSE 0]
    BY DEF L1DeliversClaimed
  <1>10. ~ClaimedOnL1(g)
    BY <1>1, <1>4 DEF ClaimedOnL1
  <1>11. ASSUME NEW h \in Hashes
         PROVE  ClaimedOnL1(h)' <=> (ClaimedOnL1(h) \/ h = g)
    <2>1. UNCHANGED <<l2Messages, messageClaimed, bound>>
      BY <1>0 DEF l2, bounds
    <2>2. CASE h = g
      BY <1>1, <1>3, <1>4, <2>1, <2>2, SMTT(30) DEF ClaimedOnL1, L2Hash
    <2>3. CASE h # g
      BY <1>1, <2>1, <2>3 DEF ClaimedOnL1, L2Hash
    <2> QED
      BY <2>2, <2>3
  <1>12. deliveredOnL1' = [h \in Hashes |-> IF ClaimedOnL1(h)' THEN 1 ELSE 0]
    BY <1>5, <1>8, <1>9, <1>10, <1>11, SMTT(30)
  <1>13. L1DeliversClaimed'
    BY <1>0, <1>1, <1>12, SMTT(30) DEF L1DeliversClaimed, L2Hash, l2, bounds
  <1> QED
    BY <1>0, <1>7, <1>13, ClaimOnL1Frame

=============================================================================
