------------------------ MODULE MessageBridge_proofs ------------------------
(***************************************************************************)
(* The invariant of MessageBridge is inductive, for every number of        *)
(* messages, faults and admin calls, and both directions of MessageBridge  *)
(* implement MessageChannel.                                               *)
(***************************************************************************)
EXTENDS MessageBridgeLemmas, WellFoundedInduction

USE ZenonT(30)

-----------------------------------------------------------------------------
(* Messages to L2                                                            *)

\* With events in the queue, fetching goes on after the last of them.
LEMMA PollNextMessageNumberIInv == ChannelIInv /\ PollNextMessageNumber => ChannelIInv'
  <1> SUFFICES ASSUME ChannelIInv, PollNextMessageNumber PROVE ChannelIInv'
    OBVIOUS
  <1> USE DEF ChannelIInv
  <1>0. /\ UNCHANGED <<l1, l2, pendingTx, eventsQueue, anchoring, history, bounds>>
        /\ lastFetched' = IF lastFetched > 0 THEN lastFetched ELSE lastAnchored
        /\ poller' = lastFetched' + 1
    BY DEF PollNextMessageNumber
  <1>1. lastFetched' \in Nat /\ poller' \in Nat
    BY <1>0, SMTT(30) DEF TypeOK
  <1>2. PendingSucceeds'
    BY <1>0, PendingFrame DEF l1, l2
  <1>3. ASSUME eventsQueue # <<>> PROVE lastFetched' = lastFetched
    <2>1. Len(eventsQueue) \in 1..Len(eventsQueue)
      BY <1>3, SMTT(30) DEF TypeOK
    <2>2. lastFetched \in 1..Len(l1Messages)
      BY <1>3, <2>1, SMTT(30) DEF CoordinatorFollowsL1, AreFinalMessages
    <2> QED
      BY <1>0, <2>2, SMTT(30)
  <1>4. CoordinatorFollowsL1'
    BY <1>0, <1>3 DEF CoordinatorFollowsL1, AreFinalMessages, BlockOf, L1Hash, l1, l1Sending
  <1> QED
    BY <1>0, <1>1, <1>2, <1>4, CoordinatorSteps, SMTT(30) DEF TypeOK, bounds

\* A search that starts inside a block would repeat its first events: the queue ends with a block.
LEMMA PollFetchIInv == ChannelIInv /\ PollFetch => ChannelIInv'
  <1> SUFFICES ASSUME ChannelIInv, PollFetch PROVE ChannelIInv'
    OBVIOUS
  <1> USE DEF ChannelIInv
  <1>0. /\ UNCHANGED <<l1, l2, pendingTx, anchoring, history, bounds>>
        /\ poller # None /\ poller' = None
    BY DEF PollFetch
  <1>1. PendingSucceeds'
    BY <1>0, PendingFrame DEF l1, l2
  <1>2. UNCHANGED <<l1Messages, l1Final>>
    BY <1>0 DEF l1, l1Sending
  <1>3. CASE UNCHANGED <<eventsQueue, lastFetched>>
    <2>1. CoordinatorFollowsL1'
      BY <1>0, <1>2, <1>3, ZenonT(30) DEF CoordinatorFollowsL1, AreFinalMessages, BlockOf, L1Hash
    <2> QED
      BY <1>0, <1>1, <1>3, <2>1, CoordinatorSteps DEF TypeOK, bounds
  <1>4. ASSUME NEW first \in 1..Len(l1Messages), NEW last \in 1..Len(l1Messages),
               Fetched(poller, first, last),
               eventsQueue' = eventsQueue \o [i \in 1..last - first + 1 |-> L1Hash(first + i - 1)],
               lastFetched' = last
        PROVE  ChannelIInv'
    <2> DEFINE f == [i \in 1..last - first + 1 |-> L1Hash(first + i - 1)]
    <2>1. /\ f \in Seq(Hashes) /\ f # <<>>
          /\ FinalIn(l1Messages, l1Final, f)
          /\ eventsQueue # <<>> => f[1].number = eventsQueue[Len(eventsQueue)].number + 1
          /\ f[Len(f)].number = last
      BY <1>0, <1>4, FetchedEvents, ZenonT(30)
    <2>2. eventsQueue' = eventsQueue \o f
      BY <1>4
    <2> HIDE DEF f
    <2>3. /\ eventsQueue \in Seq(Hashes) /\ FinalIn(l1Messages, l1Final, eventsQueue)
          /\ l1Messages \in Seq(L1Message) /\ l1Final \in Nat
      <3>1. FinalIn(l1Messages, l1Final, eventsQueue)
        BY ZenonT(30) DEF CoordinatorFollowsL1, AreFinalMessages, FinalIn, L1Hash, BlockOf
      <3> QED
        BY <3>1 DEF TypeOK
    <2>4. FinalIn(l1Messages, l1Final, eventsQueue')
      BY <2>1, <2>2, <2>3, FinalConcat
    <2>5. eventsQueue' \in Seq(Hashes) /\ eventsQueue'[Len(eventsQueue')] = f[Len(f)]
      <3>1. Len(f) \in Nat /\ Len(f) >= 1 /\ Len(eventsQueue) \in Nat
        BY <2>1, <2>3, SMTT(30)
      <3>2. /\ eventsQueue' \in Seq(Hashes) /\ Len(eventsQueue') = Len(eventsQueue) + Len(f)
            /\ \A i \in 1..Len(eventsQueue) + Len(f) :
                  eventsQueue'[i] = IF i <= Len(eventsQueue) THEN eventsQueue[i] ELSE f[i - Len(eventsQueue)]
        BY <2>1, <2>2, <2>3, SMTT(30)
      <3>3. (Len(eventsQueue) + Len(f)) - Len(eventsQueue) = Len(f) /\ ~(Len(eventsQueue) + Len(f) <= Len(eventsQueue))
        BY <3>1, SMTT(30)
      <3>4. Len(eventsQueue) + Len(f) \in 1..Len(eventsQueue) + Len(f)
        BY <3>1, SMTT(30)
      <3> QED
        BY <3>2, <3>3, <3>4
    <2>6. lastFetched' \in Nat
      BY <1>4, SMTT(30) DEF TypeOK
    <2>7. CoordinatorFollowsL1'
      <3>1. AreFinalMessages(eventsQueue)'
        BY <1>2, <2>4 DEF AreFinalMessages, FinalIn, L1Hash, BlockOf
      <3>2. AreFinalMessages(anchoring.events)'
        BY <1>0, <1>2 DEF CoordinatorFollowsL1, AreFinalMessages, L1Hash, BlockOf
      <3>3. last < Len(l1Messages) => BlockOf(last + 1) > BlockOf(last)
        BY <1>4 DEF Fetched, WholeBlocks
      <3>4. (lastFetched < Len(l1Messages) => BlockOf(lastFetched + 1) > BlockOf(lastFetched))'
        BY <1>2, <1>4, <3>3, SMTT(30) DEF BlockOf
      <3> QED
        BY <1>0, <1>4, <2>1, <2>5, <3>1, <3>2, <3>4, ZenonT(30) DEF CoordinatorFollowsL1
    <2> QED
      BY <1>0, <1>1, <2>5, <2>6, <2>7, CoordinatorSteps DEF TypeOK, bounds
  <1> QED
    BY <1>3, <1>4, ZenonT(30) DEF PollFetch

\* The service reads the last anchored number.
LEMMA AnchoringReadsLastIInv == ChannelIInv /\ AnchoringReadsLast => ChannelIInv'
  <1> SUFFICES ASSUME ChannelIInv, AnchoringReadsLast PROVE ChannelIInv'
    OBVIOUS
  <1> USE DEF ChannelIInv
  <1>0. /\ UNCHANGED <<l1, l2, pendingTx, eventsQueue, lastFetched, poller, history, bounds>>
        /\ anchoring' = [step |-> "clean", last |-> lastAnchored, events |-> <<>>]
    BY SMTT(30) DEF AnchoringReadsLast
  <1>1. anchoring' \in AnchoringState /\ anchoring'.events = <<>> /\ anchoring'.step # "send"
    <2>1. lastAnchored \in Nat /\ <<>> \in Seq(Hashes)
      BY SMTT(30) DEF TypeOK
    <2> QED
      BY <1>0, <2>1 DEF AnchoringState
  <1>2. PendingSucceeds'
    BY <1>0, PendingFrame DEF l1, l2
  <1>3. CoordinatorFollowsL1'
    BY <1>0, <1>1, QueueFrame, SMTT(30) DEF l1
  <1> QED
    BY <1>0, <1>1, <1>2, <1>3, CoordinatorSteps DEF TypeOK, bounds

\* What is left of the queue has no gap and the same end.
LEMMA AnchoringTakesEventsIInv == ChannelIInv /\ AnchoringTakesEvents => ChannelIInv'
  <1> SUFFICES ASSUME ChannelIInv, AnchoringTakesEvents PROVE ChannelIInv'
    OBVIOUS
  <1> USE DEF ChannelIInv
  <1> DEFINE q == eventsQueue
             kept == {i \in DOMAIN q : q[i].number > anchoring.last}
             rest == At(q, kept)
             taken == IF Len(rest) < MaxMessagesToAnchor THEN Len(rest) ELSE MaxMessagesToAnchor
             events == SubSeq(rest, 1, taken)
  <1>0. /\ UNCHANGED <<l1, l2, pendingTx, lastFetched, poller, history, bounds>>
        /\ eventsQueue' = rest
        /\ anchoring' = IF rest = <<>> THEN Idle
                        ELSE [step |-> "send", last |-> anchoring.last, events |-> events]
    BY ZenonT(30) DEF AnchoringTakesEvents
  <1>1. q \in Seq(Hashes) /\ FinalIn(l1Messages, l1Final, q)
    BY ZenonT(30) DEF TypeOK, CoordinatorFollowsL1, AreFinalMessages, FinalIn, L1Hash, BlockOf
  <1>2. anchoring.last \in Nat
    <2>1. anchoring \in AnchoringState
      BY DEF TypeOK
    <2> QED
      BY <2>1 DEF AnchoringState
  <1>3. l1Messages \in Seq(L1Message) /\ l1Final \in Nat
    BY DEF TypeOK
  <1>4. PICK a \in 1..Len(q) + 1 : kept = a..Len(q)
    <2>1. \A i \in 1..Len(q) : q[i].number \in Nat /\ q[i].number = q[1].number + i - 1
      <3> TAKE i \in 1..Len(q)
      <3>1. q[i].number \in 1..Len(l1Messages) /\ q[i].number = q[1].number + i - 1
        BY <1>1, ZenonT(30) DEF FinalIn
      <3> QED
        BY <1>3, <3>1, SMTT(30)
    <2> QED
      BY <1>1, <1>2, <2>1, KeptPlaces, ZenonT(30)
  <1>5. rest = SubSeq(q, a, Len(q))
    BY <1>1, <1>4, AtInterval, ZenonT(30)
  <1>6. Len(q) \in 0..Len(q)
    BY <1>1, SMTT(30)
  <1>7. /\ rest \in Seq(Hashes)
        /\ Len(rest) = IF a <= Len(q) THEN Len(q) - a + 1 ELSE 0
        /\ \A i \in 1..Len(q) - a + 1 : rest[i] = q[a + i - 1]
        /\ FinalIn(l1Messages, l1Final, rest)
    <2> DEFINE t == SubSeq(q, a, Len(q))
    <2>1. /\ t \in Seq(Hashes)
          /\ Len(t) = IF a <= Len(q) THEN Len(q) - a + 1 ELSE 0
          /\ \A i \in 1..Len(q) - a + 1 : t[i] = q[a + i - 1]
          /\ FinalIn(l1Messages, l1Final, t)
      BY <1>1, <1>3, <1>6, FinalSubSeq
    <2> HIDE DEF t, rest
    <2>2. rest = t
      BY <1>5 DEF t
    <2> QED
      BY <2>1, <2>2, ZenonT(30)
  <1> HIDE DEF rest, kept
  <1>8. ASSUME rest # <<>> PROVE q # <<>> /\ rest[Len(rest)] = q[Len(q)]
    <2>1. Len(rest) \in 1..Len(rest)
      BY <1>7, <1>8, SMTT(30)
    <2>2. a <= Len(q) /\ Len(rest) = Len(q) - a + 1 /\ Len(rest) \in 1..Len(q) - a + 1
      BY <1>7, <2>1, SMTT(30)
    <2>3. a + Len(rest) - 1 = Len(q)
      BY <1>1, <2>2, SMTT(30)
    <2>4. rest[Len(rest)] = q[a + Len(rest) - 1]
      BY <1>7, <2>2
    <2>5. q # <<>>
      BY <2>2, SMTT(30)
    <2> QED
      BY <2>3, <2>4, <2>5
  <1>9. /\ anchoring' \in AnchoringState
        /\ FinalIn(l1Messages, l1Final, anchoring'.events)
        /\ anchoring'.step = "send" => anchoring'.events # <<>>
    <2>1. CASE rest = <<>>
      <3>1. anchoring' = Idle
        BY <1>0, <2>1
      <3> QED
        BY <3>1, IdleType, SMTT(30) DEF FinalIn
    <2>2. CASE rest # <<>>
      <3>1. taken \in 0..Len(rest) /\ 1 <= taken /\ 1 \in 1..Len(rest) + 1
        BY <1>7, <2>2, BridgeAssumption, SMTT(30)
      <3> HIDE DEF taken
      <3>2. events \in Seq(Hashes) /\ Len(events) = taken /\ FinalIn(l1Messages, l1Final, events)
        <4>1. /\ events \in Seq(Hashes) /\ FinalIn(l1Messages, l1Final, events)
              /\ Len(events) = IF 1 <= taken THEN taken - 1 + 1 ELSE 0
          BY <1>3, <1>7, <3>1, FinalSubSeq, ZenonT(30)
        <4>2. taken - 1 + 1 = taken
          BY <3>1, SMTT(30)
        <4> HIDE DEF events
        <4> QED
          BY <3>1, <4>1, <4>2
      <3>3. events # <<>>
        BY <3>1, <3>2, SMTT(30)
      <3> HIDE DEF events
      <3>4. anchoring' = [step |-> "send", last |-> anchoring.last, events |-> events]
        BY <1>0, <2>2
      <3>5. anchoring' \in AnchoringState
        BY <1>2, <3>2, <3>4 DEF AnchoringState
      <3>6. anchoring'.events = events
        BY <3>4
      <3> QED
        BY <3>2, <3>3, <3>5, <3>6
    <2> QED
      BY <2>1, <2>2
  <1>10. PendingSucceeds'
    BY <1>0, PendingFrame, SMTT(30) DEF l1, l2
  <1>11. CoordinatorFollowsL1'
    <2>1. UNCHANGED <<l1Messages, l1Final>>
      BY <1>0, SMTT(30) DEF l1, l1Sending
    <2>2. AreFinalMessages(eventsQueue)' /\ AreFinalMessages(anchoring.events)'
      BY <1>0, <1>7, <1>9, <2>1, ZenonT(30) DEF AreFinalMessages, FinalIn, L1Hash, BlockOf
    <2>3. eventsQueue' # <<>> => /\ q # <<>>
                                 /\ eventsQueue'[Len(eventsQueue')] = q[Len(q)]
      BY <1>0, <1>8
    <2> HIDE DEF q
    <2>4. (eventsQueue # <<>> =>
              /\ eventsQueue[Len(eventsQueue)].number = lastFetched
              /\ lastFetched < Len(l1Messages) => BlockOf(lastFetched + 1) > BlockOf(lastFetched))'
      BY <1>0, <2>1, <2>3 DEF CoordinatorFollowsL1, BlockOf, q
    <2> QED
      BY <1>0, <1>9, <2>2, <2>4 DEF CoordinatorFollowsL1
  <1> QED
    BY <1>0, <1>7, <1>9, <1>10, <1>11, CoordinatorSteps DEF TypeOK, bounds

\* The transaction it sends succeeds in the state eth_call has seen.
LEMMA AnchoringSendsIInv == ChannelIInv /\ AnchoringSends => ChannelIInv'
  <1> SUFFICES ASSUME ChannelIInv, AnchoringSends PROVE ChannelIInv'
    OBVIOUS
  <1> USE DEF ChannelIInv
  <1> DEFINE s == anchoring.events
             n == s[Len(s)].number
  <1>0. /\ UNCHANGED <<l1, l2, eventsQueue, lastFetched, poller, history, bounds>>
        /\ anchoring' = Idle /\ anchoring.step = "send"
    BY DEF AnchoringSends
  <1>1. anchoring' \in AnchoringState /\ anchoring'.events = <<>> /\ anchoring'.step # "send"
    BY <1>0, IdleType
  <1>2. CoordinatorFollowsL1'
    BY <1>0, <1>1, QueueFrame, SMTT(30) DEF l1
  <1>3. CASE UNCHANGED pendingTx
    <2>1. PendingSucceeds'
      BY <1>0, <1>3, PendingFrame, SMTT(30) DEF l1, l2
    <2> QED
      BY <1>0, <1>1, <1>2, <1>3, <2>1, CoordinatorSteps DEF TypeOK, bounds
  <1>4. CASE CanSend(s) /\ pendingTx' = AnchoringTx(s)
    <2>1. s # <<>> /\ AreFinalMessages(s)
      BY <1>0 DEF CoordinatorFollowsL1
    <2>2. s \in Seq(Hashes)
      <3>1. anchoring \in AnchoringState
        BY DEF TypeOK
      <3> QED
        BY <3>1 DEF AnchoringState
    <2>3. Len(s) \in 1..Len(s) /\ 1 \in 1..Len(s)
      BY <2>1, <2>2, SMTT(30)
    <2>4. s[1].number \in Nat /\ n \in 1..Len(l1Messages)
      BY <2>1, <2>3, SMTT(30) DEF AreFinalMessages
    <2>5. RollingHashes(n) \in Seq(Hashes)
      <3>1. \A i \in 1..n : i \in 1..Len(l1Messages)
        BY <2>4, SMTT(30) DEF TypeOK
      <3>2. \A i \in 1..n : L1Hash(i) \in Hashes
        BY <3>1, L1HashType DEF TypeOK
      <3>3. n \in Nat
        BY <2>4, SMTT(30)
      <3> HIDE DEF n
      <3> QED
        BY <3>2, <3>3, SMTT(30) DEF RollingHashes
    <2>6. AnchoringTx(s) = [hashes |-> s, start |-> s[1].number, final |-> n, rollingHash |-> RollingHashes(n)]
      BY DEF AnchoringTx
    <2>7. pendingTx' \in Transaction
      BY <1>4, <2>2, <2>4, <2>5, <2>6, SMTT(30) DEF Transaction
    <2>8. pendingTx'.hashes = s
      BY <1>4, <2>6, SMTT(30)
    <2>9. AreFinalMessages(pendingTx.hashes)'
      BY <1>0, <2>1, <2>8, ZenonT(30) DEF AreFinalMessages, L1Hash, BlockOf, l1, l1Sending
    <2>10. (pendingTx = AnchoringTx(pendingTx.hashes))'
      BY <1>0, <1>4, <2>8 DEF AnchoringTx, RollingHashes, L1Hash, l1, l1Sending
    <2>11. AnchoringSucceeds(pendingTx')
      BY <1>4, SMTT(30) DEF CanSend
    <2>12. AnchoringSucceeds(pendingTx)'
      BY <1>0, <2>11, ZenonT(30) DEF AnchoringSucceeds, NewHashes, l2, anchored
    <2>13. PendingSucceeds'
      BY <2>1, <2>8, <2>9, <2>10, <2>12 DEF PendingSucceeds
    <2> QED
      BY <1>0, <1>1, <1>2, <2>7, <2>13, CoordinatorSteps DEF TypeOK, bounds
  <1> QED
    BY <1>3, <1>4 DEF AnchoringSends

\* The count of new hashes is the count of all hashes, so the inbox is extended by consecutive messages.
LEMMA AnchorL1L2MessageHashesIInv == ChannelIInv /\ AnchorL1L2MessageHashes => ChannelIInv'
  <1> SUFFICES ASSUME ChannelIInv, AnchorL1L2MessageHashes PROVE ChannelIInv'
    OBVIOUS
  <1> USE DEF ChannelIInv
  <1> DEFINE s == pendingTx.hashes
             final == pendingTx.final
             len == Len(s)
  <1>0. /\ UNCHANGED <<l1, l2Messages, l2Finalized, l2Balance, l2Limiter, minimumFee>>
        /\ UNCHANGED <<coordinator, history, bounds>>
        /\ pendingTx # None /\ pendingTx' = None
    BY DEF AnchorL1L2MessageHashes
  <1>1. /\ s # <<>> /\ AreFinalMessages(s) /\ pendingTx = AnchoringTx(s)
        /\ AnchoringSucceeds(pendingTx)
    BY <1>0 DEF PendingSucceeds
  <1>2. /\ lastAnchored' = final
        /\ rollingHash' = pendingTx.rollingHash
        /\ inboxL1L2' = [h \in Hashes |-> IF \E i \in NewHashes(s) : s[i] = h
                                          THEN "RECEIVED" ELSE inboxL1L2[h]]
    BY <1>1 DEF AnchorL1L2MessageHashes
  <1>3. /\ pendingTx \in Transaction
        /\ s \in Seq(Hashes) /\ final \in Nat /\ pendingTx.rollingHash \in Seq(Hashes)
    <2>1. pendingTx \in Transaction
      BY <1>0, SMTT(30) DEF TypeOK
    <2> QED
      BY <2>1 DEF Transaction
  <1>4. len \in 1..len /\ 1 \in 1..len /\ len \in Nat /\ lastAnchored \in Nat
    BY <1>1, <1>3, SMTT(30) DEF TypeOK
  <1>5. /\ final = s[len].number
        /\ pendingTx.start = s[1].number
        /\ pendingTx.rollingHash = RollingHashes(final)
    BY <1>1, SMTT(30) DEF AnchoringTx
  <1>6. s[1].number = lastAnchored + 1 /\ lastAnchored + Cardinality(NewHashes(s)) = final
    <2>1. pendingTx.start - 1 = lastAnchored /\ lastAnchored + Cardinality(NewHashes(s)) = final
      BY <1>1 DEF AnchoringSucceeds
    <2>2. pendingTx.start \in Nat
      BY <1>3 DEF Transaction
    <2> QED
      BY <1>4, <1>5, <2>1, <2>2, SMTT(30)
  <1>7. \A i \in 1..len : s[i].number = lastAnchored + i
    <2> TAKE i \in 1..len
    <2>1. s[i].number = s[1].number + i - 1
      BY <1>1 DEF AreFinalMessages
    <2>2. (lastAnchored + 1) + i - 1 = lastAnchored + i
      BY <1>4, SMTT(30)
    <2> QED
      BY <1>6, <2>1, <2>2
  <1>8. final = lastAnchored + len
    BY <1>4, <1>5, <1>7, ZenonT(30)
  <1>9. NewHashes(s) = 1..len
    <2>1. IsFiniteSet(NewHashes(s))
      <3>1. NewHashes(s) \subseteq 1..len
        BY <1>3, SMTT(30) DEF NewHashes
      <3>2. IsFiniteSet(1..len)
        BY <1>4, FS_Interval, SMTT(30)
      <3> QED
        BY <3>1, <3>2, FS_Subset
    <2>2. Cardinality(NewHashes(s)) \in Nat
      BY <2>1, FS_CardinalityType
    <2>3. Cardinality(NewHashes(s)) = len
      BY <1>4, <1>6, <1>8, <2>2, SMTT(30)
    <2> QED
      BY <1>3, <2>3, AllAreNew
  <1>10. \A i \in 1..len : /\ s[i].number \in 1..Len(l1Messages)
                           /\ s[i] = L1Hash(s[i].number)
                           /\ BlockOf(s[i].number) <= l1Final
                           /\ inboxL1L2[s[i]] = "UNKNOWN"
    BY <1>1, <1>9 DEF AreFinalMessages, NewHashes
  <1> HIDE DEF s, final, len
  <1>11. TypeOK'
    <2>1. inboxL1L2' \in [Hashes -> Status]
      BY <1>2 DEF TypeOK, Status
    <2> QED
      BY <1>0, <1>2, <1>3, <2>1, SMTT(30) DEF TypeOK, l1, l1Sending, coordinator, bounds
  <1>12. BlocksAreInOrder' /\ CoordinatorFollowsL1'
    BY <1>0, BlocksFrame, CoordinatorFrame, SMTT(30) DEF l1
  <1>13. PendingSucceeds'
    BY <1>0 DEF PendingSucceeds
  <1>14. InboxIsL1Prefix'
    <2>1. UNCHANGED <<l1Messages, l1Final>>
      BY <1>0 DEF l1, l1Sending
    <2>2. final \in 1..Len(l1Messages) /\ BlockOf(final) <= l1Final
      BY <1>4, <1>5, <1>10 DEF len
    <2>3. ASSUME NEW h \in Hashes
          PROVE  inboxL1L2'[h] # "UNKNOWN" <=> h.number <= final /\ h = L1Hash(h.number)
      <3>1. h.number \in Nat /\ h.number >= 1
        BY AmountType, BridgeAssumption, SMTT(30)
      <3>2. inboxL1L2[h] # "UNKNOWN" <=> h.number <= lastAnchored /\ h = L1Hash(h.number)
        BY DEF InboxIsL1Prefix
      <3>3. CASE \E i \in 1..len : s[i] = h
        <4>1. PICK i \in 1..len : s[i] = h
          BY <3>3
        <4>2. h.number = lastAnchored + i /\ h = L1Hash(h.number)
          BY <1>7, <1>10, <4>1
        <4>3. h.number <= final
          BY <1>4, <1>8, <4>2, SMTT(30)
        <4>4. inboxL1L2'[h] = "RECEIVED"
          BY <1>2, <1>9, <3>3
        <4> QED
          BY <4>2, <4>3, <4>4
      <3>4. CASE ~\E i \in 1..len : s[i] = h
        <4>1. inboxL1L2'[h] = inboxL1L2[h]
          BY <1>2, <1>9, <3>4
        <4>2. h.number <= lastAnchored => h.number <= final
          BY <1>4, <1>8, <3>1, SMTT(30)
        <4>3. ASSUME h.number <= final, h = L1Hash(h.number) PROVE h.number <= lastAnchored
          <5> SUFFICES ASSUME ~(h.number <= lastAnchored) PROVE FALSE
            OBVIOUS
          <5>1. h.number - lastAnchored \in 1..len
            BY <1>4, <1>8, <3>1, <4>3, SMTT(30)
          <5>2. lastAnchored + (h.number - lastAnchored) = h.number
            BY <1>4, <3>1, SMTT(30)
          <5>3. s[h.number - lastAnchored] = h
            BY <1>7, <1>10, <4>3, <5>1, <5>2, SMTT(30)
          <5> QED
            BY <3>4, <5>1, <5>3
        <4> QED
          BY <3>2, <4>1, <4>2, <4>3
      <3> QED
        BY <3>3, <3>4
    <2>4. (rollingHash = RollingHashes(lastAnchored))'
      BY <1>2, <1>5, <2>1 DEF RollingHashes, L1Hash
    <2>5. (\A h \in Hashes : inboxL1L2[h] # "UNKNOWN" <=> h.number <= lastAnchored /\ h = L1Hash(h.number))'
      BY <1>2, <2>1, <2>3 DEF L1Hash
    <2> QED
      BY <1>2, <2>1, <2>2, <2>4, <2>5, SMTT(30) DEF InboxIsL1Prefix, BlockOf
  <1>15. L2DeliversClaimed'
    <2>1. \A h \in Hashes : inboxL1L2'[h] = "CLAIMED" <=> inboxL1L2[h] = "CLAIMED"
      BY <1>2, <1>9, <1>10
    <2> QED
      BY <1>0, <2>1 DEF L2DeliversClaimed, history
  <1>16. L1DeliversClaimed'
    BY <1>0, L1DeliversFrame DEF l1, history, bounds
  <1> QED
    BY <1>11, <1>12, <1>13, <1>14, <1>15, <1>16, SMTT(30)

\* The status of a claimed message is never reset, so the mempool's transaction still counts its hashes right.
LEMMA L2ClaimMessageIInv == ChannelIInv /\ L2ClaimMessage => ChannelIInv'
  <1> SUFFICES ASSUME ChannelIInv, L2ClaimMessage PROVE ChannelIInv'
    OBVIOUS
  <1> USE DEF ChannelIInv
  <1>0. /\ UNCHANGED <<l1, l2Messages, l2Finalized, l2Limiter, minimumFee, lastAnchored, rollingHash>>
        /\ UNCHANGED <<pendingTx, coordinator, deliveredOnL1, bounds>>
    BY DEF L2ClaimMessage
  <1>1. PICK g \in Hashes : /\ UpdateL1L2MessageStatusToClaimed(g)
                            /\ deliveredOnL2' = [deliveredOnL2 EXCEPT ![g] = @ + 1]
    BY ZenonT(30) DEF L2ClaimMessage
  <1>2. inboxL1L2[g] = "RECEIVED" /\ inboxL1L2' = [inboxL1L2 EXCEPT ![g] = "CLAIMED"]
    BY <1>1 DEF UpdateL1L2MessageStatusToClaimed
  <1>3. /\ inboxL1L2' \in [Hashes -> Status]
        /\ \A h \in Hashes : inboxL1L2'[h] = "UNKNOWN" <=> inboxL1L2[h] = "UNKNOWN"
    BY <1>2 DEF TypeOK, Status
  <1>4. TypeOK'
    BY <1>0, <1>3 DEF TypeOK, l1, l1Sending, coordinator, bounds
  <1>5. BlocksAreInOrder' /\ CoordinatorFollowsL1'
    BY <1>0, BlocksFrame, CoordinatorFrame, SMTT(30) DEF l1
  <1>6. PendingSucceeds'
    <2> SUFFICES ASSUME pendingTx # None PROVE PendingSucceeds'
      BY <1>0, ZenonT(30) DEF PendingSucceeds
    <2>1. UNCHANGED <<l1Messages, l1Final, pendingTx, lastAnchored, rollingHash>>
      BY <1>0, ZenonT(30) DEF l1, l1Sending
    <2>2. AreFinalMessages(pendingTx.hashes)'
      BY <2>1 DEF PendingSucceeds, AreFinalMessages, BlockOf, L1Hash
    <2>3. (pendingTx = AnchoringTx(pendingTx.hashes))'
      BY <2>1 DEF PendingSucceeds, AnchoringTx, RollingHashes, L1Hash
    <2>4. pendingTx \in Transaction
      BY DEF TypeOK
    <2>5. pendingTx.hashes \in Seq(Hashes)
      BY <2>4 DEF Transaction
    <2>6. \A i \in DOMAIN pendingTx.hashes : pendingTx.hashes[i] \in Hashes
      BY <2>5, SMTT(30)
    <2>7. NewHashes(pendingTx.hashes)' = NewHashes(pendingTx.hashes)
      BY <1>3, <2>1, <2>6, SMTT(30) DEF NewHashes
    <2>8. AnchoringSucceeds(pendingTx)'
      BY <2>1, <2>7, ZenonT(30) DEF PendingSucceeds, AnchoringSucceeds
    <2> QED
      BY <2>1, <2>2, <2>3, <2>8, SMTT(30) DEF PendingSucceeds
  <1>7. InboxIsL1Prefix'
    BY <1>0, <1>3 DEF InboxIsL1Prefix, RollingHashes, L1Hash, BlockOf, l1, l1Sending
  <1>8. L2DeliversClaimed'
    BY <1>1, <1>2, SMTT(30) DEF L2DeliversClaimed, TypeOK
  <1>9. L1DeliversClaimed'
    BY <1>0, L1DeliversFrame DEF l1, bounds
  <1> QED
    BY <1>4, <1>5, <1>6, <1>7, <1>8, <1>9

-----------------------------------------------------------------------------
(* The invariant                                                             *)

\* The inbox of L2 is the final prefix of the messages of L1, what the coordinator holds and sends
\* continues it without gaps, and a message was delivered if and only if it is claimed, for every
\* number of messages, faults and admin calls.
THEOREM BridgeInvariance == Spec => []ChannelIInv
  <1>1. ChannelIInv /\ [Next]_vars => ChannelIInv'
    <2> SUFFICES ASSUME ChannelIInv, [Next]_vars PROVE ChannelIInv'
      OBVIOUS
    <2>1. CASE L1SendMessage \/ L1BlockIsFinal \/ L1Reorganisation
      BY <2>1, L1SendMessageIInv, L1BlockIsFinalIInv, L1ReorganisationIInv
    <2>2. CASE FinalizeBlocks \/ ClaimMessageWithProof \/ ClaimMessageV1
      BY <2>2, FinalizeBlocksIInv, ClaimMessageWithProofIInv, ClaimMessageV1IInv
    <2>3. CASE L2SendMessage \/ L2ClaimMessage \/ AnchorL1L2MessageHashes
      BY <2>3, L2SendMessageIInv, L2ClaimMessageIInv, AnchorL1L2MessageHashesIInv
    <2>4. CASE PollNextMessageNumber \/ PollFetch
      BY <2>4, PollNextMessageNumberIInv, PollFetchIInv
    <2>5. CASE AnchoringReadsLast \/ AnchoringTakesEvents \/ AnchoringSends
      BY <2>5, AnchoringReadsLastIInv, AnchoringTakesEventsIInv, AnchoringSendsIInv
    <2>6. CASE RequestFails \/ TransactionIsLost \/ Restart
      BY <2>6, FaultsIInv
    <2>7. CASE ResetRateLimitAmount \/ ResetAmountUsedInPeriod \/ SetMinimumFee \/ Tick
      BY <2>7, LimiterStepsIInv
    <2>8. CASE UNCHANGED vars
      BY <2>8, StutterIInv
    <2> QED
      BY <2>1, <2>2, <2>3, <2>4, <2>5, <2>6, <2>7, <2>8 DEF Next
  <1> QED
    BY <1>1, InitIInv, PTL DEF Spec

-----------------------------------------------------------------------------
(* The channel to L2                                                         *)

\* Steps that neither send, drop nor deliver messages to L2.
LEMMA OthersKeepChannelToL2 ==
    ASSUME [Next]_vars, ~L1SendMessage, ~L1Reorganisation, ~L2ClaimMessage
    PROVE  UNCHANGED <<l1Messages, deliveredOnL2>>
  <1> USE DEF l1, l1Sending, history, vars
  <1>1. CASE L1BlockIsFinal \/ FinalizeBlocks \/ ClaimMessageWithProof \/ ClaimMessageV1
    BY <1>1 DEF L1BlockIsFinal, FinalizeBlocks, ClaimMessageWithProof, ClaimMessageV1
  <1>2. CASE L2SendMessage \/ AnchorL1L2MessageHashes
    BY <1>2 DEF L2SendMessage, AnchorL1L2MessageHashes
  <1>3. CASE PollNextMessageNumber \/ PollFetch
    BY <1>3 DEF PollNextMessageNumber, PollFetch
  <1>4. CASE AnchoringReadsLast \/ AnchoringTakesEvents \/ AnchoringSends
    BY <1>4 DEF AnchoringReadsLast, AnchoringTakesEvents, AnchoringSends
  <1>5. CASE RequestFails \/ TransactionIsLost \/ Restart
    BY <1>5 DEF RequestFails, TransactionIsLost, Restart
  <1>6. CASE ResetRateLimitAmount \/ ResetAmountUsedInPeriod \/ SetMinimumFee \/ Tick
    BY <1>6 DEF ResetRateLimitAmount, ResetAmountUsedInPeriod, SetMinimumFee, Tick
  <1> QED
    BY <1>1, <1>2, <1>3, <1>4, <1>5, <1>6 DEF Next

\* The channel's sequence for messages msgs on L1.
SentIn(msgs) == [n \in 1..Len(msgs) |-> msgs[n].amount]

\* The sequence has the amounts of the messages.
LEMMA SentInType ==
    ASSUME NEW msgs \in Seq(L1Message)
    PROVE  /\ SentIn(msgs) \in Seq(Amounts) /\ Len(SentIn(msgs)) = Len(msgs)
           /\ \A n \in 1..Len(msgs) : SentIn(msgs)[n] = msgs[n].amount
  <1>1. \A n \in 1..Len(msgs) : msgs[n] \in L1Message
    BY SMTT(30)
  <1>2. \A n \in 1..Len(msgs) : msgs[n].amount \in Amounts
    BY <1>1 DEF L1Message
  <1>3. SentIn(msgs) \in [1..Len(msgs) -> Amounts]
    BY <1>2 DEF SentIn
  <1>4. Len(msgs) \in Nat
    BY SMTT(30)
  <1> QED
    BY <1>3, <1>4, SMTT(30) DEF SentIn

\* sendMessage on L1 sends on the channel.
LEMMA SendRefines == ChannelIInv /\ L1SendMessage => ToL2!Send
  <1> SUFFICES ASSUME ChannelIInv, L1SendMessage PROVE ToL2!Send
    OBVIOUS
  <1>0. TypeOK /\ TypeOK'
    BY L1SendMessageIInv DEF ChannelIInv
  <1>1. PICK a \in Amounts : l1Messages' = Append(l1Messages, [amount |-> a, block |-> l1Final + 1])
    BY DEF L1SendMessage
  <1> DEFINE len == Len(l1Messages)
             m == [amount |-> a, block |-> l1Final + 1]
  <1>2. len \in Nat /\ Len(l1Messages') = len + 1
    BY <1>0, <1>1, SMTT(30) DEF TypeOK
  <1>3. /\ \A n \in 1..len : l1Messages'[n] = l1Messages[n]
        /\ l1Messages'[len + 1] = m
    BY <1>0, <1>1, SMTT(30) DEF TypeOK
  <1>4. /\ SentIn(l1Messages) \in Seq(Amounts) /\ Len(SentIn(l1Messages)) = len
        /\ \A n \in 1..len : SentIn(l1Messages)[n] = l1Messages[n].amount
    BY <1>0, SentInType DEF TypeOK
  <1>5. /\ SentIn(l1Messages') \in Seq(Amounts) /\ Len(SentIn(l1Messages')) = len + 1
        /\ \A n \in 1..len + 1 : SentIn(l1Messages')[n] = l1Messages'[n].amount
    BY <1>0, <1>2, SentInType, ZenonT(30) DEF TypeOK
  <1> DEFINE t == Append(SentIn(l1Messages), a)
  <1>6. /\ t \in Seq(Amounts) /\ Len(t) = len + 1
        /\ \A n \in 1..len : t[n] = SentIn(l1Messages)[n]
        /\ t[len + 1] = a
    BY <1>4, SMTT(30)
  <1> HIDE DEF t
  <1>7. \A n \in 1..len + 1 : SentIn(l1Messages')[n] = t[n]
    <2> TAKE n \in 1..len + 1
    <2>1. CASE n \in 1..len
      BY <1>3, <1>4, <1>5, <1>6, <2>1
    <2>2. CASE n = len + 1
      BY <1>3, <1>5, <1>6, <2>2, SMTT(30)
    <2> QED
      BY <1>2, <2>1, <2>2, SMTT(30)
  <1>8. SentIn(l1Messages') = t
    BY <1>5, <1>6, <1>7, SMTT(30)
  <1>9. UNCHANGED deliveredOnL2
    BY DEF L1SendMessage, history
  <1> QED
    BY <1>8, <1>9, ZenonT(30) DEF ToL2!Send, SentIn, t

\* A reorganised message was in no final block, so it was not anchored and not delivered.
LEMMA DropRefines == ChannelIInv /\ L1Reorganisation => ToL2!Drop
  <1> SUFFICES ASSUME ChannelIInv, L1Reorganisation PROVE ToL2!Drop
    OBVIOUS
  <1>0. TypeOK /\ TypeOK'
    BY L1ReorganisationIInv DEF ChannelIInv
  <1> DEFINE len == Len(l1Messages)
             k == len - 1
  <1>1. len \in Nat /\ k \in 0..len /\ len \in 1..len /\ k \in Nat
    <2>1. len \in Nat /\ len # 0
      BY <1>0, SMTT(30) DEF L1Reorganisation, TypeOK
    <2> QED
      BY <2>1, SMTT(30)
  <1>2. l1Messages' = SubSeq(l1Messages, 1, k)
    BY DEF L1Reorganisation
  <1>3. Len(l1Messages') = k /\ \A n \in 1..k : l1Messages'[n] = l1Messages[n]
    BY <1>0, <1>1, <1>2, PrefixOf, ZenonT(30) DEF TypeOK
  <1>4. /\ SentIn(l1Messages) \in Seq(Amounts) /\ Len(SentIn(l1Messages)) = len
        /\ \A n \in 1..len : SentIn(l1Messages)[n] = l1Messages[n].amount
    BY <1>0, SentInType DEF TypeOK
  <1>5. /\ SentIn(l1Messages') \in Seq(Amounts) /\ Len(SentIn(l1Messages')) = k
        /\ \A n \in 1..k : SentIn(l1Messages')[n] = l1Messages'[n].amount
    BY <1>0, <1>3, SentInType, ZenonT(30) DEF TypeOK
  <1> DEFINE t == SubSeq(SentIn(l1Messages), 1, k)
  <1>6. /\ t \in Seq(Amounts) /\ Len(t) = k
        /\ \A n \in 1..k : t[n] = SentIn(l1Messages)[n]
    <2>1. k \in 0..Len(SentIn(l1Messages))
      BY <1>1, <1>4
    <2> QED
      BY <1>4, <2>1, PrefixOf
  <1> HIDE DEF t
  <1>7. \A n \in 1..k : SentIn(l1Messages')[n] = t[n]
    <2> TAKE n \in 1..k
    <2>1. n \in 1..len
      BY <1>1, SMTT(30)
    <2> QED
      BY <1>3, <1>4, <1>5, <1>6, <2>1
  <1>8. SentIn(l1Messages') = t
    BY <1>5, <1>6, <1>7, SMTT(30)
  <1>9. ASSUME NEW h \in Hashes, h.number > k PROVE deliveredOnL2[h] = 0
    <2>1. inboxL1L2[h] = "UNKNOWN"
      <3> SUFFICES ASSUME inboxL1L2[h] # "UNKNOWN" PROVE FALSE
        OBVIOUS
      <3>1. h.number <= lastAnchored /\ lastAnchored <= len
        BY DEF ChannelIInv, InboxIsL1Prefix
      <3>2. h.number \in 1..MaxMessages
        BY AmountType
      <3>3. lastAnchored = len /\ lastAnchored > 0
        <4>1. h.number \in Nat
          BY <3>2, BridgeAssumption, SMTT(30)
        <4>2. lastAnchored \in Nat
          BY DEF ChannelIInv, TypeOK
        <4> HIDE DEF len
        <4> QED
          BY <1>1, <1>9, <3>1, <4>1, <4>2, SMTT(30)
      <3>4. BlockOf(len) <= l1Final
        BY <3>3 DEF ChannelIInv, InboxIsL1Prefix
      <3>5. BlockOf(len) > l1Final
        BY DEF L1Reorganisation, BlockOf
      <3>6. l1Messages[len] \in L1Message
        BY <1>0, <1>1, SMTT(30) DEF TypeOK
      <3>7. BlockOf(len) \in Nat
        BY <3>6 DEF BlockOf, L1Message
      <3> QED
        BY <1>0, <3>4, <3>5, <3>7, SMTT(30) DEF TypeOK
    <2> QED
      BY <2>1 DEF ChannelIInv, L2DeliversClaimed
  <1>10. UNCHANGED deliveredOnL2
    BY DEF L1Reorganisation, history
  <1>11. k \in 0..Len(SentIn(l1Messages))
    BY <1>1, <1>4
  <1>12. \E n \in 0..Len(SentIn(l1Messages)) :
            /\ \A h \in Hashes : h.number > n => deliveredOnL2[h] = 0
            /\ SentIn(l1Messages') = SubSeq(SentIn(l1Messages), 1, n)
    <2> WITNESS k \in 0..Len(SentIn(l1Messages))
    <2> QED
      BY <1>8, <1>9 DEF t
  <1> QED
    BY <1>10, <1>12, ZenonT(30) DEF ToL2!Drop, SentIn, ToL2!Hashes, Hashes

\* A claim on L2 delivers a message that L1 has sent and that was not delivered.
LEMMA DeliverOnL2Refines == ChannelIInv /\ L2ClaimMessage => ToL2!Deliver
  <1> SUFFICES ASSUME ChannelIInv, L2ClaimMessage PROVE ToL2!Deliver
    OBVIOUS
  <1>1. PICK h \in Hashes : /\ UpdateL1L2MessageStatusToClaimed(h)
                            /\ deliveredOnL2' = [deliveredOnL2 EXCEPT ![h] = @ + 1]
    BY ZenonT(30) DEF L2ClaimMessage
  <1>2. inboxL1L2[h] = "RECEIVED"
    BY <1>1 DEF UpdateL1L2MessageStatusToClaimed
  <1>3. deliveredOnL2[h] = 0
    BY <1>2 DEF ChannelIInv, L2DeliversClaimed
  <1>4. deliveredOnL2' = [deliveredOnL2 EXCEPT ![h] = 1]
    BY <1>1, <1>3, SMTT(30)
  <1>5. h.number <= lastAnchored /\ lastAnchored <= Len(l1Messages) /\ h = L1Hash(h.number)
    BY <1>2 DEF ChannelIInv, InboxIsL1Prefix
  <1>6. h.number \in 1..Len(l1Messages)
    BY <1>5, AmountType, BridgeAssumption, SMTT(30) DEF ChannelIInv, TypeOK
  <1>7. h.number <= Len(SentIn(l1Messages)) /\ h.amount = SentIn(l1Messages)[h.number]
    BY <1>5, <1>6, SentInType, SMTT(30) DEF ChannelIInv, L1Hash, TypeOK
  <1>8. UNCHANGED SentIn(l1Messages)
    BY DEF L2ClaimMessage, l1, l1Sending, SentIn
  <1> QED
    BY <1>3, <1>4, <1>7, <1>8, ZenonT(30) DEF ToL2!Deliver, SentIn, ToL2!Hashes, Hashes

-----------------------------------------------------------------------------
(* The channel to L1                                                         *)

\* Steps that neither send nor deliver messages to L1.
LEMMA OthersKeepChannelToL1 ==
    ASSUME [Next]_vars, ~L2SendMessage, ~ClaimMessageWithProof, ~ClaimMessageV1
    PROVE  UNCHANGED <<l2Messages, deliveredOnL1>>
  <1> USE DEF l2, history, vars
  <1>1. CASE L1SendMessage \/ L1BlockIsFinal \/ L1Reorganisation \/ FinalizeBlocks
    BY <1>1 DEF L1SendMessage, L1BlockIsFinal, L1Reorganisation, FinalizeBlocks
  <1>2. CASE L2ClaimMessage \/ AnchorL1L2MessageHashes
    BY <1>2 DEF L2ClaimMessage, AnchorL1L2MessageHashes
  <1>3. CASE PollNextMessageNumber \/ PollFetch
    BY <1>3 DEF PollNextMessageNumber, PollFetch
  <1>4. CASE AnchoringReadsLast \/ AnchoringTakesEvents \/ AnchoringSends
    BY <1>4 DEF AnchoringReadsLast, AnchoringTakesEvents, AnchoringSends
  <1>5. CASE RequestFails \/ TransactionIsLost \/ Restart
    BY <1>5 DEF RequestFails, TransactionIsLost, Restart
  <1>6. CASE ResetRateLimitAmount \/ ResetAmountUsedInPeriod \/ SetMinimumFee \/ Tick
    BY <1>6 DEF ResetRateLimitAmount, ResetAmountUsedInPeriod, SetMinimumFee, Tick
  <1> QED
    BY <1>1, <1>2, <1>3, <1>4, <1>5, <1>6 DEF Next

\* A claim on L1 of a message that is not claimed delivers it.
LEMMA DeliverOnL1Refines ==
    ASSUME ChannelIInv, NEW h \in Hashes, h.number <= Len(l2Messages), h = L2Hash(h.number), ~ClaimedOnL1(h),
           deliveredOnL1' = [deliveredOnL1 EXCEPT ![h] = @ + 1], UNCHANGED l2Messages
    PROVE  ToL1!Deliver
  <1>1. deliveredOnL1[h] = 0
    BY DEF ChannelIInv, L1DeliversClaimed
  <1>2. deliveredOnL1' = [deliveredOnL1 EXCEPT ![h] = 1]
    BY <1>1, SMTT(30)
  <1>3. h.amount = l2Messages[h.number]
    BY SMTT(30) DEF L2Hash
  <1> QED
    BY <1>1, <1>2, <1>3, ZenonT(30) DEF ToL1!Deliver, ToL1!Hashes, Hashes

\* Every step is one of the channel to L1, or leaves it alone.
LEMMA ToL1StepRefines == ChannelIInv /\ [Next]_vars => [ToL1!Next]_<<l2Messages, deliveredOnL1>>
  <1> SUFFICES ASSUME ChannelIInv, [Next]_vars PROVE [ToL1!Next]_<<l2Messages, deliveredOnL1>>
    OBVIOUS
  <1> DEFINE old == Len(bound.legacy)
  <1>0. old \in Nat /\ Len(l2Messages) \in Nat /\ l2Finalized \in old..Len(l2Messages)
    BY BridgeAssumption, SMTT(30) DEF ChannelIInv, TypeOK
  <1>1. CASE L2SendMessage
    <2>1. PICK a \in Amounts : l2Messages' = Append(l2Messages, PostmanFeeAndValue(a + minimumFee))
      BY <1>1 DEF L2SendMessage
    <2>2. PostmanFeeAndValue(a + minimumFee) = a
      BY BridgeAssumption, SMTT(30) DEF PostmanFeeAndValue, ChannelIInv, TypeOK
    <2>3. UNCHANGED deliveredOnL1
      BY <1>1 DEF L2SendMessage, history
    <2> QED
      BY <2>1, <2>2, <2>3 DEF ToL1!Next, ToL1!Send
  <1>2. CASE ClaimMessageWithProof
    <2>0. UNCHANGED l2Messages
      BY <1>2 DEF ClaimMessageWithProof, l2
    <2>1. PICK root \in l2MerkleRoots :
              \E n \in root : SetL2L1MessageToClaimed(n) /\ DeliverOnL1(L2Hash(n))
      BY <1>2 DEF ClaimMessageWithProof
    <2>2. PICK n \in root : SetL2L1MessageToClaimed(n) /\ DeliverOnL1(L2Hash(n))
      BY <2>1
    <2>3. n \in old + 1..l2Finalized
      BY <2>2 DEF ChannelIInv, L1DeliversClaimed
    <2>4. n \in 1..Len(l2Messages) /\ n <= Len(l2Messages) /\ ~(n <= old)
      BY <1>0, <2>3, SMTT(30)
    <2>5. L2Hash(n) \in Hashes /\ L2Hash(n).number = n
      BY <2>4, L2HashType DEF ChannelIInv, TypeOK
    <2>6. ~ClaimedOnL1(L2Hash(n))
      BY <2>2, <2>4, <2>5 DEF ClaimedOnL1, SetL2L1MessageToClaimed
    <2>7. deliveredOnL1' = [deliveredOnL1 EXCEPT ![L2Hash(n)] = @ + 1]
      BY <2>2 DEF DeliverOnL1
    <2>8. ToL1!Deliver
      BY <2>0, <2>4, <2>5, <2>6, <2>7, DeliverOnL1Refines, ZenonT(30)
    <2> QED
      BY <2>8 DEF ToL1!Next
  <1>3. CASE ClaimMessageV1
    <2>0. UNCHANGED l2Messages
      BY <1>3 DEF ClaimMessageV1, l2
    <2>1. PICK h \in inboxL2L1 : DeliverOnL1(h)
      BY <1>3 DEF ClaimMessageV1
    <2>2. h.number \in 1..old /\ h = L2Hash(h.number)
      BY <2>1 DEF ChannelIInv, L1DeliversClaimed
    <2>3. h.number \in 1..Len(l2Messages) /\ h.number <= Len(l2Messages) /\ h.number <= old
      BY <1>0, <2>2, SMTT(30)
    <2>4. h \in Hashes
      BY <2>2, <2>3, L2HashType DEF ChannelIInv, TypeOK
    <2>5. ~ClaimedOnL1(h)
      BY <2>1, <2>3 DEF ClaimedOnL1
    <2>6. deliveredOnL1' = [deliveredOnL1 EXCEPT ![h] = @ + 1]
      BY <2>1 DEF DeliverOnL1
    <2>7. ToL1!Deliver
      BY <2>0, <2>2, <2>3, <2>4, <2>5, <2>6, DeliverOnL1Refines, ZenonT(30)
    <2> QED
      BY <2>7 DEF ToL1!Next
  <1> QED
    BY <1>1, <1>2, <1>3, OthersKeepChannelToL1

-----------------------------------------------------------------------------
(* The theorem                                                               *)

\* Both directions of the bridge are channels: a message is delivered at most once, as it was sent,
\* and a message that L1 drops has not been delivered, whatever the coordinator and L1 do.
THEOREM BridgeImplementsChannels == Spec => ImplementsMessageChannels
  <1>1. Init => ToL2!Init
    <2> SUFFICES ASSUME Init PROVE ToL2!Init
      OBVIOUS
    <2>1. l1Messages \in Seq(L1Message)
      BY SMTT(30) DEF Init
    <2>2. SentIn(l1Messages) \in Seq(Amounts)
      BY <2>1, SentInType
    <2> QED
      BY <2>2 DEF Init, ToL2!Init, SentIn, ToL2!Hashes, Hashes
  <1>2. Init => ToL1!Init
    <2> SUFFICES ASSUME Init PROVE ToL1!Init
      OBVIOUS
    <2>1. bound.legacy \in Seq(Amounts)
      BY BridgeAssumption DEF Init
    <2> QED
      BY <2>1 DEF Init, ToL1!Init, ToL1!Hashes, Hashes
  <1>3. ChannelIInv /\ [Next]_vars =>
          [ToL2!Next]_<<[n \in 1..Len(l1Messages) |-> l1Messages[n].amount], deliveredOnL2>>
    <2> SUFFICES ASSUME ChannelIInv, [Next]_vars
                 PROVE  [ToL2!Next]_<<[n \in 1..Len(l1Messages) |-> l1Messages[n].amount], deliveredOnL2>>
      OBVIOUS
    <2>1. CASE L1SendMessage
      BY <2>1, SendRefines DEF ToL2!Next
    <2>2. CASE L1Reorganisation
      BY <2>2, DropRefines DEF ToL2!Next
    <2>3. CASE L2ClaimMessage
      BY <2>3, DeliverOnL2Refines DEF ToL2!Next
    <2> QED
      BY <2>1, <2>2, <2>3, OthersKeepChannelToL2
  <1>4. ChannelIInv /\ [Next]_vars => [ToL1!Next]_<<l2Messages, deliveredOnL1>>
    BY ToL1StepRefines
  <1> QED
    BY <1>1, <1>2, <1>3, <1>4, BridgeInvariance, PTL
       DEF Spec, ImplementsMessageChannels, ToL2!Spec, ToL1!Spec

-----------------------------------------------------------------------------
(* Sums of amounts                                                           *)

\* A set of numbers that is not empty has a least one.
LEMMA LeastNumber ==
    ASSUME NEW S \in SUBSET Nat, S # {}
    PROVE  \E m \in S : \A k \in S : m <= k
  <1> DEFINE R == {ss \in Nat \X Nat : ss[1] < ss[2]}
  <1>1. IsWellFoundedOn(R, Nat)
    BY NatLessThanWellFounded DEF OpToRel
  <1> HIDE DEF R
  <1>2. PICK m \in S : \A k \in S : <<k, m>> \notin R
    BY <1>1, WFMin
  <1>3. \A k \in S : ~ (k < m)
    BY <1>2 DEF R
  <1> QED
    BY <1>3, SMTT(30)

\* f has the sums of the first n elements of s.
SumsUp(s, n, f) == f = [i \in 0..n |-> IF i = 0 THEN 0 ELSE f[i - 1] + s[i]]

\* There are such sums.
LEMMA SumsExist ==
    ASSUME NEW s, NEW n \in Nat
    PROVE  \E f : SumsUp(s, n, f)
  <1> DEFINE S == {k \in Nat : ~ \E f : SumsUp(s, k, f)}
  <1>1. S = {}
    <2> SUFFICES ASSUME S # {} PROVE FALSE
      OBVIOUS
    <2>1. S \in SUBSET Nat
      OBVIOUS
    <2> HIDE DEF S
    <2>2. PICK m \in S : \A k \in S : m <= k
      BY <2>1, LeastNumber
    <2>3. m \in Nat /\ ~ \E f : SumsUp(s, m, f)
      BY DEF S
    <2>4. CASE m = 0
      <3> DEFINE f == [i \in 0..m |-> 0]
      <3>1. \A i \in 0..m : i = 0
        BY <2>4, SMTT(30)
      <3>2. SumsUp(s, m, f)
        BY <3>1 DEF SumsUp
      <3> QED
        BY <3>2, <2>3
    <2>5. CASE m # 0
      <3>1. m - 1 \in Nat /\ ~ (m <= m - 1)
        BY <2>3, <2>5, SMTT(30)
      <3>2. m - 1 \notin S
        BY <3>1, <2>2
      <3>3. PICK g : SumsUp(s, m - 1, g)
        BY <3>1, <3>2 DEF S
      <3> DEFINE f == [i \in 0..m |-> IF i = 0 THEN 0 ELSE g[i - 1] + s[i]]
      <3>4. \A i \in 0..m : i # 0 => i - 1 \in 0..m - 1 /\ i - 1 \in 0..m
        BY <2>3, SMTT(30)
      <3>5. \A i \in 0..m - 1 : f[i] = g[i]
        <4>1. TAKE i \in 0..m - 1
        <4>2. i \in 0..m
          BY <2>3, SMTT(30)
        <4>3. g[i] = IF i = 0 THEN 0 ELSE g[i - 1] + s[i]
          BY <3>3 DEF SumsUp
        <4> QED
          BY <4>2, <4>3
      <3> DEFINE h == [i \in 0..m |-> IF i = 0 THEN 0 ELSE f[i - 1] + s[i]]
      <3>6. ASSUME NEW i \in 0..m PROVE f[i] = h[i]
        <4>1. CASE i = 0
          BY <4>1
        <4>2. CASE i # 0
          <5>1. f[i - 1] = g[i - 1]
            BY <4>2, <3>4, <3>5
          <5>2. f[i] = g[i - 1] + s[i]
            BY <4>2
          <5> HIDE DEF f
          <5>3. h[i] = f[i - 1] + s[i]
            BY <4>2
          <5> HIDE DEF h
          <5> QED
            BY <5>1, <5>2, <5>3
        <4> QED
          BY <4>1, <4>2
      <3>7. f = h
        BY <3>6
      <3>8. SumsUp(s, m, f)
        BY <3>7 DEF SumsUp
      <3> QED
        BY <3>8, <2>3
    <2> QED
      BY <2>4, <2>5
  <1> QED
    BY <1>1

\* What SumOf computes, step by step.
LEMMA PartialSums ==
    ASSUME NEW s \in Seq(Nat)
    PROVE  \E f : /\ SumOf(s) = f[Len(s)] /\ f[0] = 0
                  /\ \A i \in 1..Len(s) : f[i] = f[i - 1] + s[i]
                  /\ \A i \in 0..Len(s) : f[i] \in Nat
  <1> DEFINE n == Len(s)
             f == CHOOSE g : SumsUp(s, n, g)
  <1>1. n \in Nat /\ \A i \in 1..n : s[i] \in Nat
    BY SMTT(30)
  <1>2. SumOf(s) = f[n]
    BY DEF SumOf, SumsUp
  <1>3. SumsUp(s, n, f)
    BY <1>1, SumsExist
  <1> HIDE DEF f, n
  <1>4. 0 \in 0..n /\ \A i \in 1..n : i \in 0..n /\ i # 0
    BY <1>1, SMTT(30)
  <1>5. f[0] = 0 /\ \A i \in 1..n : f[i] = f[i - 1] + s[i]
    BY <1>3, <1>4 DEF SumsUp
  <1> DEFINE S == {i \in 0..n : f[i] \notin Nat}
  <1>6. S = {}
    <2> SUFFICES ASSUME S # {} PROVE FALSE
      OBVIOUS
    <2>1. S \in SUBSET Nat
      BY <1>1, SMTT(30)
    <2> HIDE DEF S
    <2>2. PICK m \in S : \A k \in S : m <= k
      BY <2>1, LeastNumber
    <2>3. m \in 0..n /\ f[m] \notin Nat
      BY DEF S
    <2>4. m # 0
      <3>1. 0 \in Nat
        BY SMTT(30)
      <3> QED
        BY <3>1, <2>3, <1>5
    <2>5. m \in 1..n /\ m - 1 \in 0..n /\ ~ (m <= m - 1)
      BY <2>3, <2>4, <1>1, SMTT(30)
    <2>6. f[m - 1] \in Nat
      BY <2>2, <2>5 DEF S
    <2>7. f[m] = f[m - 1] + s[m] /\ s[m] \in Nat
      BY <2>5, <1>1, <1>5
    <2>8. f[m] \in Nat
      BY <2>6, <2>7, SMTT(30)
    <2> QED
      BY <2>3, <2>8
  <1>7. \A i \in 0..n : f[i] \in Nat
    BY <1>6
  <1> QED
    BY <1>2, <1>5, <1>7 DEF n

\* A sum of numbers is a number.
LEMMA SumType ==
    ASSUME NEW s \in Seq(Nat)
    PROVE  SumOf(s) \in Nat
  <1>1. Len(s) \in 0..Len(s)
    BY SMTT(30)
  <1> QED
    BY <1>1, PartialSums

\* One more element.
LEMMA SumGrows ==
    ASSUME NEW s \in Seq(Nat), NEW t \in Seq(Nat), Len(t) = Len(s) + 1,
           \A i \in 1..Len(s) : t[i] = s[i]
    PROVE  SumOf(t) = SumOf(s) + t[Len(s) + 1]
  <1> DEFINE n == Len(s)
  <1>1. n \in Nat
    BY SMTT(30)
  <1>2. PICK f : /\ SumOf(s) = f[n] /\ f[0] = 0
                 /\ \A i \in 1..n : f[i] = f[i - 1] + s[i]
    BY PartialSums
  <1>3. PICK g : /\ SumOf(t) = g[n + 1] /\ g[0] = 0
                 /\ \A i \in 1..n + 1 : g[i] = g[i - 1] + t[i]
    <2>1. Len(t) = n + 1
      OBVIOUS
    <2>2. PICK g : /\ SumOf(t) = g[Len(t)] /\ g[0] = 0
                   /\ \A i \in 1..Len(t) : g[i] = g[i - 1] + t[i]
      BY PartialSums
    <2> HIDE DEF n
    <2> QED
      BY <2>1, <2>2
  <1> HIDE DEF n
  <1> DEFINE S == {i \in 0..n : f[i] # g[i]}
  <1>4. S = {}
    <2> SUFFICES ASSUME S # {} PROVE FALSE
      OBVIOUS
    <2>1. S \in SUBSET Nat
      BY <1>1, SMTT(30)
    <2> HIDE DEF S
    <2>2. PICK m \in S : \A k \in S : m <= k
      BY <2>1, LeastNumber
    <2>3. m \in 0..n /\ f[m] # g[m]
      BY DEF S
    <2>4. m # 0
      BY <2>3, <1>2, <1>3
    <2>5. m \in 1..n /\ m \in 1..n + 1 /\ m - 1 \in 0..n /\ ~ (m <= m - 1)
      BY <2>3, <2>4, <1>1, SMTT(30)
    <2>6. f[m - 1] = g[m - 1]
      BY <2>2, <2>5 DEF S
    <2>7. f[m] = f[m - 1] + s[m] /\ g[m] = g[m - 1] + t[m] /\ t[m] = s[m]
      BY <2>5, <1>2, <1>3 DEF n
    <2> QED
      BY <2>3, <2>6, <2>7
  <1>5. n \in 0..n /\ n + 1 \in 1..n + 1 /\ (n + 1) - 1 = n
    BY <1>1, SMTT(30)
  <1>6. f[n] = g[n]
    BY <1>4, <1>5
  <1>7. g[n + 1] = g[n] + t[n + 1]
    <2> DEFINE top == n + 1
    <2>1. top \in 1..n + 1 /\ top - 1 = n
      BY <1>5
    <2> HIDE DEF top
    <2>2. g[top] = g[top - 1] + t[top]
      BY <2>1, <1>3
    <2> QED
      BY <2>1, <2>2 DEF top
  <1> QED
    BY <1>2, <1>3, <1>6, <1>7 DEF n

\* Another value at one place.
LEMMA SumChanges ==
    ASSUME NEW s \in Seq(Nat), NEW t \in Seq(Nat), Len(t) = Len(s), NEW k \in 1..Len(s),
           \A i \in 1..Len(s) : i # k => t[i] = s[i]
    PROVE  SumOf(s) + t[k] = SumOf(t) + s[k]
  <1> DEFINE n == Len(s)
  <1>1. n \in Nat /\ k \in Nat /\ k <= n /\ k # 0 /\ s[k] \in Nat /\ t[k] \in Nat
        /\ \A i \in 1..n : s[i] \in Nat
    BY SMTT(30)
  <1>2. PICK f : /\ SumOf(s) = f[n] /\ f[0] = 0
                 /\ \A i \in 1..n : f[i] = f[i - 1] + s[i]
                 /\ \A i \in 0..n : f[i] \in Nat
    BY PartialSums
  <1>3. PICK g : /\ SumOf(t) = g[n] /\ g[0] = 0
                 /\ \A i \in 1..n : g[i] = g[i - 1] + t[i]
                 /\ \A i \in 0..n : g[i] \in Nat
    BY PartialSums
  <1> HIDE DEF n
  <1> DEFINE Good(i) == IF i < k THEN f[i] = g[i] ELSE f[i] + t[k] = g[i] + s[k]
             S == {i \in 0..n : ~ Good(i)}
  <1> HIDE DEF Good
  <1>4. S = {}
    <2> SUFFICES ASSUME S # {} PROVE FALSE
      OBVIOUS
    <2>1. S \in SUBSET Nat
      BY <1>1, SMTT(30)
    <2> HIDE DEF S
    <2>2. PICK m \in S : \A j \in S : m <= j
      BY <2>1, LeastNumber
    <2>3. m \in 0..n /\ ~ Good(m)
      BY DEF S
    <2>4. m # 0
      <3>1. 0 < k
        BY <1>1, SMTT(30)
      <3> QED
        BY <3>1, <2>3, <1>2, <1>3 DEF Good
    <2>5. m \in 1..n /\ m - 1 \in 0..n /\ ~ (m <= m - 1) /\ m \in Nat
      BY <2>3, <2>4, <1>1, SMTT(30)
    <2>6. Good(m - 1)
      BY <2>2, <2>5 DEF S
    <2>7. f[m] = f[m - 1] + s[m] /\ g[m] = g[m - 1] + t[m] /\ s[m] \in Nat
      BY <2>5, <1>1, <1>2, <1>3
    <2>8. f[m - 1] \in Nat /\ g[m - 1] \in Nat
      BY <2>5, <1>2, <1>3
    <2>9. m # k => t[m] = s[m]
      BY <2>5 DEF n
    <2>10. CASE m < k
      <3>1. m - 1 < k /\ m # k
        BY <2>5, <2>10, <1>1, SMTT(30)
      <3>2. f[m - 1] = g[m - 1] /\ t[m] = s[m]
        BY <3>1, <2>6, <2>9 DEF Good
      <3> QED
        BY <3>2, <2>3, <2>7, <2>10 DEF Good
    <2>11. CASE m = k
      <3>1. m - 1 < k /\ ~ (m < k)
        BY <2>5, <2>11, <1>1, SMTT(30)
      <3>2. f[m - 1] = g[m - 1]
        BY <3>1, <2>6 DEF Good
      <3>3. f[m] + t[k] = g[m] + s[k]
        BY <3>2, <2>7, <2>8, <2>11, <1>1, SMTT(30)
      <3> QED
        BY <3>1, <3>3, <2>3 DEF Good
    <2>12. CASE ~ (m < k) /\ m # k
      <3>1. ~ (m - 1 < k)
        BY <2>5, <2>12, <1>1, SMTT(30)
      <3>2. f[m - 1] + t[k] = g[m - 1] + s[k] /\ t[m] = s[m]
        BY <3>1, <2>6, <2>9, <2>12 DEF Good
      <3>3. f[m] + t[k] = g[m] + s[k]
        <4>1. s[m] \in Nat /\ s[k] \in Nat /\ t[k] \in Nat
          BY <2>7, <1>1
        <4>2. f[m - 1] + t[k] = g[m - 1] + s[k]
          BY <3>2
        <4>3. \A u, v, w \in Nat : (u + v) + w = (u + w) + v
          BY SMTT(30)
        <4>4. (f[m - 1] + s[m]) + t[k] = (f[m - 1] + t[k]) + s[m]
          BY <4>1, <4>3, <2>8
        <4>5. (g[m - 1] + s[m]) + s[k] = (g[m - 1] + s[k]) + s[m]
          BY <4>1, <4>3, <2>8
        <4>6. f[m] = f[m - 1] + s[m] /\ g[m] = g[m - 1] + s[m]
          BY <3>2, <2>7
        <4> QED
          BY <4>2, <4>4, <4>5, <4>6
      <3> QED
        BY <3>3, <2>3, <2>12 DEF Good
    <2> QED
      BY <2>10, <2>11, <2>12
  <1>5. n \in 0..n /\ ~ (n < k)
    BY <1>1, SMTT(30)
  <1>6. Good(n)
    BY <1>4, <1>5
  <1> QED
    BY <1>2, <1>3, <1>5, <1>6 DEF Good

-----------------------------------------------------------------------------
(* What a channel owes                                                       *)

Hash(n, a) == [number |-> n, amount |-> a]

\* The amounts of the messages of a channel that were not delivered.
Owed(sent, delivered) == [n \in 1..Len(sent) |-> IF delivered[Hash(n, sent[n])] = 0 THEN sent[n] ELSE 0]

LEMMA OwedType ==
    ASSUME NEW sent \in Seq(Amounts), NEW delivered
    PROVE  /\ Owed(sent, delivered) \in Seq(Nat) /\ Len(Owed(sent, delivered)) = Len(sent)
           /\ \A n \in 1..Len(sent) :
                 /\ Owed(sent, delivered)[n] = IF delivered[Hash(n, sent[n])] = 0 THEN sent[n] ELSE 0
                 /\ sent[n] \in Nat
           /\ Len(sent) \in Nat
  <1>1. Len(sent) \in Nat /\ 0 \in Nat /\ \A n \in 1..Len(sent) : sent[n] \in Nat
    <2>1. Len(sent) \in Nat /\ 0 \in Nat /\ \A n \in 1..Len(sent) : sent[n] \in Amounts
      BY SMTT(30)
    <2>2. Amounts \subseteq Nat
      BY BridgeAssumption
    <2> QED
      BY <2>1, <2>2
  <1>2. Owed(sent, delivered) \in [1..Len(sent) -> Nat]
    BY <1>1 DEF Owed
  <1>3. Owed(sent, delivered) \in Seq(Nat) /\ Len(Owed(sent, delivered)) = Len(sent)
    BY <1>1, <1>2, SMTT(30)
  <1> QED
    BY <1>1, <1>3 DEF Owed

\* A message more that was not delivered, or one less.
LEMMA OwedGrows ==
    ASSUME NEW sent \in Seq(Amounts), NEW more \in Seq(Amounts), NEW delivered, NEW a, NEW k,
           Len(sent) = k, Len(more) = k + 1, \A n \in 1..k : more[n] = sent[n],
           more[k + 1] = a, delivered[Hash(k + 1, a)] = 0
    PROVE  SumOf(Owed(more, delivered)) = SumOf(Owed(sent, delivered)) + a
  <1> DEFINE s == Owed(sent, delivered)
             t == Owed(more, delivered)
  <1>1. /\ s \in Seq(Nat) /\ Len(s) = k /\ k \in Nat
        /\ \A n \in 1..k : s[n] = IF delivered[Hash(n, sent[n])] = 0 THEN sent[n] ELSE 0
    BY OwedType
  <1>2. /\ t \in Seq(Nat) /\ Len(t) = Len(more)
        /\ \A n \in 1..Len(more) : t[n] = IF delivered[Hash(n, more[n])] = 0 THEN more[n] ELSE 0
    BY OwedType
  <1> HIDE DEF s, t
  <1>3. k + 1 \in 1..Len(more) /\ \A n \in 1..k : n \in 1..Len(more)
    BY <1>1, SMTT(30)
  <1>4. \A n \in 1..Len(s) : t[n] = s[n]
    BY <1>1, <1>2, <1>3
  <1>5. Len(t) = Len(s) + 1 /\ t[Len(s) + 1] = a
    BY <1>1, <1>2, <1>3
  <1>6. SumOf(t) = SumOf(s) + t[Len(s) + 1]
    BY <1>1, <1>2, <1>4, <1>5, SumGrows
  <1> QED
    BY <1>5, <1>6 DEF s, t

\* A message that is delivered.
LEMMA OwedDelivered ==
    ASSUME NEW sent \in Seq(Amounts), NEW delivered \in [Hashes -> Nat], NEW k \in 1..Len(sent),
           \A n \in 1..Len(sent) : Hash(n, sent[n]) \in Hashes,
           delivered[Hash(k, sent[k])] = 0
    PROVE  SumOf(Owed(sent, delivered))
             = SumOf(Owed(sent, [delivered EXCEPT ![Hash(k, sent[k])] = @ + 1])) + sent[k]
  <1> DEFINE after == [delivered EXCEPT ![Hash(k, sent[k])] = @ + 1]
             s == Owed(sent, delivered)
             t == Owed(sent, after)
  <1>1. /\ s \in Seq(Nat) /\ Len(s) = Len(sent) /\ Len(sent) \in Nat
        /\ \A n \in 1..Len(sent) : s[n] = IF delivered[Hash(n, sent[n])] = 0 THEN sent[n] ELSE 0
    BY OwedType
  <1>2. /\ t \in Seq(Nat) /\ Len(t) = Len(sent)
        /\ \A n \in 1..Len(sent) : t[n] = IF after[Hash(n, sent[n])] = 0 THEN sent[n] ELSE 0
    BY OwedType
  <1>3. after[Hash(k, sent[k])] # 0
    <2>1. after[Hash(k, sent[k])] = 0 + 1
      OBVIOUS
    <2>2. 0 + 1 # 0
      BY SMTT(30)
    <2> QED
      BY <2>1, <2>2
  <1>4. \A n \in 1..Len(sent) : n # k => Hash(n, sent[n]) # Hash(k, sent[k])
    <2> SUFFICES ASSUME NEW n \in 1..Len(sent), n # k PROVE Hash(n, sent[n]) # Hash(k, sent[k])
      OBVIOUS
    <2>1. Hash(n, sent[n]).number = n /\ Hash(k, sent[k]).number = k
      BY DEF Hash
    <2> QED
      BY <2>1
  <1>5. \A n \in 1..Len(sent) : n # k => after[Hash(n, sent[n])] = delivered[Hash(n, sent[n])]
    BY <1>4
  <1> HIDE DEF s, t, after
  <1>6. \A n \in 1..Len(s) : n # k => t[n] = s[n]
    <2> SUFFICES ASSUME NEW n \in 1..Len(sent), n # k PROVE t[n] = s[n]
      BY <1>1
    <2>1. s[n] = IF delivered[Hash(n, sent[n])] = 0 THEN sent[n] ELSE 0
      BY <1>1
    <2>2. t[n] = IF after[Hash(n, sent[n])] = 0 THEN sent[n] ELSE 0
      BY <1>2
    <2>3. after[Hash(n, sent[n])] = delivered[Hash(n, sent[n])]
      BY <1>5
    <2> QED
      BY <2>1, <2>2, <2>3
  <1>7. s[k] = sent[k] /\ t[k] = 0 /\ k \in 1..Len(s) /\ Len(t) = Len(s)
    BY <1>1, <1>2, <1>3
  <1>8. SumOf(s) + t[k] = SumOf(t) + s[k]
    BY <1>1, <1>2, <1>6, <1>7, SumChanges
  <1>9. SumOf(s) \in Nat
    BY <1>1, SumType
  <1>10. SumOf(s) = SumOf(t) + sent[k]
    BY <1>7, <1>8, <1>9, SMTT(30)
  <1> QED
    BY <1>10 DEF s, t, after

\* The channel's view of what L2 owes.
LEMMA OwedToL2 ==
    ASSUME NEW msgs \in Seq(L1Message), NEW delivered
    PROVE  [n \in 1..Len(msgs) |-> IF delivered[Hash(n, msgs[n].amount)] = 0 THEN msgs[n].amount ELSE 0]
             = Owed(SentIn(msgs), delivered)
  <1>1. /\ Len(SentIn(msgs)) = Len(msgs)
        /\ \A n \in 1..Len(msgs) : SentIn(msgs)[n] = msgs[n].amount
    BY SentInType
  <1> HIDE DEF SentIn
  <1> QED
    BY <1>1 DEF Owed

\* What the chains owe, in terms of the channels, before and after a step.
LEMMA OwedIsOwed ==
    ASSUME TypeOK
    PROVE  /\ OwedOnL1 = SumOf(Owed(l2Messages, deliveredOnL1)) /\ OwedOnL1 \in Nat
           /\ OwedOnL2 = SumOf(Owed(SentIn(l1Messages), deliveredOnL2)) /\ OwedOnL2 \in Nat
  <1>1. OwedOnL1 = SumOf(Owed(l2Messages, deliveredOnL1))
    BY DEF OwedOnL1, Owed, L2Hash, Hash
  <1>2. [n \in 1..Len(l1Messages) |->
            IF deliveredOnL2[Hash(n, l1Messages[n].amount)] = 0 THEN l1Messages[n].amount ELSE 0]
          = Owed(SentIn(l1Messages), deliveredOnL2)
    BY OwedToL2 DEF TypeOK
  <1>3. OwedOnL2 = SumOf(Owed(SentIn(l1Messages), deliveredOnL2))
    BY <1>2 DEF OwedOnL2, L1Hash, Hash
  <1>4. l2Messages \in Seq(Amounts) /\ SentIn(l1Messages) \in Seq(Amounts)
    BY SentInType DEF TypeOK
  <1>5. /\ Owed(l2Messages, deliveredOnL1) \in Seq(Nat)
        /\ Owed(SentIn(l1Messages), deliveredOnL2) \in Seq(Nat)
    BY <1>4, OwedType
  <1> QED
    BY <1>1, <1>3, <1>5, SumType

LEMMA OwedIsOwedNext ==
    ASSUME TypeOK'
    PROVE  /\ OwedOnL1' = SumOf(Owed(l2Messages', deliveredOnL1')) /\ OwedOnL1' \in Nat
           /\ OwedOnL2' = SumOf(Owed(SentIn(l1Messages'), deliveredOnL2')) /\ OwedOnL2' \in Nat
  <1>1. OwedOnL1' = SumOf(Owed(l2Messages', deliveredOnL1'))
    BY DEF OwedOnL1, Owed, L2Hash, Hash
  <1>2. [n \in 1..Len(l1Messages') |->
            IF deliveredOnL2'[Hash(n, l1Messages'[n].amount)] = 0 THEN l1Messages'[n].amount ELSE 0]
          = Owed(SentIn(l1Messages'), deliveredOnL2')
    BY OwedToL2 DEF TypeOK
  <1>3. OwedOnL2' = SumOf(Owed(SentIn(l1Messages'), deliveredOnL2'))
    BY <1>2 DEF OwedOnL2, L1Hash, Hash
  <1>4. l2Messages' \in Seq(Amounts) /\ SentIn(l1Messages') \in Seq(Amounts)
    BY SentInType DEF TypeOK
  <1>5. /\ Owed(l2Messages', deliveredOnL1') \in Seq(Nat)
        /\ Owed(SentIn(l1Messages'), deliveredOnL2') \in Seq(Nat)
    BY <1>4, OwedType
  <1> QED
    BY <1>1, <1>3, <1>5, SumType

\* L2 has not delivered what is not anchored.
LEMMA UnanchoredIsUndelivered ==
    ASSUME ChannelIInv, NEW h \in Hashes, ~(h.number <= lastAnchored)
    PROVE  deliveredOnL2[h] = 0
  <1>1. inboxL1L2[h] = "UNKNOWN"
    BY DEF ChannelIInv, InboxIsL1Prefix
  <1> QED
    BY <1>1 DEF ChannelIInv, L2DeliversClaimed

\* The last message of L1 is not anchored while its block is not final.
LEMMA LastIsUnanchored ==
    ASSUME ChannelIInv, L1Reorganisation
    PROVE  Len(l1Messages) \in 1..Len(l1Messages) /\ ~(Len(l1Messages) <= lastAnchored)
  <1> DEFINE len == Len(l1Messages)
  <1>1. len \in Nat /\ len # 0
    BY SMTT(30) DEF L1Reorganisation, ChannelIInv, TypeOK
  <1>2. len \in 1..len
    BY <1>1, SMTT(30)
  <1>3. l1Messages[len] \in L1Message
    BY <1>2, SMTT(30) DEF ChannelIInv, TypeOK
  <1>4. BlockOf(len) \in Nat /\ l1Final \in Nat /\ lastAnchored \in Nat
    BY <1>3 DEF BlockOf, L1Message, ChannelIInv, TypeOK
  <1>5. BlockOf(len) > l1Final
    BY DEF L1Reorganisation, BlockOf
  <1>6. /\ lastAnchored <= len
        /\ lastAnchored > 0 => BlockOf(lastAnchored) <= l1Final
    BY DEF ChannelIInv, InboxIsL1Prefix
  <1> HIDE DEF len
  <1>7. lastAnchored # len
    <2> SUFFICES ASSUME lastAnchored = len PROVE FALSE
      OBVIOUS
    <2>1. lastAnchored > 0
      BY <1>1, SMTT(30)
    <2>2. BlockOf(len) <= l1Final
      BY <1>6, <2>1
    <2> QED
      BY <1>4, <1>5, <2>2, SMTT(30)
  <1>8. ~(len <= lastAnchored)
    BY <1>1, <1>4, <1>6, <1>7, SMTT(30)
  <1> QED
    BY <1>2, <1>8 DEF len

-----------------------------------------------------------------------------
(* Ether is conserved                                                        *)

\* A message to L2 is paid for.
LEMMA L1SendMessageOwes ==
    ASSUME ChannelIInv, L1SendMessage
    PROVE  \E a \in Amounts : l1Balance' = l1Balance + a /\ OwedOnL2' = OwedOnL2 + a
  <1>0. TypeOK /\ TypeOK'
    BY L1SendMessageIInv DEF ChannelIInv
  <1>1. PICK a \in Amounts : /\ l1Messages' = Append(l1Messages, [amount |-> a, block |-> l1Final + 1])
                             /\ l1Balance' = l1Balance + a
    BY DEF L1SendMessage
  <1> DEFINE len == Len(l1Messages)
             m == [amount |-> a, block |-> l1Final + 1]
             sent == SentIn(l1Messages)
             more == SentIn(l1Messages')
  <1>2. len \in Nat /\ Len(l1Messages') = len + 1
    BY <1>0, <1>1, SMTT(30) DEF TypeOK
  <1>3. /\ \A n \in 1..len : l1Messages'[n] = l1Messages[n]
        /\ l1Messages'[len + 1] = m
    BY <1>0, <1>1, SMTT(30) DEF TypeOK
  <1>4. /\ sent \in Seq(Amounts) /\ Len(sent) = len
        /\ \A n \in 1..len : sent[n] = l1Messages[n].amount
    BY <1>0, SentInType DEF TypeOK
  <1>5. /\ more \in Seq(Amounts) /\ Len(more) = Len(l1Messages')
        /\ \A n \in 1..Len(l1Messages') : more[n] = l1Messages'[n].amount
    BY <1>0, SentInType DEF TypeOK
  <1>6. len + 1 \in 1..Len(l1Messages') /\ \A n \in 1..len : n \in 1..Len(l1Messages')
    BY <1>2, SMTT(30)
  <1>7. /\ \A n \in 1..len : more[n] = sent[n]
        /\ more[len + 1] = a
    <2>1. \A n \in 1..len : more[n] = sent[n]
      <3> HIDE DEF sent, more, len
      <3> QED
        BY <1>3, <1>4, <1>5, <1>6
    <2>2. more[len + 1] = l1Messages'[len + 1].amount
      BY <1>5, <1>6
    <2>3. m.amount = a
      OBVIOUS
    <2> QED
      BY <1>3, <2>1, <2>2, <2>3
  <1>8. deliveredOnL2[Hash(len + 1, a)] = 0
    <2>1. len + 1 \in 1..MaxMessages /\ ~(len + 1 <= lastAnchored)
      <3>1. Len(l1Messages') <= MaxMessages /\ MaxMessages \in Nat
        BY <1>0, BridgeAssumption DEF TypeOK
      <3>2. lastAnchored \in Nat /\ lastAnchored <= len
        BY DEF ChannelIInv, TypeOK, InboxIsL1Prefix
      <3> HIDE DEF len
      <3> QED
        BY <1>2, <3>1, <3>2, SMTT(30)
    <2>2. Hash(len + 1, a) \in Hashes /\ Hash(len + 1, a).number = len + 1
      BY <2>1 DEF Hash, Hashes
    <2> QED
      BY <2>1, <2>2, UnanchoredIsUndelivered
  <1> HIDE DEF sent, more, len
  <1>9. SumOf(Owed(more, deliveredOnL2)) = SumOf(Owed(sent, deliveredOnL2)) + a
    <2>1. Len(sent) = len /\ Len(more) = len + 1
      BY <1>2, <1>4, <1>5
    <2>2. sent \in Seq(Amounts) /\ more \in Seq(Amounts)
      BY <1>4, <1>5
    <2> QED
      BY <1>7, <1>8, <2>1, <2>2, OwedGrows, SMTT(30)
  <1>10. UNCHANGED deliveredOnL2
    BY DEF L1SendMessage, history
  <1>11. OwedOnL2' = OwedOnL2 + a
    BY <1>0, <1>9, <1>10, OwedIsOwed, OwedIsOwedNext DEF sent, more
  <1> QED
    BY <1>1, <1>11

\* A reorganisation takes the payment back, and nobody was paid for it on L2.
LEMMA L1ReorganisationOwes ==
    ASSUME ChannelIInv, L1Reorganisation
    PROVE  \E a \in Amounts : l1Balance' = l1Balance - a /\ OwedOnL2 = OwedOnL2' + a
  <1>0. TypeOK /\ TypeOK'
    BY L1ReorganisationIInv DEF ChannelIInv
  <1> DEFINE len == Len(l1Messages)
             k == len - 1
             a == l1Messages[len].amount
             sent == SentIn(l1Messages')
             more == SentIn(l1Messages)
  <1>1. len \in 1..len /\ ~(len <= lastAnchored)
    BY LastIsUnanchored
  <1>2. len \in Nat /\ k \in 0..len /\ k \in Nat /\ k + 1 = len
    <2>1. l1Messages \in Seq(L1Message)
      BY <1>0 DEF TypeOK
    <2>2. len \in Nat
      BY <2>1, SMTT(30)
    <2> HIDE DEF len
    <2> QED
      BY <1>1, <2>2, SMTT(30)
  <1>3. l1Messages' = SubSeq(l1Messages, 1, k) /\ l1Balance' = l1Balance - a
    BY DEF L1Reorganisation
  <1>4. Len(l1Messages') = k /\ \A n \in 1..k : l1Messages'[n] = l1Messages[n]
    BY <1>0, <1>2, <1>3, PrefixOf DEF TypeOK
  <1>5. /\ more \in Seq(Amounts) /\ Len(more) = len
        /\ \A n \in 1..len : more[n] = l1Messages[n].amount
    BY <1>0, SentInType DEF TypeOK
  <1>6. /\ sent \in Seq(Amounts) /\ Len(sent) = Len(l1Messages')
        /\ \A n \in 1..Len(l1Messages') : sent[n] = l1Messages'[n].amount
    BY <1>0, SentInType DEF TypeOK
  <1>7. l1Messages[len] \in L1Message
    BY <1>0, <1>1, SMTT(30) DEF TypeOK
  <1>8. a \in Amounts
    BY <1>7 DEF L1Message
  <1>9. \A n \in 1..k : n \in 1..len
    BY <1>2, SMTT(30)
  <1>10. deliveredOnL2[Hash(len, a)] = 0
    <2>1. len \in 1..MaxMessages
      BY <1>0, <1>1, <1>2, BridgeAssumption, SMTT(30) DEF TypeOK
    <2>2. Hash(len, a) \in Hashes /\ Hash(len, a).number = len
      BY <1>8, <2>1 DEF Hash, Hashes
    <2> QED
      BY <1>1, <2>2, UnanchoredIsUndelivered
  <1> HIDE DEF sent, more, len, k, a
  <1>11. Len(sent) = k /\ Len(more) = k + 1
    BY <1>2, <1>4, <1>5, <1>6
  <1>12. \A n \in 1..k : more[n] = sent[n]
    BY <1>4, <1>5, <1>6, <1>9
  <1>13. more[len] = a
    BY <1>1, <1>5 DEF a
  <1>14. more[k + 1] = a /\ deliveredOnL2[Hash(k + 1, a)] = 0
    BY <1>2, <1>10, <1>13
  <1>15. SumOf(Owed(more, deliveredOnL2)) = SumOf(Owed(sent, deliveredOnL2)) + a
    <2>1. sent \in Seq(Amounts) /\ more \in Seq(Amounts)
      BY <1>5, <1>6
    <2> QED
      BY <1>11, <1>12, <1>14, <2>1, OwedGrows, SMTT(30)
  <1>16. UNCHANGED deliveredOnL2
    BY DEF L1Reorganisation, history
  <1>17. OwedOnL2 = OwedOnL2' + a
    BY <1>0, <1>15, <1>16, OwedIsOwed, OwedIsOwedNext DEF sent, more
  <1> QED
    BY <1>3, <1>8, <1>17

\* What L1 pays for a message to L1 it owes no more.
LEMMA DeliverOnL1Pays ==
    ASSUME ChannelIInv, TypeOK', NEW k \in 1..Len(l2Messages), ~ClaimedOnL1(L2Hash(k)),
           DeliverOnL1(L2Hash(k)), UNCHANGED l2Messages
    PROVE  \E a \in Amounts : l1Balance' = l1Balance - a /\ OwedOnL1 = OwedOnL1' + a
  <1>0. TypeOK /\ l2Messages \in Seq(Amounts)
    BY DEF ChannelIInv, TypeOK
  <1>1. L2Hash(k) = Hash(k, l2Messages[k]) /\ L2Hash(k).amount = l2Messages[k]
    BY DEF L2Hash, Hash
  <1>2. \A n \in 1..Len(l2Messages) : Hash(n, l2Messages[n]) \in Hashes
    <2>1. \A n \in 1..Len(l2Messages) : L2Hash(n) \in Hashes
      BY <1>0, L2HashType DEF TypeOK
    <2> QED
      BY <2>1 DEF L2Hash, Hash
  <1>3. deliveredOnL1 \in [Hashes -> Nat]
    <2>1. 0 \in Nat /\ 1 \in Nat
      BY SMTT(30)
    <2> QED
      BY <2>1 DEF ChannelIInv, L1DeliversClaimed
  <1>4. deliveredOnL1[Hash(k, l2Messages[k])] = 0
    BY <1>1, <1>2 DEF ChannelIInv, L1DeliversClaimed
  <1>5. /\ deliveredOnL1' = [deliveredOnL1 EXCEPT ![Hash(k, l2Messages[k])] = @ + 1]
        /\ l1Balance' = l1Balance - l2Messages[k]
    BY <1>1 DEF DeliverOnL1
  <1>6. SumOf(Owed(l2Messages, deliveredOnL1)) = SumOf(Owed(l2Messages, deliveredOnL1')) + l2Messages[k]
    BY <1>0, <1>2, <1>3, <1>4, <1>5, OwedDelivered
  <1>7. OwedOnL1 = OwedOnL1' + l2Messages[k]
    BY <1>0, <1>6, OwedIsOwed, OwedIsOwedNext
  <1>8. l2Messages[k] \in Amounts
    BY <1>0, SMTT(30)
  <1> QED
    BY <1>5, <1>7, <1>8

\* Both ways to claim on L1 pay a message that was owed.
LEMMA ClaimsOnL1Pay ==
    ASSUME ChannelIInv, ClaimMessageWithProof \/ ClaimMessageV1
    PROVE  \E a \in Amounts : l1Balance' = l1Balance - a /\ OwedOnL1 = OwedOnL1' + a
  <1> DEFINE old == Len(bound.legacy)
  <1>0. old \in Nat /\ Len(l2Messages) \in Nat /\ l2Finalized \in old..Len(l2Messages)
    BY BridgeAssumption, SMTT(30) DEF ChannelIInv, TypeOK
  <1>1. TypeOK' /\ UNCHANGED l2Messages
    BY ClaimMessageWithProofIInv, ClaimMessageV1IInv
       DEF ChannelIInv, ClaimMessageWithProof, ClaimMessageV1, l2
  <1>2. CASE ClaimMessageWithProof
    <2>1. PICK root \in l2MerkleRoots :
              \E n \in root : SetL2L1MessageToClaimed(n) /\ DeliverOnL1(L2Hash(n))
      BY <1>2 DEF ClaimMessageWithProof
    <2>2. PICK n \in root : SetL2L1MessageToClaimed(n) /\ DeliverOnL1(L2Hash(n))
      BY <2>1
    <2>3. n \in old + 1..l2Finalized
      BY <2>2 DEF ChannelIInv, L1DeliversClaimed
    <2>4. n \in 1..Len(l2Messages) /\ ~(n <= old)
      BY <1>0, <2>3, SMTT(30)
    <2>5. L2Hash(n).number = n
      BY DEF L2Hash
    <2>6. ~ClaimedOnL1(L2Hash(n))
      BY <2>2, <2>4, <2>5 DEF ClaimedOnL1, SetL2L1MessageToClaimed
    <2> QED
      BY <1>1, <2>2, <2>4, <2>6, DeliverOnL1Pays
  <1>3. CASE ClaimMessageV1
    <2>1. PICK h \in inboxL2L1 : DeliverOnL1(h)
      BY <1>3 DEF ClaimMessageV1
    <2>2. h.number \in 1..old /\ h = L2Hash(h.number)
      BY <2>1 DEF ChannelIInv, L1DeliversClaimed
    <2>3. h.number \in 1..Len(l2Messages) /\ h.number <= old
      BY <1>0, <2>2, SMTT(30)
    <2>4. PICK k \in 1..Len(l2Messages) : k = h.number
      BY <2>3
    <2>5. h = L2Hash(k) /\ ~ClaimedOnL1(h)
      BY <2>1, <2>2, <2>3, <2>4 DEF ClaimedOnL1
    <2>6. DeliverOnL1(L2Hash(k)) /\ ~ClaimedOnL1(L2Hash(k))
      BY <2>1, <2>5
    <2> HIDE <2>2
    <2> QED
      BY <1>1, <2>6, DeliverOnL1Pays
  <1> QED
    BY <1>2, <1>3

\* The same for a claim on L2.
LEMMA L2ClaimMessagePays ==
    ASSUME ChannelIInv, L2ClaimMessage
    PROVE  \E a \in Amounts : l2Balance >= a /\ l2Balance' = l2Balance - a /\ OwedOnL2 = OwedOnL2' + a
  <1>0. TypeOK /\ TypeOK'
    BY L2ClaimMessageIInv DEF ChannelIInv
  <1>1. PICK h \in Hashes : /\ UpdateL1L2MessageStatusToClaimed(h)
                            /\ l2Balance >= h.amount /\ l2Balance' = l2Balance - h.amount
                            /\ deliveredOnL2' = [deliveredOnL2 EXCEPT ![h] = @ + 1]
    BY DEF L2ClaimMessage
  <1>2. inboxL1L2[h] = "RECEIVED"
    BY <1>1 DEF UpdateL1L2MessageStatusToClaimed
  <1>3. deliveredOnL2[h] = 0
    BY <1>2 DEF ChannelIInv, L2DeliversClaimed
  <1>4. h.number <= lastAnchored /\ lastAnchored <= Len(l1Messages) /\ h = L1Hash(h.number)
    BY <1>2 DEF ChannelIInv, InboxIsL1Prefix
  <1>5. h.number \in 1..Len(l1Messages)
    BY <1>4, AmountType, BridgeAssumption, SMTT(30) DEF ChannelIInv, TypeOK
  <1>6. PICK k \in 1..Len(l1Messages) : h = L1Hash(k)
    BY <1>4, <1>5
  <1> DEFINE sent == SentIn(l1Messages)
  <1>7. /\ sent \in Seq(Amounts) /\ Len(sent) = Len(l1Messages)
        /\ \A n \in 1..Len(l1Messages) : sent[n] = l1Messages[n].amount
    BY <1>0, SentInType DEF TypeOK
  <1> HIDE DEF sent
  <1>8. \A n \in 1..Len(l1Messages) : L1Hash(n) = Hash(n, sent[n]) /\ L1Hash(n) \in Hashes
    BY <1>0, <1>7, L1HashType DEF TypeOK, L1Hash, Hash
  <1>9. h = Hash(k, sent[k]) /\ h.amount = sent[k]
    <2>1. h = Hash(k, sent[k])
      BY <1>6, <1>8
    <2>2. Hash(k, sent[k]).amount = sent[k]
      BY DEF Hash
    <2> QED
      BY <2>1, <2>2
  <1>10. deliveredOnL2 \in [Hashes -> Nat]
    <2>1. 0 \in Nat /\ 1 \in Nat
      BY SMTT(30)
    <2> QED
      BY <2>1 DEF ChannelIInv, L2DeliversClaimed
  <1>11. /\ deliveredOnL2[Hash(k, sent[k])] = 0 /\ k \in 1..Len(sent)
         /\ deliveredOnL2' = [deliveredOnL2 EXCEPT ![Hash(k, sent[k])] = @ + 1]
         /\ \A n \in 1..Len(sent) : Hash(n, sent[n]) \in Hashes
    <2>1. /\ deliveredOnL2[Hash(k, sent[k])] = 0
          /\ deliveredOnL2' = [deliveredOnL2 EXCEPT ![Hash(k, sent[k])] = @ + 1]
      BY <1>1, <1>3, <1>9
    <2> QED
      BY <1>6, <1>7, <1>8, <2>1
  <1>12. SumOf(Owed(sent, deliveredOnL2)) = SumOf(Owed(sent, deliveredOnL2')) + sent[k]
    BY <1>7, <1>10, <1>11, OwedDelivered
  <1>13. UNCHANGED l1Messages
    BY DEF L2ClaimMessage, l1, l1Sending
  <1>14. OwedOnL2 = OwedOnL2' + h.amount
    BY <1>0, <1>9, <1>12, <1>13, OwedIsOwed, OwedIsOwedNext DEF sent
  <1> QED
    BY <1>1, <1>14, AmountType

\* A message to L1 is paid for on L2, with the coinbase's fee on top; the fee stays on L2.
LEMMA L2SendMessageOwes ==
    ASSUME ChannelIInv, L2SendMessage, l2Balance \in 0..L2Ether
    PROVE  \E a \in Amounts : /\ l2Balance' = l2Balance + a /\ l2Balance' \in 0..L2Ether
                              /\ OwedOnL1' = OwedOnL1 + a
  <1>0. TypeOK /\ TypeOK'
    BY L2SendMessageIInv DEF ChannelIInv
  <1>1. PICK a \in Amounts : /\ a + minimumFee <= L2Ether - l2Balance
                             /\ l2Messages' = Append(l2Messages, PostmanFeeAndValue(a + minimumFee))
                             /\ l2Balance' = l2Balance + (a + minimumFee) - minimumFee
    BY DEF L2SendMessage
  <1>2. a \in Nat /\ minimumFee \in Nat /\ L2Ether \in Nat
    BY <1>0, BridgeAssumption DEF TypeOK
  <1>3. PostmanFeeAndValue(a + minimumFee) = a
    BY <1>2, SMTT(30) DEF PostmanFeeAndValue
  <1>4. l2Balance' = l2Balance + a /\ l2Balance' \in 0..L2Ether
    BY <1>1, <1>2, SMTT(30)
  <1> DEFINE k == Len(l2Messages)
  <1>5. /\ l2Messages \in Seq(Amounts) /\ l2Messages' \in Seq(Amounts) /\ k \in Nat
        /\ l2Messages' = Append(l2Messages, a)
    <2>1. l2Messages \in Seq(Amounts) /\ l2Messages' \in Seq(Amounts)
      BY <1>0 DEF TypeOK
    <2>2. k \in Nat
      BY <2>1, SMTT(30)
    <2> QED
      BY <1>1, <1>3, <2>1, <2>2
  <1>6. Len(l2Messages') = k + 1 /\ l2Messages'[k + 1] = a /\ \A n \in 1..k : l2Messages'[n] = l2Messages[n]
    BY <1>5, SMTT(30)
  <1>7. deliveredOnL1[Hash(k + 1, a)] = 0
    <2>1. k + 1 \in 1..MaxMessages /\ ~(k + 1 <= k)
      <3>1. Len(l2Messages') <= MaxMessages /\ MaxMessages \in Nat
        BY <1>0, BridgeAssumption DEF TypeOK
      <3>2. k \in Nat /\ Len(l2Messages') = k + 1
        BY <1>5, <1>6
      <3> HIDE DEF k
      <3> QED
        BY <3>1, <3>2, SMTT(30)
    <2>2. Hash(k + 1, a) \in Hashes /\ Hash(k + 1, a).number = k + 1
      BY <2>1 DEF Hash, Hashes
    <2>3. ~ClaimedOnL1(Hash(k + 1, a))
      BY <2>1, <2>2 DEF ClaimedOnL1
    <2> QED
      BY <2>2, <2>3 DEF ChannelIInv, L1DeliversClaimed
  <1>8. SumOf(Owed(l2Messages', deliveredOnL1)) = SumOf(Owed(l2Messages, deliveredOnL1)) + a
    <2> HIDE DEF k
    <2>1. Len(l2Messages) = k
      BY DEF k
    <2>2. l2Messages \in Seq(Amounts) /\ l2Messages' \in Seq(Amounts)
      BY <1>5
    <2> QED
      BY <1>6, <1>7, <2>1, <2>2, OwedGrows, SMTT(30)
  <1>9. UNCHANGED deliveredOnL1
    BY DEF L2SendMessage, history
  <1>10. OwedOnL1' = OwedOnL1 + a
    BY <1>0, <1>8, <1>9, OwedIsOwed, OwedIsOwedNext
  <1> QED
    BY <1>4, <1>10

\* Every other step leaves the balances alone.
LEMMA OthersKeepL1Balance ==
    ASSUME [Next]_vars, ~L1SendMessage, ~L1Reorganisation, ~ClaimMessageWithProof, ~ClaimMessageV1
    PROVE  UNCHANGED l1Balance
  <1> USE DEF l1, vars
  <1>1. CASE L1BlockIsFinal \/ FinalizeBlocks
    BY <1>1 DEF L1BlockIsFinal, FinalizeBlocks
  <1>2. CASE L2SendMessage \/ L2ClaimMessage \/ AnchorL1L2MessageHashes
    BY <1>2 DEF L2SendMessage, L2ClaimMessage, AnchorL1L2MessageHashes
  <1>3. CASE PollNextMessageNumber \/ PollFetch
    BY <1>3 DEF PollNextMessageNumber, PollFetch
  <1>4. CASE AnchoringReadsLast \/ AnchoringTakesEvents \/ AnchoringSends
    BY <1>4 DEF AnchoringReadsLast, AnchoringTakesEvents, AnchoringSends
  <1>5. CASE RequestFails \/ TransactionIsLost \/ Restart
    BY <1>5 DEF RequestFails, TransactionIsLost, Restart
  <1>6. CASE ResetRateLimitAmount \/ ResetAmountUsedInPeriod \/ SetMinimumFee \/ Tick
    BY <1>6 DEF ResetRateLimitAmount, ResetAmountUsedInPeriod, SetMinimumFee, Tick
  <1> QED
    BY <1>1, <1>2, <1>3, <1>4, <1>5, <1>6 DEF Next

LEMMA OthersKeepL2Balance ==
    ASSUME [Next]_vars, ~L2SendMessage, ~L2ClaimMessage
    PROVE  UNCHANGED l2Balance
  <1> USE DEF l2, vars
  <1>1. CASE L1SendMessage \/ L1BlockIsFinal \/ L1Reorganisation \/ FinalizeBlocks
    BY <1>1 DEF L1SendMessage, L1BlockIsFinal, L1Reorganisation, FinalizeBlocks
  <1>2. CASE ClaimMessageWithProof \/ ClaimMessageV1 \/ AnchorL1L2MessageHashes
    BY <1>2 DEF ClaimMessageWithProof, ClaimMessageV1, AnchorL1L2MessageHashes
  <1>3. CASE PollNextMessageNumber \/ PollFetch
    BY <1>3 DEF PollNextMessageNumber, PollFetch
  <1>4. CASE AnchoringReadsLast \/ AnchoringTakesEvents \/ AnchoringSends
    BY <1>4 DEF AnchoringReadsLast, AnchoringTakesEvents, AnchoringSends
  <1>5. CASE RequestFails \/ TransactionIsLost \/ Restart
    BY <1>5 DEF RequestFails, TransactionIsLost, Restart
  <1>6. CASE ResetRateLimitAmount \/ ResetAmountUsedInPeriod \/ SetMinimumFee \/ Tick
    BY <1>6 DEF ResetRateLimitAmount, ResetAmountUsedInPeriod, SetMinimumFee, Tick
  <1> QED
    BY <1>1, <1>2, <1>3, <1>4, <1>5, <1>6 DEF Next

\* What a chain owes depends on its channel only.
LEMMA OwedFrame ==
    /\ UNCHANGED <<l2Messages, deliveredOnL1>> => OwedOnL1' = OwedOnL1
    /\ UNCHANGED <<l1Messages, deliveredOnL2>> => OwedOnL2' = OwedOnL2
  BY DEF OwedOnL1, OwedOnL2, L1Hash, L2Hash

\* At genesis L1 holds what it owes for the messages that were received before.
LEMMA InitEther == Init => EtherIsConserved
  <1> SUFFICES ASSUME Init PROVE EtherIsConserved
    OBVIOUS
  <1>0. TypeOK
    BY InitIInv DEF ChannelIInv
  <1>1. /\ bound \in Bounds /\ l1Balance = SumOf(bound.legacy) /\ l2Messages = bound.legacy
        /\ deliveredOnL1 = [h \in Hashes |-> 0] /\ l1Messages = <<>> /\ l2Balance = L2Ether
    BY DEF Init
  <1>2. Owed(l2Messages, deliveredOnL1) = l2Messages
    <2>1. l2Messages \in Seq(Amounts) /\ \A n \in 1..Len(l2Messages) : L2Hash(n) \in Hashes
      BY <1>0, L2HashType DEF TypeOK
    <2>2. \A n \in 1..Len(l2Messages) : deliveredOnL1[Hash(n, l2Messages[n])] = 0
      BY <1>1, <2>1 DEF L2Hash, Hash
    <2>3. /\ Owed(l2Messages, deliveredOnL1) \in Seq(Nat)
          /\ Len(Owed(l2Messages, deliveredOnL1)) = Len(l2Messages)
          /\ \A n \in 1..Len(l2Messages) : Owed(l2Messages, deliveredOnL1)[n] = l2Messages[n]
      BY <2>1, <2>2, OwedType
    <2> QED
      BY <2>1, <2>3, SMTT(30)
  <1>3. OwedOnL1 = l1Balance /\ OwedOnL1 \in Nat
    BY <1>0, <1>1, <1>2, OwedIsOwed
  <1>4. OwedOnL2 = 0
    <2> DEFINE s == Owed(SentIn(l1Messages), deliveredOnL2)
    <2>1. SentIn(l1Messages) \in Seq(Amounts) /\ Len(SentIn(l1Messages)) = Len(l1Messages)
      BY <1>0, SentInType DEF TypeOK
    <2>2. s \in Seq(Nat) /\ Len(s) = Len(l1Messages)
      BY <2>1, OwedType
    <2>3. Len(l1Messages) = 0
      BY <1>1, SMTT(30)
    <2>4. OwedOnL2 = SumOf(s)
      BY <1>0, OwedIsOwed
    <2> HIDE DEF s
    <2>5. PICK f : SumOf(s) = f[Len(s)] /\ f[0] = 0
      BY <2>2, PartialSums
    <2> QED
      BY <2>2, <2>3, <2>4, <2>5
  <1> QED
    BY <1>1, <1>3, <1>4, BridgeAssumption, SMTT(30) DEF EtherIsConserved

\* Every step moves what the chains owe together with their balances.
LEMMA StepKeepsEther ==
    ASSUME ChannelIInv, ChannelIInv', EtherIsConserved, [Next]_vars
    PROVE  EtherIsConserved'
  <1>0. /\ OwedOnL1 \in Nat /\ OwedOnL2 \in Nat /\ OwedOnL1' \in Nat /\ OwedOnL2' \in Nat
        /\ L2Ether \in Nat /\ Amounts \subseteq Nat
    BY OwedIsOwed, OwedIsOwedNext, BridgeAssumption DEF ChannelIInv
  <1>1. l1Balance = OwedOnL1 + OwedOnL2 + (L2Ether - l2Balance) /\ l2Balance \in 0..L2Ether
    BY DEF EtherIsConserved
  <1>2. CASE L1SendMessage
    <2>1. UNCHANGED <<l2Messages, deliveredOnL1, l2Balance>>
      BY <1>2 DEF L1SendMessage, l2, history
    <2>2. OwedOnL1' = OwedOnL1
      BY <2>1, OwedFrame
    <2>3. PICK a \in Amounts : l1Balance' = l1Balance + a /\ OwedOnL2' = OwedOnL2 + a
      BY <1>2, L1SendMessageOwes
    <2> QED
      BY <1>0, <1>1, <2>1, <2>2, <2>3, SMTT(30) DEF EtherIsConserved
  <1>3. CASE L1Reorganisation
    <2>1. UNCHANGED <<l2Messages, deliveredOnL1, l2Balance>>
      BY <1>3 DEF L1Reorganisation, l2, history
    <2>2. OwedOnL1' = OwedOnL1
      BY <2>1, OwedFrame
    <2>3. PICK a \in Amounts : l1Balance' = l1Balance - a /\ OwedOnL2 = OwedOnL2' + a
      BY <1>3, L1ReorganisationOwes
    <2> QED
      BY <1>0, <1>1, <2>1, <2>2, <2>3, SMTT(30) DEF EtherIsConserved
  <1>4. CASE ClaimMessageWithProof \/ ClaimMessageV1
    <2>1. UNCHANGED <<l1Messages, deliveredOnL2, l2Balance>>
      BY <1>4 DEF ClaimMessageWithProof, ClaimMessageV1, l2, l1Sending
    <2>2. OwedOnL2' = OwedOnL2
      BY <2>1, OwedFrame
    <2>3. PICK a \in Amounts : l1Balance' = l1Balance - a /\ OwedOnL1 = OwedOnL1' + a
      BY <1>4, ClaimsOnL1Pay
    <2> QED
      BY <1>0, <1>1, <2>1, <2>2, <2>3, SMTT(30) DEF EtherIsConserved
  <1>5. CASE L2SendMessage
    <2>1. UNCHANGED <<l1Messages, deliveredOnL2, l1Balance>>
      BY <1>5 DEF L2SendMessage, l1, l1Sending, history
    <2>2. OwedOnL2' = OwedOnL2
      BY <2>1, OwedFrame
    <2>3. PICK a \in Amounts : /\ l2Balance' = l2Balance + a /\ l2Balance' \in 0..L2Ether
                               /\ OwedOnL1' = OwedOnL1 + a
      BY <1>1, <1>5, L2SendMessageOwes
    <2> QED
      BY <1>0, <1>1, <2>1, <2>2, <2>3, SMTT(30) DEF EtherIsConserved
  <1>6. CASE L2ClaimMessage
    <2>1. UNCHANGED <<l2Messages, deliveredOnL1, l1Balance>>
      BY <1>6 DEF L2ClaimMessage, l1
    <2>2. OwedOnL1' = OwedOnL1
      BY <2>1, OwedFrame
    <2>3. PICK a \in Amounts : /\ l2Balance >= a /\ l2Balance' = l2Balance - a
                               /\ OwedOnL2 = OwedOnL2' + a
      BY <1>6, L2ClaimMessagePays
    <2> QED
      BY <1>0, <1>1, <2>1, <2>2, <2>3, SMTT(30) DEF EtherIsConserved
  <1>7. ASSUME ~L1SendMessage, ~L1Reorganisation, ~ClaimMessageWithProof, ~ClaimMessageV1,
               ~L2SendMessage, ~L2ClaimMessage
        PROVE  EtherIsConserved'
    <2>1. UNCHANGED <<l1Messages, deliveredOnL2>> /\ UNCHANGED <<l2Messages, deliveredOnL1>>
      BY <1>7, OthersKeepChannelToL2, OthersKeepChannelToL1
    <2>2. UNCHANGED l1Balance /\ UNCHANGED l2Balance
      BY <1>7, OthersKeepL1Balance, OthersKeepL2Balance
    <2>3. OwedOnL1' = OwedOnL1 /\ OwedOnL2' = OwedOnL2
      BY <2>1, OwedFrame
    <2> QED
      BY <1>1, <2>2, <2>3 DEF EtherIsConserved
  <1> QED
    BY <1>2, <1>3, <1>4, <1>5, <1>6, <1>7

\* No step makes or loses ether: the balance of the message service on L1 is what it owes for
\* messages to L1, what L2 owes for messages to L2, and what circulates on L2.
THEOREM EtherConservation == Spec => []IInv
  <1>1. ChannelIInv /\ ChannelIInv' /\ EtherIsConserved /\ [Next]_vars => EtherIsConserved'
    BY StepKeepsEther
  <1>2. Spec => []EtherIsConserved
    BY <1>1, InitEther, BridgeInvariance, PTL DEF Spec
  <1> QED
    BY <1>2, BridgeInvariance, PTL DEF IInv

\* The message service on L1 can pay every message to L1 that was not claimed: what it owes on L2
\* and what circulates there is not negative.
THEOREM L1Solvency == Spec => []L1IsSolvent
  <1>1. IInv => L1IsSolvent
    <2> SUFFICES ASSUME IInv PROVE L1IsSolvent
      OBVIOUS
    <2>1. OwedOnL1 \in Nat /\ OwedOnL2 \in Nat /\ L2Ether \in Nat
      BY OwedIsOwed, BridgeAssumption DEF IInv, ChannelIInv
    <2>2. l1Balance = OwedOnL1 + OwedOnL2 + (L2Ether - l2Balance) /\ l2Balance \in 0..L2Ether
      BY DEF IInv, EtherIsConserved
    <2> QED
      BY <2>1, <2>2, SMTT(30) DEF L1IsSolvent
  <1> QED
    BY <1>1, EtherConservation, PTL

=============================================================================
