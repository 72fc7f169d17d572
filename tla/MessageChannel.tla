--------------------------- MODULE MessageChannel ---------------------------
(* What one direction of the message bridge promises its users: a message that is sent is       *)
(* delivered at most once, as it was sent, and a message the sending chain drops in a           *)
(* reorganisation has not been delivered.                                                        *)
EXTENDS Naturals, Sequences

CONSTANTS
    Amounts,      \* what a message can carry: its value and its fee together
    MaxMessages   \* the number of messages

VARIABLES
    sent,         \* the amounts of the messages, by message number
    delivered     \* how many times the receiving chain has delivered each message

Hashes == [number: 1..MaxMessages, amount: Amounts]

Init ==
    /\ sent \in Seq(Amounts)
    /\ delivered = [h \in Hashes |-> 0]

Send ==
    \E a \in Amounts :
        /\ sent' = Append(sent, a)
        /\ UNCHANGED delivered

\* The sending chain is reorganised: messages at the end of the sequence are gone.
Drop ==
    \E n \in 0..Len(sent) :
        /\ \A h \in Hashes : h.number > n => delivered[h] = 0
        /\ sent' = SubSeq(sent, 1, n)
        /\ UNCHANGED delivered

Deliver ==
    \E h \in Hashes :
        /\ h.number <= Len(sent)
        /\ h.amount = sent[h.number]
        /\ delivered[h] = 0
        /\ delivered' = [delivered EXCEPT ![h] = 1]
        /\ UNCHANGED sent

Next == Send \/ Drop \/ Deliver

Spec == Init /\ [][Next]_<<sent, delivered>>
=============================================================================
