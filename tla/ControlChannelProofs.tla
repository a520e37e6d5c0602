------------------------ MODULE ControlChannelProofs ------------------------
(***************************************************************************)
(* The inductive invariant of ControlChannel, and that it is kept: by the  *)
(* steps that send (Hello and the runs of control_xmit that toss a buffer  *)
(* or send it again), by those that end in call_close (the retry limit,    *)
(* build_fdset, disconnect and the end of a daemon) and by the reception   *)
(* of packets. So the safety properties hold, and ReliableLink is refined, *)
(* for every value of the constants as long as the sequence numbers do not *)
(* wrap.                                                                   *)
(***************************************************************************)
EXTENDS ControlChannel, TLAPS

(* Neither end uses up its SeqMod sequence numbers (each may still need    *)
(* one for its StopCCN).                                                   *)
NoWrap == MaxSent + 1 < SeqMod /\ \A e \in Ends : Start[e] <= MaxSent

-----------------------------------------------------------------------------
(* The sequence numbers are the counts of messages sent and processed.     *)
Numbering ==
  \A e \in Ends :
     /\ ss[e] = sent[e]
     /\ rr[e] = Received(e)
     /\ Start[e] <= sent[e]
     /\ sent[e] <= MaxSent + 1
     /\ ~closing[e] => sent[e] <= MaxSent
     /\ Received(e) <= sent[Peer(e)]

(* What is known of a packet in the network from the state of its sender.  *)
NetOK ==
  \A p \in net :
     /\ p.ns = p.id
     /\ p.nr <= Received(Peer(p.to))
     /\ p.id <= sent[Peer(p.to)]
     /\ p.msg \in Messages => p.id < sent[Peer(p.to)]
     /\ p.msg = "StopCCN" => closing[Peer(p.to)]

(* A scheduled buffer is a message of this end that has been sent.         *)
SchedOK ==
  \A e \in Ends : \A b \in sched[e] :
     b.pkt \in net /\ b.pkt.to = Peer(e) /\ b.pkt.msg \in Messages

(* A number stands for one message.                                        *)
UniqueIds ==
  \A p, q \in net :
     p.to = q.to /\ p.msg \in Messages /\ q.msg \in Messages /\ p.id = q.id
       => p = q

(* While an end waits for the answer to its StopCCN, no message the peer   *)
(* has sent (a ZLB is not a message) acknowledges the StopCCN.             *)
StopUnanswered ==
  \A e \in Ends :
     alive[e] /\ needclose[e] /\ closing[e] =>
       /\ cLr[e] <= closeSs[e]
       /\ \A p \in net : p.to = e /\ p.msg = "Hello" => p.nr <= closeSs[e]

(* The inductive invariant.                                                *)
IInv ==
  /\ TypeOK /\ Numbering /\ InOrderDelivery /\ AckSound
  /\ NetOK /\ SchedOK /\ UniqueIds /\ NoSilentDrop
  /\ StopPending /\ StopUnanswered /\ OneStopCCN /\ StopObeyed
-----------------------------------------------------------------------------
(* Peer maps each of the two ends to the other.                            *)
LEMMA PeerFacts ==
  ASSUME NEW e \in Ends
  PROVE  /\ Peer(e) \in Ends /\ Peer(Peer(e)) = e /\ Peer(e) # e
         /\ \A f \in Ends : f # e => f = Peer(e)
BY DEF Ends, Peer

(* The 16-bit arithmetic of the header fields is exact before the wrap.    *)
LEMMA ModSmall ==
  ASSUME NEW x \in Nat, x < SeqMod
  PROVE  x % SeqMod = x
BY ConstantsAssumption

(* The values of a header field are naturals.                              *)
LEMMA SeqNumsNat == \A x \in SeqNums : x \in Nat
BY ConstantsAssumption DEF SeqNums

(* The counter of the next message does not wrap either.                   *)
LEMMA NextNumber ==
  ASSUME NoWrap, NEW n \in Nat, n <= MaxSent
  PROVE  (n + 1) % SeqMod = n + 1
BY ModSmall, ConstantsAssumption DEF NoWrap

(* Facts of arithmetic: the order of the naturals is reflexive,            *)
LEMMA LeqRefl == \A a \in Nat : a <= a
OBVIOUS

(* transitive, in the two ways the code writes it,                         *)
LEMMA LeqTrans ==
  \A a, b, c \in Nat : (a <= b /\ b <= c => a <= c) /\ (a >= b /\ a <= c => c >= b)
OBVIOUS

(* also from a strict comparison,                                          *)
LEMMA LtTrans == \A a \in Int, b, c \in Nat : a < b /\ b <= c => a < c
OBVIOUS

(* and total.                                                              *)
LEMMA LeqTotal == \A a, b \in Nat : ~(a >= b) => a <= b
OBVIOUS

(* A number is below its successor,                                        *)
LEMMA LeqSucc == \A a, b \in Nat : a <= b => a <= b + 1 /\ b + 1 \in Nat
OBVIOUS

(* which is the least above it.                                            *)
LEMMA SuccLeast ==
  \A a, b \in Nat : (a < b => a + 1 <= b) /\ (a < b + 1 /\ ~(a < b) => a = b)
OBVIOUS

(* The last of n + 1 numbers from a is a + n.                              *)
LEMMA LastNumber == \A a, n \in Nat : a + n = a + (n + 1) - 1
OBVIOUS

(* An interval holds the integers between its bounds.                      *)
LEMMA RangeFacts ==
  \A a, b \in Nat : (a <= b => a \in 0 .. b) /\ \A i \in a .. b - 1 : i \in Int
OBVIOUS

(* Append keeps the elements and adds one.                                 *)
LEMMA AppendAt ==
  \A s \in Seq(Nat), x \in Nat : \A i \in 1 .. Len(Append(s, x)) :
     \/ i \in 1 .. Len(s) /\ Append(s, x)[i] = s[i]
     \/ i = Len(s) + 1 /\ Append(s, x)[i] = x
OBVIOUS

(* So it changes the sequence.                                             *)
LEMMA AppendNew ==
  \A s \in Seq(Nat), x \in Nat : Append(s, x) # s /\ Len(s) \in Nat
OBVIOUS

(* The initial state.                                                      *)
LEMMA InitIInv == ASSUME NoWrap, Init PROVE IInv
<1> USE ConstantsAssumption
<1>1. \A e \in Ends : Start[e] \in Nat /\ Start[e] <= MaxSent
  BY DEF NoWrap
<1>0. \A e \in Ends : Start[e] % SeqMod = Start[e]
  BY <1>1, ModSmall DEF NoWrap
<1>2. \A e \in Ends : Peer(e) \in Ends
  BY PeerFacts
<1>3. \A e \in Ends : /\ ss[e] = Start[e] /\ rr[e] = Start[Peer(e)] /\ cLr[e] = Start[e]
                      /\ sent[e] = Start[e] /\ got[e] = << >> /\ Received(e) = Start[Peer(e)]
                      /\ Received(Peer(e)) = Start[e]
  BY SMTT(30), <1>0, <1>1, <1>2, PeerFacts DEF Init, Received
<1>4. TypeOK
  BY <1>0, <1>1, <1>2 DEF Init, TypeOK, SeqNums, NoWrap
<1>5. Numbering
  <2> SUFFICES ASSUME NEW e \in Ends
               PROVE  /\ ss[e] = sent[e] /\ rr[e] = Received(e)
                      /\ Start[e] <= sent[e] /\ sent[e] <= MaxSent
                      /\ Received(e) <= sent[Peer(e)]
    BY <1>1, <1>3 DEF Numbering
  <2> QED
    BY <1>1, <1>2, <1>3
<1>6. InOrderDelivery /\ AckSound
  BY <1>1, <1>2, <1>3 DEF InOrderDelivery, AckSound
<1>7. NetOK /\ SchedOK /\ UniqueIds /\ OneStopCCN /\ StopObeyed
  BY DEF Init, NetOK, SchedOK, UniqueIds, OneStopCCN, StopObeyed
<1>8. NoSilentDrop
  BY <1>1, <1>2, <1>3 DEF NoSilentDrop
<1>9. StopPending /\ StopUnanswered
  BY DEF Init, StopPending, StopUnanswered
<1> QED
  BY <1>4, <1>5, <1>6, <1>7, <1>8, <1>9 DEF IInv
-----------------------------------------------------------------------------
(* Facts of the invariant about one end, in the form the steps use.        *)
LEMMA EndFacts ==
  ASSUME IInv, NoWrap, NEW e \in Ends
  PROVE  /\ ss[e] = sent[e] /\ rr[e] = Received(e)
         /\ sent[e] \in Nat /\ Received(e) \in Nat /\ Start[e] \in Nat
         /\ sent[Peer(e)] \in Nat /\ Received(Peer(e)) \in Nat
         /\ cLr[e] \in Nat /\ closeSs[e] \in Nat
         /\ Start[e] <= sent[e] /\ sent[e] < SeqMod
         /\ cLr[e] <= Received(Peer(e)) /\ Received(Peer(e)) <= sent[e]
         /\ Received(e) <= sent[Peer(e)] /\ Received(e) < SeqMod
<1> USE ConstantsAssumption, PeerFacts
<1>1. /\ Peer(e) \in Ends /\ Peer(Peer(e)) = e
      /\ Start \in [Ends -> Nat] /\ got \in [Ends -> Seq(Nat)]
      /\ sent \in [Ends -> Nat]
  BY DEF IInv, TypeOK
<1>2. \A f \in Ends : Received(f) \in Nat
  BY SMTT(30), <1>1 DEF Received
<1>3. ss[e] = sent[e] /\ rr[e] = Received(e) /\ Start[e] <= sent[e]
  BY DEF IInv, Numbering
<1>4. /\ Received(e) <= sent[Peer(e)] /\ Received(Peer(e)) <= sent[e]
      /\ sent[e] <= MaxSent + 1 /\ sent[Peer(e)] <= MaxSent + 1
  BY <1>1 DEF IInv, Numbering
<1>5. cLr[e] <= Received(Peer(e)) /\ cLr[e] \in Nat /\ closeSs[e] \in Nat
  BY DEF IInv, AckSound, TypeOK, SeqNums
<1> QED
  BY SMTT(30), <1>1, <1>2, <1>3, <1>4, <1>5 DEF NoWrap

(* Facts of the invariant about the packets in the network.                *)
LEMMA PacketFacts ==
  ASSUME IInv
  PROVE  \A p \in net :
           /\ p.to \in Ends /\ Peer(p.to) \in Ends /\ p.id \in Nat
           /\ p.nr \in SeqNums /\ p.nr \in Nat /\ p.nr <= Received(Peer(p.to))
<1> SUFFICES ASSUME NEW p \in net
             PROVE  /\ p.to \in Ends /\ Peer(p.to) \in Ends /\ p.id \in Nat
                    /\ p.nr \in SeqNums /\ p.nr \in Nat /\ p.nr <= Received(Peer(p.to))
  OBVIOUS
<1>1. p \in Packets
  BY DEF IInv, TypeOK
<1>2. p.to \in Ends /\ p.id \in Nat /\ p.nr \in SeqNums
  BY <1>1 DEF Packets
<1>3. p.nr <= Received(Peer(p.to))
  BY Zenon DEF IInv, NetOK
<1> QED
  BY Zenon, <1>2, <1>3, PeerFacts, SeqNumsNat

(* A step that leaves the messages of an end alone drops none.             *)
LEMMA SameDrop ==
  ASSUME NoSilentDrop, sent' = sent, alive' = alive, closing' = closing,
         sched' = sched, \A f \in Ends : Received(f)' = Received(f)
  PROVE  NoSilentDrop'
<1>1. \A f \in Ends : Received(Peer(f))' = Received(Peer(f))
  BY Zenon, PeerFacts
<1> QED
  BY <1>1 DEF NoSilentDrop

(* The header of a new message.                                            *)
LEMMA HeaderFacts ==
  ASSUME IInv, NoWrap, NEW e \in Ends, NEW msg \in Messages \cup {"ZLB"},
         NEW r \in Nat, r < SeqMod
  PROVE  /\ Header(e, msg, r) \in Packets
         /\ Header(e, msg, r).to = Peer(e) /\ Header(e, msg, r).msg = msg
         /\ Header(e, msg, r).ns = sent[e] /\ Header(e, msg, r).id = sent[e]
         /\ Header(e, msg, r).nr = r
<1>1. Peer(e) \in Ends
  BY PeerFacts
<1>2. sent[e] \in Nat /\ ss[e] = sent[e] /\ ss[e] \in SeqNums /\ r \in SeqNums
  BY SMTT(30), EndFacts, ConstantsAssumption DEF IInv, TypeOK, SeqNums
<1> QED
  BY <1>1, <1>2 DEF Header, Packets

(* Without wrapping a new message is never taken for an acknowledged one:  *)
(* it is scheduled and sent.                                               *)
LEMMA FirstXmitEffect ==
  ASSUME IInv, NoWrap, NEW e \in Ends, NEW msg \in Messages, NEW kept,
         sent[e] <= MaxSent, FirstXmit(e, msg, kept)
  PROVE  LET h == Header(e, msg, Received(e)) IN
         /\ sched' = [sched EXCEPT ![e] = kept \cup {[pkt |-> h, retries |-> 1]}]
         /\ net' = net \cup {h}
         /\ ss' = [ss EXCEPT ![e] = sent[e] + 1]
         /\ sent' = [sent EXCEPT ![e] = sent[e] + 1]
<1>1. ss[e] = sent[e] /\ rr[e] = Received(e) /\ sent[e] \in Nat
  BY EndFacts
<1>2. ~Acked(ss[e], cLr[e])
  BY EndFacts DEF Acked
<1>3. Header(e, msg, rr[e]).ns = ss[e]
  BY DEF Header
<1>4. (ss[e] + 1) % SeqMod = sent[e] + 1
  BY Zenon, <1>1, NextNumber
<1>5. /\ ss' = [ss EXCEPT ![e] = (ss[e] + 1) % SeqMod]
      /\ sent' = [sent EXCEPT ![e] = sent[e] + 1]
  BY DEF FirstXmit
<1>6. /\ sched' = [sched EXCEPT ![e] =
                     kept \cup {[pkt |-> Header(e, msg, rr[e]), retries |-> 1]}]
      /\ net' = net \cup {Header(e, msg, rr[e])}
  BY <1>2, <1>3 DEF FirstXmit
<1> QED
  BY Zenon, <1>1, <1>4, <1>5, <1>6
-----------------------------------------------------------------------------
(* A step in which end e sends a new message, whatever it does to its      *)
(* flags and its schedule besides.                                         *)
Sends(e, msg) ==
  /\ sent[e] <= MaxSent /\ (~closing'[e] => sent[e] < MaxSent)
  /\ UNCHANGED <<rr, cLr, got>>
  /\ net' = net \cup {Header(e, msg, Received(e))}
  /\ ss' = [ss EXCEPT ![e] = sent[e] + 1]
  /\ sent' = [sent EXCEPT ![e] = sent[e] + 1]
  /\ sched' = [sched EXCEPT ![e] = sched'[e]]
  /\ sched'[e] \subseteq
       sched[e] \cup {[pkt |-> Header(e, msg, Received(e)), retries |-> 1]}
  /\ alive' \in [Ends -> BOOLEAN] /\ hello' \in [Ends -> BOOLEAN]
  /\ needclose' \in [Ends -> BOOLEAN] /\ closing' \in [Ends -> BOOLEAN]
  /\ closeSs' \in [Ends -> SeqNums]
  /\ \A f \in Ends : closing[f] => closing'[f]
  /\ msg = "StopCCN" => closing'[e]

(* Sending preserves the part of the invariant about numbers and packets.  *)
LEMMA SendCommon ==
  ASSUME IInv, NoWrap, NEW e \in Ends, NEW msg \in Messages, Sends(e, msg)
  PROVE  /\ TypeOK' /\ Numbering' /\ InOrderDelivery' /\ AckSound'
         /\ NetOK' /\ SchedOK' /\ UniqueIds'
         /\ \A f \in Ends : Received(f)' = Received(f)
<1> USE DEF Sends
<1> DEFINE h == Header(e, msg, Received(e))
           nb == [pkt |-> h, retries |-> 1]
<1>2. /\ sent[e] \in Nat /\ MaxSent \in Nat /\ Received(e) \in Nat
      /\ Received(e) < SeqMod
      /\ Peer(e) \in Ends /\ Peer(Peer(e)) = e /\ Peer(e) # e
      /\ \A f \in Ends : f = e \/ f = Peer(e)
  BY EndFacts, ConstantsAssumption, PeerFacts
<1>3. /\ h \in Packets /\ h.to = Peer(e) /\ h.msg = msg
      /\ h.ns = sent[e] /\ h.id = sent[e] /\ h.nr = Received(e)
  BY <1>2, HeaderFacts
<1>5. \A f \in Ends : Received(f)' = Received(f)
  BY DEF Received
<1>6. /\ sent \in [Ends -> Nat] /\ ss \in [Ends -> SeqNums]
      /\ sched \in [Ends -> SUBSET Buffers]
  BY DEF IInv, TypeOK
<1>7. /\ sent'[e] = sent[e] + 1 /\ sent'[Peer(e)] = sent[Peer(e)]
      /\ ss'[e] = sent[e] + 1 /\ ss'[Peer(e)] = ss[Peer(e)]
      /\ sched'[Peer(e)] = sched[Peer(e)]
  BY <1>2, <1>6
<1>9. TypeOK'
  <2>1. sched'[e] \in SUBSET Buffers
    BY <1>3, <1>6, ConstantsAssumption DEF Buffers
  <2>2. sent[e] + 1 \in SeqNums
    BY <1>2, ConstantsAssumption DEF SeqNums, NoWrap
  <2>3. ss' \in [Ends -> SeqNums] /\ sched' \in [Ends -> SUBSET Buffers]
    BY <1>6, <2>1, <2>2
  <2>4. net' \in SUBSET Packets /\ sent' \in [Ends -> Nat]
    BY <1>2, <1>3, <1>6 DEF IInv, TypeOK
  <2>5. /\ rr' \in [Ends -> SeqNums] /\ cLr' \in [Ends -> SeqNums]
        /\ got' \in [Ends -> Seq(Nat)]
    BY DEF IInv, TypeOK
  <2> QED
    BY <2>3, <2>4, <2>5 DEF TypeOK
<1>10. Numbering'
  <2> SUFFICES ASSUME NEW f \in Ends
               PROVE  /\ ss'[f] = sent'[f] /\ rr'[f] = Received(f)
                      /\ Start[f] <= sent'[f] /\ sent'[f] <= MaxSent + 1
                      /\ ~closing'[f] => sent'[f] <= MaxSent
                      /\ Received(f) <= sent'[Peer(f)]
    BY <1>5 DEF Numbering
  <2>1. CASE f = e
    <3>1. /\ rr[e] = Received(e) /\ Start[e] \in Nat /\ Start[e] <= sent[e]
          /\ Received(e) <= sent[Peer(e)]
      BY Zenon, EndFacts
    <3> QED
      BY <1>2, <1>7, <2>1, <3>1
  <2>2. CASE f = Peer(e)
    <3>1. Numbering
      BY DEF IInv
    <3>2. /\ ss[f] = sent[f] /\ rr[f] = Received(f)
          /\ Start[f] <= sent[f] /\ sent[f] <= MaxSent + 1
          /\ ~closing[f] => sent[f] <= MaxSent
          /\ Received(f) <= sent[Peer(f)]
      BY Zenon, <3>1 DEF Numbering
    <3>3. /\ Peer(f) = e /\ Received(f) \in Nat
          /\ closing[f] => closing'[f]
      BY Zenon, <1>2, <2>2, EndFacts
    <3>4. Received(f) <= sent[e] + 1
      BY <1>2, <3>2, <3>3
    <3> QED
      BY Zenon, <1>7, <2>2, <3>2, <3>3, <3>4
  <2> QED
    BY <1>2, <2>1, <2>2
<1>11. InOrderDelivery'
  BY DEF IInv, InOrderDelivery
<1>12. AckSound'
  BY <1>5, PeerFacts DEF IInv, AckSound
<1>13. NetOK'
  <2> SUFFICES ASSUME NEW p \in net'
               PROVE  /\ p.ns = p.id /\ p.nr <= Received(Peer(p.to))
                      /\ p.id <= sent'[Peer(p.to)]
                      /\ p.msg \in Messages => p.id < sent'[Peer(p.to)]
                      /\ p.msg = "StopCCN" => closing'[Peer(p.to)]
    <3>1. \A p \in net' : Peer(p.to) \in Ends
      BY <1>9, PeerFacts DEF TypeOK, Packets
    <3> QED
      BY <1>5, <3>1 DEF NetOK
  <2>1. CASE p = h
    BY SMTT(30), <1>2, <1>3, <1>7, <2>1
  <2>2. CASE p \in net
    <3>1. /\ p.to \in Ends /\ Peer(p.to) \in Ends /\ p.id \in Nat
          /\ p.ns = p.id /\ p.nr <= Received(Peer(p.to))
          /\ p.id <= sent[Peer(p.to)]
          /\ p.msg \in Messages => p.id < sent[Peer(p.to)]
          /\ p.msg = "StopCCN" => closing[Peer(p.to)]
      BY <2>2, PeerFacts DEF IInv, NetOK, TypeOK, Packets
    <3>2. /\ sent[Peer(p.to)] \in Nat
          /\ sent'[Peer(p.to)] = sent[Peer(p.to)] \/ sent'[Peer(p.to)] = sent[Peer(p.to)] + 1
      BY <1>2, <1>6, <1>7, <3>1, PeerFacts
    <3> QED
      BY <3>1, <3>2
  <2> QED
    BY <2>1, <2>2
<1>14. SchedOK'
  BY <1>2, <1>3, <1>7 DEF IInv, SchedOK
<1>15. UniqueIds'
  <2>1. ASSUME NEW p \in net, p.to = Peer(e), p.msg \in Messages
        PROVE  p.id # sent[e]
    <3>1. NetOK
      BY DEF IInv
    <3>2. p.id < sent[Peer(p.to)] /\ Peer(p.to) = e
      BY Zenon, <1>2, <2>1, <3>1 DEF NetOK
    <3> QED
      BY <1>2, <3>2
  <2> QED
    BY <1>3, <2>1 DEF IInv, UniqueIds
<1> QED
  BY <1>5, <1>9, <1>10, <1>11, <1>12, <1>13, <1>14, <1>15

(* hello() preserves the invariant.  It does not run while a StopCCN is    *)
(* waiting, and its message does not acknowledge a StopCCN of the peer.    *)
LEMMA HelloStep ==
  ASSUME IInv, NoWrap, NEW e \in Ends, Hello(e)
  PROVE  IInv'
<1> DEFINE h == Header(e, "Hello", Received(e))
           nb == [pkt |-> h, retries |-> 1]
<1>1. /\ alive[e] /\ needclose[e] = closing[e] /\ hello[e] /\ sent[e] < MaxSent
      /\ UNCHANGED <<rr, cLr, hello, needclose, closing, closeSs, alive, got>>
      /\ FirstXmit(e, "Hello", sched[e])
  BY DEF Hello, Ready
<1>2. /\ sent[e] \in Nat /\ MaxSent \in Nat /\ Received(e) \in Nat
      /\ Received(e) < SeqMod /\ "Hello" \in Messages /\ "Hello" # "StopCCN"
      /\ Peer(e) \in Ends /\ Peer(Peer(e)) = e /\ Peer(e) # e
      /\ \A f \in Ends : f = e \/ f = Peer(e)
  BY EndFacts, ConstantsAssumption, PeerFacts DEF Messages
<1>3. /\ h.to = Peer(e) /\ h.msg = "Hello" /\ h.id = sent[e] /\ h.nr = Received(e)
  BY <1>2, HeaderFacts
<1>4. /\ sched' = [sched EXCEPT ![e] = sched[e] \cup {nb}]
      /\ net' = net \cup {h}
      /\ ss' = [ss EXCEPT ![e] = sent[e] + 1]
      /\ sent' = [sent EXCEPT ![e] = sent[e] + 1]
  BY <1>1, <1>2, FirstXmitEffect
<1>5. /\ TypeOK' /\ Numbering' /\ InOrderDelivery' /\ AckSound'
      /\ NetOK' /\ SchedOK' /\ UniqueIds'
      /\ \A f \in Ends : Received(f)' = Received(f)
  <2>1. /\ alive' \in [Ends -> BOOLEAN] /\ hello' \in [Ends -> BOOLEAN]
        /\ needclose' \in [Ends -> BOOLEAN] /\ closing' \in [Ends -> BOOLEAN]
        /\ closeSs' \in [Ends -> SeqNums] /\ closing' = closing
    BY <1>1 DEF IInv, TypeOK
  <2>2. sched' = [sched EXCEPT ![e] = sched'[e]] /\ sched'[e] = sched[e] \cup {nb}
    BY <1>4 DEF IInv, TypeOK
  <2>3. Sends(e, "Hello")
    BY <1>1, <1>2, <1>4, <2>1, <2>2 DEF Sends
  <2> QED
    BY <1>2, <2>3, SendCommon
<1>7. /\ sent'[e] = sent[e] + 1 /\ sent'[Peer(e)] = sent[Peer(e)]
      /\ sched'[e] = sched[e] \cup {nb} /\ sched'[Peer(e)] = sched[Peer(e)]
  BY Zenon, <1>2, <1>4 DEF IInv, TypeOK
<1>8. ~(needclose[e] /\ closing[e])
  BY <1>1 DEF IInv, StopPending
<1>16. NoSilentDrop'
  <2> SUFFICES ASSUME NEW f \in Ends, alive[f], ~closing[f],
                      NEW i \in Start[f] .. sent'[f] - 1
               PROVE  i < Received(Peer(f)) \/ \E b \in sched'[f] : b.pkt.id = i
    BY <1>1, <1>5, PeerFacts DEF NoSilentDrop
  <2>1. CASE i < sent[f]
    <3>1. i \in Start[f] .. sent[f] - 1
      BY <2>1, EndFacts
    <3>2. i < Received(Peer(f)) \/ \E b \in sched[f] : b.pkt.id = i
      BY <3>1 DEF IInv, NoSilentDrop
    <3> QED
      BY Zenon, <1>2, <1>7, <3>2
  <2>2. CASE ~(i < sent[f])
    <3>1. f = e /\ i = sent[e]
      BY <1>2, <1>7, <2>2, EndFacts
    <3>2. nb.pkt.id = i /\ nb \in sched'[e]
      BY Zenon, <1>3, <1>7, <3>1
    <3> QED
      BY <3>1, <3>2
  <2> QED
    BY <2>1, <2>2
<1>17. StopPending'
  BY SMTT(30), <1>1, <1>2, <1>7, <1>8 DEF IInv, StopPending
<1>18. StopUnanswered'
  <2> SUFFICES ASSUME NEW f \in Ends, alive[f], needclose[f], closing[f]
               PROVE  /\ cLr[f] <= closeSs[f]
                      /\ \A p \in net' : p.to = f /\ p.msg = "Hello" => p.nr <= closeSs[f]
    BY <1>1 DEF StopUnanswered
  <2>1. f = Peer(e)
    BY <1>2, <1>8
  <2>2. PICK b \in sched[f] : b.pkt.msg = "StopCCN" /\ b.pkt.ns = closeSs[f]
    BY DEF IInv, StopPending
  <2>3. b.pkt \in net /\ b.pkt.to = e /\ b.pkt.id = closeSs[f]
    BY <1>2, <2>1, <2>2 DEF IInv, SchedOK, NetOK
  <2>4. ~(closeSs[f] < Received(e))
    BY <1>1, <1>8, <2>2, <2>3 DEF IInv, StopObeyed
  <2>5. Received(e) <= closeSs[f]
    BY <1>2, <2>4, EndFacts
  <2> QED
    BY Zenon, <1>3, <1>4, <2>1, <2>5 DEF IInv, StopUnanswered
<1>19. OneStopCCN'
  BY Zenon, <1>3, <1>4 DEF IInv, OneStopCCN
<1>20. StopObeyed'
  <2>1. \A p \in net' : p.to \in Ends
    BY Zenon, <1>5 DEF TypeOK, Packets
  <2> QED
    BY Zenon, <1>1, <1>3, <1>4, <1>5, <2>1 DEF IInv, StopObeyed
<1> QED
  BY Zenon, <1>5, <1>16, <1>17, <1>18, <1>19, <1>20 DEF IInv

(* control_xmit tosses an acknowledged buffer: the message was processed,  *)
(* and it is not the StopCCN of a tunnel that still waits.                 *)
LEMMA TossStep ==
  ASSUME IInv, NoWrap, NEW e \in Ends, NEW b \in sched[e], Toss(e, b)
  PROVE  IInv'
<1>0. \A f \in Ends :
        /\ sent[f] \in Nat /\ Received(f) \in Nat /\ Start[f] \in Nat
        /\ cLr[f] \in Nat /\ closeSs[f] \in Nat
        /\ ss[f] = sent[f] /\ rr[f] = Received(f) /\ sent[f] < SeqMod
        /\ cLr[f] <= Received(Peer(f)) /\ Received(f) <= sent[Peer(f)]
        /\ Received(f) < SeqMod
  BY Zenon, EndFacts
<1> USE DEF IInv
<1>1. /\ b.pkt.ns < cLr[e] /\ sched' = [sched EXCEPT ![e] = sched[e] \ {b}]
      /\ ss' = ss /\ rr' = rr /\ cLr' = cLr /\ hello' = hello
      /\ needclose' = needclose /\ closing' = closing /\ closeSs' = closeSs
      /\ alive' = alive /\ net' = net /\ sent' = sent /\ got' = got
  BY DEF Toss, Acked
<1>2. /\ b.pkt \in net /\ b.pkt.id = b.pkt.ns /\ b.pkt.ns \in Nat /\ sched \in [Ends -> SUBSET Buffers]
  BY DEF SchedOK, NetOK, TypeOK, Packets, SeqNums
<1>3. \A f \in Ends : Received(f)' = Received(f)
  BY <1>1 DEF Received
<1>4. \A f \in Ends : sched'[f] = IF f = e THEN sched[e] \ {b} ELSE sched[f]
  BY <1>1, <1>2
<1>5. b.pkt.id < Received(Peer(e))
  <2>1. Peer(e) \in Ends
    BY PeerFacts
  <2>2. cLr[e] \in Nat /\ Received(Peer(e)) \in Nat /\ cLr[e] <= Received(Peer(e))
    BY <1>0, <2>1
  <2> QED
    BY <1>1, <1>2, <2>2
<1>6. TypeOK'
  BY Zenon, <1>1, <1>2 DEF TypeOK
<1>7. Numbering'
  BY Zenon, <1>1, <1>3, PeerFacts DEF Numbering
<1>8. InOrderDelivery' /\ UniqueIds' /\ StopUnanswered' /\ OneStopCCN'
  BY Zenon, <1>1 DEF InOrderDelivery, UniqueIds, StopUnanswered, OneStopCCN
<1>9. AckSound'
  BY <1>1, <1>3, PeerFacts DEF AckSound
<1>10. NetOK' /\ StopObeyed'
  <2>1. \A p \in net : p.to \in Ends /\ Peer(p.to) \in Ends
    BY PeerFacts DEF TypeOK, Packets
  <2> QED
    BY <1>1, <1>3, <2>1 DEF NetOK, StopObeyed
<1>11. SchedOK'
  BY <1>1, <1>4 DEF SchedOK
<1>12. NoSilentDrop'
  <2> SUFFICES ASSUME NEW f \in Ends, alive[f], ~closing[f],
                      NEW i \in Start[f] .. sent[f] - 1
               PROVE  i < Received(Peer(f)) \/ \E c \in sched'[f] : c.pkt.id = i
    BY <1>1, <1>3, PeerFacts DEF NoSilentDrop
  <2>1. i < Received(Peer(f)) \/ \E c \in sched[f] : c.pkt.id = i
    BY DEF NoSilentDrop
  <2> QED
    BY Zenon, <1>4, <1>5, <2>1
<1>13. StopPending'
  <2>1. ~(needclose[e] /\ closing[e])
    <3> SUFFICES ASSUME needclose[e], closing[e] PROVE FALSE
      OBVIOUS
    <3>1. alive[e]
      BY DEF Toss, Ready
    <3>2. b.pkt.ns = closeSs[e] /\ cLr[e] <= closeSs[e]
      BY <3>1 DEF StopPending, StopUnanswered
    <3> QED
      BY <1>1, <3>2, <1>0
  <2> QED
    BY <1>1, <1>4, <2>1 DEF StopPending
<1> QED
  BY Zenon, <1>6, <1>7, <1>8, <1>9, <1>10, <1>11, <1>12, <1>13

(* control_xmit sends a buffer again: the network already holds its packet *)
(* and the schedule keeps it.                                              *)
LEMMA RetransmitStep ==
  ASSUME IInv, NoWrap, NEW e \in Ends, NEW b \in sched[e], Retransmit(e, b)
  PROVE  IInv'
<1> USE DEF IInv
<1> DEFINE nb == [b EXCEPT !.retries = b.retries + 1]
<1>1. /\ b.retries + 1 <= MaxRetries
      /\ sched' = [sched EXCEPT ![e] = (sched[e] \ {b}) \cup {nb}]
      /\ net' = net \cup {b.pkt}
      /\ ss' = ss /\ rr' = rr /\ cLr' = cLr /\ hello' = hello
      /\ needclose' = needclose /\ closing' = closing /\ closeSs' = closeSs
      /\ alive' = alive /\ sent' = sent /\ got' = got
  BY DEF Retransmit
<1>2. b \in Buffers /\ b.pkt \in net /\ sched \in [Ends -> SUBSET Buffers]
  BY DEF SchedOK, TypeOK
<1>3. nb \in Buffers /\ nb.pkt = b.pkt
  BY <1>1, <1>2, ConstantsAssumption DEF Buffers
<1>4. net' = net
  BY <1>1, <1>2
<1>5. \A f \in Ends : Received(f)' = Received(f)
  BY <1>1 DEF Received
<1>6. \A f \in Ends : sched'[f] = IF f = e THEN (sched[e] \ {b}) \cup {nb} ELSE sched[f]
  BY Zenon, <1>1, <1>2
<1> HIDE DEF nb
<1>7. TypeOK'
  BY Zenon, <1>1, <1>2, <1>3, <1>4 DEF TypeOK
<1>8. Numbering'
  BY Zenon, <1>1, <1>5, PeerFacts DEF Numbering
<1>9. InOrderDelivery' /\ UniqueIds' /\ StopUnanswered' /\ OneStopCCN'
  BY <1>1, <1>4 DEF InOrderDelivery, UniqueIds, StopUnanswered, OneStopCCN
<1>10. AckSound'
  BY <1>1, <1>5, PeerFacts DEF AckSound
<1>11. NetOK' /\ StopObeyed'
  <2>1. \A p \in net : p.to \in Ends /\ Peer(p.to) \in Ends
    BY PeerFacts DEF TypeOK, Packets
  <2> QED
    BY <1>1, <1>4, <1>5, <2>1 DEF NetOK, StopObeyed
<1>12. SchedOK'
  BY <1>3, <1>4, <1>6 DEF SchedOK
<1>13. NoSilentDrop'
  <2> SUFFICES ASSUME NEW f \in Ends, alive[f], ~closing[f],
                      NEW i \in Start[f] .. sent[f] - 1
               PROVE  i < Received(Peer(f)) \/ \E c \in sched'[f] : c.pkt.id = i
    <3>1. \A f \in Ends : Received(Peer(f))' = Received(Peer(f))
      BY Zenon, <1>5, PeerFacts
    <3> QED
      BY <1>1, <3>1 DEF NoSilentDrop
  <2>1. i < Received(Peer(f)) \/ \E c \in sched[f] : c.pkt.id = i
    BY Zenon DEF NoSilentDrop
  <2> QED
    BY Zenon, <1>3, <1>6, <2>1
<1>14. StopPending'
  <2> SUFFICES ASSUME NEW f \in Ends, alive[f], needclose[f], closing[f]
               PROVE  /\ ~hello[f]
                      /\ \E c \in sched'[f] :
                           sched'[f] = {c} /\ c.pkt.msg = "StopCCN" /\ c.pkt.ns = closeSs[f]
    BY Zenon, <1>1 DEF StopPending
  <2>1. ~hello[f]
    BY Zenon DEF StopPending
  <2>2. PICK c \in sched[f] :
          sched[f] = {c} /\ c.pkt.msg = "StopCCN" /\ c.pkt.ns = closeSs[f]
    BY Zenon DEF StopPending
  <2>3. CASE f # e
    BY Zenon, <1>6, <2>1, <2>2, <2>3
  <2>4. CASE f = e
    <3>1. c = b /\ sched'[f] = {nb}
      BY Zenon, <1>6, <2>2, <2>4
    <3> QED
      BY Zenon, <1>3, <2>1, <2>2, <3>1
  <2> QED
    BY <2>3, <2>4
<1> QED
  BY <1>7, <1>8, <1>9, <1>10, <1>11, <1>12, <1>13, <1>14
-----------------------------------------------------------------------------
(* The steps that end in call_close.                                       *)

(* A step in which the tunnel of end e ceases to exist and nothing is      *)
(* sent.                                                                   *)
Vanishes(e) ==
  /\ alive' = [alive EXCEPT ![e] = FALSE]
  /\ sched' = [sched EXCEPT ![e] = {}]
  /\ hello' = [hello EXCEPT ![e] = FALSE]
  /\ needclose' \in [Ends -> BOOLEAN]
  /\ \A f \in Ends : f # e => needclose'[f] = needclose[f]
  /\ UNCHANGED <<ss, rr, cLr, closing, closeSs, net, sent, got>>

(* destroy_tunnel, or the daemon's end, preserves the invariant.           *)
LEMMA VanishStep ==
  ASSUME IInv, NoWrap, NEW e \in Ends, Vanishes(e)
  PROVE  IInv'
<1> USE DEF IInv
<1>1. /\ ss' = ss /\ rr' = rr /\ cLr' = cLr /\ closing' = closing
      /\ closeSs' = closeSs /\ net' = net /\ sent' = sent /\ got' = got
      /\ alive' = [alive EXCEPT ![e] = FALSE]
      /\ sched' = [sched EXCEPT ![e] = {}]
      /\ hello' = [hello EXCEPT ![e] = FALSE]
      /\ needclose' \in [Ends -> BOOLEAN]
      /\ \A f \in Ends : f # e => needclose'[f] = needclose[f]
  BY DEF Vanishes
<1>2. \A f \in Ends :
        /\ alive'[f] => f # e /\ alive[f]
        /\ f # e => hello'[f] = hello[f] /\ sched'[f] = sched[f]
        /\ sched'[f] \subseteq sched[f]
  BY Zenon, <1>1 DEF TypeOK
<1>3. \A f \in Ends : Received(f)' = Received(f)
  BY <1>1 DEF Received
<1>4. \A p \in net : p.to \in Ends /\ Peer(p.to) \in Ends
  BY PeerFacts DEF TypeOK, Packets
<1>5. TypeOK'
  <2>1. /\ alive' \in [Ends -> BOOLEAN] /\ hello' \in [Ends -> BOOLEAN]
        /\ sched' \in [Ends -> SUBSET Buffers]
    BY Zenon, <1>1 DEF TypeOK
  <2> QED
    BY <1>1, <2>1 DEF TypeOK
<1>6. Numbering'
  BY Zenon, <1>1, <1>3, PeerFacts DEF Numbering
<1>7. InOrderDelivery' /\ UniqueIds' /\ OneStopCCN'
  BY <1>1 DEF InOrderDelivery, UniqueIds, OneStopCCN
<1>8. AckSound'
  BY Zenon, <1>1, <1>3, PeerFacts DEF AckSound
<1>9. NetOK'
  BY <1>1, <1>3, <1>4 DEF NetOK
<1>10. SchedOK'
  BY <1>1, <1>2 DEF SchedOK
<1>11. NoSilentDrop'
  <2>1. ASSUME NEW f \in Ends, alive'[f], ~closing'[f],
               NEW i \in Start[f] .. sent'[f] - 1
        PROVE  i < Received(Peer(f))' \/ \E b \in sched'[f] : b.pkt.id = i
    <3>1. /\ alive[f] /\ ~closing[f] /\ i \in Start[f] .. sent[f] - 1
          /\ sched'[f] = sched[f]
      BY Zenon, <1>1, <1>2, <2>1
    <3>2. Received(Peer(f))' = Received(Peer(f))
      BY <1>3, PeerFacts
    <3>3. i < Received(Peer(f)) \/ \E b \in sched[f] : b.pkt.id = i
      BY Zenon, <3>1 DEF NoSilentDrop
    <3> QED
      BY Zenon, <3>1, <3>2, <3>3
  <2> QED
    BY Zenon, <2>1 DEF NoSilentDrop
<1>12. StopPending'
  <2> SUFFICES ASSUME NEW f \in Ends, alive'[f], needclose'[f], closing[f]
               PROVE  /\ ~hello'[f]
                      /\ \E b \in sched'[f] :
                           sched'[f] = {b} /\ b.pkt.msg = "StopCCN" /\ b.pkt.ns = closeSs[f]
    BY <1>1 DEF StopPending
  <2>1. f # e /\ alive[f] /\ needclose[f] /\ hello'[f] = hello[f] /\ sched'[f] = sched[f]
    BY Zenon, <1>1, <1>2
  <2> QED
    BY Zenon, <2>1 DEF StopPending
<1>13. StopUnanswered'
  BY Zenon, <1>1, <1>2 DEF StopUnanswered
<1>14. StopObeyed'
  <2> SUFFICES ASSUME NEW p \in net, p.msg = "StopCCN", p.id < Received(p.to),
                      alive'[p.to]
               PROVE  closing[p.to] /\ ~needclose'[p.to]
    BY <1>1, <1>3, <1>4 DEF StopObeyed
  <2> QED
    BY Zenon, <1>1, <1>2, <1>4 DEF StopObeyed
<1> QED
  BY <1>5, <1>6, <1>7, <1>8, <1>9, <1>10, <1>11, <1>12, <1>13, <1>14

(* A step in which end e, not yet closing, sends its StopCCN, and stays to *)
(* wait for the answer or does not.                                        *)
SendsStop(e) ==
  LET nb == [pkt |-> Header(e, "StopCCN", Received(e)), retries |-> 1] IN
  /\ alive[e] /\ ~closing[e]
  /\ Sends(e, "StopCCN")
  /\ closing' = [closing EXCEPT ![e] = TRUE]
  /\ closeSs' = [closeSs EXCEPT ![e] = sent[e]]
  /\ hello' = [hello EXCEPT ![e] = FALSE]
  /\ \A f \in Ends : f # e => needclose'[f] = needclose[f] /\ alive'[f] = alive[f]
  /\ alive'[e] => needclose'[e] /\ sched'[e] = {nb}

(* Sending the StopCCN preserves the invariant: it is the only one, it is  *)
(* the only buffer left, and it carries a number the peer cannot have      *)
(* acknowledged.                                                           *)
LEMMA StopStep ==
  ASSUME IInv, NoWrap, NEW e \in Ends, SendsStop(e)
  PROVE  IInv'
<1> DEFINE h == Header(e, "StopCCN", Received(e))
           nb == [pkt |-> h, retries |-> 1]
<1>1. /\ alive[e] /\ ~closing[e] /\ Sends(e, "StopCCN")
      /\ closing' = [closing EXCEPT ![e] = TRUE]
      /\ closeSs' = [closeSs EXCEPT ![e] = sent[e]]
      /\ hello' = [hello EXCEPT ![e] = FALSE]
      /\ \A f \in Ends : f # e => needclose'[f] = needclose[f] /\ alive'[f] = alive[f]
      /\ alive'[e] => needclose'[e] /\ sched'[e] = {nb}
  BY DEF SendsStop
<1>2. /\ sent[e] \in Nat /\ Received(e) \in Nat /\ Received(e) < SeqMod
      /\ "StopCCN" \in Messages /\ "StopCCN" # "Hello"
      /\ Peer(e) \in Ends /\ Peer(Peer(e)) = e /\ Peer(e) # e
      /\ \A f \in Ends : f = e \/ f = Peer(e)
  BY EndFacts, PeerFacts DEF Messages
<1>3. /\ h.to = Peer(e) /\ h.msg = "StopCCN" /\ h.id = sent[e] /\ h.ns = sent[e]
  BY <1>2, HeaderFacts
<1>4. /\ TypeOK' /\ Numbering' /\ InOrderDelivery' /\ AckSound'
      /\ NetOK' /\ SchedOK' /\ UniqueIds'
      /\ \A f \in Ends : Received(f)' = Received(f)
  BY Zenon, <1>1, <1>2, SendCommon
<1>5. /\ net' = net \cup {h} /\ cLr' = cLr
      /\ \A f \in Ends : f # e => sent'[f] = sent[f] /\ sched'[f] = sched[f]
  <2>1. sent \in [Ends -> Nat] /\ sched \in [Ends -> SUBSET Buffers]
    BY Zenon DEF IInv, TypeOK
  <2> QED
    BY <1>1, <2>1 DEF Sends
<1>6. /\ closing'[e] /\ closeSs'[e] = sent[e] /\ ~hello'[e]
      /\ \A f \in Ends : f # e =>
           closing'[f] = closing[f] /\ closeSs'[f] = closeSs[f] /\ hello'[f] = hello[f]
  BY <1>1 DEF IInv, TypeOK
<1>7. \A p \in net : p.to \in Ends /\ p.nr \in Nat
  BY Zenon, PacketFacts
<1> HIDE DEF h
<1>8. NoSilentDrop'
  <2> SUFFICES ASSUME NEW f \in Ends, alive'[f], ~closing'[f],
                      NEW i \in Start[f] .. sent'[f] - 1
               PROVE  i < Received(Peer(f)) \/ \E b \in sched'[f] : b.pkt.id = i
    <3>1. \A f \in Ends : Received(Peer(f))' = Received(Peer(f))
      BY Zenon, <1>4, PeerFacts
    <3> QED
      BY Zenon, <3>1 DEF NoSilentDrop
  <2>1. f # e
    BY <1>6
  <2>2. alive[f] /\ ~closing[f] /\ sent'[f] = sent[f] /\ sched'[f] = sched[f]
    BY Zenon, <1>1, <1>5, <1>6, <2>1
  <2>3. NoSilentDrop
    BY Zenon DEF IInv
  <2> QED
    BY Zenon, <2>2, <2>3 DEF NoSilentDrop
<1>9. StopPending'
  <2> SUFFICES ASSUME NEW f \in Ends, alive'[f], needclose'[f], closing'[f]
               PROVE  /\ ~hello'[f]
                      /\ \E b \in sched'[f] :
                           sched'[f] = {b} /\ b.pkt.msg = "StopCCN" /\ b.pkt.ns = closeSs'[f]
    BY DEF StopPending
  <2>1. CASE f = e
    <3>1. sched'[e] = {nb} /\ nb.pkt = h
      BY <1>1, <2>1 DEF h
    <3>2. nb \in sched'[f] /\ sched'[f] = {nb}
      BY Zenon, <2>1, <3>1
    <3>3. nb.pkt.msg = "StopCCN" /\ nb.pkt.ns = closeSs'[f] /\ ~hello'[f]
      BY Zenon, <1>3, <1>6, <2>1, <3>1
    <3> HIDE DEF nb
    <3> QED
      BY Zenon, <3>2, <3>3
  <2>2. CASE f # e
    <3>1. /\ alive[f] /\ needclose[f] /\ closing[f] /\ hello'[f] = hello[f]
          /\ sched'[f] = sched[f] /\ closeSs'[f] = closeSs[f]
      BY Zenon, <1>1, <1>5, <1>6, <2>2
    <3>2. StopPending
      BY DEF IInv
    <3> QED
      BY Zenon, <3>1, <3>2 DEF StopPending
  <2> QED
    BY Zenon, <2>1, <2>2
<1>10. StopUnanswered'
  <2> SUFFICES ASSUME NEW f \in Ends, alive'[f], needclose'[f], closing'[f]
               PROVE  /\ cLr[f] <= closeSs'[f]
                      /\ \A p \in net : p.to = f /\ p.msg = "Hello" => p.nr <= closeSs'[f]
    BY Zenon, <1>2, <1>3, <1>5 DEF StopUnanswered
  <2>1. CASE f = e
    <3>1. cLr[e] <= sent[e]
      BY EndFacts
    <3>2. \A p \in net : p.to = e => p.nr <= Received(Peer(e))
      BY Zenon DEF IInv, NetOK
    <3>3. Received(Peer(e)) \in Nat /\ sent[e] \in Nat /\ Received(Peer(e)) <= sent[e]
      BY Zenon, EndFacts
    <3>4. \A p \in net : p.to = e => p.nr <= sent[e]
      BY Zenon, <1>7, <3>2, <3>3, LeqTrans
    <3> QED
      BY Zenon, <1>6, <2>1, <3>1, <3>4
  <2>2. CASE f # e
    BY <1>1, <1>6, <2>2 DEF IInv, StopUnanswered
  <2> QED
    BY <2>1, <2>2
<1>11. OneStopCCN'
  <2>1. ASSUME NEW p \in net, p.msg = "StopCCN"
        PROVE  p.to # Peer(e)
    <3>1. closing[Peer(p.to)]
      BY Zenon, <2>1 DEF IInv, NetOK
    <3> QED
      BY Zenon, <3>1, <1>1, <1>2
  <2>2. ASSUME NEW p \in net, NEW q \in net,
               p.msg = "StopCCN", q.msg = "StopCCN", p.to = q.to
        PROVE  p = q
    BY Zenon, <2>2 DEF IInv, OneStopCCN
  <2> SUFFICES ASSUME NEW p \in net \cup {h}, NEW q \in net \cup {h},
                      p.msg = "StopCCN", q.msg = "StopCCN", p.to = q.to
               PROVE  p = q
    BY Zenon, <1>5 DEF OneStopCCN
  <2>3. p \in net => q \in net
    BY Zenon, <1>3, <2>1
  <2>4. q \in net => p \in net
    BY Zenon, <1>3, <2>1
  <2> QED
    BY Zenon, <2>2, <2>3, <2>4
<1>12. StopObeyed'
  <2>1. ~(h.id < Received(h.to))
    <3>1. Received(Peer(e)) \in Nat /\ Received(Peer(e)) <= sent[e]
      BY Zenon, EndFacts
    <3> QED
      BY <1>2, <1>3, <3>1
  <2>2. \A p \in net : p.msg = "StopCCN" /\ p.id < Received(p.to) => p.to # e
    BY Zenon, <1>1 DEF IInv, StopObeyed
  <2> SUFFICES ASSUME NEW p \in net, p.msg = "StopCCN", p.id < Received(p.to),
                      alive'[p.to]
               PROVE  closing'[p.to] /\ ~needclose'[p.to]
    <3>1. h.to \in Ends
      BY <1>2, <1>3
    <3> QED
      BY <1>4, <1>5, <1>7, <2>1, <3>1 DEF StopObeyed
  <2>3. p.to \in Ends /\ p.to # e
    BY Zenon, <1>7, <2>2
  <2>4. /\ closing'[p.to] = closing[p.to] /\ needclose'[p.to] = needclose[p.to]
        /\ alive[p.to]
    BY <1>1, <1>6, <2>3
  <2> QED
    BY Zenon, <2>3, <2>4 DEF IInv, StopObeyed
<1> QED
  BY Zenon, <1>4, <1>8, <1>9, <1>10, <1>11, <1>12 DEF IInv

-----------------------------------------------------------------------------
(* call_close preserves the invariant, when the tunnel that begins to      *)
(* close also has needclose set.                                           *)
LEMMA CloseStep ==
  ASSUME IInv, NoWrap, NEW e \in Ends, alive[e], CallClose(e),
         UNCHANGED <<rr, cLr, got>>,
         needclose' \in [Ends -> BOOLEAN],
         \A f \in Ends : f # e => needclose'[f] = needclose[f],
         ~closing[e] => needclose'[e]
  PROVE  IInv'
<1>1. CASE closing[e]
  BY Zenon, <1>1, VanishStep DEF CallClose, DestroyTunnel, Vanishes
<1>2. CASE ~closing[e]
  <2> DEFINE nb == [pkt |-> Header(e, "StopCCN", Received(e)), retries |-> 1]
  <2>1. /\ closeSs' = [closeSs EXCEPT ![e] = ss[e]] /\ FirstXmit(e, "StopCCN", {})
        /\ hello' = [hello EXCEPT ![e] = FALSE]
        /\ closing' = [closing EXCEPT ![e] = TRUE] /\ alive' = alive
    BY Zenon, <1>2 DEF CallClose
  <2>2. /\ sent[e] <= MaxSent /\ ss[e] = sent[e] /\ "StopCCN" \in Messages
        /\ sent[e] \in SeqNums
    BY Zenon, <1>2, EndFacts DEF IInv, Numbering, Messages, TypeOK
  <2>3. /\ sched' = [sched EXCEPT ![e] = {nb}]
        /\ net' = net \cup {Header(e, "StopCCN", Received(e))}
        /\ ss' = [ss EXCEPT ![e] = sent[e] + 1]
        /\ sent' = [sent EXCEPT ![e] = sent[e] + 1]
    <3>1. /\ sched' = [sched EXCEPT ![e] = {} \cup {nb}]
          /\ net' = net \cup {Header(e, "StopCCN", Received(e))}
          /\ ss' = [ss EXCEPT ![e] = sent[e] + 1]
          /\ sent' = [sent EXCEPT ![e] = sent[e] + 1]
      BY Zenon, <2>1, <2>2, FirstXmitEffect
    <3>2. {} \cup {nb} = {nb}
      OBVIOUS
    <3> QED
      BY Zenon, <3>1, <3>2
  <2>4. /\ alive' \in [Ends -> BOOLEAN] /\ hello' \in [Ends -> BOOLEAN]
        /\ closing' \in [Ends -> BOOLEAN] /\ closeSs' \in [Ends -> SeqNums]
        /\ closing'[e] /\ \A f \in Ends : closing[f] => closing'[f]
        /\ sched'[e] = {nb}
    BY <2>1, <2>2, <2>3 DEF IInv, TypeOK
  <2>5. sched' = [sched EXCEPT ![e] = sched'[e]]
    BY Zenon, <2>3, <2>4
  <2>6. Sends(e, "StopCCN")
    BY Zenon, <2>2, <2>3, <2>4, <2>5 DEF Sends
  <2>7. SendsStop(e)
    BY Zenon, <1>2, <2>1, <2>2, <2>4, <2>6 DEF SendsStop
  <2> QED
    BY Zenon, <2>7, StopStep
<1> QED
  BY Zenon, <1>1, <1>2

(* control_xmit gives up on a buffer.                                      *)
LEMMA GiveUpStep ==
  ASSUME IInv, NoWrap, NEW e \in Ends, NEW b \in sched[e], GiveUp(e, b)
  PROVE  IInv'
<1>1. /\ alive[e] /\ needclose[e] = closing[e]
      /\ needclose' = [needclose EXCEPT ![e] = ~needclose[e]]
      /\ UNCHANGED <<rr, cLr, got>>
  BY Zenon DEF GiveUp, Ready
<1>2. /\ needclose' \in [Ends -> BOOLEAN] /\ needclose'[e] = ~needclose[e]
      /\ \A f \in Ends : f # e => needclose'[f] = needclose[f]
  BY <1>1 DEF IInv, TypeOK
<1>3. CASE needclose[e]
  <2>1. DestroyTunnel(e)
    BY <1>3 DEF GiveUp
  <2> QED
    BY Zenon, <1>1, <1>2, <2>1, VanishStep DEF DestroyTunnel, Vanishes
<1>4. CASE ~needclose[e]
  <2>1. CallClose(e)
    BY <1>4 DEF GiveUp
  <2> QED
    BY Zenon, <1>1, <1>2, <1>4, <2>1, CloseStep
<1> QED
  BY Zenon, <1>3, <1>4

(* The closing pass of build_fdset.                                        *)
LEMMA BuildFdsetStep ==
  ASSUME IInv, NoWrap, NEW e \in Ends, BuildFdset(e)
  PROVE  IInv'
<1>1. /\ alive[e] /\ needclose[e] # closing[e] /\ CallClose(e)
      /\ needclose' = needclose /\ UNCHANGED <<rr, cLr, got>>
  BY DEF BuildFdset
<1>2. needclose' \in [Ends -> BOOLEAN] /\ (~closing[e] => needclose'[e])
  BY <1>1 DEF IInv, TypeOK
<1> QED
  BY Zenon, <1>1, <1>2, CloseStep

(* The disconnect command.                                                 *)
LEMMA DisconnectStep ==
  ASSUME IInv, NoWrap, NEW e \in Ends, Disconnect(e)
  PROVE  IInv'
<1>1. /\ alive[e] /\ CallClose(e) /\ UNCHANGED <<rr, cLr, got>>
      /\ needclose' = [needclose EXCEPT ![e] = TRUE]
  BY DEF Disconnect, Ready
<1>2. /\ needclose' \in [Ends -> BOOLEAN] /\ needclose'[e]
      /\ \A f \in Ends : f # e => needclose'[f] = needclose[f]
  BY Zenon, <1>1 DEF IInv, TypeOK
<1> QED
  BY Zenon, <1>1, <1>2, CloseStep

(* The death of a daemon, with or without a StopCCN.                       *)
LEMMA DieStep ==
  ASSUME IInv, NoWrap, NEW e \in Ends, Die(e)
  PROVE  IInv'
<1>1. /\ alive[e]
      /\ alive' = [alive EXCEPT ![e] = FALSE]
      /\ sched' = [sched EXCEPT ![e] = {}]
      /\ hello' = [hello EXCEPT ![e] = FALSE]
      /\ needclose' = needclose /\ UNCHANGED <<rr, cLr, got>>
  BY DEF Die
<1>2. /\ needclose' \in [Ends -> BOOLEAN]
      /\ \A f \in Ends : f # e => needclose'[f] = needclose[f] /\ alive'[f] = alive[f]
  BY <1>1 DEF IInv, TypeOK
<1>3. CASE UNCHANGED <<ss, closeSs, closing, net, sent>>
  BY Zenon, <1>1, <1>2, <1>3, VanishStep DEF Vanishes
<1>4. CASE /\ ~closing[e]
           /\ closeSs' = [closeSs EXCEPT ![e] = ss[e]]
           /\ closing' = [closing EXCEPT ![e] = TRUE]
           /\ net' = net \cup {Header(e, "StopCCN", rr[e])}
           /\ ss' = [ss EXCEPT ![e] = (ss[e] + 1) % SeqMod]
           /\ sent' = [sent EXCEPT ![e] = sent[e] + 1]
  <2>1. /\ sent[e] <= MaxSent /\ ss[e] = sent[e] /\ rr[e] = Received(e)
        /\ sent[e] \in SeqNums /\ sent[e] \in Nat
    <3>1. Numbering /\ TypeOK
      BY Zenon DEF IInv
    <3> QED
      BY <1>4, <3>1, EndFacts DEF Numbering, TypeOK
  <2>2. (ss[e] + 1) % SeqMod = sent[e] + 1
    BY Zenon, <2>1, NextNumber
  <2>3. /\ alive' \in [Ends -> BOOLEAN] /\ hello' \in [Ends -> BOOLEAN]
        /\ closing' \in [Ends -> BOOLEAN] /\ closeSs' \in [Ends -> SeqNums]
        /\ closing'[e] /\ \A f \in Ends : closing[f] => closing'[f]
        /\ sched'[e] = {} /\ ~alive'[e]
    BY <1>1, <1>4, <2>1 DEF IInv, TypeOK
  <2>4. sched' = [sched EXCEPT ![e] = sched'[e]]
    BY Zenon, <1>1, <2>3
  <2>5. Sends(e, "StopCCN")
    BY Zenon, <1>1, <1>2, <1>4, <2>1, <2>2, <2>3, <2>4 DEF Sends
  <2>6. SendsStop(e)
    BY Zenon, <1>1, <1>2, <1>4, <2>1, <2>3, <2>5 DEF SendsStop
  <2> QED
    BY Zenon, <2>6, StopStep
<1> QED
  BY Zenon, <1>3, <1>4 DEF Die

(* What is known of the ZLB an end sends when it has processed r messages. *)
ZlbOf(z, e, r) ==
  /\ z \in Packets /\ z.to = Peer(e) /\ z.ns = sent[e] /\ z.id = sent[e]
  /\ z.nr = r /\ z.msg \notin Messages /\ z.msg # "StopCCN" /\ z.msg # "Hello"

(* control_zlb sends such a packet.                                        *)
LEMMA ZlbFacts ==
  ASSUME IInv, NoWrap, NEW e \in Ends, NEW r \in Nat, r < SeqMod
  PROVE  ZlbOf(ZlbPacket(e, r), e, r)
BY HeaderFacts DEF ZlbPacket, Messages, ZlbOf

(* check_control answers a message it already has with a ZLB: only the     *)
(* network changes.                                                        *)
LEMMA RecvDuplicateStep ==
  ASSUME IInv, NoWrap, NEW e \in Ends, NEW p \in net, RecvDuplicate(e, p)
  PROVE  IInv'
<1>0. \A f \in Ends :
        /\ sent[f] \in Nat /\ Received(f) \in Nat /\ Start[f] \in Nat
        /\ cLr[f] \in Nat /\ closeSs[f] \in Nat
        /\ ss[f] = sent[f] /\ rr[f] = Received(f) /\ sent[f] < SeqMod
        /\ cLr[f] <= Received(Peer(f)) /\ Received(f) <= sent[Peer(f)]
        /\ Received(f) < SeqMod
  BY Zenon, EndFacts
<1> USE DEF IInv
<1> DEFINE z == ZlbPacket(e, rr[e])
<1>1. /\ net' = net \cup {z}
      /\ ss' = ss /\ rr' = rr /\ cLr' = cLr /\ sched' = sched /\ hello' = hello
      /\ needclose' = needclose /\ closing' = closing /\ closeSs' = closeSs
      /\ alive' = alive /\ sent' = sent /\ got' = got
  BY Zenon DEF RecvDuplicate
<1>2. /\ z \in Packets /\ z.to = Peer(e) /\ z.ns = sent[e] /\ z.id = sent[e]
      /\ z.nr = Received(e) /\ z.msg \notin Messages
      /\ z.msg # "StopCCN" /\ z.msg # "Hello"
  <2>1. ZlbOf(ZlbPacket(e, Received(e)), e, Received(e))
    BY Zenon, <1>0, ZlbFacts
  <2>2. rr[e] = Received(e)
    BY Zenon, <1>0
  <2> QED
    BY Zenon, <2>1, <2>2 DEF ZlbOf
<1>3. /\ sent[e] \in Nat /\ Received(e) \in Nat
      /\ Peer(e) \in Ends /\ Peer(Peer(e)) = e
  BY <1>0, PeerFacts
<1> HIDE DEF z
<1>4. \A f \in Ends : Received(f)' = Received(f)
  BY Zenon, <1>1 DEF Received
<1>5. \A q \in net' : q.to \in Ends /\ Peer(q.to) \in Ends
  BY Zenon, <1>1, <1>2, <1>3, PacketFacts
<1>6. TypeOK'
  BY <1>1, <1>2 DEF TypeOK
<1>7. Numbering' /\ AckSound' /\ NoSilentDrop'
  <2>1. Numbering'
    BY Zenon, <1>1, <1>4, PeerFacts DEF Numbering
  <2>2. AckSound'
    BY <1>1, <1>4, PeerFacts DEF AckSound
  <2>3. NoSilentDrop'
    BY Zenon, <1>1, <1>4, SameDrop
  <2> QED
    BY Zenon, <2>1, <2>2, <2>3
<1>8. InOrderDelivery' /\ UniqueIds' /\ OneStopCCN' /\ StopPending' /\ StopUnanswered'
  BY Zenon, <1>1, <1>2 DEF InOrderDelivery, UniqueIds, OneStopCCN, StopPending, StopUnanswered
<1>9. NetOK'
  <2> SUFFICES ASSUME NEW q \in net'
               PROVE  /\ q.ns = q.id /\ q.nr <= Received(Peer(q.to))'
                      /\ q.id <= sent[Peer(q.to)]
                      /\ q.msg \in Messages => q.id < sent[Peer(q.to)]
                      /\ q.msg = "StopCCN" => closing[Peer(q.to)]
    BY Zenon, <1>1 DEF NetOK
  <2>1. CASE q = z
    BY Zenon, <1>2, <1>3, <1>4, <2>1, LeqRefl
  <2>2. CASE q \in net
    BY Zenon, <1>4, <1>5, <2>2 DEF NetOK
  <2> QED
    BY Zenon, <1>1, <2>1, <2>2
<1>10. SchedOK'
  BY Zenon, <1>1 DEF SchedOK
<1>11. StopObeyed'
  BY <1>1, <1>2, <1>4, <1>5 DEF StopObeyed
<1> QED
  BY Zenon, <1>6, <1>7, <1>8, <1>9, <1>10, <1>11

(* A ZLB in sequence: the new cLr is a number the peer has really reached, *)
(* and if it is past the StopCCN the wait is over.                         *)
LEMMA RecvZlbStep ==
  ASSUME IInv, NoWrap, NEW e \in Ends, NEW p \in net, RecvZlb(e, p)
  PROVE  IInv'
<1>0. \A f \in Ends :
        /\ sent[f] \in Nat /\ Received(f) \in Nat /\ Start[f] \in Nat
        /\ cLr[f] \in Nat /\ closeSs[f] \in Nat
        /\ ss[f] = sent[f] /\ rr[f] = Received(f) /\ sent[f] < SeqMod
        /\ cLr[f] <= Received(Peer(f)) /\ Received(f) <= sent[Peer(f)]
        /\ Received(f) < SeqMod
  BY Zenon, EndFacts
<1> USE DEF IInv
<1>1. /\ p.to = e /\ cLr' = [cLr EXCEPT ![e] = p.nr]
      /\ needclose' = [needclose EXCEPT ![e] =
                         needclose[e] /\ ~(closing[e] /\ p.nr >= closeSs[e])]
      /\ ss' = ss /\ rr' = rr /\ sched' = sched /\ hello' = hello
      /\ closing' = closing /\ closeSs' = closeSs
      /\ alive' = alive /\ net' = net /\ sent' = sent /\ got' = got
  BY Zenon DEF RecvZlb
<1>2. p.nr \in SeqNums /\ p.nr \in Nat /\ p.nr <= Received(Peer(e))
  BY Zenon, <1>1, PacketFacts
<1>3. /\ cLr'[e] = p.nr
      /\ needclose'[e] => needclose[e] /\ ~(closing[e] /\ p.nr >= closeSs[e])
      /\ \A f \in Ends : needclose'[f] => needclose[f]
      /\ \A f \in Ends : f # e => cLr'[f] = cLr[f]
  BY Zenon, <1>1 DEF TypeOK
<1>4. \A f \in Ends : Received(f)' = Received(f)
  BY <1>1 DEF Received
<1>5. \A q \in net : q.to \in Ends /\ Peer(q.to) \in Ends
  BY Zenon, PacketFacts
<1>6. TypeOK'
  <2>1. cLr' \in [Ends -> SeqNums] /\ needclose' \in [Ends -> BOOLEAN]
    BY <1>1, <1>2 DEF TypeOK
  <2> QED
    BY Zenon, <1>1, <2>1 DEF TypeOK
<1>7. Numbering' /\ NoSilentDrop'
  <2>1. Numbering'
    BY Zenon, <1>1, <1>4, PeerFacts DEF Numbering
  <2>2. NoSilentDrop'
    BY Zenon, <1>1, <1>4, SameDrop
  <2> QED
    BY Zenon, <2>1, <2>2
<1>8. AckSound'
  BY Zenon, <1>2, <1>3, <1>4, PeerFacts DEF AckSound
<1>9. InOrderDelivery' /\ UniqueIds' /\ OneStopCCN' /\ SchedOK'
  BY Zenon, <1>1 DEF InOrderDelivery, UniqueIds, OneStopCCN, SchedOK
<1>10. StopPending'
  BY Zenon, <1>1, <1>3 DEF StopPending
<1>11. StopUnanswered'
  <2> SUFFICES ASSUME NEW f \in Ends, alive[f], needclose'[f], closing[f]
               PROVE  /\ cLr'[f] <= closeSs[f]
                      /\ \A q \in net : q.to = f /\ q.msg = "Hello" => q.nr <= closeSs[f]
    BY Zenon, <1>1 DEF StopUnanswered
  <2>1. /\ cLr[f] <= closeSs[f]
        /\ \A q \in net : q.to = f /\ q.msg = "Hello" => q.nr <= closeSs[f]
    BY Zenon, <1>3 DEF StopUnanswered
  <2>2. f = e => p.nr <= closeSs[f]
    BY Zenon, <1>0, <1>2, <1>3, LeqTotal
  <2> QED
    BY Zenon, <1>3, <2>1, <2>2
<1>12. NetOK'
  BY Zenon, <1>1, <1>4, <1>5 DEF NetOK
<1>13. StopObeyed'
  <2> SUFFICES ASSUME NEW q \in net, q.msg = "StopCCN", q.id < Received(q.to),
                      alive[q.to]
               PROVE  closing[q.to] /\ ~needclose'[q.to]
    BY Zenon, <1>1, <1>4, <1>5 DEF StopObeyed
  <2> QED
    BY Zenon, <1>3, <1>5 DEF StopObeyed
<1> QED
  BY Zenon, <1>6, <1>7, <1>8, <1>9, <1>10, <1>11, <1>12, <1>13

(* Handing one message to control_finish counts one message.               *)
LEMMA DeliverOne ==
  ASSUME IInv, NoWrap, NEW e \in Ends, NEW i \in Nat,
         got' = [got EXCEPT ![e] = Append(got[e], i)]
  PROVE  /\ Received(e)' = Received(e) + 1
         /\ \A f \in Ends : f # e => Received(f)' = Received(f)
<1>1. got[e] \in Seq(Nat) /\ got'[e] = Append(got[e], i)
  BY DEF IInv, TypeOK
<1>2. Len(got'[e]) = Len(got[e]) + 1 /\ Len(got[e]) \in Nat
  BY <1>1
<1>3. Peer(e) \in Ends /\ Start[Peer(e)] \in Nat
  BY PeerFacts, ConstantsAssumption
<1>4. \A f \in Ends : f # e => got'[f] = got[f]
  BY DEF IInv, TypeOK
<1> QED
  BY <1>2, <1>3, <1>4 DEF Received

(* The next message in sequence is the one numbered Received(e), of which  *)
(* there is only one; a StopCCN among them leaves the tunnel closing.      *)
LEMMA RecvMessageStep ==
  ASSUME IInv, NoWrap, NEW e \in Ends, NEW p \in net, RecvMessage(e, p)
  PROVE  IInv'
<1>0. \A f \in Ends :
        /\ sent[f] \in Nat /\ Received(f) \in Nat /\ Start[f] \in Nat
        /\ cLr[f] \in Nat /\ closeSs[f] \in Nat
        /\ ss[f] = sent[f] /\ rr[f] = Received(f) /\ sent[f] < SeqMod
        /\ cLr[f] <= Received(Peer(f)) /\ Received(f) <= sent[Peer(f)]
        /\ Received(f) < SeqMod
  BY Zenon, EndFacts
<1> USE DEF IInv
<1> DEFINE z == ZlbPacket(e, Received(e) + 1)
<1>1. /\ p.to = e /\ p.msg \in Messages /\ p.ns = rr[e]
      /\ cLr' = [cLr EXCEPT ![e] = p.nr]
      /\ got' = [got EXCEPT ![e] = Append(got[e], p.id)]
      /\ ss' = ss /\ sched' = sched /\ hello' = hello /\ closeSs' = closeSs
      /\ alive' = alive /\ sent' = sent
  BY DEF RecvMessage
<1>2. /\ Peer(e) \in Ends /\ Peer(Peer(e)) = e /\ Peer(e) # e
      /\ \A f \in Ends : f = e \/ f = Peer(e)
  BY PeerFacts
<1>3. /\ p.id = Received(e) /\ p.id < sent[Peer(e)]
      /\ p.nr \in SeqNums /\ p.nr \in Nat /\ p.nr <= Received(Peer(e))
  <2>1. p.nr \in SeqNums /\ p.nr \in Nat /\ p.nr <= Received(Peer(e))
    BY Zenon, <1>1, PacketFacts
  <2>2. p.ns = p.id /\ p.id < sent[Peer(e)]
    BY Zenon, <1>1 DEF NetOK
  <2> QED
    BY Zenon, <1>0, <1>1, <2>1, <2>2
<1>4. /\ Received(e) \in Nat /\ rr[e] = Received(e) /\ sent[Peer(e)] < SeqMod
      /\ sent[Peer(e)] \in Nat /\ Received(e) + 1 < SeqMod
  BY SMTT(30), <1>2, <1>3, <1>0, ConstantsAssumption
<1>5. (rr[e] + 1) % SeqMod = Received(e) + 1
  BY <1>4, ModSmall
<1>6. rr' = [rr EXCEPT ![e] = Received(e) + 1] /\ net' = net \cup {z}
  BY Zenon, <1>5 DEF RecvMessage
<1>7. /\ z \in Packets /\ z.to = Peer(e) /\ z.ns = sent[e] /\ z.id = sent[e]
      /\ z.nr = Received(e) + 1 /\ z.msg \notin Messages
      /\ z.msg # "StopCCN" /\ z.msg # "Hello"
  <2>1. Received(e) + 1 \in Nat
    BY Zenon, <1>4, LeqRefl, LeqSucc
  <2>2. ZlbOf(z, e, Received(e) + 1)
    BY Zenon, <1>4, <2>1, ZlbFacts
  <2> QED
    BY Zenon, <2>2 DEF ZlbOf
<1> HIDE DEF z
<1>8. /\ got'[e] = Append(got[e], p.id) /\ got[e] \in Seq(Nat) /\ p.id \in Nat
      /\ \A f \in Ends : f # e => got'[f] = got[f]
      /\ got' \in [Ends -> Seq(Nat)]
  BY <1>1, <1>3, <1>4 DEF TypeOK
<1>9. /\ Received(e)' = Received(e) + 1
      /\ Received(Peer(e))' = Received(Peer(e))
  BY Zenon, <1>1, <1>2, <1>8, DeliverOne
<1>10. /\ \A f \in Ends : f # e => needclose'[f] = needclose[f] /\ closing'[f] = closing[f]
       /\ \A f \in Ends : (closing[f] => closing'[f]) /\ (needclose'[f] => needclose[f])
       /\ p.msg = "StopCCN" => closing'[e] /\ ~needclose'[e]
       /\ p.msg # "StopCCN" => needclose' = needclose /\ closing' = closing
       /\ needclose' \in [Ends -> BOOLEAN] /\ closing' \in [Ends -> BOOLEAN]
  <2>1. CASE p.msg = "StopCCN"
    <3>1. /\ needclose' = [needclose EXCEPT ![e] = FALSE]
          /\ closing' = [closing EXCEPT ![e] = TRUE]
      BY <2>1 DEF RecvMessage, ControlFinish
    <3>2. needclose \in [Ends -> BOOLEAN] /\ closing \in [Ends -> BOOLEAN]
      BY DEF TypeOK
    <3> QED
      BY Zenon, <2>1, <3>1, <3>2
  <2>2. CASE p.msg # "StopCCN"
    <3>1. needclose' = needclose /\ closing' = closing
      BY Zenon, <2>2 DEF RecvMessage, ControlFinish
    <3> QED
      BY <2>2, <3>1 DEF TypeOK
  <2> QED
    BY <2>1, <2>2
<1>11. /\ cLr'[e] = p.nr /\ \A f \in Ends : f # e => cLr'[f] = cLr[f]
       /\ rr'[e] = Received(e) + 1 /\ \A f \in Ends : f # e => rr'[f] = rr[f]
  BY Zenon, <1>1, <1>6 DEF TypeOK
<1>12. TypeOK'
  <2>1. rr' \in [Ends -> SeqNums] /\ cLr' \in [Ends -> SeqNums]
    <3>1. Received(e) + 1 \in SeqNums
      BY <1>4, ConstantsAssumption DEF SeqNums
    <3> QED
      BY <1>1, <1>3, <1>6, <3>1 DEF TypeOK
  <2>2. net' \in SUBSET Packets
    BY Zenon, <1>6, <1>7 DEF TypeOK
  <2> QED
    BY Zenon, <1>1, <1>8, <1>10, <2>1, <2>2 DEF TypeOK
<1>13. Numbering'
  <2> SUFFICES ASSUME NEW f \in Ends
               PROVE  /\ ss[f] = sent[f] /\ rr'[f] = Received(f)'
                      /\ Start[f] <= sent[f] /\ sent[f] <= MaxSent + 1
                      /\ ~closing'[f] => sent[f] <= MaxSent
                      /\ Received(f)' <= sent[Peer(f)]
    BY Zenon, <1>1 DEF Numbering
  <2>1. /\ ss[f] = sent[f] /\ Start[f] <= sent[f] /\ sent[f] <= MaxSent + 1
        /\ ~closing'[f] => sent[f] <= MaxSent
    BY Zenon, <1>10 DEF Numbering
  <2>2. rr'[f] = Received(f)' /\ Received(f)' <= sent[Peer(f)]
    <3>1. CASE f = e
      BY Zenon, <1>3, <1>4, <1>9, <1>11, <3>1, SuccLeast
    <3>2. CASE f = Peer(e)
      BY Zenon, <1>0, <1>2, <1>9, <1>11, <3>2
    <3> QED
      BY Zenon, <1>2, <3>1, <3>2
  <2> QED
    BY Zenon, <2>1, <2>2
<1>14. InOrderDelivery'
  <2> SUFFICES ASSUME NEW f \in Ends, NEW i \in 1 .. Len(got'[f])
               PROVE  got'[f][i] = Start[Peer(f)] + i - 1
    BY Zenon DEF InOrderDelivery
  <2>1. CASE f # e
    BY Zenon, <1>8, <2>1 DEF InOrderDelivery
  <2>2. CASE f = e
    <3>1. Start[Peer(e)] \in Nat /\ Len(got[e]) \in Nat
      BY Zenon, <1>0, <1>2, <1>8, AppendNew
    <3>2. \/ i \in 1 .. Len(got[e]) /\ got'[e][i] = got[e][i]
          \/ i = Len(got[e]) + 1 /\ got'[e][i] = p.id
      <4>1. i \in 1 .. Len(Append(got[e], p.id))
        BY Zenon, <1>8, <2>2
      <4>2. got[e] \in Seq(Nat) /\ p.id \in Nat /\ got'[e] = Append(got[e], p.id)
        BY Zenon, <1>8
      <4>3. \/ i \in 1 .. Len(got[e]) /\ Append(got[e], p.id)[i] = got[e][i]
            \/ i = Len(got[e]) + 1 /\ Append(got[e], p.id)[i] = p.id
        BY Zenon, <4>1, <4>2, AppendAt
      <4> QED
        BY Zenon, <4>2, <4>3
    <3>3. CASE i \in 1 .. Len(got[e]) /\ got'[e][i] = got[e][i]
      BY Zenon, <2>2, <3>3 DEF InOrderDelivery
    <3>4. CASE i = Len(got[e]) + 1 /\ got'[e][i] = p.id
      <4>1. p.id = Start[Peer(e)] + Len(got[e])
        BY Zenon, <1>3 DEF Received
      <4> QED
        BY Zenon, <2>2, <3>1, <3>4, <4>1, LastNumber
    <3> QED
      BY Zenon, <3>2, <3>3, <3>4
  <2> QED
    BY Zenon, <2>1, <2>2
<1>15. AckSound'
  <2> SUFFICES ASSUME NEW f \in Ends PROVE cLr'[f] <= Received(Peer(f))'
    BY Zenon DEF AckSound
  <2>1. CASE f = e
    BY Zenon, <1>3, <1>9, <1>11, <2>1
  <2>2. CASE f = Peer(e)
    <3>1. Peer(f) = e /\ cLr'[f] = cLr[f] /\ cLr[f] \in Nat /\ cLr[f] <= Received(e)
      BY Zenon, <1>0, <1>2, <1>11, <2>2
    <3> QED
      BY Zenon, <1>4, <1>9, <3>1, LeqSucc
  <2> QED
    BY Zenon, <1>2, <2>1, <2>2
<1>16. \A f \in Ends : /\ Received(f) \in Nat /\ Received(f)' \in Nat
                       /\ Received(f) <= Received(f)'
  <2> SUFFICES ASSUME NEW f \in Ends
               PROVE  /\ Received(f) \in Nat /\ Received(f)' \in Nat
                      /\ Received(f) <= Received(f)'
    OBVIOUS
  <2>1. CASE f = e
    BY Zenon, <1>4, <1>9, <2>1, LeqRefl, LeqSucc
  <2>2. CASE f = Peer(e)
    BY Zenon, <1>0, <1>2, <1>9, <2>2, LeqRefl
  <2> QED
    BY Zenon, <1>2, <2>1, <2>2
<1>17. NetOK'
  <2> SUFFICES ASSUME NEW q \in net'
               PROVE  /\ q.ns = q.id /\ q.nr <= Received(Peer(q.to))'
                      /\ q.id <= sent[Peer(q.to)]
                      /\ q.msg \in Messages => q.id < sent[Peer(q.to)]
                      /\ q.msg = "StopCCN" => closing'[Peer(q.to)]
    BY Zenon, <1>1 DEF NetOK
  <2>1. CASE q = z
    <3>1. Peer(q.to) = e /\ q.ns = q.id /\ q.id = sent[e]
      BY Zenon, <1>2, <1>7, <2>1
    <3>2. q.nr = Received(e)' /\ Received(e)' \in Nat
      BY Zenon, <1>7, <1>9, <1>16, <2>1
    <3>3. q.nr <= Received(Peer(q.to))' /\ q.id <= sent[Peer(q.to)]
      BY Zenon, <1>0, <3>1, <3>2, LeqRefl
    <3> QED
      BY Zenon, <1>7, <2>1, <3>1, <3>3
  <2>2. CASE q \in net
    <3>1. Peer(q.to) \in Ends /\ q.nr \in Nat /\ q.nr <= Received(Peer(q.to))
      BY Zenon, <2>2, PacketFacts
    <3>2. q.nr <= Received(Peer(q.to))'
      BY Zenon, <1>16, <3>1, LeqTrans
    <3> QED
      BY <1>10, <2>2, <3>1, <3>2 DEF NetOK
  <2> QED
    BY Zenon, <1>6, <2>1, <2>2
<1>18. SchedOK'
  BY Zenon, <1>1, <1>6 DEF SchedOK
<1>19. UniqueIds' /\ OneStopCCN'
  BY Zenon, <1>6, <1>7 DEF UniqueIds, OneStopCCN
<1>20. NoSilentDrop'
  <2> SUFFICES ASSUME NEW f \in Ends, alive[f], ~closing'[f],
                      NEW i \in Start[f] .. sent[f] - 1
               PROVE  i < Received(Peer(f))' \/ \E b \in sched[f] : b.pkt.id = i
    BY Zenon, <1>1 DEF NoSilentDrop
  <2>1. i < Received(Peer(f)) \/ \E b \in sched[f] : b.pkt.id = i
    BY Zenon, <1>10 DEF NoSilentDrop
  <2>2. i \in Int /\ Peer(f) \in Ends
    BY Zenon, <1>0, PeerFacts, RangeFacts
  <2> QED
    BY Zenon, <1>16, <2>1, <2>2, LtTrans
<1>21. StopPending'
  <2> SUFFICES ASSUME NEW f \in Ends, alive[f], needclose'[f], closing'[f]
               PROVE  /\ ~hello[f]
                      /\ \E b \in sched[f] :
                           sched[f] = {b} /\ b.pkt.msg = "StopCCN" /\ b.pkt.ns = closeSs[f]
    BY Zenon, <1>1 DEF StopPending
  <2>1. needclose[f] /\ closing[f]
    BY Zenon, <1>10
  <2> QED
    BY Zenon, <2>1 DEF StopPending
<1>22. StopUnanswered'
  <2> SUFFICES ASSUME NEW f \in Ends, alive[f], needclose'[f], closing'[f]
               PROVE  /\ cLr'[f] <= closeSs[f]
                      /\ \A q \in net : q.to = f /\ q.msg = "Hello" => q.nr <= closeSs[f]
    BY Zenon, <1>1, <1>6, <1>7 DEF StopUnanswered
  <2>1. needclose[f] /\ closing[f] /\ (f = e => p.msg = "Hello")
    BY Zenon, <1>1, <1>10 DEF Messages
  <2>2. /\ cLr[f] <= closeSs[f]
        /\ \A q \in net : q.to = f /\ q.msg = "Hello" => q.nr <= closeSs[f]
    BY Zenon, <2>1 DEF StopUnanswered
  <2> QED
    BY Zenon, <1>1, <1>11, <2>1, <2>2
<1>23. StopObeyed'
  <2> SUFFICES ASSUME NEW q \in net, q.msg = "StopCCN", q.id < Received(q.to)',
                      alive[q.to]
               PROVE  closing'[q.to] /\ ~needclose'[q.to]
    BY Zenon, <1>1, <1>6, <1>7 DEF StopObeyed
  <2>1. q.to \in Ends /\ q.id \in Nat /\ "StopCCN" \in Messages
    BY Zenon DEF TypeOK, Packets, Messages
  <2>2. CASE q.id < Received(q.to)
    BY Zenon, <1>10, <2>1, <2>2 DEF StopObeyed
  <2>3. CASE ~(q.id < Received(q.to))
    <3>1. q.to = e /\ q.id = p.id
      <4>1. CASE q.to = e
        BY Zenon, <1>3, <1>4, <1>9, <2>1, <2>3, <4>1, SuccLeast
      <4>2. CASE q.to = Peer(e)
        BY Zenon, <1>9, <2>3, <4>2
      <4> QED
        BY Zenon, <1>2, <2>1, <4>1, <4>2
    <3>2. q = p
      BY Zenon, <1>1, <2>1, <3>1 DEF UniqueIds
    <3> QED
      BY Zenon, <1>1, <1>10, <3>2
  <2> QED
    BY Zenon, <2>2, <2>3
<1> QED
  BY Zenon, <1>12, <1>13, <1>14, <1>15, <1>17, <1>18, <1>19, <1>20, <1>21, <1>22, <1>23
-----------------------------------------------------------------------------
(* Every step of either daemon, and every stuttering step, preserves the   *)
(* invariant.                                                              *)
LEMMA NextIInv ==
  ASSUME IInv, NoWrap, [Next]_vars
  PROVE  IInv'
<1>1. ASSUME NEW e \in Ends, Hello(e) PROVE IInv'
  BY Zenon, <1>1, HelloStep
<1>2. ASSUME NEW e \in Ends, Timer(e) PROVE IInv'
  BY Zenon, <1>2, TossStep, RetransmitStep, GiveUpStep DEF Timer
<1>3. ASSUME NEW e \in Ends, Recv(e) PROVE IInv'
  BY <1>3, RecvMessageStep, RecvZlbStep, RecvDuplicateStep DEF Recv
<1>4. ASSUME NEW e \in Ends, BuildFdset(e) PROVE IInv'
  BY <1>4, BuildFdsetStep
<1>5. ASSUME NEW e \in Ends, Disconnect(e) PROVE IInv'
  BY <1>5, DisconnectStep
<1>6. ASSUME NEW e \in Ends, Die(e) PROVE IInv'
  BY Zenon, <1>6, DieStep
<1>7. ASSUME UNCHANGED vars PROVE IInv'
  <2> USE <1>7 DEF vars
  <2>1. TypeOK' /\ SchedOK' /\ UniqueIds' /\ OneStopCCN'
    BY Zenon DEF IInv, TypeOK, SchedOK, UniqueIds, OneStopCCN
  <2>2. InOrderDelivery' /\ StopPending' /\ StopUnanswered'
    BY Zenon DEF IInv, InOrderDelivery, StopPending, StopUnanswered
  <2>3. Numbering' /\ AckSound'
    BY Zenon DEF IInv, Numbering, AckSound, Received
  <2>4. NetOK' /\ StopObeyed'
    BY Zenon DEF IInv, NetOK, StopObeyed, Received
  <2>5. NoSilentDrop'
    BY Zenon DEF IInv, NoSilentDrop, Received
  <2> QED
    BY Zenon, <2>1, <2>2, <2>3, <2>4, <2>5 DEF IInv
<1> QED
  BY <1>1, <1>2, <1>3, <1>4, <1>5, <1>6, <1>7 DEF Next

(* The invariant holds in every reachable state, for every number of       *)
(* retries and of messages, as long as the sequence numbers do not wrap.   *)
THEOREM Invariance == ASSUME NoWrap PROVE Spec => []IInv
<1>1. Init => IInv
  BY InitIInv
<1>2. IInv /\ [Next]_vars => IInv'
  BY NextIInv
<1> QED
  BY <1>1, <1>2, PTL DEF Spec

(* Every variable of the two daemons keeps its type.                       *)
THEOREM TypeCorrect == ASSUME NoWrap PROVE Spec => []TypeOK
<1>1. IInv => TypeOK
  BY DEF IInv
<1> QED
  BY <1>1, Invariance, PTL

(* check_control delivers each message of the peer once and in order, and  *)
(* cLr never acknowledges a message the peer has not processed.            *)
THEOREM DeliveryCorrect == ASSUME NoWrap PROVE Spec => [](InOrderDelivery /\ AckSound)
<1>1. IInv => InOrderDelivery /\ AckSound
  BY DEF IInv
<1> QED
  BY <1>1, Invariance, PTL

(* control_xmit tosses no message that the peer has not processed.         *)
THEOREM NothingDropped == ASSUME NoWrap PROVE Spec => []NoSilentDrop
<1>1. IInv => NoSilentDrop
  BY DEF IInv
<1> QED
  BY <1>1, Invariance, PTL

(* The StopCCN of call_close: there is one, and it stays scheduled while   *)
(* the tunnel waits for its answer.                                        *)
THEOREM ClosingCorrect ==
  ASSUME NoWrap PROVE Spec => [](StopPending /\ OneStopCCN)
<1>1. IInv => StopPending /\ OneStopCCN
  BY DEF IInv
<1> QED
  BY <1>1, Invariance, PTL

(* An end that has processed a StopCCN of its peer is closing, with its    *)
(* own StopCCN answered, or gone: control_finish acts on the StopCCN in    *)
(* the step that delivers it.                                              *)
THEOREM StopIsObeyed == ASSUME NoWrap PROVE Spec => []StopObeyed
<1>1. IInv => StopObeyed
  BY DEF IInv
<1> QED
  BY <1>1, Invariance, PTL

(* handle_control ends the wait for the answer to a StopCCN only when the  *)
(* peer has processed all that was sent before it: of the actions that     *)
(* clear needclose, one destroys the tunnel, one processes a message, and  *)
(* the ZLB that is left acknowledges no more than its sender processed.    *)
THEOREM EarlierProcessed == ASSUME NoWrap PROVE Spec => EarlierAcked
<1>1. IInv /\ [Next]_vars =>
        [\A e \in Ends :
           alive[e] /\ alive'[e] /\ needclose[e] /\ closing[e] /\ ~needclose'[e] =>
             got'[e] # got[e] \/ Received(Peer(e)) >= closeSs[e]]_vars
  <2> SUFFICES ASSUME IInv, Next, NEW e \in Ends,
                      alive[e], alive'[e], needclose[e], closing[e], ~needclose'[e]
               PROVE  got'[e] # got[e] \/ Received(Peer(e)) >= closeSs[e]
    BY Zenon
  <2>1. TypeOK
    BY DEF IInv
  <2>2. CASE \E f \in Ends : \E p \in net : RecvZlb(f, p)
    <3>1. PICK f \in Ends, p \in net : RecvZlb(f, p)
      BY Zenon, <2>2
    <3>2. f = e /\ p.to = e /\ p.nr >= closeSs[e]
      BY <2>1, <3>1 DEF RecvZlb, TypeOK
    <3>3. p.nr \in Nat /\ closeSs[e] \in Nat /\ p.nr <= Received(Peer(e))
      <4>1. closeSs[e] \in SeqNums
        BY Zenon, <2>1 DEF TypeOK
      <4> QED
        BY Zenon, <3>2, <4>1, SeqNumsNat, PacketFacts
    <3>4. Received(Peer(e)) \in Nat
      BY Zenon, EndFacts, PeerFacts
    <3> QED
      BY Zenon, <3>2, <3>3, <3>4, LeqTrans
  <2>3. CASE \E f \in Ends : \E p \in net : RecvMessage(f, p)
    <3>1. PICK f \in Ends, p \in net : RecvMessage(f, p)
      BY Zenon, <2>3
    <3>2. f = e
      BY Zenon, <2>1, <3>1 DEF RecvMessage, ControlFinish, TypeOK
    <3>3. got[e] \in Seq(Nat) /\ got'[e] = Append(got[e], p.id)
      BY Zenon, <2>1, <3>1, <3>2 DEF RecvMessage, TypeOK
    <3>4. p.id \in Nat
      BY Zenon, PacketFacts
    <3> QED
      BY Zenon, <3>3, <3>4, AppendNew
  <2>4. CASE \E f \in Ends : \E b \in sched[f] : GiveUp(f, b)
    BY <2>1, <2>4 DEF GiveUp, DestroyTunnel, TypeOK
  <2>5. CASE \E f \in Ends : Disconnect(f) \/ BuildFdset(f) \/ Die(f)
    BY Zenon, <2>1, <2>5 DEF Disconnect, BuildFdset, Die, TypeOK
  <2>6. CASE \/ \E f \in Ends : Hello(f)
             \/ \E f \in Ends : \E b \in sched[f] : Toss(f, b) \/ Retransmit(f, b)
             \/ \E f \in Ends : \E p \in net : RecvDuplicate(f, p)
    BY <2>6 DEF Hello, Toss, Retransmit, RecvDuplicate
  <2> QED
    BY Zenon, <2>2, <2>3, <2>4, <2>5, <2>6 DEF Next, Timer, Recv
<1> QED
  BY <1>1, Invariance, PTL DEF Spec, EarlierAcked
-----------------------------------------------------------------------------
(* The numbers of processed messages, as the reliable link sees them.      *)
Rcvd == [e \in Ends |-> Received(e)]

(* A step of call_close is a message sent on the link, or the end of one   *)
(* of its ends.                                                            *)
LEMMA CloseLink ==
  ASSUME IInv, NoWrap, NEW e \in Ends, alive[e],
         CallClose(e) \/ DestroyTunnel(e), UNCHANGED <<rr, cLr, got>>
  PROVE  Link!LinkNext
<1>1. Rcvd' = Rcvd
  BY DEF Rcvd, Received
<1>2. CASE DestroyTunnel(e)
  <2>1. Link!GoAway(e)
    BY <1>1, <1>2 DEF DestroyTunnel, Link!GoAway, Rcvd
  <2> QED
    BY <2>1 DEF Link!LinkNext
<1>3. CASE ~DestroyTunnel(e)
  <2>1. sent' = [sent EXCEPT ![e] = sent[e] + 1] /\ alive' = alive
    BY Zenon, <1>3 DEF CallClose, FirstXmit
  <2>2. Link!Send(e)
    BY Zenon, <1>1, <2>1 DEF Link!Send, Rcvd
  <2> QED
    BY Zenon, <2>2 DEF Link!LinkNext
<1> QED
  BY <1>2, <1>3

(* Every step of the two daemons is a step of the reliable link or leaves  *)
(* it alone.                                                               *)
LEMMA NextLink ==
  ASSUME IInv, NoWrap, [Next]_vars
  PROVE  [Link!LinkNext]_Link!linkVars
<1>1. ASSUME NEW e \in Ends, Hello(e) PROVE Link!LinkNext
  <2>1. /\ alive[e] /\ sent' = [sent EXCEPT ![e] = sent[e] + 1]
        /\ Rcvd' = Rcvd /\ cLr' = cLr /\ alive' = alive
    BY <1>1 DEF Hello, Ready, FirstXmit, Rcvd, Received
  <2>2. Link!Send(e)
    BY <2>1 DEF Link!Send, Rcvd
  <2> QED
    BY Zenon, <2>2 DEF Link!LinkNext
<1>2. ASSUME NEW e \in Ends, NEW b \in sched[e], Toss(e, b) \/ Retransmit(e, b)
      PROVE  UNCHANGED Link!linkVars
  BY Zenon, <1>2 DEF Toss, Retransmit, Link!linkVars, Received
<1>3. ASSUME NEW e \in Ends, NEW b \in sched[e], GiveUp(e, b) PROVE Link!LinkNext
  BY Zenon, <1>3, CloseLink DEF GiveUp, Ready
<1>4. ASSUME NEW e \in Ends, NEW p \in net, RecvMessage(e, p) PROVE Link!LinkNext
  <2>1. /\ alive[e] /\ p.to = e /\ p.ns = rr[e] /\ p.msg \in Messages
        /\ got' = [got EXCEPT ![e] = Append(got[e], p.id)]
        /\ cLr' = [cLr EXCEPT ![e] = p.nr] /\ sent' = sent /\ alive' = alive
    BY Zenon, <1>4 DEF RecvMessage, Ready
  <2>2. /\ p.id = Received(e) /\ p.id < sent[Peer(e)] /\ p.nr <= Received(Peer(e))
    BY Zenon, <2>1, EndFacts DEF IInv, NetOK
  <2>3. p.nr \in Nat /\ p.id \in Nat
    <3>1. p \in Packets
      BY DEF IInv, TypeOK
    <3> QED
      BY <3>1, ConstantsAssumption DEF Packets, SeqNums
  <2>4. \A f \in Ends : Received(f)' = IF f = e THEN Received(e) + 1 ELSE Received(f)
    BY Zenon, <2>1, <2>3, DeliverOne
  <2>5. Rcvd' = [Rcvd EXCEPT ![e] = Rcvd[e] + 1]
    BY Zenon, <2>4 DEF Rcvd
  <2>6. Rcvd[e] < sent[Peer(e)] /\ p.nr \in 0 .. Rcvd[Peer(e)]
    <3>1. Peer(e) \in Ends /\ Received(e) \in Nat
      BY Zenon, EndFacts, PeerFacts
    <3>2. Rcvd[e] = Received(e) /\ Rcvd[Peer(e)] = Received(Peer(e))
      BY Zenon, <3>1 DEF Rcvd
    <3>3. Received(Peer(e)) \in Nat
      BY Zenon, <3>1, EndFacts
    <3> QED
      BY Zenon, <2>2, <2>3, <3>2, <3>3, RangeFacts
  <2>7. Link!Process(e)
    BY Zenon, <2>1, <2>5, <2>6 DEF Link!Process, Link!LearnAck, Rcvd
  <2> QED
    BY Zenon, <2>7 DEF Link!LinkNext
<1>5. ASSUME NEW e \in Ends, NEW p \in net, RecvZlb(e, p) PROVE Link!LinkNext
  <2>1. /\ alive[e] /\ p.to = e /\ cLr' = [cLr EXCEPT ![e] = p.nr]
        /\ sent' = sent /\ alive' = alive /\ Rcvd' = Rcvd
    BY Zenon, <1>5 DEF RecvZlb, Ready, Rcvd, Received
  <2>2. p.nr \in Nat /\ p.nr <= Received(Peer(e))
    BY Zenon, <2>1, PacketFacts
  <2>3. p.nr \in 0 .. Rcvd[Peer(e)]
    <3>1. Peer(e) \in Ends /\ Received(Peer(e)) \in Nat
      BY Zenon, EndFacts, PeerFacts
    <3>2. Rcvd[Peer(e)] = Received(Peer(e))
      BY Zenon, <3>1 DEF Rcvd
    <3> QED
      BY Zenon, <2>2, <3>1, <3>2, RangeFacts
  <2>4. Link!Acknowledge(e)
    BY Zenon, <2>1, <2>3 DEF Link!Acknowledge, Link!LearnAck, Rcvd
  <2> QED
    BY Zenon, <2>4 DEF Link!LinkNext
<1>6. ASSUME NEW e \in Ends, NEW p \in net, RecvDuplicate(e, p)
      PROVE  UNCHANGED Link!linkVars
  BY <1>6 DEF RecvDuplicate, Link!linkVars, Received
<1>7. ASSUME NEW e \in Ends, BuildFdset(e) \/ Disconnect(e) PROVE Link!LinkNext
  BY <1>7, CloseLink DEF BuildFdset, Disconnect, Ready
<1>8. ASSUME NEW e \in Ends, Die(e) PROVE Link!LinkNext
  <2>1. /\ alive[e] /\ alive' = [alive EXCEPT ![e] = FALSE]
        /\ sent' = sent \/ sent' = [sent EXCEPT ![e] = sent[e] + 1]
        /\ Rcvd' = Rcvd /\ cLr' = cLr
    BY Zenon, <1>8 DEF Die, Rcvd, Received
  <2>2. Link!GoAway(e)
    BY <2>1 DEF Link!GoAway, Rcvd
  <2> QED
    BY Zenon, <2>2 DEF Link!LinkNext
<1>9. ASSUME UNCHANGED vars PROVE UNCHANGED Link!linkVars
  BY <1>9 DEF vars, Link!linkVars, Received
<1> QED
  BY Zenon, <1>1, <1>2, <1>3, <1>4, <1>5, <1>6, <1>7, <1>8, <1>9 DEF Next, Timer, Recv

(* The control channel implements the reliable link: whatever the network  *)
(* does, the two daemons exchange their messages in order, each once, and  *)
(* acknowledge only what they have processed.                              *)
THEOREM ChannelImplementsLink == ASSUME NoWrap PROVE Spec => ReliableDelivery
<1>1. Init => Link!LinkInit
  <2> SUFFICES ASSUME Init PROVE Link!LinkInit
    OBVIOUS
  <2>1. IInv
    BY InitIInv
  <2>2. \A e \in Ends : Start[e] \in Nat /\ Start[e] % SeqMod = Start[e]
    BY ModSmall, ConstantsAssumption DEF NoWrap
  <2>3. cLr = Start
    BY <2>2, ConstantsAssumption DEF Init
  <2>4. \A e \in Ends : Received(e) = Start[Peer(e)]
    BY <2>2, PeerFacts DEF Init, Received
  <2> QED
    BY <2>3, <2>4 DEF Init, Link!LinkInit
<1>2. IInv /\ [Next]_vars => [Link!LinkNext]_Link!linkVars
  BY NextLink
<1> QED
  BY <1>1, <1>2, Invariance, PTL DEF Spec, ReliableDelivery, Link!LinkSpec
=============================================================================
