--------------------------- MODULE ControlChannel ---------------------------
(***************************************************************************)
(* The control channel of one established L2TP tunnel: the numbered,       *)
(* acknowledged and retransmitted control messages two xl2tpd daemons      *)
(* exchange over UDP, and the closing of the tunnel with StopCCN.  The     *)
(* tunnel carries no calls here: its traffic is the Hello keepalive of     *)
(* control.c and the final StopCCN of call.c.                              *)
(*                                                                         *)
(* One step of an end is one handler run by the loop of network_thread     *)
(* (network.c): a timer event, a packet, a command, a signal, or the       *)
(* closing pass of build_fdset.  The network is the set of all packets     *)
(* ever sent: a packet may be delivered late, out of order, many times or  *)
(* never.                                                                  *)
(***************************************************************************)
EXTENDS Integers, Sequences, FiniteSets

CONSTANTS
  SeqMod,       \* number of values of the 16-bit Ns and Nr fields (65536)
  MaxRetries,   \* gconfig.max_retries
  MaxSent,      \* bound: no Hello is sent once an end has sent this many
  Start         \* messages each end has had acknowledged at the start

Ends == {"lac", "lns"}

Peer(e) == IF e = "lac" THEN "lns" ELSE "lac"

ASSUME ConstantsAssumption ==
  /\ SeqMod \in Nat \ {0, 1}
  /\ MaxRetries \in Nat \ {0}
  /\ MaxSent \in Nat
  /\ Start \in [Ends -> Nat]

VARIABLES
  ss,           \* t->control_seq_num: Ns of the next message
  rr,           \* t->control_rec_seq_num: Ns expected next
  cLr,          \* t->cLr: Nr of the last packet accepted
  sched,        \* the buffers whose control_xmit event is scheduled
  hello,        \* is the hello event of the tunnel scheduled?
  needclose,    \* t->self->needclose
  closing,      \* t->self->closing
  closeSs,      \* t->self->closeSs
  alive,        \* is the tunnel still in the list of tunnels?
  net,          \* every packet ever sent
  sent,         \* history: messages numbered by this end so far
  got           \* history: messages this end has handed to control_finish

vars == <<ss, rr, cLr, sched, hello, needclose, closing, closeSs, alive, net,
          sent, got>>

Messages == {"Hello", "StopCCN"}

SeqNums == 0 .. SeqMod - 1

(* A packet: its header's Ns and Nr, its message type ("ZLB" for a packet  *)
(* that is only a header) and, as history, the unwrapped number id.        *)
Packets ==
  [to : Ends, ns : SeqNums, nr : SeqNums, msg : Messages \cup {"ZLB"}, id : Nat]

Buffers == [pkt : Packets, retries : 1 .. MaxRetries]

(* Number of messages of its peer that an end has processed.               *)
Received(e) == Start[Peer(e)] + Len(got[e])

-----------------------------------------------------------------------------
(* add_control_hdr with the given Nr; for a ZLB, control_zlb takes the     *)
(* increment of control_seq_num back, so only FirstXmit keeps it.          *)
Header(e, msg, nr) ==
  [to |-> Peer(e), ns |-> ss[e], nr |-> nr, msg |-> msg, id |-> sent[e]]

(* control_zlb, at an end whose control_rec_seq_num is r.                  *)
ZlbPacket(e, r) == Header(e, "ZLB", r)

(* Mutant: Nr is read as the last message received.                        *)
Acked_OffByOne(ns, lr) == ns <= lr

(* The test of control_xmit for a message the peer has acknowledged.       *)
Acked(ns, lr) == ns < lr

(* Mutant: a message is sent once and not scheduled.                       *)
FirstXmit_Unscheduled(e, msg, kept) ==
  /\ sched' = [sched EXCEPT ![e] = kept]
  /\ net' = net \cup {Header(e, msg, rr[e])}
  /\ ss' = [ss EXCEPT ![e] = (@ + 1) % SeqMod]
  /\ sent' = [sent EXCEPT ![e] = @ + 1]

(* A header is built for a new message, and control_xmit runs on it for    *)
(* the first time: tossed, or scheduled and sent.  kept are the buffers    *)
(* that stay scheduled beside it.                                          *)
FirstXmit(e, msg, kept) ==
  LET h == Header(e, msg, rr[e]) IN
  /\ IF Acked(h.ns, cLr[e])
     THEN /\ sched' = [sched EXCEPT ![e] = kept]
          /\ net' = net
     ELSE /\ sched' = [sched EXCEPT ![e] =
                         kept \cup {[pkt |-> h, retries |-> 1]}]
          /\ net' = net \cup {h}
  /\ ss' = [ss EXCEPT ![e] = (@ + 1) % SeqMod]
  /\ sent' = [sent EXCEPT ![e] = @ + 1]

(* destroy_tunnel, after call_close has removed the tunnel's events.       *)
DestroyTunnel(e) ==
  /\ alive' = [alive EXCEPT ![e] = FALSE]
  /\ sched' = [sched EXCEPT ![e] = {}]
  /\ hello' = [hello EXCEPT ![e] = FALSE]
  /\ UNCHANGED <<ss, closing, closeSs, net, sent>>

(* Mutant: call_close does not remove the tunnel's events.                 *)
CallClose_KeepsEvents(e) ==
  IF closing[e]
  THEN DestroyTunnel(e)
  ELSE /\ closeSs' = [closeSs EXCEPT ![e] = ss[e]]
       /\ FirstXmit(e, "StopCCN", sched[e])
       /\ closing' = [closing EXCEPT ![e] = TRUE]
       /\ UNCHANGED <<hello, alive>>

(* call_close(t->self): the second call destroys the tunnel, the first     *)
(* removes its events, the Hello included, and sends StopCCN.              *)
CallClose(e) ==
  IF closing[e]
  THEN DestroyTunnel(e)
  ELSE /\ closeSs' = [closeSs EXCEPT ![e] = ss[e]]
       /\ FirstXmit(e, "StopCCN", {})
       /\ hello' = [hello EXCEPT ![e] = FALSE]
       /\ closing' = [closing EXCEPT ![e] = TRUE]
       /\ UNCHANGED alive

(* network_thread runs build_fdset before timers, commands and packets, so *)
(* these find no close pending.                                            *)
Ready(e) == alive[e] /\ (needclose[e] = closing[e])

-----------------------------------------------------------------------------
(* Mutant: hello() does not schedule the next Hello.                       *)
Hello_Once(e) ==
  /\ Ready(e) /\ hello[e]
  /\ sent[e] < MaxSent
  /\ FirstXmit(e, "Hello", sched[e])
  /\ hello' = [hello EXCEPT ![e] = FALSE]
  /\ UNCHANGED <<rr, cLr, needclose, closing, closeSs, alive, got>>

(* Timer: hello().                                                         *)
Hello(e) ==
  /\ Ready(e) /\ hello[e]
  /\ sent[e] < MaxSent
  /\ FirstXmit(e, "Hello", sched[e])
  /\ UNCHANGED <<rr, cLr, hello, needclose, closing, closeSs, alive, got>>

(* Timer: control_xmit on a buffer whose message has been acknowledged.    *)
Toss(e, b) ==
  /\ Ready(e)
  /\ Acked(b.pkt.ns, cLr[e])
  /\ sched' = [sched EXCEPT ![e] = @ \ {b}]
  /\ UNCHANGED <<ss, rr, cLr, hello, needclose, closing, closeSs, alive, net,
                 sent, got>>

(* Mutant: the retries are not counted.                                    *)
Retransmit_Uncounted(e, b) ==
  /\ Ready(e)
  /\ ~Acked(b.pkt.ns, cLr[e])
  /\ net' = net \cup {b.pkt}
  /\ UNCHANGED <<ss, rr, cLr, sched, hello, needclose, closing, closeSs, alive,
                 sent, got>>

(* Timer: control_xmit sends a buffer again, with the header it had.       *)
Retransmit(e, b) ==
  /\ Ready(e)
  /\ ~Acked(b.pkt.ns, cLr[e])
  /\ b.retries + 1 <= MaxRetries
  /\ sched' = [sched EXCEPT ![e] =
                 (@ \ {b}) \cup {[b EXCEPT !.retries = @ + 1]}]
  /\ net' = net \cup {b.pkt}
  /\ UNCHANGED <<ss, rr, cLr, hello, needclose, closing, closeSs, alive, sent,
                 got>>

(* Timer: control_xmit finds too many retries.  A tunnel already closing   *)
(* is destroyed; any other one is closed.                                  *)
GiveUp(e, b) ==
  /\ Ready(e)
  /\ ~Acked(b.pkt.ns, cLr[e])
  /\ b.retries + 1 > MaxRetries
  /\ needclose' = [needclose EXCEPT ![e] = ~@]
  /\ IF needclose[e] THEN DestroyTunnel(e) ELSE CallClose(e)
  /\ UNCHANGED <<rr, cLr, got>>

(* check_control's test for a message already received, in C's int         *)
(* arithmetic.                                                             *)
AlreadyReceived(ns, r) ==
  \/ ns < r /\ r - ns < SeqMod \div 2
  \/ ns > r /\ r - ns > SeqMod \div 2

(* Mutant: a StopCCN leaves the wait for the answer to one's own in place. *)
ControlFinish_KeepsNeedclose(e, msg) ==
  /\ closing' = [closing EXCEPT ![e] = @ \/ msg = "StopCCN"]
  /\ UNCHANGED needclose

(* control_finish on the tunnel: a StopCCN closes it, a Hello does nothing.*)
ControlFinish(e, msg) ==
  IF msg = "StopCCN"
  THEN /\ needclose' = [needclose EXCEPT ![e] = FALSE]
       /\ closing' = [closing EXCEPT ![e] = TRUE]
  ELSE UNCHANGED <<needclose, closing>>

(* Mutants: a message is accepted after a gap; a repeated one is accepted  *)
(* again.                                                                  *)
RecvMessage_AfterGap(e, p) ==
  /\ Ready(e) /\ p.to = e /\ p.msg \in Messages
  /\ p.ns >= rr[e]
  /\ rr' = [rr EXCEPT ![e] = (@ + 1) % SeqMod]
  /\ cLr' = [cLr EXCEPT ![e] = p.nr]
  /\ got' = [got EXCEPT ![e] = Append(@, p.id)]
  /\ UNCHANGED <<ss, sched, hello, needclose, closing, closeSs, alive, net, sent>>

RecvMessage_Again(e, p) ==
  /\ Ready(e) /\ p.to = e /\ p.msg \in Messages
  /\ p.ns <= rr[e]
  /\ rr' = [rr EXCEPT ![e] = (@ + 1) % SeqMod]
  /\ cLr' = [cLr EXCEPT ![e] = p.nr]
  /\ got' = [got EXCEPT ![e] = Append(@, p.id)]
  /\ UNCHANGED <<ss, sched, hello, needclose, closing, closeSs, alive, net, sent>>

(* The next message in sequence: check_control accepts it, control_finish  *)
(* handles it, and network_thread answers with a ZLB, since cnu is set.    *)
RecvMessage(e, p) ==
  /\ Ready(e) /\ p.to = e /\ p.msg \in Messages
  /\ p.ns = rr[e]
  /\ rr' = [rr EXCEPT ![e] = (@ + 1) % SeqMod]
  /\ cLr' = [cLr EXCEPT ![e] = p.nr]
  /\ got' = [got EXCEPT ![e] = Append(@, p.id)]
  /\ net' = net \cup {ZlbPacket(e, (rr[e] + 1) % SeqMod)}
  /\ ControlFinish(e, p.msg)
  /\ UNCHANGED <<ss, sched, hello, closeSs, alive, sent>>

RecvZlb_AnyZlb(e, p) ==
  /\ Ready(e) /\ p.to = e /\ p.msg = "ZLB"
  /\ p.ns = rr[e]
  /\ cLr' = [cLr EXCEPT ![e] = p.nr]
  /\ needclose' = [needclose EXCEPT ![e] = @ /\ ~closing[e]]
  /\ UNCHANGED <<ss, rr, sched, hello, closing, closeSs, alive, net, sent, got>>

(* A ZLB in sequence: handle_control undoes check_control's increment and, *)
(* when the tunnel waits for the answer to its StopCCN, looks at cLr.      *)
RecvZlb(e, p) ==
  /\ Ready(e) /\ p.to = e /\ p.msg = "ZLB"
  /\ p.ns = rr[e]
  /\ cLr' = [cLr EXCEPT ![e] = p.nr]
  /\ needclose' = [needclose EXCEPT ![e] =
                     @ /\ ~(closing[e] /\ p.nr >= closeSs[e])]
  /\ UNCHANGED <<ss, rr, sched, hello, closing, closeSs, alive, net, sent, got>>

(* A message out of sequence: check_control answers one it has already     *)
(* received with a ZLB.  Every other packet out of sequence is dropped.    *)
RecvDuplicate(e, p) ==
  /\ Ready(e) /\ p.to = e /\ p.msg \in Messages
  /\ p.ns # rr[e] /\ AlreadyReceived(p.ns, rr[e])
  /\ net' = net \cup {ZlbPacket(e, rr[e])}
  /\ UNCHANGED <<ss, rr, cLr, sched, hello, needclose, closing, closeSs, alive,
                 sent, got>>

(* build_fdset: a close is pending when exactly one of the flags is set.   *)
BuildFdset(e) ==
  /\ alive[e] /\ needclose[e] # closing[e]
  /\ CallClose(e)
  /\ UNCHANGED <<rr, cLr, needclose, got>>

(* Command: lac_disconnect, from the control pipe.                         *)
Disconnect(e) ==
  /\ Ready(e)
  /\ needclose' = [needclose EXCEPT ![e] = TRUE]
  /\ CallClose(e)
  /\ UNCHANGED <<rr, cLr, got>>

(* Signal: death_handler.  The daemon exits, after one StopCCN if the      *)
(* tunnel was not closing; SIGTERM without kernel support, and a crash,    *)
(* send nothing.                                                           *)
Die(e) ==
  /\ alive[e]
  /\ alive' = [alive EXCEPT ![e] = FALSE]
  /\ sched' = [sched EXCEPT ![e] = {}]
  /\ hello' = [hello EXCEPT ![e] = FALSE]
  /\ \/ UNCHANGED <<ss, closeSs, closing, net, sent>>
     \/ /\ ~closing[e] /\ ~Acked(ss[e], cLr[e])
        /\ closeSs' = [closeSs EXCEPT ![e] = ss[e]]
        /\ closing' = [closing EXCEPT ![e] = TRUE]
        /\ net' = net \cup {Header(e, "StopCCN", rr[e])}
        /\ ss' = [ss EXCEPT ![e] = (@ + 1) % SeqMod]
        /\ sent' = [sent EXCEPT ![e] = @ + 1]
  /\ UNCHANGED <<rr, cLr, needclose, got>>

-----------------------------------------------------------------------------
(* An established tunnel whose ends have acknowledged each other's first   *)
(* Start messages (SCCRQ and SCCCN, SCCRP, and any Hellos since).          *)
Init ==
  /\ ss = [e \in Ends |-> Start[e] % SeqMod]
  /\ rr = [e \in Ends |-> Start[Peer(e)] % SeqMod]
  /\ cLr = [e \in Ends |-> Start[e] % SeqMod]
  /\ sched = [e \in Ends |-> {}]
  /\ hello = [e \in Ends |-> TRUE]
  /\ needclose = [e \in Ends |-> FALSE]
  /\ closing = [e \in Ends |-> FALSE]
  /\ closeSs = [e \in Ends |-> 0]
  /\ alive = [e \in Ends |-> TRUE]
  /\ net = {}
  /\ sent = Start
  /\ got = [e \in Ends |-> <<>>]

Timer(e) ==
  \E b \in sched[e] : Toss(e, b) \/ Retransmit(e, b) \/ GiveUp(e, b)

Recv(e) ==
  \E p \in net : RecvMessage(e, p) \/ RecvZlb(e, p) \/ RecvDuplicate(e, p)

Next ==
  \E e \in Ends :
     Hello(e) \/ Timer(e) \/ Recv(e) \/ BuildFdset(e) \/ Disconnect(e) \/ Die(e)

Spec == Init /\ [][Next]_vars

(* The daemon's loop keeps running while it is alive: pending closes are   *)
(* carried out, scheduled buffers come due, Hellos are sent.  Nothing is   *)
(* asked of the network, of the operator or of the peer.                   *)
Fairness ==
  \A e \in Ends : WF_vars(Timer(e)) /\ WF_vars(BuildFdset(e)) /\ WF_vars(Hello(e))

FairSpec == Spec /\ Fairness

-----------------------------------------------------------------------------
(* Every variable has the type its declaration in the code gives it.       *)
TypeOK ==
  /\ ss \in [Ends -> SeqNums] /\ rr \in [Ends -> SeqNums]
  /\ cLr \in [Ends -> SeqNums] /\ closeSs \in [Ends -> SeqNums]
  /\ sched \in [Ends -> SUBSET Buffers]
  /\ hello \in [Ends -> BOOLEAN] /\ alive \in [Ends -> BOOLEAN]
  /\ needclose \in [Ends -> BOOLEAN] /\ closing \in [Ends -> BOOLEAN]
  /\ net \in SUBSET Packets
  /\ sent \in [Ends -> Nat] /\ got \in [Ends -> Seq(Nat)]

(* check_control hands control_finish the peer's messages in the order     *)
(* they were numbered, each once, whatever the network loses, repeats or   *)
(* reorders.                                                               *)
InOrderDelivery ==
  \A e \in Ends : \A i \in 1 .. Len(got[e]) : got[e][i] = Start[Peer(e)] + i - 1

(* The acknowledgement an end has recorded in cLr never covers a message   *)
(* the peer has not processed, even though cLr is overwritten by old ZLBs  *)
(* and by the stale Nr of retransmitted messages.                          *)
AckSound == \A e \in Ends : cLr[e] <= Received(Peer(e))

(* control_xmit tosses a buffer because "it's been received": as long as   *)
(* an end has not begun to close, each of its messages has been processed  *)
(* by the peer or is still scheduled for retransmission.                   *)
NoSilentDrop ==
  \A e \in Ends :
     alive[e] /\ ~closing[e] =>
       \A i \in Start[e] .. sent[e] - 1 :
          i < Received(Peer(e)) \/ \E b \in sched[e] : b.pkt.id = i

(* A tunnel waiting for the answer to its StopCCN has nothing else in the  *)
(* scheduler than that StopCCN, and does have it: call_close has removed   *)
(* the Hello and the other messages, and no acknowledgement other than the *)
(* ZLB that ends the wait can make control_xmit toss the StopCCN.          *)
StopPending ==
  \A e \in Ends :
     alive[e] /\ needclose[e] /\ closing[e] =>
       /\ ~hello[e]
       /\ \E b \in sched[e] :
            /\ sched[e] = {b}
            /\ b.pkt.msg = "StopCCN" /\ b.pkt.ns = closeSs[e]

(* An end sends one StopCCN in the life of a tunnel, whichever of command, *)
(* timeout and signal close it.                                            *)
OneStopCCN ==
  \A p, q \in net :
     p.msg = "StopCCN" /\ q.msg = "StopCCN" /\ p.to = q.to => p = q

(* The two ends are never both up after one has handled the other's        *)
(* StopCCN and passed build_fdset: an end whose StopCCN was processed has  *)
(* a peer that is closing or gone.                                         *)
StopObeyed ==
  \A p \in net :
     p.msg = "StopCCN" /\ p.id < Received(p.to) =>
       ~alive[p.to] \/ (closing[p.to] /\ ~needclose[p.to])

(* Together: the channel implements a reliable, ordered link.              *)
Link == INSTANCE ReliableLink WITH
          rcvd <- [e \in Ends |-> Received(e)], acked <- cLr, up <- alive

(* Every step of the two daemons is a step of the reliable link, or leaves *)
(* it alone.                                                               *)
ReliableDelivery == Link!LinkSpec

(* A tunnel that has begun to close is destroyed: by the ZLB that answers  *)
(* its StopCCN, or by the retry limit of control_xmit.                     *)
CloseTerminates ==
  \A e \in Ends : (alive[e] /\ closing[e]) ~> ~alive[e]

(* A message is eventually processed by the peer, or its sender closes the *)
(* tunnel: control_xmit never leaves one unresolved.                       *)
MessageResolved ==
  \A e \in Ends : \A i \in Start[e] .. MaxSent :
     sent[e] > i ~> (Received(Peer(e)) > i \/ closing[e] \/ ~alive[e])

(* When one end is gone, however it went, the Hellos of the other go       *)
(* unanswered and the other is destroyed as well (if the bound on Hellos   *)
(* has left it one to send).                                               *)
DeadPeerDetected ==
  \A e \in Ends :
     (~alive[e] /\ sent[Peer(e)] < MaxSent) ~> ~alive[Peer(e)]

(* A tunnel stops waiting for the answer to its StopCCN, because of a ZLB  *)
(* in handle_control, only if the peer has processed all that was sent     *)
(* before the StopCCN.  (Not the StopCCN itself: closeSs is its own Ns, so *)
(* that cLr >= closeSs already holds when the message before it is         *)
(* acknowledged.)                                                          *)
EarlierAcked ==
  [][\A e \in Ends :
       alive[e] /\ alive'[e] /\ needclose[e] /\ closing[e] /\ ~needclose'[e] =>
         got'[e] # got[e] \/ Received(Peer(e)) >= closeSs[e]]_vars
=============================================================================
