------------------------------- MODULE Calls -------------------------------
(***************************************************************************)
(* The calls of one established tunnel: how a LAC and an LNS running       *)
(* xl2tpd open a call with ICRQ, ICRP and ICCN, close it with CDN, and     *)
(* lose all of them with StopCCN (control.c, call.c, avp.c, network.c,     *)
(* xl2tpd.c).  Every control message of the tunnel, whatever its call,     *)
(* uses the one pair of counters Ns and Nr of the tunnel.                  *)
(*                                                                         *)
(* The network here delivers every packet once and in order, so that what  *)
(* goes wrong is the doing of the daemons alone; loss and repetition are   *)
(* the subject of ControlChannel.  Call IDs are drawn at random by the     *)
(* code: they are taken to be distinct, between the two ends as well.      *)
(***************************************************************************)
EXTENDS Integers, Sequences

CONSTANTS
  MaxCalls,       \* bound: calls the LAC places in all
  MaxStops,       \* bound: disconnect commands given to each end
  Faults          \* which of the faults below the environment produces

(* "noaddr": the address pool of the LNS is empty; "pppd": pppd cannot be  *)
(* started; "early": the LAC, another implementation, hangs a call up      *)
(* before it was answered.                                                 *)
ASSUME CallsAssumption ==
  /\ MaxCalls \in Nat /\ MaxStops \in Nat
  /\ Faults \subseteq {"noaddr", "pppd", "early"}

Ends == {"lac", "lns"}

Peer(e) == IF e = "lac" THEN "lns" ELSE "lac"

VARIABLES
  kernel,     \* kernel_support: pppd is attached to a kernel socket
  end,        \* the tunnel of each end, as EndState
  looped,     \* has the end run its signal and closing passes since it
              \* handled its last packet?
  stops       \* disconnect commands given to each end

vars == <<kernel, end, looped, stops>>

NoCid == 0

(* The numbers the n-th call of an end gets from new_call. *)
OurCid(e, n) == IF e = "lac" THEN n ELSE MaxCalls + n

(* new_tunnel, once the tunnel is established. *)
NewEnd ==
  [alive |-> TRUE, ss |-> 0, rr |-> 0, cLr |-> 0, made |-> 0,
   self |-> [needclose |-> FALSE, closing |-> FALSE, closeSs |-> 0],
   calls |-> <<>>,      \* the calls of t->call_head, by ourcid
   out |-> <<>>,        \* packets sent, not yet received by the peer
   ahead |-> FALSE]     \* history: has handle_special counted a ZLB?

(* new_call, with the state and cid its maker gives it. *)
NewCall(state, cid) ==
  [state |-> state, cid |-> cid, needclose |-> FALSE, closing |-> FALSE,
   closeSs |-> 0, pppd |-> "none"]

AddCall(s, id, c) ==
  [s EXCEPT !.made = @ + 1,
            !.calls = [i \in DOMAIN @ \cup {id} |-> IF i = id THEN c ELSE @[i]]]

Init ==
  /\ kernel \in BOOLEAN
  /\ end = [e \in Ends |-> NewEnd]
  /\ looped = [e \in Ends |-> TRUE]
  /\ stops = [e \in Ends |-> 0]

-----------------------------------------------------------------------------
(* Sending *)

(* add_control_hdr and control_xmit for a message on the peer's call cid;  *)
(* acid is the Assigned Call ID.                                           *)
Transmit(s, type, cid, acid) ==
  [s EXCEPT !.out = Append(@, [type |-> type, cid |-> cid, acid |-> acid,
                               ns |-> s.ss, nr |-> s.rr]),
            !.ss = @ + 1]

(* control_zlb: the counter is not advanced. *)
Zlb(s, cid) ==
  [s EXCEPT !.out = Append(@, [type |-> "ZLB", cid |-> cid, acid |-> NoCid,
                               ns |-> s.ss, nr |-> s.rr])]

(* destroy_call, as far as the tunnel is concerned. *)
DestroyCall(s, id) ==
  [s EXCEPT !.calls = [i \in DOMAIN @ \ {id} |-> @[i]]]

CallClose_Silent(s, id) == DestroyCall(s, id)

(* call_close of a call: the CDN goes out first, the call goes when it is  *)
(* closing already.                                                        *)
CallClose(s, id) ==
  IF s.calls[id].closing THEN DestroyCall(s, id)
  ELSE [Transmit(s, "CDN", s.calls[id].cid, id) EXCEPT
          !.calls[id].closing = TRUE, !.calls[id].closeSs = s.ss]

(* call_close of the tunnel, destroy_tunnel when it is closing already. *)
TunnelClose(s) ==
  IF s.self.closing THEN [s EXCEPT !.alive = FALSE, !.calls = <<>>]
  ELSE [Transmit(s, "StopCCN", NoCid, NoCid) EXCEPT
          !.self.closing = TRUE, !.self.closeSs = s.ss, !.calls = <<>>]

-----------------------------------------------------------------------------
(* Receiving *)

(* The call of the packet, or of the tunnel, is answered with a ZLB. *)
Acked(s, cid) == Zlb(s, cid)

(* start_pppd; its result is not looked at. *)
StartPppd == {"running"} \cup IF "pppd" \in Faults THEN {"none"} ELSE {}

(* The message type is wrong for the state of the call: the call is to be  *)
(* closed.                                                                 *)
BadMessage(s, id) ==
  {Acked([s EXCEPT !.calls[id].needclose = TRUE], s.calls[id].cid)}

HandleICRQ_NoReply(s, m) ==
  {Acked(AddCall(s, OurCid("lns", s.made + 1), NewCall("ICRP", m.acid)), NoCid)}

(* ICRQ, received on the tunnel by the LNS: a call is made for it, and     *)
(* refused with a CDN or answered.                                         *)
HandleICRQ(s, m) ==
  LET id == OurCid("lns", s.made + 1)
      p  == NewCall("none", m.acid)
      refused ==
        CallClose([AddCall(s, id, p) EXCEPT !.calls[id].needclose = TRUE], id)
      answered ==
        Transmit(AddCall(s, id, [p EXCEPT !.state = "ICRP"]), "ICRP",
                 m.acid, id)
  IN  {Acked(answered, NoCid)}
      \cup IF "noaddr" \in Faults THEN {Acked(refused, NoCid)} ELSE {}

HandleICRP_Head(s, id, m) ==
  LET head == CHOOSE i \in DOMAIN s.calls : \A j \in DOMAIN s.calls : i >= j
  IN  {[Transmit(s, "ICCN", m.acid, NoCid) EXCEPT
          !.calls[head].cid = m.acid, !.calls[id].state = "ICCN",
          !.calls[id].pppd = "running"]}

(* ICRP: the call is up for the LAC, and pppd is started. *)
HandleICRP(s, id, m) ==
  IF s.calls[id].state # "ICRQ" THEN BadMessage(s, id)
  ELSE {[Transmit(s, "ICCN", m.acid, NoCid) EXCEPT
           !.calls[id].cid = m.acid, !.calls[id].state = "ICCN",
           !.calls[id].pppd = p] : p \in StartPppd}

(* ICCN: the call is up for the LNS, unless no local address is left. *)
HandleICCN(s, id) ==
  LET cid == s.calls[id].cid
      up  == [s EXCEPT !.calls[id].state = "ICCN"]
  IN  IF s.calls[id].state # "ICRP" THEN BadMessage(s, id)
      ELSE {Acked([up EXCEPT !.calls[id].pppd = p], cid) : p \in StartPppd}
           \cup IF "noaddr" \in Faults
                THEN {Acked(CallClose([up EXCEPT !.calls[id].needclose = TRUE],
                                      id), cid)}
                ELSE {}

(* CDN on a call: it must name the peer's ID of the call, if one is known. *)
HandleCDN(s, id, m) ==
  LET c == s.calls[id]
  IN  IF m.acid # c.cid /\ c.cid # NoCid THEN {Acked(s, c.cid)}
      ELSE {Acked([s EXCEPT !.calls[id].needclose = FALSE,
                            !.calls[id].closing = TRUE], c.cid)}

(* CDN on the tunnel: the call it names is looked up, and c, which is the  *)
(* tunnel, is marked.                                                      *)
HandleTunnelCDN(s, m) ==
  IF \E id \in DOMAIN s.calls : s.calls[id].cid = m.acid
  THEN {Acked([s EXCEPT !.self.needclose = FALSE, !.self.closing = TRUE],
              NoCid)}
  ELSE {Acked(s, NoCid)}

(* StopCCN: the tunnel goes in the next closing pass. *)
HandleStopCCN(s) ==
  {Acked([s EXCEPT !.self.needclose = FALSE, !.self.closing = TRUE], NoCid)}

HandleZLB_NeverDone(s, id) == {[s EXCEPT !.rr = @ - 1]}

(* A ZLB for a call or a tunnel that waits for the answer to its CDN or    *)
(* StopCCN; check_control has counted the ZLB, which is undone.            *)
HandleZLB(s, id) ==
  LET u == [s EXCEPT !.rr = @ - 1]
      done(c) == c.needclose /\ c.closing /\ u.cLr >= c.closeSs
  IN  {IF id = NoCid
       THEN IF done(u.self) THEN [u EXCEPT !.self.needclose = FALSE] ELSE u
       ELSE IF done(u.calls[id]) THEN [u EXCEPT !.calls[id].needclose = FALSE]
            ELSE u}

(* check_control, for a packet in order: count it, note what it acks. *)
Checked(s, m) == [s EXCEPT !.rr = @ + 1, !.cLr = m.nr]

(* handle_avps and control_finish on call id, or on the tunnel. *)
HandleControl(s, id, m) ==
  CASE m.type = "ZLB"     -> HandleZLB(s, id)
    [] m.type = "ICRQ"    -> HandleICRQ(s, m)
    [] m.type = "ICRP"    -> HandleICRP(s, id, m)
    [] m.type = "ICCN"    -> HandleICCN(s, id)
    [] m.type = "CDN"     -> IF id = NoCid THEN HandleTunnelCDN(s, m)
                             ELSE HandleCDN(s, id, m)
    [] m.type = "StopCCN" -> HandleStopCCN(s)

(* handle_special: a packet on a call that does not exist.  A ZLB is       *)
(* ignored, though check_control has counted it; the rest is acknowledged  *)
(* on that call number.                                                    *)
HandleSpecial(s, m) ==
  IF m.type = "ZLB" THEN {[s EXCEPT !.ahead = TRUE]} ELSE {Zlb(s, m.cid)}

(* get_call and handle_packet for the next packet of the socket. *)
HandlePacket(s, m) ==
  LET known == m.cid = NoCid \/ m.cid \in DOMAIN s.calls
      reply == IF m.cid \in DOMAIN s.calls THEN s.calls[m.cid].cid ELSE m.cid
  IN  CASE m.ns = s.rr /\ known -> HandleControl(Checked(s, m), m.cid, m)
        [] m.ns = s.rr /\ ~known -> HandleSpecial(Checked(s, m), m)
        [] m.ns < s.rr /\ m.type # "ZLB" -> {Zlb(s, reply)}
        [] OTHER -> {s}

-----------------------------------------------------------------------------
(* The main loop *)

(* child_handler for a call whose pppd has died. *)
ChildHandler(s, id) ==
  LET c == [s EXCEPT !.calls[id].pppd = "none", !.calls[id].needclose = TRUE]
  IN  IF kernel THEN CallClose(c, id) ELSE c

(* Marked for closing, and not waiting for an answer (build_fdset). *)
Marked(c) == c.needclose # c.closing

(* One call, looked at by a pass over the calls: process_signal reaps its  *)
(* pppd, build_fdset closes it.                                            *)
Visit(pass, s, id) ==
  CASE pass = "signals" /\ id \in DOMAIN s.calls /\ s.calls[id].pppd = "dead"
         -> ChildHandler(s, id)
    [] pass = "closing" /\ id \in DOMAIN s.calls /\ Marked(s.calls[id])
         -> CallClose(s, id)
    [] OTHER -> s

(* A pass over the calls in the order of t->call_head, the newest first:   *)
(* what is left when the numbers down to 2 * MaxCalls - n have been seen.  *)
OverCalls(pass, s) ==
  LET left[n \in 0 .. 2 * MaxCalls] ==
        IF n = 0 THEN s ELSE Visit(pass, left[n - 1], 2 * MaxCalls + 1 - n)
  IN  left[2 * MaxCalls]

(* process_signal *)
Signals(s) == OverCalls("signals", s)

(* build_fdset: what is marked is closed, the tunnel last. *)
ClosingPass(s) ==
  LET t == OverCalls("closing", s)
  IN  IF Marked(t.self) THEN TunnelClose(t) ELSE t

Loop(e) ==
  /\ end[e].alive
  /\ end' = [end EXCEPT ![e] = ClosingPass(Signals(@))]
  /\ looped' = [looped EXCEPT ![e] = TRUE]
  /\ UNCHANGED <<kernel, stops>>

(* One packet is read and handled; a tunnel that is gone drops it. *)
Receive(e) ==
  LET p == Peer(e)
      m == Head(end[p].out)
  IN  /\ looped[e]
      /\ end[p].out # <<>>
      /\ \E s \in IF end[e].alive THEN HandlePacket(end[e], m) ELSE {end[e]} :
           end' = [end EXCEPT ![p].out = Tail(@), ![e] = s]
      /\ looped' = [looped EXCEPT ![e] = ~end[e].alive]
      /\ UNCHANGED <<kernel, stops>>

(* lac_call: a new call is put on the tunnel and asked for. *)
Dial ==
  LET s == end["lac"]
      id == OurCid("lac", s.made + 1)
  IN  /\ s.alive /\ s.made < MaxCalls
      /\ end' = [end EXCEPT !["lac"] =
                   Transmit(AddCall(s, id, NewCall("ICRQ", NoCid)), "ICRQ",
                            NoCid, id)]
      /\ UNCHANGED <<kernel, looped, stops>>

(* pppd of a call ends: the peer hung up, lac_hangup, or an error. *)
PppdDies(e, id) ==
  /\ end[e].alive /\ id \in DOMAIN end[e].calls
  /\ end[e].calls[id].pppd = "running"
  /\ end' = [end EXCEPT ![e].calls[id].pppd = "dead"]
  /\ UNCHANGED <<kernel, looped, stops>>

(* The foreign LAC of the fault "early" gives an unanswered call up. *)
EarlyHangUp(id) ==
  /\ "early" \in Faults
  /\ end["lac"].alive /\ id \in DOMAIN end["lac"].calls
  /\ end["lac"].calls[id].state = "ICRQ"
  /\ ~end["lac"].calls[id].needclose /\ ~end["lac"].calls[id].closing
  /\ end' = [end EXCEPT !["lac"].calls[id].needclose = TRUE]
  /\ UNCHANGED <<kernel, looped, stops>>

(* lac_disconnect *)
Disconnect(e) ==
  /\ end[e].alive /\ stops[e] < MaxStops
  /\ end' = [end EXCEPT ![e] = TunnelClose([@ EXCEPT !.self.needclose = TRUE])]
  /\ stops' = [stops EXCEPT ![e] = @ + 1]
  /\ UNCHANGED <<kernel, looped>>

(* The peer is gone and answers nothing: the retransmissions of Hello or   *)
(* StopCCN run out (see ControlChannel).                                   *)
GiveUp(e) ==
  /\ end[e].alive /\ ~end[Peer(e)].alive /\ end[Peer(e)].out = <<>>
  /\ end' = [end EXCEPT ![e].alive = FALSE, ![e].calls = <<>>]
  /\ UNCHANGED <<kernel, looped, stops>>

Next ==
  \/ Dial
  \/ \E e \in Ends : Loop(e) \/ Receive(e) \/ Disconnect(e) \/ GiveUp(e)
  \/ \E e \in Ends, id \in 1 .. 2 * MaxCalls : PppdDies(e, id)
  \/ \E id \in 1 .. MaxCalls : EarlyHangUp(id)

(* The closing pass of e has something to do: Loop(e) would change the     *)
(* state.                                                                  *)
ToDo(e) ==
  /\ end[e].alive
  /\ \/ ~looped[e] \/ Marked(end[e].self)
     \/ \E id \in DOMAIN end[e].calls :
          Marked(end[e].calls[id]) \/ end[e].calls[id].pppd = "dead"

(* The loop of each daemon runs and packets arrive.  The first conjunct is *)
(* weak fairness of Loop(e), with the condition that enables it written    *)
(* out.                                                                    *)
Fairness ==
  \A e \in Ends :
    /\ <>[]ToDo(e) => []<><<Loop(e)>>_vars
    /\ WF_vars(Receive(e)) /\ WF_vars(GiveUp(e))

Spec == Init /\ [][Next]_vars

FairSpec == Spec /\ Fairness

-----------------------------------------------------------------------------
(* Properties *)

Open(c) == ~c.needclose /\ ~c.closing

Exists(e, id) == id \in DOMAIN end[e].calls

(* The packets on their way to an end. *)
ToEnd(e) == {end[Peer(e)].out[i] : i \in 1 .. Len(end[Peer(e)].out)}

(* The two ends of a call name each other: if the peer has the call an end *)
(* knows the ID of, that call names this one, or has no ID yet (cid and    *)
(* ourcid of struct call).                                                 *)
CallsPaired ==
  \A e \in Ends : \A id \in DOMAIN end[e].calls :
    LET c == end[e].calls[id]
        mate == end[Peer(e)].calls[c.cid]
    IN  c.cid # NoCid /\ Exists(Peer(e), c.cid)
          => mate.cid = id \/ (mate.cid = NoCid /\ mate.state = "ICRQ")

(* A call that is up at one end and not being closed is never left behind: *)
(* the peer still has it, or the CDN or StopCCN that ends it is on its     *)
(* way and will be accepted, or one of the tunnels is going.  This is said *)
(* of an end whose handle_special has counted no ZLB: one that has drops   *)
(* the next message, a CDN too (StillExpected).                            *)
NoneLeftBehind ==
  \A e \in Ends : \A id \in DOMAIN end[e].calls :
    LET c == end[e].calls[id]
    IN  c.state = "ICCN" /\ Open(c) /\ ~end[e].ahead =>
          \/ Exists(Peer(e), c.cid) \/ ~end[Peer(e)].alive
          \/ end[e].self.closing
          \/ \E m \in ToEnd(e) : /\ m.ns >= end[e].rr
                                 /\ \/ m.type = "StopCCN"
                                    \/ m.type = "CDN" /\ m.cid = id

(* Nothing is lost between two daemons on a network that loses nothing: a  *)
(* message on its way is one the receiver still expects.  handle_special   *)
(* says of a ZLB for a closed call "we ignore it".                         *)
StillExpected ==
  \A e \in Ends : \A m \in ToEnd(e) :
    end[e].alive /\ m.type # "ZLB" => m.ns >= end[e].rr

(* An end has counted a ZLB for a call it had closed, and drops the next   *)
(* message of its peer (StillExpected).                                    *)
OutOfStep == \E e \in Ends : end[e].ahead

(* A call that is being closed is gone in the end: "It's time to reap them *)
(* and close that call" (child_handler).  Three cases are left out: a call *)
(* the LNS refuses, whose CDN the LAC acknowledges on call 0, as it has    *)
(* not learned the LNS's number; without kernel support, a call whose pppd *)
(* dies between a CDN and the closing pass; and a tunnel on which          *)
(* handle_special has counted a ZLB.                                       *)
CloseCompletes ==
  \A e \in Ends, n \in 1 .. MaxCalls :
    LET id == OurCid(e, n)
    IN  /\ kernel /\ Exists(e, id)
        /\ ~Open(end[e].calls[id]) /\ end[e].calls[id].state # "none"
        ~> ~Exists(e, id) \/ OutOfStep

(* Every call the LAC asks for is answered, refused, or lost with its      *)
(* tunnel, whatever becomes of the other calls of the tunnel; unless       *)
(* handle_special has counted a ZLB and the answer may be the message it   *)
(* then drops.                                                             *)
RequestAnswered ==
  \A id \in 1 .. MaxCalls :
    Exists("lac", id) /\ end["lac"].calls[id].state = "ICRQ"
      ~> \/ Exists("lac", id) => end["lac"].calls[id].state # "ICRQ"
         \/ OutOfStep
=============================================================================
