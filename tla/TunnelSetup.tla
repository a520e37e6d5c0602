---------------------------- MODULE TunnelSetup ----------------------------
(***************************************************************************)
(* Setting up tunnels with SCCRQ, SCCRP and SCCCN: the cases of            *)
(* control_finish with the guards of message_type_avp, the challenge and   *)
(* response of aaa.c, and the tunnels an LNS makes for every SCCRQ         *)
(* (control.c, avp.c, aaa.c, call.c, xl2tpd.c).                            *)
(*                                                                         *)
(* One LAC and one LNS; each has many tunnels in its time.  The network is *)
(* the set of packets ever sent: any of them may arrive late, again or     *)
(* never, which covers the retransmissions of control_xmit.  An end may be *)
(* restarted, and forgets its tunnels.  Tunnel numbers, drawn at random by *)
(* new_tunnel, are taken to be distinct.                                   *)
(***************************************************************************)
EXTENDS Integers, FiniteSets

CONSTANTS
  LacTids, LnsTids,   \* bound: tunnels each end makes in all
  Secrets, NoSecret,  \* what get_secret may find
  Confs               \* the configurations to look at

ASSUME SetupAssumption ==
  /\ LacTids \subseteq Nat \ {0} /\ LnsTids \subseteq Nat \ {0}
  /\ LacTids \cap LnsTids = {}
  /\ Confs \subseteq [lacSecret : Secrets \cup {NoSecret},
                     lnsSecret : Secrets \cup {NoSecret},
                     lacChallenge : BOOLEAN, lnsChallenge : BOOLEAN,
                     allowed : BOOLEAN]

VARIABLES
  conf,     \* the configuration files of the two ends
  tun,      \* the tunnel of each number
  sent,     \* every packet ever sent
  up        \* history: triples <<end, LAC tunnel, LNS tunnel>> established

vars == <<conf, tun, sent, up>>

(* What get_secret finds for the peer, or NoSecret. *)
LacSecret == conf.lacSecret

LnsSecret == conf.lnsSecret

(* lac->challenge and lns->challenge. *)
LacChallenge == conf.lacChallenge

LnsChallenge == conf.lnsChallenge

Tids == LacTids \cup LnsTids

NoTid == 0

(* new_tunnel; "unused": not made yet, "none": t->state is 0.  The field    *)
(* chal is chal_them.state: does the tunnel await a response?              *)
NewTunnel ==
  [state |-> "unused", tid |-> NoTid, ss |-> 0, rr |-> 0, cLr |-> 0,
   chal |-> FALSE, closing |-> FALSE]

Init ==
  /\ conf \in Confs
  /\ tun = [t \in Tids |-> NewTunnel]
  /\ sent = {}
  /\ up = {}

(* Is the tunnel in the list of tunnels? *)
Live(t) == tun[t].state \notin {"unused", "gone"}

NoAvp == <<>>

(* mk_challenge: the challenge tunnel t sends. *)
ChallengeOf(t) == <<t>>

(* handle_challenge: the digest of the message type, the secret and the    *)
(* challenge; nothing when there is no secret.                             *)
Response(ss, secret, chal) ==
  IF secret = NoSecret THEN NoAvp ELSE <<ss, secret, chal>>

(* add_control_hdr: a message of tunnel t, whose record is r, with its     *)
(* Challenge and Challenge Response AVPs.                                  *)
Packet(type, t, r, chal, resp) ==
  [type |-> type, src |-> t, to |-> r.tid, ns |-> r.ss, nr |-> r.rr,
   chal |-> chal, resp |-> resp]

(* control_zlb: the acknowledgement of a message without an answer. *)
ZLB(t, r) == Packet("ZLB", t, r, NoAvp, NoAvp)

(* call_close of the tunnel: StopCCN. *)
StopCCN(t, r) == Packet("StopCCN", t, r, NoAvp, NoAvp)

Closed(r) == [r EXCEPT !.closing = TRUE, !.ss = @ + 1]

Gone(r) == [r EXCEPT !.state = "gone"]

-----------------------------------------------------------------------------

(* l2tp_call and the first case of control_finish: SCCRQ. *)
Dial(l) ==
  LET r == [NewTunnel EXCEPT !.state = "SCCRQ", !.chal = LacChallenge]
  IN  /\ tun[l].state = "unused"
      /\ tun' = [tun EXCEPT ![l] = [r EXCEPT !.ss = 1]]
      /\ sent' = sent \cup {Packet("SCCRQ", l, r,
                                   IF LacChallenge THEN ChallengeOf(l)
                                   ELSE NoAvp, NoAvp)}
      /\ UNCHANGED <<conf, up>>

Requested_NotChecked(l) == FALSE

(* Another tunnel of the list has the peer's tunnel number. *)
Requested(l) == \E y \in LnsTids : Live(y) /\ tun[y].tid = l

(* get_lns finds an LNS section that takes the peer. *)
GetLns == conf.allowed

(* handle_challenge finds no secret to check a response with. *)
Keyless == LnsChallenge /\ LnsSecret = NoSecret

(* SCCRQ: get_call makes tunnel t for it.  A request that get_lns does not *)
(* allow is closed; a second request for the same tunnel is dropped, and   *)
(* acknowledged; one the LNS has no secret to challenge with is closed;    *)
(* the others are answered.                                                *)
RecvSCCRQ(p, t) ==
  LET r == [NewTunnel EXCEPT !.state = "none", !.tid = p.src, !.rr = 1,
                             !.cLr = p.nr]
      answered == [r EXCEPT !.state = "SCCRP"]
  IN  /\ p.type = "SCCRQ"
      /\ tun[t].state = "unused"
      /\ \/ /\ ~GetLns
            /\ tun' = [tun EXCEPT ![t] = Closed(r)]
            /\ sent' = sent \cup {ZLB(t, r), StopCCN(t, r)}
         \/ /\ GetLns /\ Requested(p.src)
            /\ tun' = [tun EXCEPT ![t] = Gone(r)]
            /\ sent' = sent \cup {ZLB(t, r)}
         \/ /\ GetLns /\ ~Requested(p.src) /\ Keyless
            /\ tun' = [tun EXCEPT ![t] = Closed(answered)]
            /\ sent' = sent \cup {ZLB(t, r), StopCCN(t, r)}
         \/ /\ GetLns /\ ~Requested(p.src) /\ ~Keyless
            /\ tun' = [tun EXCEPT ![t] = [answered EXCEPT !.ss = 1,
                                           !.chal = LnsChallenge]]
            /\ sent' = sent \cup
                 {Packet("SCCRP", t, r,
                         IF LnsChallenge THEN ChallengeOf(t) ELSE NoAvp,
                         IF p.chal = NoAvp THEN NoAvp
                         ELSE Response("SCCRP", LnsSecret, p.chal))}
      /\ UNCHANGED <<conf, up>>

(* check_control: p is the next message for tunnel t. *)
InOrder(p, t) == p.to = t /\ Live(t) /\ tun[t].rr = p.ns

(* What check_control makes of the record of tunnel t. *)
Counted(p, t) == [tun[t] EXCEPT !.rr = @ + 1, !.cLr = p.nr]

(* A message that failed, with needclose set: acknowledged, and the tunnel *)
(* closed; one that is already closing, with needclose and closing both    *)
(* set, goes on waiting for the answer to its StopCCN.                     *)
Refuse(t, r) ==
  /\ tun' = [tun EXCEPT ![t] = IF r.closing THEN r ELSE Closed(r)]
  /\ sent' = sent \cup (IF r.closing THEN {ZLB(t, r)}
                        ELSE {ZLB(t, r), StopCCN(t, r)})
  /\ UNCHANGED <<conf, up>>

LacAuthFails_Unchecked(l, p) == tun[l].chal /\ LacSecret = NoSecret

(* SCCRP: the reply to our challenge is wrong, or there is no secret. *)
LacAuthFails(l, p) ==
  \/ tun[l].chal /\ LacSecret = NoSecret
  \/ tun[l].chal /\ p.resp # Response("SCCRP", LacSecret, ChallengeOf(l))
  \/ p.chal # NoAvp /\ LacSecret = NoSecret

(* SCCRP: the LAC's tunnel is up, and SCCCN is sent, or it is closed. *)
RecvSCCRP(p, l) ==
  LET r == [Counted(p, l) EXCEPT !.tid = p.src]
  IN  /\ p.type = "SCCRP" /\ InOrder(p, l)
      /\ tun[l].state = "SCCRQ"
      /\ \/ LacAuthFails(l, p) /\ Refuse(l, r)
         \/ /\ ~LacAuthFails(l, p)
            /\ tun' = [tun EXCEPT ![l] = [r EXCEPT !.state = "SCCCN",
                                                   !.ss = @ + 1]]
            /\ sent' = sent \cup
                 {Packet("SCCCN", l, r, NoAvp,
                         IF p.chal = NoAvp THEN NoAvp
                         ELSE Response("SCCCN", LacSecret, p.chal))}
            /\ up' = up \cup {<<"lac", l, p.src>>}
            /\ UNCHANGED conf

(* SCCCN: the reply to our challenge is wrong. *)
LnsAuthFails(t, p) ==
  tun[t].chal /\ p.resp # Response("SCCCN", LnsSecret, ChallengeOf(t))

(* SCCCN: the LNS's tunnel is up, or it is closed. *)
RecvSCCCN(p, t) ==
  LET r == Counted(p, t)
  IN  /\ p.type = "SCCCN" /\ InOrder(p, t)
      /\ tun[t].state = "SCCRP"
      /\ \/ LnsAuthFails(t, p) /\ Refuse(t, r)
         \/ /\ ~LnsAuthFails(t, p)
            /\ tun' = [tun EXCEPT ![t] = [r EXCEPT !.state = "SCCCN"]]
            /\ sent' = sent \cup {ZLB(t, r)}
            /\ up' = up \cup {<<"lns", r.tid, t>>}
            /\ UNCHANGED conf

(* StopCCN: the tunnel goes, unless the message is another tunnel's.  With *)
(* tunnel number 0 it does nothing: check_control takes back the tunnel    *)
(* made for it, as it is not the first message of one.                     *)
RecvStopCCN(p, t) ==
  LET r == Counted(p, t)
  IN  /\ p.type = "StopCCN" /\ InOrder(p, t)
      /\ tun' = [tun EXCEPT ![t] =
                   IF r.tid \in {NoTid, p.src} THEN Gone(r) ELSE r]
      /\ sent' = sent \cup {ZLB(t, r)}
      /\ UNCHANGED <<conf, up>>

(* A ZLB says what the peer has received. *)
RecvZLB(p, t) ==
  /\ p.type = "ZLB" /\ InOrder(p, t)
  /\ tun' = [tun EXCEPT ![t].cLr = p.nr]
  /\ UNCHANGED <<conf, sent, up>>

(* A message that was counted before is acknowledged again. *)
RecvOld(p, t) ==
  /\ p.type # "ZLB" /\ p.to = t /\ Live(t) /\ p.ns < tun[t].rr
  /\ sent' = sent \cup {ZLB(t, tun[t])}
  /\ UNCHANGED <<conf, tun, up>>

GiveUp_Never(t) == FALSE /\ UNCHANGED vars

(* A disconnect command, or control_xmit has run out of retries. *)
GiveUp(t) ==
  /\ Live(t) /\ ~tun[t].closing
  /\ tun' = [tun EXCEPT ![t] = Closed(@)]
  /\ sent' = sent \cup {StopCCN(t, tun[t])}
  /\ UNCHANGED <<conf, up>>

(* The StopCCN is acknowledged, or has run out of retries. *)
Finish(t) ==
  /\ Live(t) /\ tun[t].closing
  /\ tun' = [tun EXCEPT ![t] = Gone(@)]
  /\ UNCHANGED <<conf, sent, up>>

(* The daemon with the tunnels ts is restarted. *)
Restart(ts) ==
  /\ \E t \in ts : Live(t)
  /\ tun' = [t \in Tids |-> IF t \in ts /\ Live(t) THEN Gone(tun[t])
                            ELSE tun[t]]
  /\ UNCHANGED <<conf, sent, up>>

Next ==
  \/ \E l \in LacTids : Dial(l)
  \/ \E p \in sent :
       \/ \E t \in LnsTids : RecvSCCRQ(p, t) \/ RecvSCCCN(p, t)
       \/ \E l \in LacTids : RecvSCCRP(p, l)
       \/ \E t \in Tids : RecvStopCCN(p, t) \/ RecvZLB(p, t) \/ RecvOld(p, t)
  \/ \E t \in Tids : GiveUp(t) \/ Finish(t)
  \/ Restart(LacTids) \/ Restart(LnsTids)

(* A message that is not acknowledged runs out of retries.  An established *)
(* tunnel need never end, and no packet need ever arrive.                  *)
Fairness ==
  \A t \in Tids :
    /\ WF_vars(tun[t].cLr < tun[t].ss /\ GiveUp(t))
    /\ WF_vars(Finish(t))

Spec == Init /\ [][Next]_vars

FairSpec == Spec /\ Fairness

-----------------------------------------------------------------------------
(* Properties *)

(* Tunnels and packets have their types: t->state is one of the set-up's,  *)
(* no counter goes below zero, and what came up joins a LAC to an LNS.     *)
TypeOK ==
  /\ conf \in Confs
  /\ tun \in [Tids -> [state : {"unused", "none", "SCCRQ", "SCCRP", "SCCCN", "gone"},
                       tid : Tids \cup {NoTid}, ss : Nat, rr : Nat,
                       cLr : Nat, chal : BOOLEAN, closing : BOOLEAN]]
  /\ \A p \in sent :
       /\ p.type \in {"SCCRQ", "SCCRP", "SCCCN", "StopCCN", "ZLB"}
       /\ p.src \in Tids /\ p.to \in Tids \cup {NoTid}
       /\ p.ns \in Nat /\ p.nr \in Nat
  /\ up \subseteq {"lac", "lns"} \X LacTids \X LnsTids

Answered(t) == tun[t].state \in {"SCCRP", "SCCCN"}

(* The LNS holds at most one answered tunnel for a tunnel of the LAC,      *)
(* however often its SCCRQ arrives: "Peer requested tunnel %d twice,       *)
(* ignoring second one" (control_finish).                                  *)
OneTunnelPerRequest ==
  \A t, u \in LnsTids :
    Answered(t) /\ Answered(u) /\ tun[t].tid = tun[u].tid => t = u

SameSecret == LacSecret = LnsSecret /\ LacSecret # NoSecret

(* The LAC's tunnel comes up only if the LNS allows it, if both have the   *)
(* secret the LAC asked for, and if both have some secret when the LNS     *)
(* asked for one.                                                          *)
LacTrust ==
  /\ GetLns
  /\ LacChallenge => SameSecret
  /\ LnsChallenge => NoSecret \notin {LacSecret, LnsSecret}

LnsTrust == GetLns /\ (LnsChallenge => SameSecret)

(* The set-up is that of Handshake: first the LAC, then the LNS, once, and *)
(* nobody who asked for authentication joins a peer without the secret,    *)
(* whatever is lost, late, repeated, or forgotten in a restart.            *)
H == INSTANCE Handshake WITH lacTrusts <- LacTrust, lnsTrusts <- LnsTrust

ImplementsHandshake == H!Spec

(* Does the LAC refuse the SCCRP of an LNS that answers it? *)
LacRefuses ==
  /\ GetLns /\ ~Keyless
  /\ (LacChallenge /\ ~SameSecret) \/ (LnsChallenge /\ LacSecret = NoSecret)

(* A tunnel the LNS has made comes up or goes: its SCCRP or its StopCCN is *)
(* answered or runs out of retries (control_xmit), whatever the network    *)
(* does and whoever restarts.  Only a LAC that refuses the SCCRP can leave *)
(* it waiting for ever, as it acknowledges the SCCRP apart from its own    *)
(* StopCCN, which may be lost.                                             *)
LnsResolved ==
  \A t \in LnsTids :
    Live(t) /\ ~LacRefuses ~> tun[t].state \in {"SCCCN", "gone"}
=============================================================================
