------------------------- MODULE TunnelSetupProofs -------------------------
(***************************************************************************)
(* Proofs about TunnelSetup, for any sets of tunnels, any secrets and any  *)
(* configuration: its types, that a repeated SCCRQ makes no second tunnel, *)
(* and that it implements Handshake.                                       *)
(*                                                                         *)
(* The inductive invariant says of every packet ever sent what its         *)
(* receiver may conclude from it, and of the tunnels that the history up   *)
(* agrees with their states.                                               *)
(***************************************************************************)
EXTENDS TunnelSetup, TLAPS

States == {"unused", "none", "SCCRQ", "SCCRP", "SCCCN", "gone"}

Record == [state : States, tid : Tids \cup {NoTid}, ss : Nat, rr : Nat,
           cLr : Nat, chal : BOOLEAN, closing : BOOLEAN]

(* An SCCRP is of a tunnel made for the LAC's tunnel it goes to, by an LNS *)
(* that allows it and can check a response.                                *)
ReplyOK(p) ==
  /\ p.src \in LnsTids /\ GetLns /\ ~Keyless
  /\ tun[p.src].state # "unused"
  /\ tun[p.src].tid \in LacTids /\ p.to = tun[p.src].tid
  /\ tun[p.src].chal = LnsChallenge
  /\ LnsChallenge => p.chal # NoAvp
  /\ p.resp # NoAvp => p.resp[2] = LnsSecret

(* An SCCCN is of a LAC's tunnel that is joined to the LNS's.  *)
ConnectOK(p) ==
  /\ p.src \in LacTids /\ p.to \in LnsTids
  /\ <<"lac", p.src, p.to>> \in up
  /\ GetLns /\ ~Keyless
  /\ tun[p.to].state # "unused"
  /\ tun[p.to].tid = p.src
  /\ tun[p.to].chal = LnsChallenge
  /\ p.resp # NoAvp => p.resp[2] = LacSecret

PacketOK(p) ==
  /\ p.type \in {"SCCRQ", "SCCRP", "SCCCN", "StopCCN", "ZLB"}
  /\ p.src \in Tids /\ p.to \in Tids \cup {NoTid}
  /\ p.ns \in Nat /\ p.nr \in Nat
  /\ p.type = "SCCRQ" => p.src \in LacTids
  /\ p.type = "SCCRP" => ReplyOK(p)
  /\ p.type = "SCCCN" => ConnectOK(p)

Packets == \A p \in sent : PacketOK(p)

(* The tunnels of each end have the states of its side. *)
Sides ==
  /\ \A l \in LacTids :
       /\ tun[l].state \in {"unused", "SCCRQ", "SCCCN", "gone"}
       /\ tun[l].state = "SCCRQ" => tun[l].chal = LacChallenge
  /\ \A t \in LnsTids : tun[t].state # "SCCRQ"

(* A tunnel of the LAC is joined once. *)
LacJoined ==
  \A l \in LacTids, t \in LnsTids : <<"lac", l, t>> \in up =>
    /\ tun[l].state \in {"SCCCN", "gone"}
    /\ \A u \in LnsTids : <<"lac", l, u>> \in up => u = t

(* A tunnel of the LNS is joined once, and after the LAC's. *)
LnsJoined ==
  \A l \in LacTids, t \in LnsTids : <<"lns", l, t>> \in up =>
    <<"lac", l, t>> \in up /\ tun[t].state \in {"SCCCN", "gone"}

IInv ==
  /\ conf \in Confs
  /\ tun \in [Tids -> Record]
  /\ up \subseteq {"lac", "lns"} \X LacTids \X LnsTids
  /\ Packets
  /\ Sides
  /\ LacJoined
  /\ LnsJoined
  /\ OneTunnelPerRequest

-----------------------------------------------------------------------------
(* What IInv is for: it implies the invariants of the runs. *)
LEMMA Implied == IInv => TypeOK
  <1> SUFFICES ASSUME IInv PROVE TypeOK
    OBVIOUS
  <1>1. tun \in [Tids -> Record] /\ up \subseteq {"lac", "lns"} \X LacTids \X LnsTids
    BY DEF IInv
  <1>2. \A p \in sent : PacketOK(p)
    BY DEF IInv, Packets
  <1>3. conf \in Confs
    BY DEF IInv
  <1> QED BY <1>1, <1>2, <1>3 DEF TypeOK, Record, States, PacketOK

(* The two sides have no tunnel in common, and 0 is no tunnel. *)
LEMMA Distinct ==
  /\ Tids = LacTids \cup LnsTids
  /\ \A l \in LacTids : l \notin LnsTids /\ l # NoTid
  /\ \A t \in LnsTids : t \notin LacTids /\ t # NoTid
  BY SetupAssumption DEF Tids, NoTid

(* The configuration has its types, and does not change. *)
LEMMA ConfTyped ==
  ASSUME conf \in Confs
  PROVE  LacChallenge \in BOOLEAN /\ LnsChallenge \in BOOLEAN /\ GetLns \in BOOLEAN
  BY SetupAssumption DEF LacChallenge, LnsChallenge, GetLns

LEMMA ConfKept ==
  ASSUME conf' = conf
  PROVE  /\ LacSecret' = LacSecret /\ LnsSecret' = LnsSecret
         /\ LacChallenge' = LacChallenge /\ LnsChallenge' = LnsChallenge
         /\ GetLns' = GetLns /\ Keyless' = Keyless
         /\ LacTrust' = LacTrust /\ LnsTrust' = LnsTrust
  BY DEF LacSecret, LnsSecret, LacChallenge, LnsChallenge, GetLns, Keyless,
         LacTrust, LnsTrust, SameSecret

(* Packets keep their meaning: a tunnel of the LNS keeps the number of its *)
(* peer and its challenge, and nothing leaves the history.                 *)
LEMMA OldPackets ==
  ASSUME Packets, conf' = conf, up \subseteq up',
         \A t \in LnsTids : tun[t].state # "unused" =>
           /\ tun'[t].state # "unused"
           /\ tun'[t].tid = tun[t].tid
           /\ tun'[t].chal = tun[t].chal
  PROVE  \A p \in sent : PacketOK(p)'
  <1> SUFFICES ASSUME NEW p \in sent PROVE PacketOK(p)'
    OBVIOUS
  <1>1. PacketOK(p)
    BY DEF Packets
  <1>2. p.type = "SCCRP" => ReplyOK(p)'
    BY <1>1, ConfKept DEF PacketOK, ReplyOK
  <1>3. p.type = "SCCCN" => ConnectOK(p)'
    BY <1>1, ConfKept DEF PacketOK, ConnectOK
  <1> QED BY <1>1, <1>2, <1>3 DEF PacketOK

(* What a new record r of tunnel t may be, after the record o. *)
Follows(t, o, r) ==
  /\ r.state # "unused"
  /\ t \in LacTids => /\ r.state \in {"SCCRQ", "SCCCN", "gone"}
                      /\ r.state = "SCCRQ" => r.chal = LacChallenge
  /\ t \in LnsTids => /\ r.state # "SCCRQ"
                      /\ o.state # "unused" => r.tid = o.tid /\ r.chal = o.chal
  /\ o.state \in {"SCCCN", "gone"} => r.state \in {"SCCCN", "gone"}

(* A step of tunnel t that sends the packets new and establishes nothing   *)
(* or one tunnel preserves the invariant, when the new packets are right   *)
(* and an answered tunnel of the LNS was answered before or is the only    *)
(* one of its peer.                                                        *)
LEMMA StepCore ==
  ASSUME IInv, conf' = conf, NEW t \in Tids, NEW r \in Record,
         tun' = [tun EXCEPT ![t] = r],
         Follows(t, tun[t], r),
         t \in LnsTids /\ r.state \in {"SCCRP", "SCCCN"} =>
           \/ Answered(t)
           \/ \A y \in LnsTids : Answered(y) => tun[y].tid # r.tid,
         NEW new, sent' = sent \cup new, \A p \in new : PacketOK(p)',
         up \subseteq up', up' \subseteq {"lac", "lns"} \X LacTids \X LnsTids
  PROVE  /\ tun' \in [Tids -> Record]
         /\ Packets' /\ Sides' /\ OneTunnelPerRequest'
  <1>1. tun \in [Tids -> Record] /\ Packets /\ Sides /\ OneTunnelPerRequest
    BY DEF IInv
  <1>2. /\ tun' \in [Tids -> Record]
        /\ tun'[t] = r
        /\ \A y \in Tids : y # t => tun'[y] = tun[y]
    BY <1>1
  <1>3. Packets'
    <2>1. \A y \in LnsTids : tun[y].state # "unused" =>
            /\ tun'[y].state # "unused"
            /\ tun'[y].tid = tun[y].tid
            /\ tun'[y].chal = tun[y].chal
      BY <1>2, Distinct DEF Follows
    <2>2. \A p \in sent : PacketOK(p)'
      BY <1>1, <2>1, OldPackets
    <2> QED BY <2>2 DEF Packets
  <1>4. Sides'
    BY <1>1, <1>2, Distinct, ConfKept DEF Sides, Follows
  <1>5. OneTunnelPerRequest'
    <2> SUFFICES ASSUME NEW x \in LnsTids, NEW y \in LnsTids,
                        Answered(x)', Answered(y)', tun'[x].tid = tun'[y].tid,
                        x # y
                 PROVE  FALSE
      BY DEF OneTunnelPerRequest
    <2>1. CASE x # t /\ y # t
      BY <1>1, <1>2, <2>1, Distinct DEF OneTunnelPerRequest, Answered
    <2>2. ASSUME NEW z \in LnsTids, t \in LnsTids, z # t, Answered(z)',
                 Answered(t)', tun'[z].tid = tun'[t].tid
          PROVE  FALSE
      <3>1. Answered(z) /\ tun[z].tid = r.tid /\ r.state \in {"SCCRP", "SCCCN"}
        BY <1>2, <2>2, Distinct DEF Answered
      <3>2. Answered(t) => r.tid = tun[t].tid
        BY <2>2 DEF Follows, Answered
      <3> QED BY <1>1, <2>2, <3>1, <3>2 DEF OneTunnelPerRequest
    <2> QED BY <2>1, <2>2
  <1> QED BY <1>2, <1>3, <1>4, <1>5

(* The same, for the steps that establish nothing. *)
LEMMA StepQuiet ==
  ASSUME IInv, conf' = conf, NEW t \in Tids, NEW r \in Record,
         tun' = [tun EXCEPT ![t] = r],
         Follows(t, tun[t], r),
         t \in LnsTids /\ r.state \in {"SCCRP", "SCCCN"} =>
           \/ Answered(t)
           \/ \A y \in LnsTids : Answered(y) => tun[y].tid # r.tid,
         NEW new, sent' = sent \cup new, \A p \in new : PacketOK(p)',
         up' = up
  PROVE  IInv'
  <1>1. /\ tun \in [Tids -> Record] /\ LacJoined /\ LnsJoined /\ conf' \in Confs
        /\ up \subseteq {"lac", "lns"} \X LacTids \X LnsTids
    BY DEF IInv
  <1>2. tun' \in [Tids -> Record] /\ Packets' /\ Sides' /\ OneTunnelPerRequest'
    BY Zenon, <1>1, StepCore
  <1>3. \A y \in Tids : tun[y].state \in {"SCCCN", "gone"} =>
          tun'[y].state \in {"SCCCN", "gone"}
    BY <1>1 DEF Follows
  <1>4. LacJoined' /\ LnsJoined'
    BY <1>1, <1>3, Distinct DEF LacJoined, LnsJoined
  <1> QED BY <1>1, <1>2, <1>4 DEF IInv

-----------------------------------------------------------------------------
(* ZLBs and StopCCNs claim nothing. *)
LEMMA PlainPackets ==
  ASSUME NEW t \in Tids, NEW r \in Record
  PROVE  PacketOK(ZLB(t, r))' /\ PacketOK(StopCCN(t, r))'
  BY DEF PacketOK, ZLB, StopCCN, Packet, Record

(* The records the actions make. *)
LEMMA Records ==
  /\ NewTunnel \in Record
  /\ \A r \in Record :
       /\ Closed(r) \in Record /\ Closed(r).state = r.state
       /\ Closed(r).tid = r.tid /\ Closed(r).chal = r.chal
       /\ Gone(r) \in Record /\ Gone(r).state = "gone"
       /\ Gone(r).tid = r.tid /\ Gone(r).chal = r.chal
  <1>1. NewTunnel \in Record
    BY DEF NewTunnel, Record, States, NoTid
  <1>2. ASSUME NEW r \in Record
        PROVE  /\ Closed(r) \in Record /\ Closed(r).state = r.state
               /\ Closed(r).tid = r.tid /\ Closed(r).chal = r.chal
    <2>1. r.closing \in BOOLEAN /\ r.ss + 1 \in Nat
      BY DEF Record
    <2>2. [r EXCEPT !.closing = TRUE] \in Record
      BY Zenon DEF Record
    <2> DEFINE q == [r EXCEPT !.closing = TRUE]
    <2>3. Closed(r) = [q EXCEPT !.ss = q.ss + 1] /\ q.ss = r.ss
      BY DEF Record, Closed
    <2>4. q.state = r.state /\ q.tid = r.tid /\ q.chal = r.chal
      BY DEF Record
    <2> HIDE DEF q
    <2> QED BY Zenon, <2>1, <2>2, <2>3, <2>4 DEF Record, q
  <1>3. ASSUME NEW r \in Record
        PROVE  /\ Gone(r) \in Record /\ Gone(r).state = "gone"
               /\ Gone(r).tid = r.tid /\ Gone(r).chal = r.chal
    BY DEF Record, States, Gone
  <1> QED BY <1>1, <1>2, <1>3

(* At the start there is nothing: no tunnel, packet or history. *)
LEMMA InitIInv == Init => IInv
  <1> SUFFICES ASSUME Init PROVE IInv
    OBVIOUS
  <1>1. tun \in [Tids -> Record] /\ \A t \in Tids : tun[t] = NewTunnel
    BY Records DEF Init
  <1>2. up = {} /\ sent = {} /\ conf \in Confs
    BY DEF Init
  <1> QED
    BY <1>1, <1>2, Distinct
    DEF IInv, Packets, Sides, LacJoined, LnsJoined, OneTunnelPerRequest,
        Answered, NewTunnel

(* An SCCRQ makes a tunnel of the LAC and claims nothing. *)
LEMMA DialKeeps ==
  ASSUME IInv, NEW l \in LacTids, Dial(l)
  PROVE  IInv'
  <1> DEFINE r == [NewTunnel EXCEPT !.state = "SCCRQ", !.chal = LacChallenge]
             q == [r EXCEPT !.ss = 1]
             p == Packet("SCCRQ", l, r,
                         IF LacChallenge THEN ChallengeOf(l) ELSE NoAvp, NoAvp)
             new == {p}
  <1>0. LacChallenge \in BOOLEAN
    BY ConfTyped DEF IInv
  <1>1. r \in Record /\ q \in Record
    BY Zenon, <1>0, Records DEF Record, States
  <1>2. tun[l].state = "unused" /\ tun' = [tun EXCEPT ![l] = q]
        /\ sent' = sent \cup new /\ up' = up /\ conf' = conf
    BY DEF Dial
  <1>3. \A x \in new : PacketOK(x)'
    <2>1. r.tid \in Tids \cup {NoTid} /\ r.ss \in Nat /\ r.rr \in Nat
      BY Zenon, <1>1 DEF Record
    <2> HIDE DEF r
    <2> QED BY <2>1, Distinct DEF Packet, PacketOK
  <1>4. q.state = "SCCRQ" /\ q.chal = LacChallenge
    BY DEF NewTunnel
  <1>5. Follows(l, tun[l], q)
    BY <1>2, <1>4, Distinct DEF Follows
  <1> HIDE DEF p, q, new
  <1> QED BY Zenon, <1>1, <1>2, <1>3, <1>4, <1>5, Distinct, StepQuiet

(* A refused message changes no state that the invariant speaks of. *)
LEMMA RefuseKeeps ==
  ASSUME IInv, NEW t \in Tids, NEW r \in Record, Live(t),
         r.state = tun[t].state, r.chal = tun[t].chal,
         t \in LnsTids => r.tid = tun[t].tid,
         Refuse(t, r)
  PROVE  IInv'
  <1> DEFINE q == IF r.closing THEN r ELSE Closed(r)
             new == IF r.closing THEN {ZLB(t, r)} ELSE {ZLB(t, r), StopCCN(t, r)}
  <1>1. q \in Record /\ q.state = r.state /\ q.chal = r.chal /\ q.tid = r.tid
    BY Records
  <1>2. tun' = [tun EXCEPT ![t] = q] /\ sent' = sent \cup new /\ up' = up /\ conf' = conf
    BY DEF Refuse
  <1>3. \A p \in new : PacketOK(p)'
    BY PlainPackets
  <1>4. Follows(t, tun[t], q)
    BY <1>1, Distinct DEF Follows, Live, IInv, Sides
  <1>5. t \in LnsTids /\ q.state \in {"SCCRP", "SCCCN"} => Answered(t)
    BY <1>1 DEF Answered
  <1> HIDE DEF q, new
  <1> QED BY Zenon, <1>1, <1>2, <1>3, <1>4, <1>5, StepQuiet

(* An SCCRQ: refused, dropped as a duplicate, or answered. *)
LEMMA SCCRQKeeps ==
  ASSUME IInv, NEW p \in sent, NEW t \in LnsTids, RecvSCCRQ(p, t)
  PROVE  IInv'
  <1> DEFINE r == [NewTunnel EXCEPT !.state = "none", !.tid = p.src, !.rr = 1,
                                    !.cLr = p.nr]
             a == [r EXCEPT !.state = "SCCRP"]
             u == [a EXCEPT !.ss = 1, !.chal = LnsChallenge]
             reply == Packet("SCCRP", t, r,
                         IF LnsChallenge THEN ChallengeOf(t) ELSE NoAvp,
                         IF p.chal = NoAvp THEN NoAvp
                         ELSE Response("SCCRP", LnsSecret, p.chal))
  <1>1. p.type = "SCCRQ" /\ p.src \in LacTids /\ p.nr \in Nat /\ t \in Tids
        /\ tun[t].state = "unused" /\ tun \in [Tids -> Record]
    BY Distinct DEF RecvSCCRQ, IInv, Packets, PacketOK
  <1>0. LnsChallenge \in BOOLEAN
    BY ConfTyped DEF IInv
  <1>2. r \in Record /\ a \in Record /\ u \in Record
    <2>1. r \in Record
      BY Zenon, <1>1, Records, Distinct DEF Record, States
    <2> HIDE DEF r
    <2>2. a \in Record
      BY Zenon, <2>1 DEF Record, States
    <2> HIDE DEF a
    <2>3. u \in Record
      BY Zenon, <1>0, <2>2 DEF Record
    <2> QED BY <2>1, <2>2, <2>3
  <1>3. /\ r.state = "none" /\ r.tid = p.src
        /\ a.state = "SCCRP" /\ a.tid = p.src
        /\ u.state = "SCCRP" /\ u.tid = p.src /\ u.chal = LnsChallenge
        /\ r.rr = 1 /\ r.ss = 0
    BY <1>1, Distinct DEF NewTunnel
  <1>4. ~Requested(p.src) => \A y \in LnsTids : Answered(y) => tun[y].tid # p.src
    BY DEF Requested, Answered, Live
  <1>5. CASE ~GetLns
    <2> DEFINE new == {ZLB(t, r), StopCCN(t, r)}
    <2>1. tun' = [tun EXCEPT ![t] = Closed(r)] /\ up' = up /\ conf' = conf
          /\ sent' = sent \cup new
      BY <1>5 DEF RecvSCCRQ
    <2>2. Closed(r) \in Record /\ Closed(r).state = "none"
      BY Zenon, <1>2, <1>3, Records
    <2>3. Follows(t, tun[t], Closed(r))
      BY <1>1, <2>2, Distinct DEF Follows
    <2>4. \A x \in new : PacketOK(x)'
      BY <1>1, <1>2, PlainPackets
    <2> HIDE DEF r, new
    <2> QED BY Zenon, <1>1, <2>1, <2>2, <2>3, <2>4, StepQuiet
  <1>6. CASE GetLns /\ Requested(p.src)
    <2> DEFINE new == {ZLB(t, r)}
    <2>1. tun' = [tun EXCEPT ![t] = Gone(r)] /\ up' = up /\ conf' = conf
          /\ sent' = sent \cup new
      BY <1>6 DEF RecvSCCRQ
    <2>2. Gone(r) \in Record /\ Gone(r).state = "gone"
      BY <1>2, <1>3, Records
    <2>3. Follows(t, tun[t], Gone(r))
      BY <1>1, <2>2, Distinct DEF Follows
    <2>4. \A x \in new : PacketOK(x)'
      BY <1>1, <1>2, PlainPackets
    <2> HIDE DEF r, new
    <2> QED BY Zenon, <1>1, <2>1, <2>2, <2>3, <2>4, StepQuiet
  <1>7. CASE GetLns /\ ~Requested(p.src) /\ Keyless
    <2> DEFINE new == {ZLB(t, r), StopCCN(t, r)}
    <2>1. tun' = [tun EXCEPT ![t] = Closed(a)] /\ up' = up /\ conf' = conf
          /\ sent' = sent \cup new
      BY <1>7 DEF RecvSCCRQ
    <2>2. Closed(a) \in Record /\ Closed(a).state = "SCCRP" /\ Closed(a).tid = p.src
      BY Zenon, <1>2, <1>3, Records
    <2>3. Follows(t, tun[t], Closed(a))
      BY <1>1, <2>2, Distinct DEF Follows
    <2>4. \A x \in new : PacketOK(x)'
      BY <1>1, <1>2, PlainPackets
    <2> HIDE DEF r, a, new
    <2> QED BY Zenon, <1>1, <1>4, <1>7, <2>1, <2>2, <2>3, <2>4, StepQuiet
  <1>8. CASE GetLns /\ ~Requested(p.src) /\ ~Keyless
    <2> DEFINE new == {reply}
    <2>1. tun' = [tun EXCEPT ![t] = u] /\ up' = up /\ conf' = conf
          /\ sent' = sent \cup new
      BY <1>8 DEF RecvSCCRQ
    <2>2. Follows(t, tun[t], u)
      BY <1>1, <1>3, Distinct DEF Follows
    <2>3. /\ reply.type = "SCCRP" /\ reply.src = t /\ reply.to = p.src
          /\ reply.ns = 0 /\ reply.nr = 1
          /\ reply.chal = IF LnsChallenge THEN <<t>> ELSE <<>>
          /\ reply.resp = IF p.chal = NoAvp THEN NoAvp
                          ELSE Response("SCCRP", LnsSecret, p.chal)
      BY <1>3 DEF Packet, ChallengeOf, NoAvp
    <2>4. LnsChallenge => reply.chal # NoAvp
      <3>1. <<t>> # <<>>
        OBVIOUS
      <3> HIDE DEF reply
      <3> QED BY <2>3, <3>1 DEF NoAvp
    <2>5. reply.resp # NoAvp => reply.resp[2] = LnsSecret
      BY <2>3 DEF NoAvp, Response
    <2>6. tun'[t] = u
      BY <1>1, <2>1
    <2> HIDE DEF u, reply
    <2>7. \A x \in new : PacketOK(x)'
      <3> SUFFICES ASSUME NEW x, x = reply PROVE PacketOK(x)'
        OBVIOUS
      <3>1. tun'[t].chal = LnsChallenge' /\ LnsChallenge' = LnsChallenge
            /\ LnsSecret' = LnsSecret /\ GetLns' /\ ~Keyless'
        BY <1>3, <1>8, <2>1, <2>6, ConfKept
      <3>2. ReplyOK(x)'
        BY <1>1, <1>3, <2>3, <2>4, <2>5, <2>6, <3>1 DEF ReplyOK
      <3> QED BY <1>1, <2>3, <3>2, Distinct DEF PacketOK
    <2> HIDE DEF r, a, new
    <2>8. u \in Record /\ u.tid = p.src
      BY Zenon, <1>2, <1>3
    <2> QED BY Zenon, <1>1, <1>4, <1>8, <2>1, <2>2, <2>7, <2>8, StepQuiet
  <1> QED BY <1>5, <1>6, <1>7, <1>8

(* What check_control makes of a record. *)
LEMMA CountedFacts ==
  ASSUME IInv, NEW p \in sent, NEW t \in Tids
  PROVE  /\ Counted(p, t) \in Record
         /\ Counted(p, t).state = tun[t].state
         /\ Counted(p, t).tid = tun[t].tid
         /\ Counted(p, t).chal = tun[t].chal
  <1>1. tun[t] \in Record /\ p.nr \in Nat
    BY DEF IInv, Packets, PacketOK
  <1>2. tun[t].rr + 1 \in Nat
    BY <1>1 DEF Record
  <1> QED BY Zenon, <1>1, <1>2 DEF Counted, Record

(* Establishing at the LAC: the reply is of an LNS that the LAC may trust. *)
LEMMA LacTrusted ==
  ASSUME IInv, NEW p \in sent, NEW l \in LacTids,
         p.type = "SCCRP", p.to = l, tun[l].state = "SCCRQ", ~LacAuthFails(l, p)
  PROVE  LacTrust
  <1>1. tun[l].chal = LacChallenge
    BY DEF IInv, Sides
  <1>2. ReplyOK(p)
    BY DEF IInv, Packets, PacketOK
  <1>3. LacChallenge => SameSecret
    <2> SUFFICES ASSUME LacChallenge PROVE SameSecret
      OBVIOUS
    <2>1. LacSecret # NoSecret /\ p.resp = <<"SCCRP", LacSecret, ChallengeOf(l)>>
      BY <1>1 DEF LacAuthFails, Response
    <2>2. p.resp # <<>> /\ p.resp[2] = LacSecret
      BY <2>1
    <2> QED BY <1>2, <2>1, <2>2 DEF ReplyOK, SameSecret, NoAvp
  <1>4. LnsChallenge => LacSecret # NoSecret /\ LnsSecret # NoSecret
    BY <1>2 DEF ReplyOK, LacAuthFails, Keyless
  <1> QED BY <1>2, <1>3, <1>4 DEF LacTrust, ReplyOK

(* SCCRP: refused, or the LAC's tunnel joins the LNS's. *)
LEMMA SCCRPKeeps ==
  ASSUME IInv, NEW p \in sent, NEW l \in LacTids, RecvSCCRP(p, l)
  PROVE  IInv' /\ conf' = conf /\ (up' = up \/ (p.src \in LnsTids /\ H!JoinLac(l, p.src)))
  <1> DEFINE r == [Counted(p, l) EXCEPT !.tid = p.src]
             q == [r EXCEPT !.state = "SCCCN", !.ss = @ + 1]
             resp == IF p.chal = NoAvp THEN NoAvp
                     ELSE Response("SCCCN", LacSecret, p.chal)
             c == Packet("SCCCN", l, r, NoAvp, resp)
             new == {c}
  <1>1. /\ p.type = "SCCRP" /\ p.to = l /\ Live(l) /\ tun[l].state = "SCCRQ"
        /\ l \in Tids /\ p.src \in Tids /\ l \notin LnsTids
    BY Distinct DEF RecvSCCRP, InOrder, IInv, Packets, PacketOK
  <1>2. ReplyOK(p)
    BY <1>1 DEF IInv, Packets, PacketOK
  <1>3. /\ r \in Record /\ r.state = tun[l].state /\ r.chal = tun[l].chal
        /\ r.tid = p.src
    BY <1>1, CountedFacts DEF Record
  <1>4. CASE LacAuthFails(l, p)
    <2>1. Refuse(l, r)
      BY <1>4 DEF RecvSCCRP
    <2>2. up' = up /\ conf' = conf
      BY <2>1 DEF Refuse
    <2> HIDE DEF r
    <2> QED BY <1>1, <1>3, <2>1, <2>2, RefuseKeeps
  <1>5. CASE ~LacAuthFails(l, p)
    <2>1. /\ tun' = [tun EXCEPT ![l] = q]
          /\ sent' = sent \cup new
          /\ up' = up \cup {<<"lac", l, p.src>>} /\ conf' = conf
      BY <1>5 DEF RecvSCCRP
    <2>2. q \in Record /\ q.state = "SCCCN" /\ r.ss \in Nat /\ r.rr \in Nat
      <3>1. r.ss \in Nat /\ r.rr \in Nat /\ r.ss + 1 \in Nat
        BY <1>3 DEF Record
      <3> HIDE DEF r
      <3> QED BY Zenon, <1>3, <3>1 DEF Record, States
    <2>3. Follows(l, tun[l], q)
      BY <1>1, <2>2, Distinct DEF Follows
    <2>4. p.src \in LnsTids /\ tun[p.src].tid = l /\ GetLns /\ ~Keyless
          /\ tun[p.src].state # "unused" /\ tun[p.src].chal = LnsChallenge
      BY <1>1, <1>2 DEF ReplyOK
    <2>5. tun'[p.src] = tun[p.src]
      BY <1>1, <2>1, <2>4 DEF IInv
    <2>6. /\ c.type = "SCCCN" /\ c.src = l /\ c.to = p.src
          /\ c.ns \in Nat /\ c.nr \in Nat /\ c.resp = resp
      BY <1>3, <2>2 DEF Packet
    <2>7. resp # NoAvp => resp[2] = LacSecret
      BY DEF NoAvp, Response
    <2>9. \A x \in new : PacketOK(x)'
      <3> SUFFICES ASSUME NEW x, x = c PROVE PacketOK(x)'
        OBVIOUS
      <3> HIDE DEF c, resp
      <3>1. /\ x.type = "SCCCN" /\ x.src = l /\ x.to = p.src
            /\ x.ns \in Nat /\ x.nr \in Nat
            /\ x.resp # NoAvp => x.resp[2] = LacSecret
        BY <2>6, <2>7
      <3>2. <<"lac", l, p.src>> \in up'
        BY <2>1
      <3>3. LacSecret' = LacSecret /\ LnsChallenge' = LnsChallenge /\ GetLns' /\ ~Keyless'
        BY <2>1, <2>4, ConfKept
      <3>4. ConnectOK(x)'
        BY <2>4, <2>5, <3>1, <3>2, <3>3 DEF ConnectOK
      <3> QED BY <1>1, <3>1, <3>4 DEF PacketOK
    <2>10. /\ up' \subseteq {"lac", "lns"} \X LacTids \X LnsTids
           /\ up \subseteq up'
      BY <2>1, <2>4 DEF IInv
    <2> HIDE DEF r, q, c, new
    <2>11. tun' \in [Tids -> Record] /\ Packets' /\ Sides' /\ OneTunnelPerRequest'
      BY Zenon, <1>1, <2>1, <2>2, <2>3, <2>9, <2>10, StepCore
    <2>12. \A u \in LnsTids : <<"lac", l, u>> \notin up
      BY <1>1 DEF IInv, LacJoined
    <2>13. \A y \in Tids : tun[y].state \in {"SCCCN", "gone"} =>
             tun'[y].state \in {"SCCCN", "gone"}
      BY <2>1, <2>2 DEF IInv
    <2>14. LacJoined'
      <3>1. tun'[l].state = "SCCCN"
        BY <1>1, <2>1, <2>2 DEF IInv
      <3> QED BY <2>1, <2>12, <2>13, <3>1, Distinct DEF IInv, LacJoined
    <2>15. LnsJoined'
      BY <2>1, <2>13, Distinct DEF IInv, LnsJoined
    <2>16. H!JoinLac(l, p.src)
      BY <1>1, <1>5, <2>1, <2>12, LacTrusted, ConfKept DEF H!JoinLac
    <2> QED BY <2>1, <2>4, <2>10, <2>11, <2>14, <2>15, <2>16 DEF IInv
  <1> QED BY <1>4, <1>5

(* SCCCN: refused, or the LNS's tunnel joins the LAC's. *)
LEMMA SCCCNKeeps ==
  ASSUME IInv, NEW p \in sent, NEW t \in LnsTids, RecvSCCCN(p, t)
  PROVE  IInv' /\ conf' = conf /\ (up' = up \/ (p.src \in LacTids /\ H!JoinLns(p.src, t)))
  <1> DEFINE r == Counted(p, t)
             q == [r EXCEPT !.state = "SCCCN"]
             new == {ZLB(t, r)}
  <1>1. /\ p.type = "SCCCN" /\ p.to = t /\ Live(t) /\ tun[t].state = "SCCRP"
        /\ t \in Tids
    BY Distinct DEF RecvSCCCN, InOrder
  <1>2. ConnectOK(p)
    BY <1>1 DEF IInv, Packets, PacketOK
  <1>3. /\ r \in Record /\ r.state = tun[t].state /\ r.chal = tun[t].chal
        /\ r.tid = tun[t].tid
    BY <1>1, CountedFacts
  <1>4. CASE LnsAuthFails(t, p)
    <2>1. Refuse(t, r)
      BY <1>4 DEF RecvSCCCN
    <2>2. up' = up /\ conf' = conf
      BY <2>1 DEF Refuse
    <2> HIDE DEF r
    <2> QED BY <1>1, <1>3, <2>1, <2>2, RefuseKeeps
  <1>5. CASE ~LnsAuthFails(t, p)
    <2>1. /\ tun' = [tun EXCEPT ![t] = q]
          /\ sent' = sent \cup new
          /\ up' = up \cup {<<"lns", r.tid, t>>} /\ conf' = conf
      BY <1>5 DEF RecvSCCCN
    <2>2. /\ q \in Record /\ q.state = "SCCCN" /\ q.tid = tun[t].tid
          /\ q.chal = tun[t].chal
      <3> HIDE DEF r
      <3> QED BY <1>3 DEF Record, States
    <2>3. Follows(t, tun[t], q)
      BY <1>1, <2>2, Distinct DEF Follows
    <2>4. p.src \in LacTids /\ r.tid = p.src /\ <<"lac", p.src, t>> \in up
      BY <1>1, <1>2, <1>3 DEF ConnectOK
    <2>5. \A x \in new : PacketOK(x)'
      BY <1>1, <1>3, PlainPackets
    <2>6. /\ up' \subseteq {"lac", "lns"} \X LacTids \X LnsTids
          /\ up \subseteq up'
      BY <2>1, <2>4 DEF IInv
    <2>7. Answered(t)
      BY <1>1 DEF Answered
    <2> HIDE DEF r, q, new
    <2>8. tun' \in [Tids -> Record] /\ Packets' /\ Sides' /\ OneTunnelPerRequest'
      BY Zenon, <1>1, <2>1, <2>2, <2>3, <2>5, <2>6, <2>7, StepCore
    <2>9. /\ \A y \in Tids : tun[y].state \in {"SCCCN", "gone"} =>
               tun'[y].state \in {"SCCCN", "gone"}
          /\ tun'[t].state = "SCCCN"
      BY <1>1, <2>1, <2>2 DEF IInv
    <2>10. LacJoined'
      BY <2>1, <2>9, Distinct DEF IInv, LacJoined
    <2>11. LnsJoined'
      BY <2>1, <2>4, <2>9, Distinct DEF IInv, LnsJoined
    <2>12. \A k \in LacTids : <<"lns", k, t>> \notin up
      BY Zenon, <1>1 DEF IInv, LnsJoined
    <2>13. \A u \in LnsTids : <<"lns", p.src, u>> \notin up
      BY Zenon, <2>4, <2>12 DEF IInv, LnsJoined, LacJoined
    <2>14. LnsTrust
      <3>1. GetLns /\ ~Keyless /\ tun[t].chal = LnsChallenge
        BY <1>1, <1>2 DEF ConnectOK
      <3>2. ASSUME LnsChallenge PROVE SameSecret
        <4>1. LnsSecret # NoSecret
              /\ p.resp = <<"SCCCN", LnsSecret, ChallengeOf(t)>>
          BY <1>5, <3>1, <3>2 DEF LnsAuthFails, Keyless, Response
        <4>2. p.resp # <<>> /\ p.resp[2] = LnsSecret
          BY <4>1
        <4> QED BY <1>2, <4>1, <4>2 DEF ConnectOK, SameSecret, NoAvp
      <3> QED BY <3>1, <3>2 DEF LnsTrust
    <2>15. H!JoinLns(p.src, t)
      BY <2>1, <2>4, <2>12, <2>13, <2>14, ConfKept DEF H!JoinLns
    <2> QED BY <2>1, <2>4, <2>6, <2>8, <2>10, <2>11, <2>15 DEF IInv
  <1> QED BY <1>4, <1>5

(* A tunnel that goes, and any other change of a record that leaves its    *)
(* state, its peer and its challenge alone.                                *)
LEMMA GoneOrSame ==
  ASSUME IInv, conf' = conf, NEW t \in Tids, NEW r \in Record, Live(t),
         tun' = [tun EXCEPT ![t] = r],
         r.state \in {"gone", tun[t].state}, r.tid = tun[t].tid,
         r.chal = tun[t].chal,
         NEW new, sent' = sent \cup new, \A p \in new : PacketOK(p)',
         up' = up
  PROVE  IInv'
  <1>1. Follows(t, tun[t], r)
    BY Distinct DEF Follows, Live, IInv, Sides
  <1>2. t \in LnsTids /\ r.state \in {"SCCRP", "SCCCN"} => Answered(t)
    BY DEF Answered
  <1> QED BY Zenon, <1>1, <1>2, StepQuiet

(* A StopCCN ends its tunnel, or is only counted. *)
LEMMA StopCCNKeeps ==
  ASSUME IInv, NEW p \in sent, NEW t \in Tids, RecvStopCCN(p, t)
  PROVE  IInv'
  <1> DEFINE r == Counted(p, t)
             q == IF r.tid \in {NoTid, p.src} THEN Gone(r) ELSE r
             new == {ZLB(t, r)}
  <1>1. /\ r \in Record /\ r.state = tun[t].state /\ r.chal = tun[t].chal
        /\ r.tid = tun[t].tid
    BY CountedFacts
  <1>2. /\ Live(t) /\ tun' = [tun EXCEPT ![t] = q] /\ sent' = sent \cup new
        /\ up' = up /\ conf' = conf
    BY DEF RecvStopCCN, InOrder
  <1>3. /\ q \in Record /\ q.state \in {"gone", tun[t].state}
        /\ q.tid = tun[t].tid /\ q.chal = tun[t].chal
    <2> HIDE DEF r
    <2> QED BY <1>1, Records
  <1>4. \A x \in new : PacketOK(x)'
    BY <1>1, PlainPackets
  <1> HIDE DEF q, new
  <1> QED BY Zenon, <1>2, <1>3, <1>4, GoneOrSame

(* A ZLB changes only what is known to be received. *)
LEMMA ZLBKeeps ==
  ASSUME IInv, NEW p \in sent, NEW t \in Tids, RecvZLB(p, t)
  PROVE  IInv'
  <1> DEFINE q == [tun[t] EXCEPT !.cLr = p.nr]
             new == {}
  <1>1. tun[t] \in Record /\ p.nr \in Nat /\ tun \in [Tids -> Record]
    BY DEF IInv, Packets, PacketOK
  <1>2. /\ Live(t) /\ tun' = [tun EXCEPT ![t] = q] /\ sent' = sent \cup new
        /\ up' = up /\ conf' = conf
    BY <1>1 DEF RecvZLB, InOrder
  <1>3. /\ q \in Record /\ q.state = tun[t].state
        /\ q.tid = tun[t].tid /\ q.chal = tun[t].chal
    BY <1>1 DEF Record
  <1>4. \A x \in new : PacketOK(x)'
    OBVIOUS
  <1> HIDE DEF q, new
  <1> QED BY Zenon, <1>2, <1>3, <1>4, GoneOrSame

(* A message received before is only acknowledged. *)
LEMMA OldKeeps ==
  ASSUME IInv, NEW p \in sent, NEW t \in Tids, RecvOld(p, t)
  PROVE  IInv'
  <1> DEFINE new == {ZLB(t, tun[t])}
  <1>1. tun[t] \in Record /\ tun \in [Tids -> Record]
    BY DEF IInv
  <1>2. /\ Live(t) /\ tun' = [tun EXCEPT ![t] = tun[t]]
        /\ sent' = sent \cup new /\ up' = up /\ conf' = conf
    BY <1>1 DEF RecvOld
  <1>3. \A x \in new : PacketOK(x)'
    BY <1>1, PlainPackets
  <1> HIDE DEF new
  <1> QED BY Zenon, <1>1, <1>2, <1>3, GoneOrSame

(* A tunnel that gives up sends a StopCCN. *)
LEMMA GiveUpKeeps ==
  ASSUME IInv, NEW t \in Tids, GiveUp(t)
  PROVE  IInv'
  <1> DEFINE q == Closed(tun[t])
             new == {StopCCN(t, tun[t])}
  <1>1. tun[t] \in Record
    BY DEF IInv
  <1>2. /\ Live(t) /\ tun' = [tun EXCEPT ![t] = q] /\ sent' = sent \cup new
        /\ up' = up /\ conf' = conf
    BY DEF GiveUp
  <1>3. /\ q \in Record /\ q.state = tun[t].state
        /\ q.tid = tun[t].tid /\ q.chal = tun[t].chal
    BY <1>1, Records
  <1>4. \A x \in new : PacketOK(x)'
    BY <1>1, PlainPackets
  <1> HIDE DEF q, new
  <1> QED BY Zenon, <1>2, <1>3, <1>4, GoneOrSame

(* A closed tunnel goes. *)
LEMMA FinishKeeps ==
  ASSUME IInv, NEW t \in Tids, Finish(t)
  PROVE  IInv'
  <1> DEFINE q == Gone(tun[t])
             new == {}
  <1>1. tun[t] \in Record
    BY DEF IInv
  <1>2. /\ Live(t) /\ tun' = [tun EXCEPT ![t] = q] /\ sent' = sent \cup new
        /\ up' = up /\ conf' = conf
    BY DEF Finish
  <1>3. /\ q \in Record /\ q.state = "gone"
        /\ q.tid = tun[t].tid /\ q.chal = tun[t].chal
    BY <1>1, Records
  <1>4. \A x \in new : PacketOK(x)'
    OBVIOUS
  <1> HIDE DEF q, new
  <1> QED BY Zenon, <1>2, <1>3, <1>4, GoneOrSame

(* A restart ends all the tunnels of one end. *)
LEMMA RestartKeeps ==
  ASSUME IInv, NEW ts \in SUBSET Tids, Restart(ts)
  PROVE  IInv'
  <1>1. tun \in [Tids -> Record] /\ up' = up /\ sent' = sent
        /\ conf' = conf /\ conf' \in Confs
    BY DEF IInv, Restart
  <1>2. \A t \in Tids : tun'[t] = IF t \in ts /\ Live(t) THEN Gone(tun[t]) ELSE tun[t]
    BY DEF Restart
  <1>3. tun' \in [Tids -> Record]
    <2>1. \A t \in Tids : (IF t \in ts /\ Live(t) THEN Gone(tun[t]) ELSE tun[t])
                          \in Record
      BY <1>1, Records
    <2> QED BY <2>1 DEF Restart
  <1>4. \A t \in Tids :
          /\ tun'[t].tid = tun[t].tid /\ tun'[t].chal = tun[t].chal
          /\ \/ tun'[t].state = tun[t].state
             \/ tun[t].state # "unused" /\ tun'[t].state = "gone"
    BY <1>1, <1>2, Records DEF Live
  <1>5. Packets'
    <2>1. \A t \in LnsTids : tun[t].state # "unused" =>
            /\ tun'[t].state # "unused"
            /\ tun'[t].tid = tun[t].tid
            /\ tun'[t].chal = tun[t].chal
      BY <1>4, Distinct
    <2>2. \A p \in sent : PacketOK(p)'
      BY <1>1, <2>1, OldPackets DEF IInv
    <2> QED BY <1>1, <2>2 DEF Packets
  <1>6. Sides'
    BY <1>1, <1>4, Distinct, ConfKept DEF IInv, Sides
  <1>7. LacJoined' /\ LnsJoined'
    BY <1>1, <1>4, Distinct DEF IInv, LacJoined, LnsJoined
  <1>8. OneTunnelPerRequest'
    BY <1>4, Distinct DEF IInv, OneTunnelPerRequest, Answered
  <1> QED BY <1>1, <1>3, <1>5, <1>6, <1>7, <1>8 DEF IInv

-----------------------------------------------------------------------------
(* Every step keeps the invariant, and is a step of Handshake or none. *)
LEMMA NextKeeps ==
  ASSUME IInv, [Next]_vars
  PROVE  IInv' /\ [H!Next]_(H!vars)
  <1>0. ASSUME up' = up, conf' = conf PROVE [H!Next]_(H!vars)
    BY <1>0, ConfKept DEF H!vars
  <1>1. CASE UNCHANGED vars
    <2>1. up' = up /\ conf' = conf /\ tun' = tun /\ sent' = sent
      BY <1>1 DEF vars
    <2>2. Packets'
      <3>1. \A p \in sent : PacketOK(p)'
        BY <2>1, OldPackets DEF IInv
      <3> QED BY Zenon, <2>1, <3>1 DEF Packets
    <2>3. Sides'
      BY Zenon, <2>1, ConfKept DEF IInv, Sides
    <2>4. LacJoined' /\ LnsJoined'
      BY Zenon, <2>1 DEF IInv, LacJoined, LnsJoined
    <2>5. OneTunnelPerRequest'
      BY Zenon, <2>1 DEF IInv, OneTunnelPerRequest, Answered
    <2>6. IInv'
      BY Zenon, <2>1, <2>2, <2>3, <2>4, <2>5 DEF IInv
    <2> QED BY <1>0, <2>1, <2>6
  <1>2. ASSUME NEW l \in LacTids, Dial(l) PROVE IInv' /\ up' = up /\ conf' = conf
    BY Zenon, <1>2, DialKeeps DEF Dial
  <1>3. ASSUME NEW p \in sent, NEW t \in LnsTids, RecvSCCRQ(p, t)
        PROVE  IInv' /\ up' = up /\ conf' = conf
    BY Zenon, <1>3, SCCRQKeeps DEF RecvSCCRQ
  <1>4. ASSUME NEW p \in sent, NEW t \in LnsTids, RecvSCCCN(p, t)
        PROVE  IInv' /\ [H!Next]_(H!vars)
    BY <1>0, <1>4, SCCCNKeeps DEF H!Next
  <1>5. ASSUME NEW p \in sent, NEW l \in LacTids, RecvSCCRP(p, l)
        PROVE  IInv' /\ [H!Next]_(H!vars)
    BY <1>0, <1>5, SCCRPKeeps DEF H!Next
  <1>6. ASSUME NEW p \in sent, NEW t \in Tids,
               RecvStopCCN(p, t) \/ RecvZLB(p, t) \/ RecvOld(p, t)
        PROVE  IInv' /\ up' = up /\ conf' = conf
    BY <1>6, StopCCNKeeps, ZLBKeeps, OldKeeps
    DEF RecvStopCCN, RecvZLB, RecvOld
  <1>7. ASSUME NEW t \in Tids, GiveUp(t) \/ Finish(t)
        PROVE  IInv' /\ up' = up /\ conf' = conf
    BY <1>7, GiveUpKeeps, FinishKeeps DEF GiveUp, Finish
  <1>8. CASE Restart(LacTids) \/ Restart(LnsTids)
    <2>1. LacTids \in SUBSET Tids /\ LnsTids \in SUBSET Tids
      BY DEF Tids
    <2> QED BY <1>0, <1>8, <2>1, RestartKeeps DEF Restart
  <1> QED BY <1>0, <1>1, <1>2, <1>3, <1>4, <1>5, <1>6, <1>7, <1>8 DEF Next

(* Whatever is lost, repeated or late and whoever restarts, the tunnels,   *)
(* packets and history have their types.                                   *)
THEOREM SetupTyped == Spec => []TypeOK
  <1>1. Init => IInv
    BY InitIInv
  <1>2. IInv /\ [Next]_vars => IInv'
    BY NextKeeps
  <1>3. IInv => TypeOK
    BY Implied
  <1> QED BY <1>1, <1>2, <1>3, PTL DEF Spec

(* However often an SCCRQ arrives, the LNS holds at most one answered      *)
(* tunnel for it (the search for a duplicate in control_finish).           *)
THEOREM OneTunnel == Spec => []OneTunnelPerRequest
  <1>1. Init => IInv
    BY InitIInv
  <1>2. IInv /\ [Next]_vars => IInv'
    BY NextKeeps
  <1>3. IInv => OneTunnelPerRequest
    BY DEF IInv
  <1> QED BY <1>1, <1>2, <1>3, PTL DEF Spec

(* The set-up with SCCRQ, SCCRP and SCCCN implements Handshake: joined     *)
(* once, first at the LAC, and with authentication where it was asked for. *)
THEOREM SetupRefines == Spec => ImplementsHandshake
  <1>1. Init => IInv /\ H!Init
    <2> SUFFICES ASSUME Init PROVE H!Init
      BY InitIInv
    <2>1. conf \in Confs /\ up = {}
      BY DEF Init
    <2>2. LacTrust \in BOOLEAN /\ LnsTrust \in BOOLEAN
      BY <2>1, ConfTyped DEF LacTrust, LnsTrust
    <2> QED BY <2>1, <2>2 DEF H!Init
  <1>2. IInv /\ [Next]_vars => IInv' /\ [H!Next]_(H!vars)
    BY NextKeeps
  <1> QED BY <1>1, <1>2, PTL DEF Spec, ImplementsHandshake, H!Spec
=============================================================================
