---------------------------- MODULE CallsProofs ----------------------------
(***************************************************************************)
(* The two ends of a tunnel agree on their calls, for any number of calls  *)
(* and disconnects and whatever faults occur.                              *)
(*                                                                         *)
(* What is said of a call by one end and the messages on their way depends *)
(* on which call of the other end it belongs to, also after one of the two *)
(* is gone. So the inductive invariant names a history the program does    *)
(* not keep: mate gives, for each call the LNS has made, the call of the   *)
(* LAC it was made for. Inv(x, y, mate) is stated of the two tunnels as    *)
(* records, and a step of the system is taken apart into changes of one    *)
(* tunnel: calls go or are closed (Shrinks), a message is sent (Sends) or  *)
(* read (Pops, Reads), a call comes up (Ups) or is made (Adds). There is   *)
(* a lemma for each of them and each end; EInv then states them for both   *)
(* ends at once, and every handler of Calls is a composition of them.      *)
(***************************************************************************)
EXTENDS Calls, TLAPS

(* The types of the state. *)
Packet ==
  [type : {"ICRQ", "ICRP", "ICCN", "CDN", "StopCCN", "ZLB"}, cid : Nat,
   acid : Nat, ns : Nat, nr : Nat]

Call ==
  [state : {"none", "ICRQ", "ICRP", "ICCN"}, cid : Nat, needclose : BOOLEAN,
   closing : BOOLEAN, closeSs : Nat, pppd : {"none", "running", "dead"}]

CallMap == UNION {[D -> Call] : D \in SUBSET Nat}

Tunnel ==
  [alive : BOOLEAN, ss : Nat, rr : Nat, cLr : Nat, made : Nat,
   self : [needclose : BOOLEAN, closing : BOOLEAN, closeSs : Nat],
   calls : CallMap, out : Seq(Packet), ahead : BOOLEAN]

(* The messages an end has sent and its peer has not read. *)
Out(s) == {s.out[i] : i \in 1 .. Len(s.out)}

Cdn(s, cid, acid) ==
  \E m \in Out(s) : m.type = "CDN" /\ m.cid = cid /\ m.acid = acid

Icrq(s, id) == \E m \in Out(s) : m.type = "ICRQ" /\ m.acid = id

Iccn(s, cid) == \E m \in Out(s) : m.type = "ICCN" /\ m.cid = cid

Icrp(s, cid, acid) ==
  \E m \in Out(s) : m.type = "ICRP" /\ m.cid = cid /\ m.acid = acid

(* The numbers the ends have given to calls. *)
LacIds(x) == 1 .. x.made

LnsIds(y) == MaxCalls + 1 .. MaxCalls + y.made

-----------------------------------------------------------------------------
(* x is the tunnel of the LAC and y that of the LNS; mate gives the call   *)
(* of the LAC that a call of the LNS was made for, gone or not.            *)

Mates(x, y, mate) ==
  /\ mate \in [LnsIds(y) -> LacIds(x)]
  /\ \A b, d \in LnsIds(y) : mate[b] = mate[d] => b = d

(* What the calls and the messages of each end say of the other's numbers. *)
LacCallsOK(x, y, mate) ==
  \A a \in DOMAIN x.calls :
    /\ a \in LacIds(x)
    /\ \/ x.calls[a].state = "ICRQ" /\ x.calls[a].cid = NoCid
       \/ /\ x.calls[a].state = "ICCN" /\ x.calls[a].cid \in LnsIds(y)
          /\ mate[x.calls[a].cid] = a

LnsCallsOK(y, mate) ==
  \A b \in DOMAIN y.calls :
    /\ b \in LnsIds(y) /\ y.calls[b].cid = mate[b]
    /\ y.calls[b].state \in {"none", "ICRP", "ICCN"}

LacSays(x, y, mate, m) ==
  /\ m.type \in {"ICRQ", "ICCN", "CDN", "StopCCN", "ZLB"}
  /\ m.type = "ICRQ" => /\ m.cid = NoCid /\ m.acid \in LacIds(x)
                        /\ \A b \in LnsIds(y) : mate[b] # m.acid
  /\ m.type = "ICCN" => m.cid \in LnsIds(y)
  /\ m.type = "CDN" => /\ m.acid \in LacIds(x)
                       /\ \/ m.cid = NoCid
                          \/ m.cid \in LnsIds(y) /\ mate[m.cid] = m.acid
  /\ m.type = "StopCCN" => m.cid = NoCid

LnsSays(y, mate, m) ==
  /\ m.type \in {"ICRP", "CDN", "StopCCN", "ZLB"}
  /\ m.type \in {"ICRP", "CDN"} => m.acid \in LnsIds(y) /\ m.cid = mate[m.acid]
  /\ m.type = "StopCCN" => m.cid = NoCid

(* What the LAC sends about one call is sent in this order: the request, a *)
(* CDN while the number of the LNS is not known, the ICCN.                 *)
Ordered(x, mate) ==
  \A i, j \in 1 .. Len(x.out) :
    LET m == x.out[i]
        n == x.out[j]
    IN  /\ m.type = "ICRQ" /\ n.type = "ICRQ" /\ m.acid = n.acid => i = j
        /\ m.type = "ICRQ" /\ n.type = "CDN" /\ m.acid = n.acid => i < j
        /\ m.type = "CDN" /\ m.cid = NoCid /\ n.type = "ICCN"
           /\ mate[n.cid] = m.acid => i < j

(* The number that follows a message: a ZLB takes none. *)
Follow(m) == IF m.type = "ZLB" THEN m.ns ELSE m.ns + 1

(* The numbers of the packets from s to r run from the one r expects to    *)
(* the one s gives out next, unless r has lost count.                      *)
Numbered(s, r) ==
  r.alive /\ ~r.ahead =>
    /\ s.out = <<>> => r.rr = s.ss
    /\ s.out # <<>> => s.out[1].ns = r.rr /\ Follow(s.out[Len(s.out)]) = s.ss
    /\ \A i \in 1 .. Len(s.out) - 1 : s.out[i + 1].ns = Follow(s.out[i])

(* Nothing that s sends to r matters to the calls of r any more. *)
Going(s, r) ==
  \/ ~s.alive \/ ~r.alive \/ r.self.closing \/ r.ahead
  \/ \E m \in Out(s) : m.type = "StopCCN"

(* A CDN is sent for a call that is being closed. *)
CdnMeant(s) ==
  \A m \in Out(s) : m.type = "CDN" /\ m.acid \in DOMAIN s.calls
                      => ~Open(s.calls[m.acid])

(* The LAC may drop its call a: the LNS knows, or will be told. *)
LacMayDrop(x, y, mate, a) ==
  /\ \A b \in DOMAIN y.calls :
       mate[b] = a /\ Open(y.calls[b]) =>
         Cdn(x, b, a) \/ Cdn(x, NoCid, a) \/ Going(x, y)
  /\ Icrq(x, a) => Cdn(x, NoCid, a) \/ Going(x, y)

LnsMayDrop(x, y, mate, b) ==
  mate[b] \in DOMAIN x.calls /\ Open(x.calls[mate[b]])
    => Cdn(y, mate[b], b) \/ Going(y, x)

(* A call that is being closed with a CDN may go. *)
ClosingMayGo(x, y, mate) ==
  /\ \A a \in DOMAIN x.calls : x.calls[a].closing => LacMayDrop(x, y, mate, a)
  /\ \A b \in DOMAIN y.calls : y.calls[b].closing => LnsMayDrop(x, y, mate, b)

(* A call the LAC has up, or will have when the ICRP arrives, is not left  *)
(* behind by the LNS.                                                      *)
LacCovered(x, y, mate) ==
  \A b \in LnsIds(y) :
    LET a == mate[b]
    IN  /\ a \in DOMAIN x.calls /\ Open(x.calls[a])
        /\ x.calls[a].state = "ICCN" \/ Icrp(y, a, b)
        => b \in DOMAIN y.calls \/ Cdn(y, a, b) \/ Going(y, x)

(* The same for the LNS, whose tunnel is closed by a CDN that arrives      *)
(* before the ICCN and names no call.                                      *)
LnsCovered(x, y, mate) ==
  \A b \in DOMAIN y.calls :
    LET a == mate[b]
    IN  Open(y.calls[b]) =>
          /\ y.calls[b].state = "ICCN" =>
               a \in DOMAIN x.calls \/ Cdn(x, b, a) \/ Going(x, y)
          /\ Iccn(x, b) => \/ a \in DOMAIN x.calls \/ Cdn(x, b, a)
                           \/ Cdn(x, NoCid, a) \/ Going(x, y)

(* An ICCN is sent with the number of the LNS known, and no CDN that does  *)
(* not name it is behind one.                                              *)
IccnKnows(x, y, mate) ==
  \A b \in LnsIds(y) :
    LET up == b \in DOMAIN y.calls /\ y.calls[b].state = "ICCN"
    IN  /\ up => ~Cdn(x, NoCid, mate[b])
        /\ (up \/ Iccn(x, b)) /\ mate[b] \in DOMAIN x.calls
             => x.calls[mate[b]].cid # NoCid

(* A tunnel that is gone has no calls. *)
DeadEmpty(s) == ~s.alive => DOMAIN s.calls = {}

Inv(x, y, mate) ==
  /\ x \in Tunnel /\ y \in Tunnel
  /\ DeadEmpty(x) /\ DeadEmpty(y)
  /\ Mates(x, y, mate)
  /\ LacCallsOK(x, y, mate) /\ LnsCallsOK(y, mate)
  /\ \A m \in Out(x) : LacSays(x, y, mate, m)
  /\ \A m \in Out(y) : LnsSays(y, mate, m)
  /\ Ordered(x, mate)
  /\ Numbered(x, y) /\ Numbered(y, x)
  /\ CdnMeant(x) /\ CdnMeant(y)
  /\ ClosingMayGo(x, y, mate)
  /\ LacCovered(x, y, mate) /\ LnsCovered(x, y, mate)
  /\ IccnKnows(x, y, mate)

(* The tunnels of the two ends, with their calls matched.                  *)
Matched ==
  /\ end \in [Ends -> Tunnel]
  /\ \E mate : Inv(end["lac"], end["lns"], mate)

(* The inductive invariant. *)
CallsInv ==
  /\ kernel \in BOOLEAN /\ looped \in [Ends -> BOOLEAN] /\ stops \in [Ends -> Nat]
  /\ Matched

-----------------------------------------------------------------------------
(* What the invariant says of CallsPaired.                                 *)

(* Two calls that name each other are the two ends of one call, since no   *)
(* two calls of the LNS have the same mate.                                *)
LEMMA PairedFollows ==
  ASSUME Matched
  PROVE  CallsPaired
<1> DEFINE x == end["lac"]
           y == end["lns"]
<1>1. PICK mate : Inv(x, y, mate)
  BY DEF Matched
<1>2. Mates(x, y, mate) /\ LacCallsOK(x, y, mate) /\ LnsCallsOK(y, mate)
  BY <1>1 DEF Inv
<1> HIDE DEF x, y
<1>3. ASSUME NEW a \in DOMAIN x.calls, x.calls[a].cid # NoCid,
             x.calls[a].cid \in DOMAIN y.calls
      PROVE  y.calls[x.calls[a].cid].cid = a
  <2>1. mate[x.calls[a].cid] = a
    BY Zenon, <1>2, <1>3 DEF LacCallsOK
  <2>2. y.calls[x.calls[a].cid].cid = mate[x.calls[a].cid]
    BY Zenon, <1>2, <1>3 DEF LnsCallsOK
  <2> QED
    BY Zenon, <2>1, <2>2
<1>4. ASSUME NEW b \in DOMAIN y.calls, y.calls[b].cid \in DOMAIN x.calls
      PROVE  LET c == x.calls[y.calls[b].cid]
             IN  c.cid = b \/ (c.cid = NoCid /\ c.state = "ICRQ")
  <2> DEFINE a == y.calls[b].cid
  <2>1. b \in LnsIds(y) /\ a = mate[b]
    BY Zenon, <1>2 DEF LnsCallsOK
  <2> HIDE DEF a
  <2>2. a \in DOMAIN x.calls
    BY Zenon, <1>4 DEF a
  <2>3. \/ x.calls[a].state = "ICRQ" /\ x.calls[a].cid = NoCid
        \/ x.calls[a].cid \in LnsIds(y) /\ mate[x.calls[a].cid] = a
    BY Zenon, <1>2, <2>2 DEF LacCallsOK
  <2>4. x.calls[a].cid \in LnsIds(y) /\ mate[x.calls[a].cid] = a => x.calls[a].cid = b
    <3>1. \A d \in LnsIds(y) : mate[d] = mate[b] => d = b
      BY Zenon, <1>2, <2>1 DEF Mates
    <3> QED
      BY Zenon, <2>1, <3>1
  <2> QED
    BY Zenon, <2>3, <2>4 DEF a
<1>5. ASSUME NEW e \in Ends, NEW id \in DOMAIN end[e].calls,
             end[e].calls[id].cid # NoCid, Exists(Peer(e), end[e].calls[id].cid)
      PROVE  LET mt == end[Peer(e)].calls[end[e].calls[id].cid]
             IN  mt.cid = id \/ (mt.cid = NoCid /\ mt.state = "ICRQ")
  <2>1. CASE e = "lac"
    <3>1. end[e] = x /\ end[Peer(e)] = y
      BY Zenon, <2>1 DEF Peer, x, y
    <3> QED
      BY <1>3, <1>5, <3>1 DEF Exists
  <2>2. CASE e = "lns"
    <3>1. end[e] = y /\ end[Peer(e)] = x
      BY <2>2 DEF Peer, x, y
    <3> QED
      BY <1>4, <1>5, <3>1 DEF Exists
  <2> QED
    BY Zenon, <2>1, <2>2 DEF Ends
<1> QED
  BY Zenon, <1>5 DEF CallsPaired

-----------------------------------------------------------------------------
(* A step of the end s to t that sends nothing: calls go, or are closed.   *)
Shrinks(s, t) ==
  /\ t.made = s.made /\ t.ss = s.ss /\ t.out = s.out
  /\ t.alive /\ ~t.ahead => t.rr = s.rr
  /\ t.alive => s.alive
  /\ t.alive = s.alive \/ DOMAIN t.calls = {}
  /\ s.ahead => t.ahead
  /\ s.self.closing => t.self.closing
  /\ \A i \in DOMAIN t.calls :
       /\ i \in DOMAIN s.calls
       /\ t.calls[i].cid = s.calls[i].cid /\ t.calls[i].state = s.calls[i].state
       /\ Open(t.calls[i]) => Open(s.calls[i])

(* The invariant outlives such a step of the LAC if a call goes, or starts *)
(* to close, only when the LNS knows or will be told.                      *)
LEMMA LacShrinks ==
  ASSUME NEW x, NEW y, NEW mate, Inv(x, y, mate), NEW t \in Tunnel, Shrinks(x, t),
         \A a \in DOMAIN t.calls :
           t.calls[a].closing => x.calls[a].closing \/ LacMayDrop(x, y, mate, a),
         \A a \in DOMAIN x.calls :
           a \in DOMAIN t.calls \/ x.calls[a].closing \/ Going(t, y)
  PROVE  Inv(t, y, mate)
<1>1. /\ Out(t) = Out(x) /\ LacIds(t) = LacIds(x)
      /\ t.made = x.made /\ t.ss = x.ss /\ t.out = x.out
  BY DEF Shrinks, Out, LacIds
<1>2. /\ \A c, a : Cdn(t, c, a) <=> Cdn(x, c, a)
      /\ \A a : Icrq(t, a) <=> Icrq(x, a)
      /\ \A c : Iccn(t, c) <=> Iccn(x, c)
  BY Zenon, <1>1 DEF Cdn, Icrq, Iccn
<1>3. (Going(x, y) => Going(t, y)) /\ (Going(y, x) => Going(y, t))
  BY Zenon, <1>1 DEF Going, Shrinks
<1>4. \A a \in DOMAIN t.calls :
        /\ a \in DOMAIN x.calls
        /\ t.calls[a].cid = x.calls[a].cid /\ t.calls[a].state = x.calls[a].state
        /\ Open(t.calls[a]) => Open(x.calls[a])
  BY Zenon DEF Shrinks
<1>5. y \in Tunnel /\ Mates(t, y, mate) /\ LnsCallsOK(y, mate) /\ CdnMeant(y)
  BY Zenon, <1>1 DEF Inv, Mates
<1>6. LacCallsOK(t, y, mate)
  BY Zenon, <1>1, <1>4 DEF Inv, LacCallsOK
<1>7. /\ \A m \in Out(t) : LacSays(t, y, mate, m)
      /\ \A m \in Out(y) : LnsSays(y, mate, m)
  <2>1. /\ \A m \in Out(x) : LacSays(x, y, mate, m)
        /\ \A m \in Out(y) : LnsSays(y, mate, m)
    BY DEF Inv
  <2> QED
    BY Zenon, <1>1, <2>1 DEF LacSays
<1>8. Ordered(t, mate)
  <2>1. Ordered(x, mate)
    BY DEF Inv
  <2> QED
    BY <1>1, <2>1 DEF Ordered
<1>9. Numbered(t, y) /\ Numbered(y, t)
  <2>1. Numbered(x, y) /\ Numbered(y, x)
    BY DEF Inv
  <2>2. t.alive /\ ~t.ahead => x.alive /\ ~x.ahead /\ t.rr = x.rr
    BY Zenon DEF Shrinks
  <2> QED
    BY Zenon, <1>1, <2>1, <2>2 DEF Numbered
<1>10. CdnMeant(t)
  BY Zenon, <1>1, <1>4 DEF Inv, CdnMeant
<1>11. \A a : LacMayDrop(x, y, mate, a) => LacMayDrop(t, y, mate, a)
  BY Zenon, <1>2, <1>3 DEF LacMayDrop
<1>12. \A b : LnsMayDrop(x, y, mate, b) => LnsMayDrop(t, y, mate, b)
  BY Zenon, <1>3, <1>4 DEF LnsMayDrop
<1>13. ClosingMayGo(t, y, mate)
  <2>1. ClosingMayGo(x, y, mate)
    BY DEF Inv
  <2> QED
    BY Zenon, <1>4, <1>11, <1>12, <2>1 DEF ClosingMayGo
<1>14. LacCovered(t, y, mate)
  <2>1. LacCovered(x, y, mate)
    BY DEF Inv
  <2> QED
    BY Zenon, <1>3, <1>4, <2>1 DEF LacCovered
<1>15. IccnKnows(t, y, mate)
  <2>1. IccnKnows(x, y, mate)
    BY DEF Inv
  <2> QED
    BY Zenon, <1>2, <1>4, <2>1 DEF IccnKnows
<1>16. LnsCovered(t, y, mate)
  <2> SUFFICES ASSUME NEW b \in DOMAIN y.calls, Open(y.calls[b]), ~Going(t, y)
               PROVE  /\ y.calls[b].state = "ICCN" =>
                           mate[b] \in DOMAIN t.calls \/ Cdn(t, b, mate[b])
                      /\ Iccn(t, b) => \/ mate[b] \in DOMAIN t.calls
                                       \/ Cdn(t, b, mate[b])
                                       \/ Cdn(t, NoCid, mate[b])
    BY Zenon DEF LnsCovered
  <2>1. /\ LnsCovered(x, y, mate) /\ ClosingMayGo(x, y, mate)
        /\ IccnKnows(x, y, mate) /\ LnsCallsOK(y, mate)
    BY DEF Inv
  <2>2. /\ y.calls[b].state = "ICCN" => mate[b] \in DOMAIN x.calls \/ Cdn(x, b, mate[b])
        /\ Iccn(x, b) => \/ mate[b] \in DOMAIN x.calls \/ Cdn(x, b, mate[b])
                         \/ Cdn(x, NoCid, mate[b])
    BY Zenon, <1>3, <2>1 DEF LnsCovered
  <2>3. b \in LnsIds(y) /\ (y.calls[b].state = "ICCN" => ~Cdn(x, NoCid, mate[b]))
    BY Zenon, <2>1 DEF IccnKnows, LnsCallsOK
  <2>4. mate[b] \in DOMAIN x.calls /\ mate[b] \notin DOMAIN t.calls
          => Cdn(x, b, mate[b]) \/ Cdn(x, NoCid, mate[b])
    BY Zenon, <1>3, <2>1 DEF ClosingMayGo, LacMayDrop
  <2> QED
    BY Zenon, <1>2, <2>2, <2>3, <2>4
<1>17. DeadEmpty(t) /\ DeadEmpty(y)
  <2>1. DeadEmpty(x) /\ DeadEmpty(y)
    BY DEF Inv
  <2> QED
    BY Zenon, <2>1 DEF DeadEmpty, Shrinks
<1> QED
  BY Zenon, <1>5, <1>6, <1>7, <1>9, <1>10, <1>13, <1>14, <1>15, <1>16, <1>8, <1>17
  DEF Inv

(* The same for the LNS.                                                   *)
LEMMA LnsShrinks ==
  ASSUME NEW x, NEW y, NEW mate, Inv(x, y, mate), NEW t \in Tunnel, Shrinks(y, t),
         \A b \in DOMAIN t.calls :
           t.calls[b].closing => y.calls[b].closing \/ LnsMayDrop(x, y, mate, b),
         \A b \in DOMAIN y.calls :
           b \in DOMAIN t.calls \/ y.calls[b].closing \/ Going(t, x)
  PROVE  Inv(x, t, mate)
<1>1. /\ Out(t) = Out(y) /\ LnsIds(t) = LnsIds(y)
      /\ t.made = y.made /\ t.ss = y.ss /\ t.out = y.out
  BY DEF Shrinks, Out, LnsIds
<1>2. /\ \A c, a : Cdn(t, c, a) <=> Cdn(y, c, a)
      /\ \A c, a : Icrp(t, c, a) <=> Icrp(y, c, a)
  BY Zenon, <1>1 DEF Cdn, Icrp
<1>3. (Going(x, y) => Going(x, t)) /\ (Going(y, x) => Going(t, x))
  BY Zenon, <1>1 DEF Going, Shrinks
<1>4. \A b \in DOMAIN t.calls :
        /\ b \in DOMAIN y.calls
        /\ t.calls[b].cid = y.calls[b].cid /\ t.calls[b].state = y.calls[b].state
        /\ Open(t.calls[b]) => Open(y.calls[b])
  BY Zenon DEF Shrinks
<1>5. x \in Tunnel /\ Mates(x, t, mate) /\ CdnMeant(x) /\ Ordered(x, mate)
  BY Zenon, <1>1 DEF Inv, Mates
<1>6. LacCallsOK(x, t, mate) /\ LnsCallsOK(t, mate)
  <2>1. LacCallsOK(x, y, mate) /\ LnsCallsOK(y, mate)
    BY DEF Inv
  <2> QED
    BY Zenon, <1>1, <1>4, <2>1 DEF LacCallsOK, LnsCallsOK
<1>7. /\ \A m \in Out(x) : LacSays(x, t, mate, m)
      /\ \A m \in Out(t) : LnsSays(t, mate, m)
  <2>1. /\ \A m \in Out(x) : LacSays(x, y, mate, m)
        /\ \A m \in Out(y) : LnsSays(y, mate, m)
    BY DEF Inv
  <2> QED
    BY Zenon, <1>1, <2>1 DEF LacSays, LnsSays
<1>8. Numbered(x, t) /\ Numbered(t, x)
  <2>1. Numbered(x, y) /\ Numbered(y, x)
    BY DEF Inv
  <2>2. t.alive /\ ~t.ahead => y.alive /\ ~y.ahead /\ t.rr = y.rr
    BY Zenon DEF Shrinks
  <2> QED
    BY Zenon, <1>1, <2>1, <2>2 DEF Numbered
<1>9. CdnMeant(t)
  BY Zenon, <1>1, <1>4 DEF Inv, CdnMeant
<1>10. \A a : LacMayDrop(x, y, mate, a) => LacMayDrop(x, t, mate, a)
  BY Zenon, <1>3, <1>4 DEF LacMayDrop
<1>11. \A b : LnsMayDrop(x, y, mate, b) => LnsMayDrop(x, t, mate, b)
  BY Zenon, <1>2, <1>3 DEF LnsMayDrop
<1>12. ClosingMayGo(x, t, mate)
  <2>1. ClosingMayGo(x, y, mate)
    BY DEF Inv
  <2> QED
    BY Zenon, <1>4, <1>10, <1>11, <2>1 DEF ClosingMayGo
<1>13. LnsCovered(x, t, mate)
  <2>1. LnsCovered(x, y, mate)
    BY DEF Inv
  <2> QED
    BY Zenon, <1>3, <1>4, <2>1 DEF LnsCovered
<1>14. IccnKnows(x, t, mate)
  <2>1. IccnKnows(x, y, mate)
    BY DEF Inv
  <2> QED
    BY Zenon, <1>1, <1>4, <2>1 DEF IccnKnows
<1>15. LacCovered(x, t, mate)
  <2> SUFFICES ASSUME NEW b \in LnsIds(y), mate[b] \in DOMAIN x.calls,
                      Open(x.calls[mate[b]]), ~Going(t, x),
                      x.calls[mate[b]].state = "ICCN" \/ Icrp(y, mate[b], b)
               PROVE  b \in DOMAIN t.calls \/ Cdn(y, mate[b], b)
    BY Zenon, <1>1, <1>2 DEF LacCovered
  <2>1. LacCovered(x, y, mate) /\ ClosingMayGo(x, y, mate)
    BY DEF Inv
  <2>2. b \in DOMAIN y.calls \/ Cdn(y, mate[b], b)
    BY Zenon, <1>3, <2>1 DEF LacCovered
  <2>3. b \in DOMAIN y.calls /\ b \notin DOMAIN t.calls => Cdn(y, mate[b], b)
    BY Zenon, <1>3, <2>1 DEF ClosingMayGo, LnsMayDrop
  <2> QED
    BY Zenon, <2>2, <2>3
<1>16. DeadEmpty(x) /\ DeadEmpty(t)
  <2>1. DeadEmpty(x) /\ DeadEmpty(y)
    BY DEF Inv
  <2> QED
    BY Zenon, <2>1 DEF DeadEmpty, Shrinks
<1> QED
  BY Zenon, <1>5, <1>6, <1>7, <1>8, <1>9, <1>12, <1>13, <1>14, <1>15, <1>16 DEF Inv

-----------------------------------------------------------------------------
(* A step of the end s to t that only sends m.                             *)
Sends(s, t, m) ==
  /\ m \in Packet /\ m.ns = s.ss
  /\ t.out = Append(s.out, m) /\ t.ss = Follow(m)
  /\ t.made = s.made /\ t.rr = s.rr /\ t.alive = s.alive /\ t.ahead = s.ahead
  /\ t.self = s.self /\ t.calls = s.calls

(* A queue with a packet added at its end.                                 *)
LEMMA AppendIs ==
  ASSUME NEW q \in Seq(Packet), NEW m \in Packet, NEW r, r = Append(q, m)
  PROVE  /\ Len(q) \in Nat /\ Len(r) = Len(q) + 1 /\ r # <<>>
         /\ r[Len(r)] = m /\ r[Len(q) + 1] = m
         /\ \A i \in 1 .. Len(q) : r[i] = q[i]
         /\ \A i \in 1 .. Len(r) : i \in 1 .. Len(q) \/ i = Len(r)
  OBVIOUS

(* What is known of the messages after one is sent.                        *)
LEMMA SentIs ==
  ASSUME NEW s \in Tunnel, NEW t, NEW m, Sends(s, t, m)
  PROVE  /\ Out(t) = Out(s) \cup {m}
         /\ \A c, a : Cdn(s, c, a) => Cdn(t, c, a)
         /\ \A c, a : Cdn(t, c, a) => \/ Cdn(s, c, a)
                                      \/ m.type = "CDN" /\ m.cid = c /\ m.acid = a
         /\ m.type = "CDN" => Cdn(t, m.cid, m.acid)
         /\ \A c, a : Icrp(t, c, a) => \/ Icrp(s, c, a)
                                       \/ m.type = "ICRP" /\ m.cid = c /\ m.acid = a
         /\ \A a : Icrq(t, a) => Icrq(s, a) \/ (m.type = "ICRQ" /\ m.acid = a)
         /\ \A c : Iccn(t, c) => Iccn(s, c) \/ (m.type = "ICCN" /\ m.cid = c)
         /\ \A r : Going(s, r) => Going(t, r)
         /\ \A r : Going(r, s) => Going(r, t)
<1>1. s.out \in Seq(Packet) /\ m \in Packet /\ t.out = Append(s.out, m)
  BY DEF Sends, Tunnel
<1>2. Out(t) = Out(s) \cup {m}
  <2>1. /\ Len(s.out) \in Nat /\ Len(t.out) = Len(s.out) + 1
        /\ t.out[Len(t.out)] = m
        /\ \A i \in 1 .. Len(s.out) : t.out[i] = s.out[i]
        /\ \A i \in 1 .. Len(t.out) : i \in 1 .. Len(s.out) \/ i = Len(t.out)
    BY <1>1, AppendIs
  <2>2. /\ Len(t.out) \in 1 .. Len(t.out)
        /\ \A i \in 1 .. Len(s.out) : i \in 1 .. Len(t.out)
    BY <2>1
  <2> QED
    BY Zenon, <2>1, <2>2 DEF Out
<1>3. t.alive = s.alive /\ t.ahead = s.ahead /\ t.self = s.self
  BY Zenon DEF Sends
<1>4. /\ \A c, a : Cdn(s, c, a) => Cdn(t, c, a)
      /\ \A c, a : Cdn(t, c, a) => \/ Cdn(s, c, a)
                                   \/ m.type = "CDN" /\ m.cid = c /\ m.acid = a
      /\ m.type = "CDN" => Cdn(t, m.cid, m.acid)
  BY Zenon, <1>2 DEF Cdn
<1>5. ASSUME NEW c, NEW a, Icrp(t, c, a)
      PROVE  \/ Icrp(s, c, a)
             \/ m.type = "ICRP" /\ m.cid = c /\ m.acid = a
  <2>1. PICK n \in Out(t) : n.type = "ICRP" /\ n.cid = c /\ n.acid = a
    BY Zenon, <1>5 DEF Icrp
  <2>2. CASE n \in Out(s)
    BY Zenon, <2>1, <2>2 DEF Icrp
  <2>3. CASE n = m
    BY Zenon, <2>1, <2>3
  <2> QED
    BY Zenon, <1>2, <2>2, <2>3
<1>6. /\ \A a : Icrq(t, a) => Icrq(s, a) \/ (m.type = "ICRQ" /\ m.acid = a)
      /\ \A c : Iccn(t, c) => Iccn(s, c) \/ (m.type = "ICCN" /\ m.cid = c)
  BY Zenon, <1>2 DEF Icrq, Iccn
<1>7. /\ \A r : Going(s, r) => Going(t, r)
      /\ \A r : Going(r, s) => Going(r, t)
  BY Zenon, <1>2, <1>3 DEF Going
<1> QED
  BY Zenon, <1>2, <1>4, <1>5, <1>6, <1>7

(* The messages on their way are the old ones and the new one.             *)
LEMMA SentOut ==
  ASSUME NEW s \in Tunnel, NEW t, NEW m, Sends(s, t, m)
  PROVE  Out(t) = Out(s) \cup {m}
  BY SentIs

(* The numbers stay in order when s sends.                                 *)
LEMMA SentNumbered ==
  ASSUME NEW s \in Tunnel, NEW t, NEW m, Sends(s, t, m), NEW r,
         Numbered(s, r), Numbered(r, s)
  PROVE  Numbered(t, r) /\ Numbered(r, t)
<1>1. /\ m \in Packet /\ m.ns = s.ss /\ t.out = Append(s.out, m)
      /\ t.ss = Follow(m) /\ t.rr = s.rr /\ t.alive = s.alive /\ t.ahead = s.ahead
  BY Zenon DEF Sends
<1>2. s.out \in Seq(Packet)
  BY DEF Tunnel
<1>3. /\ Len(s.out) \in Nat /\ Len(t.out) = Len(s.out) + 1 /\ t.out # <<>>
      /\ t.out[Len(t.out)] = m
      /\ \A i \in 1 .. Len(s.out) : t.out[i] = s.out[i]
  BY <1>1, <1>2, AppendIs
<1>4. Numbered(r, t)
  BY Zenon, <1>1 DEF Numbered
<1>5. ASSUME r.alive, ~r.ahead
      PROVE  /\ t.out[1].ns = r.rr /\ Follow(t.out[Len(t.out)]) = t.ss
             /\ \A i \in 1 .. Len(t.out) - 1 : t.out[i + 1].ns = Follow(t.out[i])
  <2>1. /\ s.out = <<>> => r.rr = s.ss
        /\ s.out # <<>> => s.out[1].ns = r.rr /\ Follow(s.out[Len(s.out)]) = s.ss
        /\ \A i \in 1 .. Len(s.out) - 1 : s.out[i + 1].ns = Follow(s.out[i])
    BY Zenon, <1>5 DEF Numbered
  <2>2. CASE s.out = <<>>
    <3>1. Len(s.out) = 0 /\ Len(t.out) = 1
      BY <1>3, <2>2
    <3> QED
      BY <1>1, <1>3, <2>1, <2>2, <3>1
  <2>3. CASE s.out # <<>>
    <3>1. Len(s.out) # 0
      BY <1>2, <2>3
    <3>2. t.out[1].ns = r.rr
      <4>1. 1 \in 1 .. Len(s.out)
        BY <1>3, <3>1
      <4> QED
        BY Zenon, <1>3, <2>1, <2>3, <4>1
    <3>3. ASSUME NEW i \in 1 .. Len(t.out) - 1
          PROVE  t.out[i + 1].ns = Follow(t.out[i])
      <4>1. CASE i \in 1 .. Len(s.out) - 1
        <5>1. i + 1 \in 1 .. Len(s.out) /\ i \in 1 .. Len(s.out)
          BY <1>3, <4>1
        <5> QED
          BY Zenon, <1>3, <2>1, <4>1, <5>1
      <4>2. CASE i = Len(s.out)
        <5>1. i + 1 = Len(t.out) /\ i \in 1 .. Len(s.out)
          BY <1>3, <3>1, <4>2
        <5> QED
          BY Zenon, <1>1, <1>3, <2>1, <2>3, <4>2, <5>1
      <4> QED
        BY <1>3, <4>1, <4>2
    <3> QED
      BY Zenon, <1>1, <1>3, <3>2, <3>3
  <2> QED
    BY <2>2, <2>3
<1> QED
  BY Zenon, <1>3, <1>4, <1>5 DEF Numbered

(* The LAC may send what it may say, a CDN only for a call it has closed   *)
(* and an ICCN only for a call whose number at the LNS it knows.           *)
LEMMA LacSends ==
  ASSUME NEW x, NEW y, NEW mate, Inv(x, y, mate), NEW t \in Tunnel, NEW m,
         Sends(x, t, m), LacSays(x, y, mate, m),
         m.type = "CDN" =>
           /\ m.acid \in DOMAIN x.calls => ~Open(x.calls[m.acid])
           /\ m.cid = NoCid => /\ m.acid \in DOMAIN x.calls
                               /\ x.calls[m.acid].cid = NoCid,
         m.type = "ICCN" => /\ mate[m.cid] \in DOMAIN x.calls
                            /\ x.calls[mate[m.cid]].cid # NoCid,
         m.type = "ICRQ" =>
           /\ m.acid \in DOMAIN x.calls => ~x.calls[m.acid].closing
           /\ \A n \in Out(x) : n.type \in {"ICRQ", "CDN"} => n.acid # m.acid
  PROVE  Inv(t, y, mate)
<1>1. /\ t.made = x.made /\ t.calls = x.calls /\ LacIds(t) = LacIds(x)
      /\ x \in Tunnel
  BY Zenon DEF Sends, LacIds, Inv
<1>2. /\ Out(t) = Out(x) \cup {m}
      /\ \A c, a : Cdn(x, c, a) => Cdn(t, c, a)
      /\ \A c, a : Cdn(t, c, a) => \/ Cdn(x, c, a)
                                   \/ m.type = "CDN" /\ m.cid = c /\ m.acid = a
      /\ \A a : Icrq(t, a) => Icrq(x, a) \/ (m.type = "ICRQ" /\ m.acid = a)
      /\ \A c : Iccn(t, c) => Iccn(x, c) \/ (m.type = "ICCN" /\ m.cid = c)
      /\ Going(x, y) => Going(t, y)
      /\ Going(y, x) => Going(y, t)
  BY <1>1, SentIs
<1>3. /\ y \in Tunnel /\ Mates(t, y, mate) /\ LnsCallsOK(y, mate) /\ CdnMeant(y)
      /\ \A n \in Out(y) : LnsSays(y, mate, n)
  BY Zenon, <1>1 DEF Inv, Mates
<1>4. LacCallsOK(t, y, mate)
  BY Zenon, <1>1 DEF Inv, LacCallsOK
<1>5. \A n \in Out(t) : LacSays(t, y, mate, n)
  <2>1. \A n \in Out(t) : LacSays(x, y, mate, n)
    BY Zenon, <1>2 DEF Inv
  <2> QED
    BY Zenon, <1>1, <2>1 DEF LacSays
<1>6. Numbered(t, y) /\ Numbered(y, t)
  <2>1. Numbered(x, y) /\ Numbered(y, x)
    BY DEF Inv
  <2> QED
    BY Zenon, <1>1, <2>1, SentNumbered
<1>7. CdnMeant(t)
  <2>1. CdnMeant(x)
    BY DEF Inv
  <2> QED
    BY Zenon, <1>1, <1>2, <2>1 DEF CdnMeant
<1>8. ClosingMayGo(t, y, mate)
  <2>1. ClosingMayGo(x, y, mate)
    BY DEF Inv
  <2>2. ASSUME NEW a \in DOMAIN x.calls, x.calls[a].closing
        PROVE  LacMayDrop(t, y, mate, a)
    <3>1. LacMayDrop(x, y, mate, a)
      BY Zenon, <2>1, <2>2 DEF ClosingMayGo
    <3> QED
      BY Zenon, <1>2, <2>2, <3>1 DEF LacMayDrop
  <2>3. ASSUME NEW b \in DOMAIN y.calls, y.calls[b].closing
        PROVE  LnsMayDrop(t, y, mate, b)
    <3>1. LnsMayDrop(x, y, mate, b)
      BY Zenon, <2>1, <2>3 DEF ClosingMayGo
    <3> QED
      BY Zenon, <1>1, <1>2, <3>1 DEF LnsMayDrop
  <2> QED
    BY Zenon, <1>1, <2>2, <2>3 DEF ClosingMayGo
<1>9. LacCovered(t, y, mate)
  <2>1. LacCovered(x, y, mate)
    BY DEF Inv
  <2> QED
    BY Zenon, <1>1, <1>2, <2>1 DEF LacCovered
<1>10. LnsCovered(t, y, mate)
  <2>1. LnsCovered(x, y, mate)
    BY Zenon DEF Inv
  <2> QED
    BY Zenon, <1>1, <1>2, <2>1 DEF LnsCovered
<1>11. IccnKnows(x, y, mate)
  BY DEF Inv
<1>12. IccnKnows(t, y, mate)
  <2>1. ASSUME NEW b \in LnsIds(y), b \in DOMAIN y.calls, y.calls[b].state = "ICCN"
        PROVE  ~Cdn(t, NoCid, mate[b])
    BY <1>2, <1>11, <2>1 DEF IccnKnows
  <2>2. ASSUME NEW b \in LnsIds(y), mate[b] \in DOMAIN t.calls,
               (b \in DOMAIN y.calls /\ y.calls[b].state = "ICCN") \/ Iccn(t, b)
        PROVE  t.calls[mate[b]].cid # NoCid
    BY Zenon, <1>1, <1>2, <1>11, <2>2 DEF IccnKnows
  <2> QED
    BY Zenon, <2>1, <2>2 DEF IccnKnows
<1>13. Ordered(t, mate)
  <2>1. Ordered(x, mate)
    BY DEF Inv
  <2>2. /\ Len(x.out) \in Nat /\ Len(t.out) = Len(x.out) + 1
        /\ t.out[Len(t.out)] = m
        /\ \A i \in 1 .. Len(x.out) : t.out[i] = x.out[i]
        /\ \A i \in 1 .. Len(t.out) : i \in 1 .. Len(x.out) \/ i = Len(t.out)
    <3>1. x.out \in Seq(Packet) /\ m \in Packet /\ t.out = Append(x.out, m)
      BY <1>1 DEF Sends, Tunnel
    <3> QED
      BY <3>1, AppendIs
  <2>3. \A i \in 1 .. Len(x.out) : i < Len(t.out) /\ x.out[i] \in Out(x)
    BY <2>2 DEF Out
  <2>4. ASSUME NEW n \in Out(x)
        PROVE  /\ m.type = "ICRQ" /\ n.type \in {"ICRQ", "CDN"} => m.acid # n.acid
               /\ n.type = "ICRQ" /\ m.type = "ICRQ" => m.acid # n.acid
               /\ ~(/\ m.type = "CDN" /\ m.cid = NoCid /\ n.type = "ICCN"
                    /\ mate[n.cid] = m.acid)
    <3>1. n.type = "ICCN" => n.cid \in LnsIds(y) /\ Iccn(x, n.cid)
      BY Zenon DEF Inv, LacSays, Iccn
    <3> QED
      BY Zenon, <1>11, <3>1 DEF IccnKnows
  <2>5. ASSUME NEW i \in 1 .. Len(t.out), NEW j \in 1 .. Len(t.out)
        PROVE  LET k == t.out[i]
                   n == t.out[j]
               IN  /\ k.type = "ICRQ" /\ n.type = "ICRQ" /\ k.acid = n.acid => i = j
                   /\ k.type = "ICRQ" /\ n.type = "CDN" /\ k.acid = n.acid => i < j
                   /\ k.type = "CDN" /\ k.cid = NoCid /\ n.type = "ICCN"
                      /\ mate[n.cid] = k.acid => i < j
    <3>1. CASE i \in 1 .. Len(x.out) /\ j \in 1 .. Len(x.out)
      <4>1. t.out[i] = x.out[i] /\ t.out[j] = x.out[j]
        BY Zenon, <2>2, <3>1
      <4> QED
        BY Zenon, <2>1, <3>1, <4>1 DEF Ordered
    <3>2. CASE i = Len(t.out) /\ j = Len(t.out)
      BY Zenon, <2>2, <3>2
    <3>3. CASE i \in 1 .. Len(x.out) /\ j = Len(t.out)
      BY Zenon, <2>2, <2>3, <2>4, <3>3
    <3>4. CASE i = Len(t.out) /\ j \in 1 .. Len(x.out)
      BY Zenon, <2>2, <2>3, <2>4, <3>4
    <3> QED
      BY Zenon, <2>2, <3>1, <3>2, <3>3, <3>4
  <2> QED
    BY Zenon, <2>5 DEF Ordered
<1>14. DeadEmpty(t) /\ DeadEmpty(y)
  <2>1. DeadEmpty(x) /\ DeadEmpty(y)
    BY DEF Inv
  <2> QED
    BY Zenon, <2>1 DEF DeadEmpty, Sends
<1> QED
  BY Zenon, <1>3, <1>4, <1>5, <1>6, <1>7, <1>8, <1>9, <1>10, <1>12, <1>13, <1>14
  DEF Inv

(* The LNS may send what it may say, a CDN only for a call it has closed   *)
(* and an ICRP only for a call it has.                                     *)
LEMMA LnsSends ==
  ASSUME NEW x, NEW y, NEW mate, Inv(x, y, mate), NEW t \in Tunnel, NEW m,
         Sends(y, t, m), LnsSays(y, mate, m),
         m.type = "CDN" /\ m.acid \in DOMAIN y.calls => ~Open(y.calls[m.acid]),
         m.type = "ICRP" => m.acid \in DOMAIN y.calls
  PROVE  Inv(x, t, mate)
<1>1. /\ t.made = y.made /\ t.calls = y.calls /\ LnsIds(t) = LnsIds(y)
      /\ y \in Tunnel
  BY Zenon DEF Sends, LnsIds, Inv
<1>2. /\ Out(t) = Out(y) \cup {m}
      /\ \A c, a : Cdn(y, c, a) => Cdn(t, c, a)
      /\ \A c, a : Icrp(t, c, a) => \/ Icrp(y, c, a)
                                    \/ m.type = "ICRP" /\ m.cid = c /\ m.acid = a
      /\ Going(x, y) => Going(x, t)
      /\ Going(y, x) => Going(t, x)
  BY <1>1, SentIs
<1>3. x \in Tunnel /\ Mates(x, t, mate) /\ CdnMeant(x) /\ Ordered(x, mate)
  BY Zenon, <1>1 DEF Inv, Mates
<1>4. LacCallsOK(x, t, mate) /\ LnsCallsOK(t, mate)
  <2>1. LacCallsOK(x, y, mate) /\ LnsCallsOK(y, mate)
    BY DEF Inv
  <2> QED
    BY Zenon, <1>1, <2>1 DEF LacCallsOK, LnsCallsOK
<1>5. /\ \A n \in Out(x) : LacSays(x, t, mate, n)
      /\ \A n \in Out(t) : LnsSays(t, mate, n)
  <2>1. /\ \A n \in Out(x) : LacSays(x, y, mate, n)
        /\ \A n \in Out(t) : LnsSays(y, mate, n)
    BY Zenon, <1>2 DEF Inv
  <2> QED
    BY Zenon, <1>1, <2>1 DEF LacSays, LnsSays
<1>6. Numbered(x, t) /\ Numbered(t, x)
  <2>1. Numbered(x, y) /\ Numbered(y, x)
    BY DEF Inv
  <2> QED
    BY Zenon, <1>1, <2>1, SentNumbered
<1>7. CdnMeant(t)
  <2>1. CdnMeant(y)
    BY DEF Inv
  <2> QED
    BY Zenon, <1>1, <1>2, <2>1 DEF CdnMeant
<1>8. ClosingMayGo(x, t, mate)
  <2>1. ClosingMayGo(x, y, mate)
    BY DEF Inv
  <2>2. \A a : LacMayDrop(x, y, mate, a) => LacMayDrop(x, t, mate, a)
    BY Zenon, <1>1, <1>2 DEF LacMayDrop
  <2>3. \A b : LnsMayDrop(x, y, mate, b) => LnsMayDrop(x, t, mate, b)
    BY Zenon, <1>2 DEF LnsMayDrop
  <2> QED
    BY Zenon, <1>1, <2>1, <2>2, <2>3 DEF ClosingMayGo
<1>9. LacCovered(x, t, mate)
  <2>1. LacCovered(x, y, mate)
    BY DEF Inv
  <2> QED
    BY Zenon, <1>1, <1>2, <2>1 DEF LacCovered
<1>10. LnsCovered(x, t, mate)
  <2>1. LnsCovered(x, y, mate)
    BY DEF Inv
  <2> QED
    BY Zenon, <1>1, <1>2, <2>1 DEF LnsCovered
<1>11. IccnKnows(x, t, mate)
  <2>1. IccnKnows(x, y, mate)
    BY DEF Inv
  <2> QED
    BY Zenon, <1>1, <2>1 DEF IccnKnows
<1>12. DeadEmpty(x) /\ DeadEmpty(t)
  <2>1. DeadEmpty(x) /\ DeadEmpty(y)
    BY DEF Inv
  <2> QED
    BY Zenon, <2>1 DEF DeadEmpty, Sends
<1> QED
  BY Zenon, <1>3, <1>4, <1>5, <1>6, <1>7, <1>8, <1>9, <1>10, <1>11, <1>12 DEF Inv

-----------------------------------------------------------------------------
(* The first packet of s is read: what becomes of s, and of its reader r.  *)
Pops(s, t) ==
  /\ s.out # <<>> /\ t.out = Tail(s.out)
  /\ t.made = s.made /\ t.ss = s.ss /\ t.rr = s.rr /\ t.alive = s.alive
  /\ t.ahead = s.ahead /\ t.self = s.self /\ t.calls = s.calls

Reads(r, u, m) ==
  /\ u.out = r.out /\ u.made = r.made /\ u.ss = r.ss /\ u.alive = r.alive
  /\ u.self = r.self /\ u.calls = r.calls
  /\ r.ahead => u.ahead
  /\ u.alive /\ ~u.ahead => u.rr = Follow(m)

(* A queue is empty when its length is 0.                                  *)
LEMMA SeqEmpty ==
  ASSUME NEW q \in Seq(Packet)
  PROVE  Len(q) \in Nat /\ (q = <<>> <=> Len(q) = 0)
  OBVIOUS

(* A queue with its first packet taken off.                                *)
LEMMA TailIs ==
  ASSUME NEW q \in Seq(Packet), q # <<>>, NEW r, r = Tail(q)
  PROVE  /\ Len(q) \in Nat /\ Len(q) # 0 /\ Len(r) = Len(q) - 1
         /\ Head(q) = q[1]
         /\ \A i \in 1 .. Len(r) : i + 1 \in 1 .. Len(q) /\ r[i] = q[i + 1]
         /\ \A i \in 1 .. Len(q) : i = 1 \/ (i - 1 \in 1 .. Len(r) /\ r[i - 1] = q[i])
         /\ r = <<>> => Len(q) = 1 
         /\ r # <<>> => /\ 1 \in 1 .. Len(q) - 1
                        /\ r[1] = q[1 + 1] /\ r[Len(r)] = q[Len(q)]
<1>1. /\ Len(q) \in Nat /\ Len(q) # 0 /\ Len(r) = Len(q) - 1
      /\ Head(q) = q[1]
      /\ \A i \in 1 .. Len(r) : i + 1 \in 1 .. Len(q) /\ r[i] = q[i + 1]
      /\ \A i \in 1 .. Len(q) : i = 1 \/ (i - 1 \in 1 .. Len(r) /\ r[i - 1] = q[i])
  OBVIOUS
<1>2. r \in Seq(Packet)
  OBVIOUS
<1>3. (r = <<>> <=> Len(r) = 0) /\ Len(r) \in Nat
  BY Zenon, <1>2, SeqEmpty
<1>4. r = <<>> => Len(q) = 1 
  BY <1>1, <1>3
<1>5. r # <<>> => /\ 1 \in 1 .. Len(q) - 1
                  /\ r[1] = q[1 + 1] /\ r[Len(r)] = q[Len(q)]
  BY <1>1, <1>3
<1> QED
  BY <1>1, <1>4, <1>5

(* Neighbours in the rest of a queue are neighbours in the queue.          *)
LEMMA TailNext ==
  ASSUME NEW q \in Seq(Packet), q # <<>>, NEW r, r = Tail(q),
         NEW i \in 1 .. Len(r) - 1
  PROVE  /\ i + 1 \in 1 .. Len(q) - 1
         /\ r[i] = q[i + 1] /\ r[i + 1] = q[(i + 1) + 1]
  OBVIOUS

(* What is known of the messages after one is read.                        *)
LEMMA PoppedIs ==
  ASSUME NEW s \in Tunnel, NEW t, Pops(s, t)
  PROVE  /\ Out(s) = Out(t) \cup {Head(s.out)}
         /\ \A c, a : Cdn(t, c, a) => Cdn(s, c, a)
         /\ \A c, a : Cdn(s, c, a) => \/ Cdn(t, c, a)
                                      \/ /\ Head(s.out).type = "CDN"
                                         /\ Head(s.out).cid = c
                                         /\ Head(s.out).acid = a
         /\ \A c, a : Icrp(t, c, a) => Icrp(s, c, a)
         /\ \A a : Icrq(t, a) => Icrq(s, a)
         /\ \A c : Iccn(t, c) => Iccn(s, c)
<1> DEFINE m == Head(s.out)
<1>1. s.out \in Seq(Packet) /\ s.out # <<>> /\ t.out = Tail(s.out)
  BY DEF Pops, Tunnel
<1>2. Out(s) = Out(t) \cup {m}
  <2>1. /\ Len(s.out) \in Nat /\ Len(s.out) # 0
        /\ m = s.out[1]
        /\ \A i \in 1 .. Len(t.out) : i + 1 \in 1 .. Len(s.out) /\ t.out[i] = s.out[i + 1]
        /\ \A i \in 1 .. Len(s.out) :
             i = 1 \/ (i - 1 \in 1 .. Len(t.out) /\ t.out[i - 1] = s.out[i])
    BY <1>1, TailIs
  <2>2. 1 \in 1 .. Len(s.out)
    BY <2>1
  <2>3. ASSUME NEW n \in Out(s), n # m
        PROVE  n \in Out(t)
    <3>1. PICK i \in 1 .. Len(s.out) : n = s.out[i]
      BY Zenon DEF Out
    <3>2. i - 1 \in 1 .. Len(t.out) /\ t.out[i - 1] = n
      BY Zenon, <2>1, <2>3, <3>1
    <3> QED
      BY Zenon, <3>2 DEF Out
  <2>4. m \in Out(s)
    BY Zenon, <2>1, <2>2 DEF Out
  <2>5. ASSUME NEW n \in Out(t)
        PROVE  n \in Out(s)
    <3>1. PICK i \in 1 .. Len(t.out) : n = t.out[i]
      BY Zenon DEF Out
    <3>2. i + 1 \in 1 .. Len(s.out) /\ s.out[i + 1] = n
      BY Zenon, <2>1, <3>1
    <3> QED
      BY Zenon, <3>2 DEF Out
  <2> QED
    BY Zenon, <2>3, <2>4, <2>5
<1> HIDE DEF m
<1>3. /\ \A c, a : Cdn(t, c, a) => Cdn(s, c, a)
      /\ \A c, a : Icrp(t, c, a) => Icrp(s, c, a)
      /\ \A a : Icrq(t, a) => Icrq(s, a)
      /\ \A c : Iccn(t, c) => Iccn(s, c)
  BY Zenon, <1>2 DEF Cdn, Icrp, Icrq, Iccn
<1>4. ASSUME NEW c, NEW a, Cdn(s, c, a)
      PROVE  Cdn(t, c, a) \/ (m.type = "CDN" /\ m.cid = c /\ m.acid = a)
  <2>1. PICK n \in Out(s) : n.type = "CDN" /\ n.cid = c /\ n.acid = a
    BY Zenon, <1>4 DEF Cdn
  <2>2. CASE n \in Out(t)
    BY Zenon, <2>1, <2>2 DEF Cdn
  <2>3. CASE n = m
    BY Zenon, <2>1, <2>3
  <2> QED
    BY Zenon, <1>2, <2>2, <2>3
<1> QED
  BY Zenon, <1>2, <1>3, <1>4 DEF m

(* The numbers stay in order when a packet is read.                        *)
LEMMA PoppedNumbered ==
  ASSUME NEW s \in Tunnel, NEW t, Pops(s, t), NEW r, NEW u,
         Reads(r, u, Head(s.out)), Numbered(s, r), Numbered(r, s)
  PROVE  Numbered(t, u) /\ Numbered(u, t)
<1>1. /\ s.out \in Seq(Packet) /\ s.out # <<>> /\ t.out = Tail(s.out)
      /\ t.ss = s.ss /\ t.rr = s.rr /\ t.alive = s.alive /\ t.ahead = s.ahead
  BY DEF Pops, Tunnel
<1>2. /\ u.out = r.out /\ u.ss = r.ss
      /\ u.alive /\ ~u.ahead => r.alive /\ ~r.ahead /\ u.rr = Follow(Head(s.out))
  BY Zenon DEF Reads
<1>3. Numbered(u, t)
  BY Zenon, <1>1, <1>2 DEF Numbered
<1>4. ASSUME u.alive, ~u.ahead
      PROVE  /\ t.out = <<>> => u.rr = t.ss
             /\ t.out # <<>> => t.out[1].ns = u.rr /\ Follow(t.out[Len(t.out)]) = t.ss
             /\ \A i \in 1 .. Len(t.out) - 1 : t.out[i + 1].ns = Follow(t.out[i])
  <2>1. Head(s.out) = s.out[1] /\ (t.out = <<>> => Len(s.out) = 1)
    BY Zenon, <1>1, TailIs
  <2>2. t.out # <<>> => /\ 1 \in 1 .. Len(s.out) - 1
                        /\ t.out[1] = s.out[1 + 1]
                        /\ t.out[Len(t.out)] = s.out[Len(s.out)]
    BY Zenon, <1>1, TailIs
  <2>3. \A i \in 1 .. Len(t.out) - 1 :
          /\ i + 1 \in 1 .. Len(s.out) - 1
          /\ t.out[i] = s.out[i + 1] /\ t.out[i + 1] = s.out[(i + 1) + 1]
    BY Zenon, <1>1, TailNext
  <2>4. /\ Follow(s.out[Len(s.out)]) = s.ss
        /\ \A i \in 1 .. Len(s.out) - 1 : s.out[i + 1].ns = Follow(s.out[i])
        /\ u.rr = Follow(s.out[1])
    BY Zenon, <1>1, <1>2, <1>4, <2>1 DEF Numbered
  <2>5. t.out = <<>> => u.rr = t.ss
    BY Zenon, <1>1, <2>1, <2>4
  <2>6. t.out # <<>> => t.out[1].ns = u.rr /\ Follow(t.out[Len(t.out)]) = t.ss
    BY Zenon, <1>1, <2>2, <2>4
  <2>7. \A i \in 1 .. Len(t.out) - 1 : t.out[i + 1].ns = Follow(t.out[i])
    BY Zenon, <2>3, <2>4
  <2> QED
    BY Zenon, <2>5, <2>6, <2>7
<1> QED
  BY Zenon, <1>3, <1>4 DEF Numbered

(* What m told its reader has been done, or does not matter any more.      *)
LnsDone(y, mate, m) ==
  /\ m.type # "StopCCN"
  /\ m.type = "CDN" => \A b \in DOMAIN y.calls :
       Open(y.calls[b]) => m.cid # b /\ (m.cid = NoCid => mate[b] # m.acid)

LacDone(x, m) ==
  /\ m.type # "StopCCN"
  /\ m.type = "CDN" => \A a \in DOMAIN x.calls : Open(x.calls[a]) => m.cid # a

(* Reading a packet leaves a tunnel that is going away going, unless the   *)
(* packet was the StopCCN that said so.                                    *)
LEMMA PoppedGoing ==
  ASSUME NEW s, NEW t, NEW r, NEW u, NEW m, Pops(s, t), Reads(r, u, m),
         Out(s) = Out(t) \cup {m}
  PROVE  /\ Going(s, r) => Going(t, u) \/ m.type = "StopCCN"
         /\ Going(r, s) => Going(u, t)
<1>1. /\ t.alive = s.alive /\ t.ahead = s.ahead /\ t.self = s.self
      /\ u.alive = r.alive /\ u.self = r.self /\ (r.ahead => u.ahead)
      /\ u.out = r.out
  BY Zenon DEF Pops, Reads
<1>2. Out(u) = Out(r)
  BY <1>1 DEF Out
<1>3. Going(r, s) => Going(u, t)
  BY Zenon, <1>1, <1>2 DEF Going
<1>4. ASSUME Going(s, r), ~Going(t, u)
      PROVE  m.type = "StopCCN"
  <2>1. \E n \in Out(s) : n.type = "StopCCN"
    BY Zenon, <1>1, <1>4 DEF Going
  <2>2. ~ \E n \in Out(t) : n.type = "StopCCN"
    BY Zenon, <1>4 DEF Going
  <2> QED
    BY Zenon, <2>1, <2>2
<1> QED
  BY Zenon, <1>3, <1>4

(* The LNS reads a packet.                                                 *)
LEMMA LnsReads ==
  ASSUME NEW x, NEW y, NEW mate, Inv(x, y, mate),
         NEW t \in Tunnel, NEW u \in Tunnel, Pops(x, t), Reads(y, u, Head(x.out)),
         Going(t, u) \/ LnsDone(y, mate, Head(x.out))
  PROVE  Inv(t, u, mate)
<1> DEFINE m == Head(x.out)
<1>1. /\ t.made = x.made /\ t.calls = x.calls /\ LacIds(t) = LacIds(x)
      /\ u.made = y.made /\ u.calls = y.calls /\ LnsIds(u) = LnsIds(y)
      /\ u.out = y.out /\ Out(u) = Out(y)
  BY Zenon DEF Pops, Reads, LacIds, LnsIds, Out
<1>2. x \in Tunnel
  BY DEF Inv
<1>3. Out(x) = Out(t) \cup {m}
  BY Zenon, <1>2, PoppedIs
<1>4. /\ \A c, a : Cdn(t, c, a) => Cdn(x, c, a)
      /\ \A a : Icrq(t, a) => Icrq(x, a)
      /\ \A c : Iccn(t, c) => Iccn(x, c)
  BY Zenon, <1>2, PoppedIs
<1>5. \A c, a : Cdn(x, c, a) =>
        Cdn(t, c, a) \/ (m.type = "CDN" /\ m.cid = c /\ m.acid = a)
  BY <1>2, PoppedIs
<1>6. /\ \A c, a : Cdn(u, c, a) <=> Cdn(y, c, a)
      /\ \A c, a : Icrp(u, c, a) <=> Icrp(y, c, a)
  BY Zenon, <1>1 DEF Cdn, Icrp
<1>7. /\ Going(x, y) => Going(t, u) \/ m.type = "StopCCN"
      /\ Going(y, x) => Going(u, t)
  BY Zenon, <1>3, PoppedGoing
<1>8. Numbered(t, u) /\ Numbered(u, t)
  <2>1. Numbered(x, y) /\ Numbered(y, x)
    BY DEF Inv
  <2> QED
    BY Zenon, <1>2, <2>1, PoppedNumbered
<1>9. Going(t, u) \/ LnsDone(y, mate, m)
  OBVIOUS
<1>10. Ordered(x, mate)
  BY DEF Inv
<1>11. /\ Len(x.out) \in Nat /\ Len(x.out) # 0 /\ m = x.out[1]
       /\ \A i \in 1 .. Len(t.out) : i + 1 \in 1 .. Len(x.out) /\ t.out[i] = x.out[i + 1]
  <2>1. x.out \in Seq(Packet) /\ x.out # <<>> /\ t.out = Tail(x.out)
    BY <1>2 DEF Pops, Tunnel
  <2> QED
    BY <2>1, TailIs
<1>12. Ordered(t, mate)
  <2>1. ASSUME NEW i \in 1 .. Len(t.out), NEW j \in 1 .. Len(t.out)
        PROVE  LET k == t.out[i]
                   n == t.out[j]
               IN  /\ k.type = "ICRQ" /\ n.type = "ICRQ" /\ k.acid = n.acid => i = j
                   /\ k.type = "ICRQ" /\ n.type = "CDN" /\ k.acid = n.acid => i < j
                   /\ k.type = "CDN" /\ k.cid = NoCid /\ n.type = "ICCN"
                      /\ mate[n.cid] = k.acid => i < j
    <3>1. /\ i + 1 \in 1 .. Len(x.out) /\ t.out[i] = x.out[i + 1]
          /\ j + 1 \in 1 .. Len(x.out) /\ t.out[j] = x.out[j + 1]
      BY Zenon, <1>11
    <3>2. (i + 1 = j + 1 => i = j) /\ (i + 1 < j + 1 => i < j)
      OBVIOUS
    <3>3. LET k == t.out[i]
              n == t.out[j]
          IN  /\ k.type = "ICRQ" /\ n.type = "ICRQ" /\ k.acid = n.acid => i + 1 = j + 1
              /\ k.type = "ICRQ" /\ n.type = "CDN" /\ k.acid = n.acid => i + 1 < j + 1
              /\ k.type = "CDN" /\ k.cid = NoCid /\ n.type = "ICCN"
                 /\ mate[n.cid] = k.acid => i + 1 < j + 1
      BY Zenon, <1>10, <3>1 DEF Ordered
    <3> QED
      BY Zenon, <3>2, <3>3
  <2> QED
    BY Zenon, <2>1 DEF Ordered
<1> HIDE DEF m
<1>13. Mates(t, u, mate) /\ LacCallsOK(t, u, mate) /\ LnsCallsOK(u, mate)
  <2>1. Mates(x, y, mate) /\ LacCallsOK(x, y, mate) /\ LnsCallsOK(y, mate)
    BY DEF Inv
  <2>2. Mates(t, u, mate)
    BY Zenon, <1>1, <2>1 DEF Mates
  <2>3. LacCallsOK(t, u, mate)
    BY Zenon, <1>1, <2>1 DEF LacCallsOK
  <2>4. LnsCallsOK(u, mate)
    BY Zenon, <1>1, <2>1 DEF LnsCallsOK
  <2> QED
    BY Zenon, <2>2, <2>3, <2>4
<1>14. /\ \A n \in Out(t) : LacSays(t, u, mate, n)
       /\ \A n \in Out(u) : LnsSays(u, mate, n)
  <2>1. /\ \A n \in Out(t) : LacSays(x, y, mate, n)
        /\ \A n \in Out(u) : LnsSays(y, mate, n)
    BY Zenon, <1>1, <1>3 DEF Inv
  <2> QED
    BY Zenon, <1>1, <2>1 DEF LacSays, LnsSays
<1>15. CdnMeant(t) /\ CdnMeant(u)
  <2>1. CdnMeant(x) /\ CdnMeant(y)
    BY DEF Inv
  <2> QED
    BY Zenon, <1>1, <1>3, <2>1 DEF CdnMeant
<1>16. ASSUME NEW a, LacMayDrop(x, y, mate, a)
       PROVE  LacMayDrop(t, u, mate, a)
  <2> SUFFICES ASSUME ~Going(t, u)
               PROVE  /\ \A b \in DOMAIN u.calls :
                           mate[b] = a /\ Open(u.calls[b]) =>
                             Cdn(t, b, a) \/ Cdn(t, NoCid, a)
                      /\ Icrq(t, a) => Cdn(t, NoCid, a)
    BY Zenon DEF LacMayDrop
  <2>1. LnsDone(y, mate, m) /\ m.type # "StopCCN" /\ ~Going(x, y)
    BY Zenon, <1>7, <1>9 DEF LnsDone
  <2>2. ASSUME NEW b \in DOMAIN u.calls, mate[b] = a, Open(u.calls[b])
        PROVE  Cdn(t, b, a) \/ Cdn(t, NoCid, a)
    <3>1. Cdn(x, b, a) \/ Cdn(x, NoCid, a)
      BY Zenon, <1>1, <1>16, <2>1, <2>2 DEF LacMayDrop
    <3>2. ~(m.type = "CDN" /\ m.cid = b)
      BY Zenon, <1>1, <2>1, <2>2 DEF LnsDone
    <3>3. ~(m.type = "CDN" /\ m.cid = NoCid /\ m.acid = a)
      BY Zenon, <1>1, <2>1, <2>2 DEF LnsDone
    <3> QED
      BY Zenon, <1>5, <3>1, <3>2, <3>3
  <2>3. ASSUME Icrq(t, a)
        PROVE  Cdn(t, NoCid, a)
    <3>1. Cdn(x, NoCid, a)
      BY Zenon, <1>4, <1>16, <2>1, <2>3 DEF LacMayDrop
    <3>2. PICK n \in Out(x) : n.type = "ICRQ" /\ n.acid = a
      BY Zenon, <1>4, <2>3 DEF Icrq
    <3>3. PICK j \in 1 .. Len(x.out) : n = x.out[j]
      BY Zenon DEF Out
    <3>4. ~(m.type = "CDN" /\ m.acid = a)
      <4>1. 1 \in 1 .. Len(x.out) /\ ~(j < 1)
        BY <1>11
      <4> QED
        BY Zenon, <1>10, <1>11, <3>2, <3>3, <4>1 DEF Ordered
    <3> QED
      BY Zenon, <1>5, <3>1, <3>4
  <2> QED
    BY Zenon, <2>2, <2>3
<1>17. \A b : LnsMayDrop(x, y, mate, b) => LnsMayDrop(t, u, mate, b)
  BY Zenon, <1>1, <1>6, <1>7 DEF LnsMayDrop
<1>18. ClosingMayGo(t, u, mate)
  <2>1. ClosingMayGo(x, y, mate)
    BY DEF Inv
  <2> QED
    BY Zenon, <1>1, <1>16, <1>17, <2>1 DEF ClosingMayGo
<1>19. LacCovered(t, u, mate)
  <2>1. LacCovered(x, y, mate)
    BY DEF Inv
  <2> QED
    BY Zenon, <1>1, <1>6, <1>7, <2>1 DEF LacCovered
<1>20. IccnKnows(t, u, mate)
  <2>1. IccnKnows(x, y, mate)
    BY DEF Inv
  <2> QED
    BY Zenon, <1>1, <1>4, <2>1 DEF IccnKnows
<1>21. LnsCovered(t, u, mate)
  <2> SUFFICES ASSUME NEW b \in DOMAIN y.calls, Open(y.calls[b]), ~Going(t, u)
               PROVE  /\ y.calls[b].state = "ICCN" =>
                           mate[b] \in DOMAIN t.calls \/ Cdn(t, b, mate[b])
                      /\ Iccn(t, b) => \/ mate[b] \in DOMAIN t.calls
                                       \/ Cdn(t, b, mate[b])
                                       \/ Cdn(t, NoCid, mate[b])
    BY Zenon, <1>1 DEF LnsCovered
  <2>1. LnsDone(y, mate, m) /\ ~Going(x, y)
    BY Zenon, <1>7, <1>9 DEF LnsDone
  <2>2. /\ ~(m.type = "CDN" /\ m.cid = b)
        /\ ~(m.type = "CDN" /\ m.cid = NoCid /\ m.acid = mate[b])
    BY Zenon, <2>1 DEF LnsDone
  <2>3. /\ Cdn(x, b, mate[b]) => Cdn(t, b, mate[b])
        /\ Cdn(x, NoCid, mate[b]) => Cdn(t, NoCid, mate[b])
    BY Zenon, <1>5, <2>2
  <2>4. LnsCovered(x, y, mate)
    BY DEF Inv
  <2> QED
    BY Zenon, <1>1, <1>4, <2>1, <2>3, <2>4 DEF LnsCovered
<1>22. DeadEmpty(t) /\ DeadEmpty(u)
  <2>1. DeadEmpty(x) /\ DeadEmpty(y)
    BY DEF Inv
  <2> QED
    BY Zenon, <2>1 DEF DeadEmpty, Pops, Reads
<1> QED
  BY Zenon, <1>8, <1>12, <1>13, <1>14, <1>15, <1>18, <1>19, <1>20, <1>21, <1>22 DEF Inv

(* The LAC reads a packet.                                                 *)
LEMMA LacReads ==
  ASSUME NEW x, NEW y, NEW mate, Inv(x, y, mate),
         NEW t \in Tunnel, NEW u \in Tunnel, Pops(y, t), Reads(x, u, Head(y.out)),
         Going(t, u) \/ LacDone(x, Head(y.out))
  PROVE  Inv(u, t, mate)
<1> DEFINE m == Head(y.out)
<1>1. /\ u.made = x.made /\ u.calls = x.calls /\ LacIds(u) = LacIds(x)
      /\ t.made = y.made /\ t.calls = y.calls /\ LnsIds(t) = LnsIds(y)
      /\ u.out = x.out /\ Out(u) = Out(x)
  BY Zenon DEF Pops, Reads, LacIds, LnsIds, Out
<1>2. y \in Tunnel
  BY DEF Inv
<1>3. Out(y) = Out(t) \cup {m}
  BY Zenon, <1>2, PoppedIs
<1>4. /\ \A c, a : Cdn(t, c, a) => Cdn(y, c, a)
      /\ \A c, a : Icrp(t, c, a) => Icrp(y, c, a)
  BY Zenon, <1>2, PoppedIs
<1>5. \A c, a : Cdn(y, c, a) =>
        Cdn(t, c, a) \/ (m.type = "CDN" /\ m.cid = c /\ m.acid = a)
  BY <1>2, PoppedIs
<1>6. /\ \A c, a : Cdn(u, c, a) <=> Cdn(x, c, a)
      /\ \A a : Icrq(u, a) <=> Icrq(x, a)
      /\ \A c : Iccn(u, c) <=> Iccn(x, c)
  BY Zenon, <1>1 DEF Cdn, Icrq, Iccn
<1>7. /\ Going(y, x) => Going(t, u) \/ m.type = "StopCCN"
      /\ Going(x, y) => Going(u, t)
  BY Zenon, <1>3, PoppedGoing
<1>8. Numbered(t, u) /\ Numbered(u, t)
  <2>1. Numbered(x, y) /\ Numbered(y, x)
    BY DEF Inv
  <2> QED
    BY Zenon, <1>2, <2>1, PoppedNumbered
<1>9. Going(t, u) \/ LacDone(x, m)
  OBVIOUS
<1> HIDE DEF m
<1>10. /\ Mates(u, t, mate) /\ LacCallsOK(u, t, mate) /\ LnsCallsOK(t, mate)
  <2>1. Mates(x, y, mate) /\ LacCallsOK(x, y, mate) /\ LnsCallsOK(y, mate)
    BY DEF Inv
  <2>2. Mates(u, t, mate)
    BY Zenon, <1>1, <2>1 DEF Mates
  <2>3. LacCallsOK(u, t, mate)
    BY Zenon, <1>1, <2>1 DEF LacCallsOK
  <2>4. LnsCallsOK(t, mate)
    BY Zenon, <1>1, <2>1 DEF LnsCallsOK
  <2> QED
    BY Zenon, <2>2, <2>3, <2>4
<1>11. Ordered(u, mate)
  <2>1. Ordered(x, mate)
    BY DEF Inv
  <2> QED
    BY <1>1, <2>1 DEF Ordered
<1>12. /\ \A n \in Out(u) : LacSays(u, t, mate, n)
       /\ \A n \in Out(t) : LnsSays(t, mate, n)
  <2>1. /\ \A n \in Out(u) : LacSays(x, y, mate, n)
        /\ \A n \in Out(t) : LnsSays(y, mate, n)
    BY Zenon, <1>1, <1>3 DEF Inv
  <2> QED
    BY Zenon, <1>1, <2>1 DEF LacSays, LnsSays
<1>13. CdnMeant(t) /\ CdnMeant(u)
  <2>1. CdnMeant(x) /\ CdnMeant(y)
    BY DEF Inv
  <2> QED
    BY Zenon, <1>1, <1>3, <2>1 DEF CdnMeant
<1>14. ASSUME ~Going(t, u)
       PROVE  /\ ~Going(y, x)
              /\ \A a \in DOMAIN x.calls : Open(x.calls[a]) =>
                   \A b : Cdn(y, a, b) => Cdn(t, a, b)
  <2>1. LacDone(x, m) /\ ~Going(y, x)
    BY Zenon, <1>7, <1>9, <1>14 DEF LacDone
  <2> QED
    BY Zenon, <1>5, <2>1 DEF LacDone
<1>15. \A a : LacMayDrop(x, y, mate, a) => LacMayDrop(u, t, mate, a)
  BY Zenon, <1>1, <1>6, <1>7 DEF LacMayDrop
<1>16. \A b : LnsMayDrop(x, y, mate, b) => LnsMayDrop(u, t, mate, b)
  BY Zenon, <1>1, <1>14 DEF LnsMayDrop
<1>17. ClosingMayGo(u, t, mate)
  <2>1. ClosingMayGo(x, y, mate)
    BY DEF Inv
  <2> QED
    BY Zenon, <1>1, <1>15, <1>16, <2>1 DEF ClosingMayGo
<1>18. LacCovered(u, t, mate)
  <2>1. LacCovered(x, y, mate)
    BY DEF Inv
  <2> QED
    BY Zenon, <1>1, <1>4, <1>14, <2>1 DEF LacCovered
<1>19. IccnKnows(u, t, mate)
  <2>1. IccnKnows(x, y, mate)
    BY DEF Inv
  <2> QED
    BY Zenon, <1>1, <1>6, <2>1 DEF IccnKnows
<1>20. LnsCovered(u, t, mate)
  <2>1. LnsCovered(x, y, mate)
    BY DEF Inv
  <2> QED
    BY Zenon, <1>1, <1>6, <1>7, <2>1 DEF LnsCovered
<1>21. DeadEmpty(u) /\ DeadEmpty(t)
  <2>1. DeadEmpty(x) /\ DeadEmpty(y)
    BY DEF Inv
  <2> QED
    BY Zenon, <2>1 DEF DeadEmpty, Pops, Reads
<1> QED
  BY Zenon, <1>8, <1>10, <1>11, <1>12, <1>13, <1>17, <1>18, <1>19, <1>20, <1>21 DEF Inv

-----------------------------------------------------------------------------
(* Steps that change the calls of an end and nothing else of its tunnel.   *)
Same(s, t) ==
  /\ t.out = s.out /\ t.ss = s.ss /\ t.rr = s.rr /\ t.alive = s.alive
  /\ t.ahead = s.ahead /\ t.self = s.self

(* Such a step changes nothing that is said of the messages.               *)
LEMMA SameIs ==
  ASSUME NEW s, NEW t, Same(s, t)
  PROVE  /\ Out(t) = Out(s)
         /\ \A c, a : Cdn(t, c, a) <=> Cdn(s, c, a)
         /\ \A c, a : Icrp(t, c, a) <=> Icrp(s, c, a)
         /\ \A a : Icrq(t, a) <=> Icrq(s, a)
         /\ \A c : Iccn(t, c) <=> Iccn(s, c)
         /\ \A r : Going(s, r) <=> Going(t, r)
         /\ \A r : Going(r, s) <=> Going(r, t)
         /\ \A r : Numbered(s, r) <=> Numbered(t, r)
         /\ \A r : Numbered(r, s) <=> Numbered(r, t)
<1>1. /\ t.out = s.out /\ t.ss = s.ss /\ t.rr = s.rr /\ t.alive = s.alive
      /\ t.ahead = s.ahead /\ t.self = s.self
  BY Zenon DEF Same
<1>2. Out(t) = Out(s)
  BY Zenon, <1>1 DEF Out
<1>3. /\ \A c, a : Cdn(t, c, a) <=> Cdn(s, c, a)
      /\ \A c, a : Icrp(t, c, a) <=> Icrp(s, c, a)
  BY Zenon, <1>2 DEF Cdn, Icrp
<1>4. /\ \A a : Icrq(t, a) <=> Icrq(s, a)
      /\ \A c : Iccn(t, c) <=> Iccn(s, c)
  BY Zenon, <1>2 DEF Icrq, Iccn
<1>5. /\ \A r : Going(s, r) <=> Going(t, r)
      /\ \A r : Going(r, s) <=> Going(r, t)
  BY Zenon, <1>1, <1>2 DEF Going
<1>6. \A r : Numbered(s, r) <=> Numbered(t, r)
  BY Zenon, <1>1 DEF Numbered
<1>7. \A r : Numbered(r, s) <=> Numbered(r, t)
  BY Zenon, <1>1 DEF Numbered
<1> QED
  BY Zenon, <1>2, <1>3, <1>4, <1>5, <1>6, <1>7

(* Call i comes up: it alone changes, and only its state and its cid.      *)
Ups(s, t, i, cid) ==
  /\ Same(s, t) /\ t.made = s.made
  /\ i \in DOMAIN s.calls /\ DOMAIN t.calls = DOMAIN s.calls
  /\ \A j \in DOMAIN s.calls : j # i => t.calls[j] = s.calls[j]
  /\ t.calls[i].state = "ICCN" /\ t.calls[i].cid = cid
  /\ t.calls[i].needclose = s.calls[i].needclose
  /\ t.calls[i].closing = s.calls[i].closing

(* No call is opened or closed by it.                                      *)
LEMMA UpIs ==
  ASSUME NEW s, NEW t, NEW i, NEW cid, Ups(s, t, i, cid)
  PROVE  \A j \in DOMAIN s.calls : /\ Open(t.calls[j]) <=> Open(s.calls[j])
                                   /\ t.calls[j].closing <=> s.calls[j].closing
<1>1. ASSUME NEW j \in DOMAIN s.calls
      PROVE  /\ Open(t.calls[j]) <=> Open(s.calls[j])
             /\ t.calls[j].closing <=> s.calls[j].closing
  <2>1. CASE j = i
    BY Zenon, <2>1 DEF Ups, Open
  <2>2. CASE j # i
    BY Zenon, <2>2 DEF Ups
  <2> QED
    BY <2>1, <2>2
<1> QED
  BY Zenon, <1>1

(* The ICCN, which is the next packet, brings the call up for the LNS.     *)
LEMMA LnsUp ==
  ASSUME NEW x, NEW y, NEW mate, Inv(x, y, mate), NEW t \in Tunnel, NEW b,
         NEW c, c = y.calls[b].cid, Ups(y, t, b, c), x.out # <<>>,
         Head(x.out).type = "ICCN", Head(x.out).cid = b
  PROVE  Inv(x, t, mate)
<1>1. /\ Same(y, t) /\ t.made = y.made /\ LnsIds(t) = LnsIds(y)
      /\ b \in DOMAIN y.calls /\ DOMAIN t.calls = DOMAIN y.calls
      /\ \A j \in DOMAIN y.calls : j # b => t.calls[j] = y.calls[j]
      /\ t.calls[b].state = "ICCN" /\ t.calls[b].cid = y.calls[b].cid
  BY Zenon DEF Ups, LnsIds
<1>2. \A j \in DOMAIN y.calls : /\ Open(t.calls[j]) <=> Open(y.calls[j])
                                /\ t.calls[j].closing <=> y.calls[j].closing
                                /\ t.calls[j].cid = y.calls[j].cid
  <2>1. \A j \in DOMAIN y.calls : t.calls[j].cid = y.calls[j].cid
    <3>1. \A j \in DOMAIN y.calls : j = b \/ t.calls[j] = y.calls[j]
      BY Zenon, <1>1
    <3> QED
      BY Zenon, <1>1, <3>1
  <2>2. \A j \in DOMAIN y.calls : /\ Open(t.calls[j]) <=> Open(y.calls[j])
                                  /\ t.calls[j].closing <=> y.calls[j].closing
    BY UpIs
  <2> QED
    BY Zenon, <2>1, <2>2
<1>3. /\ Out(t) = Out(y)
      /\ \A d, a : Cdn(t, d, a) <=> Cdn(y, d, a)
      /\ \A d, a : Icrp(t, d, a) <=> Icrp(y, d, a)
      /\ Going(y, x) <=> Going(t, x)
      /\ Going(x, y) <=> Going(x, t)
      /\ Numbered(y, x) <=> Numbered(t, x)
      /\ Numbered(x, y) <=> Numbered(x, t)
  BY Zenon, <1>1, SameIs
<1>4. /\ x \in Tunnel /\ Mates(x, t, mate) /\ LacCallsOK(x, t, mate)
      /\ Ordered(x, mate) /\ CdnMeant(x) /\ Numbered(x, t) /\ Numbered(t, x)
  <2>1. /\ x \in Tunnel /\ Mates(x, y, mate) /\ LacCallsOK(x, y, mate)
        /\ Ordered(x, mate) /\ CdnMeant(x) /\ Numbered(x, y) /\ Numbered(y, x)
    BY DEF Inv
  <2> QED
    BY Zenon, <1>1, <1>3, <2>1 DEF Mates, LacCallsOK
<1>5. LnsCallsOK(t, mate)
  <2>1. LnsCallsOK(y, mate)
    BY DEF Inv
  <2> QED
    BY Zenon, <1>1, <1>2, <2>1 DEF LnsCallsOK
<1>6. /\ \A n \in Out(x) : LacSays(x, t, mate, n)
      /\ \A n \in Out(t) : LnsSays(t, mate, n)
  <2>1. /\ \A n \in Out(x) : LacSays(x, y, mate, n)
        /\ \A n \in Out(t) : LnsSays(y, mate, n)
    BY Zenon, <1>3 DEF Inv
  <2> QED
    BY Zenon, <1>1, <2>1 DEF LacSays, LnsSays
<1>7. CdnMeant(t)
  <2>1. CdnMeant(y)
    BY DEF Inv
  <2> QED
    BY Zenon, <1>1, <1>2, <1>3, <2>1 DEF CdnMeant
<1>8. ClosingMayGo(x, t, mate)
  <2>1. ClosingMayGo(x, y, mate)
    BY DEF Inv
  <2>2. \A a : LacMayDrop(x, y, mate, a) => LacMayDrop(x, t, mate, a)
    BY Zenon, <1>1, <1>2, <1>3 DEF LacMayDrop
  <2>3. \A d : LnsMayDrop(x, y, mate, d) => LnsMayDrop(x, t, mate, d)
    BY Zenon, <1>3 DEF LnsMayDrop
  <2> QED
    BY Zenon, <1>1, <1>2, <2>1, <2>2, <2>3 DEF ClosingMayGo
<1>9. LacCovered(x, t, mate)
  <2>1. LacCovered(x, y, mate)
    BY DEF Inv
  <2> QED
    BY Zenon, <1>1, <1>3, <2>1 DEF LacCovered
<1>10. b \in LnsIds(y) /\ Iccn(x, b) /\ ~Cdn(x, NoCid, mate[b])
  <2>1. b \in LnsIds(y)
    BY Zenon, <1>1 DEF Inv, LnsCallsOK
  <2>2. x.out \in Seq(Packet) /\ Ordered(x, mate)
    BY DEF Inv, Tunnel
  <2>3. 1 \in 1 .. Len(x.out) /\ x.out[1] = Head(x.out)
    BY <2>2
  <2>4. Iccn(x, b)
    BY Zenon, <2>3 DEF Iccn, Out
  <2>5. ASSUME Cdn(x, NoCid, mate[b])
        PROVE  FALSE
    <3>1. PICK j \in 1 .. Len(x.out) :
            x.out[j].type = "CDN" /\ x.out[j].cid = NoCid /\ x.out[j].acid = mate[b]
      BY Zenon, <2>5 DEF Cdn, Out
    <3>2. ~(j < 1)
      OBVIOUS
    <3> QED
      BY Zenon, <2>2, <2>3, <3>1, <3>2 DEF Ordered
  <2> QED
    BY Zenon, <2>1, <2>4, <2>5
<1>11. LnsCovered(x, t, mate)
  <2>1. LnsCovered(x, y, mate)
    BY Zenon DEF Inv
  <2>2. ASSUME NEW d \in DOMAIN t.calls, Open(t.calls[d])
        PROVE  /\ t.calls[d].state = "ICCN" =>
                    mate[d] \in DOMAIN x.calls \/ Cdn(x, d, mate[d]) \/ Going(x, t)
               /\ Iccn(x, d) => \/ mate[d] \in DOMAIN x.calls \/ Cdn(x, d, mate[d])
                                \/ Cdn(x, NoCid, mate[d]) \/ Going(x, t)
    <3>1. d \in DOMAIN y.calls /\ Open(y.calls[d])
      BY Zenon, <1>1, <1>2, <2>2
    <3>2. /\ y.calls[d].state = "ICCN" =>
                mate[d] \in DOMAIN x.calls \/ Cdn(x, d, mate[d]) \/ Going(x, y)
          /\ Iccn(x, d) => \/ mate[d] \in DOMAIN x.calls \/ Cdn(x, d, mate[d])
                           \/ Cdn(x, NoCid, mate[d]) \/ Going(x, y)
      BY Zenon, <2>1, <3>1 DEF LnsCovered
    <3>3. CASE d = b
      BY Zenon, <1>3, <1>10, <3>2, <3>3
    <3>4. CASE d # b
      BY Zenon, <1>1, <1>3, <3>1, <3>2, <3>4
    <3> QED
      BY <3>3, <3>4
  <2> QED
    BY Zenon, <2>2 DEF LnsCovered
<1>12. IccnKnows(x, t, mate)
  <2>1. IccnKnows(x, y, mate)
    BY Zenon DEF Inv
  <2>2. ASSUME NEW d \in LnsIds(t)
        PROVE  LET up == d \in DOMAIN t.calls /\ t.calls[d].state = "ICCN"
               IN  /\ up => ~Cdn(x, NoCid, mate[d])
                   /\ (up \/ Iccn(x, d)) /\ mate[d] \in DOMAIN x.calls
                        => x.calls[mate[d]].cid # NoCid
    <3>1. LET up == d \in DOMAIN y.calls /\ y.calls[d].state = "ICCN"
          IN  /\ up => ~Cdn(x, NoCid, mate[d])
              /\ (up \/ Iccn(x, d)) /\ mate[d] \in DOMAIN x.calls
                   => x.calls[mate[d]].cid # NoCid
      BY Zenon, <1>1, <2>1 DEF IccnKnows
    <3>2. CASE d = b
      BY Zenon, <1>10, <3>1, <3>2
    <3>3. CASE d # b
      BY Zenon, <1>1, <3>1, <3>3
    <3> QED
      BY <3>2, <3>3
  <2> QED
    BY Zenon, <2>2 DEF IccnKnows
<1>13. DeadEmpty(x) /\ DeadEmpty(t)
  <2>1. DeadEmpty(x) /\ DeadEmpty(y)
    BY DEF Inv
  <2> QED
    BY Zenon, <2>1 DEF DeadEmpty, Ups, Same
<1> QED
  BY Zenon, <1>4, <1>5, <1>6, <1>7, <1>8, <1>9, <1>11, <1>12, <1>13 DEF Inv

(* The ICRP, which is on its way, brings the call up for the LAC.          *)
LEMMA LacUp ==
  ASSUME NEW x, NEW y, NEW mate, Inv(x, y, mate), NEW t \in Tunnel, NEW a, NEW b,
         Ups(x, t, a, b), Icrp(y, a, b), b \in LnsIds(y), mate[b] = a
  PROVE  Inv(t, y, mate)
<1>1. /\ Same(x, t) /\ t.made = x.made /\ LacIds(t) = LacIds(x) /\ t.out = x.out
      /\ a \in DOMAIN x.calls /\ DOMAIN t.calls = DOMAIN x.calls
      /\ \A j \in DOMAIN x.calls : j # a => t.calls[j] = x.calls[j]
      /\ t.calls[a].state = "ICCN" /\ t.calls[a].cid = b
  BY Zenon DEF Ups, Same, LacIds
<1>2. \A j \in DOMAIN x.calls : /\ Open(t.calls[j]) <=> Open(x.calls[j])
                                /\ t.calls[j].closing <=> x.calls[j].closing
  BY Zenon, UpIs
<1>3. /\ Out(t) = Out(x)
      /\ \A c, d : Cdn(t, c, d) <=> Cdn(x, c, d)
      /\ \A d : Icrq(t, d) <=> Icrq(x, d)
      /\ \A c : Iccn(t, c) <=> Iccn(x, c)
      /\ Going(x, y) <=> Going(t, y)
      /\ Going(y, x) <=> Going(y, t)
      /\ Numbered(x, y) <=> Numbered(t, y)
      /\ Numbered(y, x) <=> Numbered(y, t)
  BY Zenon, <1>1, SameIs
<1>4. /\ y \in Tunnel /\ Mates(t, y, mate) /\ LnsCallsOK(y, mate)
      /\ CdnMeant(y) /\ Numbered(t, y) /\ Numbered(y, t)
  <2>1. /\ y \in Tunnel /\ Mates(x, y, mate) /\ LnsCallsOK(y, mate)
        /\ CdnMeant(y) /\ Numbered(x, y) /\ Numbered(y, x)
    BY Zenon DEF Inv
  <2> QED
    BY Zenon, <1>1, <1>3, <2>1 DEF Mates
<1>5. Ordered(t, mate)
  <2>1. Ordered(x, mate)
    BY DEF Inv
  <2> QED
    BY <1>1, <2>1 DEF Ordered
<1>6. LacCallsOK(t, y, mate)
  <2>1. LacCallsOK(x, y, mate)
    BY Zenon DEF Inv
  <2>2. ASSUME NEW j \in DOMAIN t.calls
        PROVE  /\ j \in LacIds(t)
               /\ \/ t.calls[j].state = "ICRQ" /\ t.calls[j].cid = NoCid
                  \/ /\ t.calls[j].state = "ICCN" /\ t.calls[j].cid \in LnsIds(y)
                     /\ mate[t.calls[j].cid] = j
    <3>1. j \in LacIds(x)
      BY Zenon, <1>1, <2>1 DEF LacCallsOK
    <3>2. CASE j = a
      BY Zenon, <1>1, <3>1, <3>2
    <3>3. CASE j # a
      BY Zenon, <1>1, <2>1, <3>3 DEF LacCallsOK
    <3> QED
      BY <3>2, <3>3
  <2> QED
    BY Zenon, <2>2 DEF LacCallsOK
<1>7. /\ \A n \in Out(t) : LacSays(t, y, mate, n)
      /\ \A n \in Out(y) : LnsSays(y, mate, n)
  <2>1. /\ \A n \in Out(t) : LacSays(x, y, mate, n)
        /\ \A n \in Out(y) : LnsSays(y, mate, n)
    BY Zenon, <1>3 DEF Inv
  <2> QED
    BY Zenon, <1>1, <2>1 DEF LacSays
<1>8. CdnMeant(t)
  <2>1. CdnMeant(x)
    BY DEF Inv
  <2> QED
    BY Zenon, <1>1, <1>2, <1>3, <2>1 DEF CdnMeant
<1>9. ClosingMayGo(t, y, mate)
  <2>1. ClosingMayGo(x, y, mate)
    BY DEF Inv
  <2>2. \A d : LacMayDrop(x, y, mate, d) => LacMayDrop(t, y, mate, d)
    BY Zenon, <1>3 DEF LacMayDrop
  <2>3. \A d : LnsMayDrop(x, y, mate, d) => LnsMayDrop(t, y, mate, d)
    BY Zenon, <1>1, <1>2, <1>3 DEF LnsMayDrop
  <2> QED
    BY Zenon, <1>1, <1>2, <2>1, <2>2, <2>3 DEF ClosingMayGo
<1>10. LnsCovered(t, y, mate)
  <2>1. LnsCovered(x, y, mate)
    BY DEF Inv
  <2> QED
    BY Zenon, <1>1, <1>3, <2>1 DEF LnsCovered
<1>11. IccnKnows(t, y, mate)
  <2>1. IccnKnows(x, y, mate)
    BY DEF Inv
  <2>2. b # NoCid
    BY CallsAssumption DEF LnsIds, NoCid
  <2>3. \A j \in DOMAIN x.calls : x.calls[j].cid # NoCid => t.calls[j].cid # NoCid
    <3>1. \A j \in DOMAIN x.calls : j = a \/ t.calls[j] = x.calls[j]
      BY Zenon, <1>1
    <3> QED
      BY Zenon, <1>1, <2>2, <3>1
  <2> QED
    BY Zenon, <1>1, <1>3, <2>1, <2>3 DEF IccnKnows
<1>12. LacCovered(t, y, mate)
  <2>1. LacCovered(x, y, mate) /\ Mates(x, y, mate)
    BY DEF Inv
  <2>2. ASSUME NEW d \in LnsIds(y), mate[d] \in DOMAIN t.calls, Open(t.calls[mate[d]]),
               t.calls[mate[d]].state = "ICCN" \/ Icrp(y, mate[d], d)
        PROVE  d \in DOMAIN y.calls \/ Cdn(y, mate[d], d) \/ Going(y, t)
    <3>1. mate[d] \in DOMAIN x.calls /\ Open(x.calls[mate[d]])
      BY Zenon, <1>1, <1>2, <2>2
    <3>2. x.calls[mate[d]].state = "ICCN" \/ Icrp(y, mate[d], d)
      <4>1. CASE mate[d] = a
        BY Zenon, <2>1, <4>1 DEF Mates
      <4>2. CASE mate[d] # a
        BY Zenon, <1>1, <2>2, <3>1, <4>2
      <4> QED
        BY <4>1, <4>2
    <3> QED
      BY Zenon, <1>3, <2>1, <3>1, <3>2 DEF LacCovered
  <2> QED
    BY Zenon, <2>2 DEF LacCovered
<1>13. DeadEmpty(t) /\ DeadEmpty(y)
  <2>1. DeadEmpty(x) /\ DeadEmpty(y)
    BY DEF Inv
  <2> QED
    BY Zenon, <2>1 DEF DeadEmpty, Ups, Same
<1> QED
  BY Zenon, <1>4, <1>5, <1>6, <1>7, <1>8, <1>9, <1>10, <1>11, <1>12, <1>13 DEF Inv

(* Call i is put on the list.                                              *)
Adds(s, t, i, c) ==
  /\ Same(s, t) /\ t.made = s.made + 1
  /\ DOMAIN t.calls = DOMAIN s.calls \cup {i}
  /\ \A j \in DOMAIN s.calls : j # i => t.calls[j] = s.calls[j]
  /\ t.calls[i] = c

(* The LAC puts a call on its tunnel, and may ask for it.                  *)
LEMMA LacDials ==
  ASSUME NEW x, NEW y, NEW mate, Inv(x, y, mate), NEW t \in Tunnel,
         x.alive, Adds(x, t, x.made + 1, NewCall("ICRQ", NoCid))
  PROVE  /\ Inv(t, y, mate)
         /\ x.made + 1 \in LacIds(t)
         /\ \A b \in LnsIds(y) : mate[b] # x.made + 1
         /\ \A n \in Out(t) : n.type \in {"ICRQ", "CDN"} => n.acid # x.made + 1
<1> DEFINE a == x.made + 1
<1>1. x.made \in Nat
  BY DEF Inv, Tunnel
<1>2. /\ Same(x, t) /\ t.made = a /\ t.out = x.out
      /\ DOMAIN t.calls = DOMAIN x.calls \cup {a}
      /\ \A j \in DOMAIN x.calls : j # a => t.calls[j] = x.calls[j]
      /\ t.calls[a] = NewCall("ICRQ", NoCid)
  BY Zenon DEF Adds, Same
<1>3. LacIds(t) = LacIds(x) \cup {a} /\ a \notin LacIds(x)
  BY <1>1, <1>2 DEF LacIds
<1>4. /\ t.calls[a].state = "ICRQ" /\ t.calls[a].cid = NoCid
      /\ ~t.calls[a].closing
  BY <1>2 DEF NewCall
<1> HIDE DEF a
<1>5. /\ Out(t) = Out(x)
      /\ \A c, d : Cdn(t, c, d) <=> Cdn(x, c, d)
      /\ \A d : Icrq(t, d) <=> Icrq(x, d)
      /\ \A c : Iccn(t, c) <=> Iccn(x, c)
      /\ Going(x, y) <=> Going(t, y)
      /\ Going(y, x) <=> Going(y, t)
      /\ Numbered(x, y) <=> Numbered(t, y)
      /\ Numbered(y, x) <=> Numbered(y, t)
  BY Zenon, <1>2, SameIs
<1>6. /\ Mates(x, y, mate) /\ LacCallsOK(x, y, mate)
      /\ \A n \in Out(x) : LacSays(x, y, mate, n)
  BY DEF Inv
<1>7. \A b \in LnsIds(y) : mate[b] \in LacIds(x) /\ mate[b] # a
  <2>1. \A b \in LnsIds(y) : mate[b] \in LacIds(x)
    BY Zenon, <1>6 DEF Mates
  <2> QED
    BY Zenon, <1>3, <2>1
<1>8. \A n \in Out(x) : n.type \in {"ICRQ", "CDN"} => n.acid # a
  BY Zenon, <1>3, <1>6 DEF LacSays
<1>9. a \notin DOMAIN x.calls
  BY Zenon, <1>3, <1>6 DEF LacCallsOK
<1>10. \A j \in DOMAIN x.calls : j \in DOMAIN t.calls /\ t.calls[j] = x.calls[j]
  BY Zenon, <1>2, <1>9
<1>11. \A j \in DOMAIN t.calls : j = a \/ j \in DOMAIN x.calls
  BY Zenon, <1>2
<1>12. /\ y \in Tunnel /\ LnsCallsOK(y, mate) /\ CdnMeant(y)
       /\ Numbered(t, y) /\ Numbered(y, t)
       /\ \A n \in Out(y) : LnsSays(y, mate, n)
  BY Zenon, <1>5 DEF Inv
<1>13. Mates(t, y, mate)
  <2>1. mate \in [LnsIds(y) -> LacIds(t)]
    <3>1. mate \in [LnsIds(y) -> LacIds(x)]
      BY Zenon, <1>6 DEF Mates
    <3> QED
      BY <1>3, <3>1
  <2> QED
    BY Zenon, <1>6, <2>1 DEF Mates
<1>14. LacCallsOK(t, y, mate)
  <2>1. a \in LacIds(t) /\ \A j \in LacIds(x) : j \in LacIds(t)
    BY Zenon, <1>3
  <2>2. ASSUME NEW j \in DOMAIN x.calls
        PROVE  /\ j \in LacIds(x)
               /\ \/ x.calls[j].state = "ICRQ" /\ x.calls[j].cid = NoCid
                  \/ /\ x.calls[j].state = "ICCN" /\ x.calls[j].cid \in LnsIds(y)
                     /\ mate[x.calls[j].cid] = j
    BY Zenon, <1>6 DEF LacCallsOK
  <2>3. ASSUME NEW j \in DOMAIN t.calls
        PROVE  /\ j \in LacIds(t)
               /\ \/ t.calls[j].state = "ICRQ" /\ t.calls[j].cid = NoCid
                  \/ /\ t.calls[j].state = "ICCN" /\ t.calls[j].cid \in LnsIds(y)
                     /\ mate[t.calls[j].cid] = j
    <3>1. CASE j = a
      BY Zenon, <1>4, <2>1, <3>1
    <3>2. CASE j \in DOMAIN x.calls
      <4>1. t.calls[j] = x.calls[j] /\ j \in LacIds(t)
        BY Zenon, <1>10, <2>1, <2>2, <3>2
      <4> QED
        BY Zenon, <2>2, <3>2, <4>1
    <3> QED
      BY Zenon, <1>11, <3>1, <3>2
  <2> QED
    BY Zenon, <2>3 DEF LacCallsOK
<1>15. \A n \in Out(t) : LacSays(t, y, mate, n)
  BY Zenon, <1>3, <1>5, <1>6 DEF LacSays
<1>16. Ordered(t, mate)
  <2>1. Ordered(x, mate)
    BY DEF Inv
  <2> QED
    BY <1>2, <2>1 DEF Ordered
<1>17. CdnMeant(t)
  <2>1. CdnMeant(x)
    BY DEF Inv
  <2> QED
    BY Zenon, <1>5, <1>8, <1>10, <1>11, <2>1 DEF CdnMeant
<1>18. ClosingMayGo(t, y, mate)
  <2>1. ClosingMayGo(x, y, mate) /\ LnsCallsOK(y, mate)
    BY DEF Inv
  <2>2. \A d : LacMayDrop(x, y, mate, d) => LacMayDrop(t, y, mate, d)
    BY Zenon, <1>5 DEF LacMayDrop
  <2>3. \A d \in LnsIds(y) : LnsMayDrop(x, y, mate, d) => LnsMayDrop(t, y, mate, d)
    BY Zenon, <1>5, <1>7, <1>10, <1>11 DEF LnsMayDrop
  <2>4. ASSUME NEW d \in DOMAIN t.calls, t.calls[d].closing
        PROVE  LacMayDrop(t, y, mate, d)
    BY Zenon, <1>4, <1>10, <1>11, <2>1, <2>2, <2>4 DEF ClosingMayGo
  <2>5. ASSUME NEW d \in DOMAIN y.calls, y.calls[d].closing
        PROVE  LnsMayDrop(t, y, mate, d)
    BY Zenon, <2>1, <2>3, <2>5 DEF ClosingMayGo, LnsCallsOK
  <2> QED
    BY Zenon, <2>4, <2>5 DEF ClosingMayGo
<1>19. LacCovered(t, y, mate)
  <2>1. LacCovered(x, y, mate)
    BY DEF Inv
  <2> QED
    BY Zenon, <1>5, <1>7, <1>10, <1>11, <2>1 DEF LacCovered
<1>20. LnsCovered(t, y, mate)
  <2>1. LnsCovered(x, y, mate)
    BY DEF Inv
  <2> QED
    BY Zenon, <1>5, <1>10, <2>1 DEF LnsCovered
<1>21. IccnKnows(t, y, mate)
  <2>1. IccnKnows(x, y, mate)
    BY DEF Inv
  <2> QED
    BY Zenon, <1>5, <1>7, <1>10, <1>11, <2>1 DEF IccnKnows
<1>22. DeadEmpty(t) /\ DeadEmpty(y)
  <2>1. DeadEmpty(y)
    BY DEF Inv
  <2> QED
    BY Zenon, <1>2, <2>1 DEF DeadEmpty, Same
<1>23. Inv(t, y, mate)
  BY Zenon, <1>12, <1>13, <1>14, <1>15, <1>16, <1>17, <1>18, <1>19, <1>20, <1>21, <1>22
  DEF Inv
<1> QED
  BY Zenon, <1>3, <1>5, <1>7, <1>8, <1>23 DEF a

(* The order of the messages depends on the mates of the ICCNs alone.      *)
LEMMA OrderedAs ==
  ASSUME NEW x, NEW mate, NEW new, Ordered(x, mate),
         \A j \in 1 .. Len(x.out) :
           x.out[j].type = "ICCN" => new[x.out[j].cid] = mate[x.out[j].cid]
  PROVE  Ordered(x, new)
  BY Zenon DEF Ordered

(* The calls matched, with the call i of the LNS made for a.               *)
MatesWith(t, mate, i, a) == [b \in LnsIds(t) |-> IF b = i THEN a ELSE mate[b]]

(* The invariant, with i made for a.                                       *)
NewMate(x, t, mate, i, a) == Inv(x, t, mate) /\ i \in LnsIds(t) /\ mate[i] = a

(* The LNS makes a call for the request it has read.                       *)
LEMMA LnsCreates ==
  ASSUME NEW x, NEW y, NEW mate, Inv(x, y, mate), NEW t \in Tunnel, NEW a, NEW c,
         y.alive, NEW i, i = OurCid("lns", y.made + 1), Adds(y, t, i, c),
         c.cid = a, c.state \in {"none", "ICRP"}, ~c.closing,
         a \in LacIds(x), \A b \in LnsIds(y) : mate[b] # a, ~Icrq(x, a),
         a \in DOMAIN x.calls /\ x.calls[a].closing => Cdn(x, NoCid, a) \/ Going(x, y),
         NEW new, new = MatesWith(t, mate, i, a)
  PROVE  NewMate(x, t, new, i, a)
<1>1. /\ Same(y, t) /\ t.made = y.made + 1
      /\ DOMAIN t.calls = DOMAIN y.calls \cup {i}
      /\ \A j \in DOMAIN y.calls : j # i => t.calls[j] = y.calls[j]
      /\ t.calls[i] = c
  BY Zenon DEF Adds
<1>2. LnsIds(t) = LnsIds(y) \cup {i} /\ i \notin LnsIds(y)
  <2>1. y.made \in Nat
    BY Zenon DEF Inv, Tunnel
  <2>2. i = MaxCalls + (y.made + 1)
    BY Zenon DEF OurCid
  <2>3. t.made = y.made + 1
    BY Zenon, <1>1
  <2>4. \A k, n \in Nat : /\ k + 1 .. k + (n + 1) = (k + 1 .. k + n) \cup {k + (n + 1)}
                          /\ k + (n + 1) \notin k + 1 .. k + n
    OBVIOUS
  <2> QED
    BY <2>1, <2>2, <2>3, <2>4, CallsAssumption DEF LnsIds
<1>3. new = [b \in LnsIds(t) |-> IF b = i THEN a ELSE mate[b]]
  BY Zenon DEF MatesWith
<1>4. (\A b \in LnsIds(y) : new[b] = mate[b] /\ b \in LnsIds(t)) /\ new[i] = a
  BY <1>2, <1>3
<1>5. \A b \in LnsIds(t) : b = i \/ b \in LnsIds(y)
  BY Zenon, <1>2
<1>6. /\ Out(t) = Out(y)
      /\ \A d, e : Cdn(t, d, e) <=> Cdn(y, d, e)
      /\ \A d, e : Icrp(t, d, e) <=> Icrp(y, d, e)
      /\ Going(y, x) <=> Going(t, x)
      /\ Going(x, y) <=> Going(x, t)
      /\ Numbered(y, x) <=> Numbered(t, x)
      /\ Numbered(x, y) <=> Numbered(x, t)
  BY Zenon, <1>1, SameIs
<1>7. /\ Mates(x, y, mate) /\ LacCallsOK(x, y, mate) /\ LnsCallsOK(y, mate)
      /\ \A n \in Out(x) : LacSays(x, y, mate, n)
      /\ \A n \in Out(y) : LnsSays(y, mate, n)
  BY DEF Inv
<1>8. \A j \in DOMAIN y.calls : j \in LnsIds(y) /\ j # i
  BY Zenon, <1>2, <1>7 DEF LnsCallsOK
<1>9. \A j \in DOMAIN y.calls : j \in DOMAIN t.calls /\ t.calls[j] = y.calls[j]
  BY Zenon, <1>1, <1>8
<1>10. \A j \in DOMAIN t.calls : j = i \/ j \in DOMAIN y.calls
  BY Zenon, <1>1
<1>11. /\ t.calls[i].cid = a /\ t.calls[i].state \in {"none", "ICRP"}
       /\ ~t.calls[i].closing /\ t.calls[i].state # "ICCN"
  BY <1>1
<1>12. ~Iccn(x, i)
  BY Zenon, <1>2, <1>7 DEF LacSays, Iccn
<1>13. Mates(x, t, new)
  <2>1. new \in [LnsIds(t) -> LacIds(x)]
    <3>1. \A b \in LnsIds(y) : mate[b] \in LacIds(x)
      BY Zenon, <1>7 DEF Mates
    <3> QED
      BY <1>3, <1>5, <3>1
  <2>2. ASSUME NEW b \in LnsIds(t), NEW d \in LnsIds(t), new[b] = new[d]
        PROVE  b = d
    <3>1. CASE b = i
      BY Zenon, <1>4, <1>5, <2>2, <3>1
    <3>2. CASE d = i
      BY Zenon, <1>4, <1>5, <2>2, <3>2
    <3>3. CASE b # i /\ d # i
      BY Zenon, <1>4, <1>5, <1>7, <2>2, <3>3 DEF Mates
    <3> QED
      BY <3>1, <3>2, <3>3
  <2> QED
    BY Zenon, <2>1, <2>2 DEF Mates
<1>14. LacCallsOK(x, t, new)
  BY Zenon, <1>4, <1>7 DEF LacCallsOK
<1>15. LnsCallsOK(t, new)
  <2>1. ASSUME NEW b \in DOMAIN t.calls
        PROVE  /\ b \in LnsIds(t) /\ t.calls[b].cid = new[b]
               /\ t.calls[b].state \in {"none", "ICRP", "ICCN"}
    <3>1. CASE b = i
      BY Zenon, <1>2, <1>4, <1>11, <3>1
    <3>2. CASE b \in DOMAIN y.calls
      BY Zenon, <1>4, <1>7, <1>9, <3>2 DEF LnsCallsOK
    <3> QED
      BY <1>10, <3>1, <3>2
  <2> QED
    BY Zenon, <2>1 DEF LnsCallsOK
<1>16. \A n \in Out(x) : LacSays(x, t, new, n)
  <2>1. \A n \in Out(x) : n.type = "ICRQ" => n.acid # a
    BY Zenon DEF Icrq
  <2>2. ASSUME NEW n \in Out(x), LacSays(x, y, mate, n)
        PROVE  LacSays(x, t, new, n)
    BY <1>4, <1>5, <2>1, <2>2 DEF LacSays
  <2> QED
    BY Zenon, <1>7, <2>2
<1>17. \A n \in Out(t) : LnsSays(t, new, n)
  BY Zenon, <1>4, <1>6, <1>7 DEF LnsSays
<1>18. Ordered(x, new)
  <2>1. Ordered(x, mate)
    BY DEF Inv
  <2>2. \A j \in 1 .. Len(x.out) :
          x.out[j].type = "ICCN" => new[x.out[j].cid] = mate[x.out[j].cid]
    <3>1. \A j \in 1 .. Len(x.out) : x.out[j] \in Out(x)
      BY Zenon DEF Out
    <3> QED
      BY Zenon, <1>4, <1>7, <3>1 DEF LacSays
  <2> QED
    BY <2>1, <2>2, OrderedAs
<1>19. CdnMeant(x) /\ CdnMeant(t)
  <2>1. CdnMeant(x) /\ CdnMeant(y)
    BY DEF Inv
  <2>2. \A n \in Out(y) : n.type = "CDN" => n.acid # i
    BY Zenon, <1>2, <1>7 DEF LnsSays
  <2> QED
    BY Zenon, <1>6, <1>9, <1>10, <2>1, <2>2 DEF CdnMeant
<1>20. ClosingMayGo(x, t, new)
  <2>1. ClosingMayGo(x, y, mate)
    BY DEF Inv
  <2>2. ASSUME NEW d \in DOMAIN x.calls, x.calls[d].closing
        PROVE  LacMayDrop(x, t, new, d)
    <3>1. LacMayDrop(x, y, mate, d)
      BY Zenon, <2>1, <2>2 DEF ClosingMayGo
    <3>2. ASSUME NEW b \in DOMAIN t.calls, new[b] = d, Open(t.calls[b])
          PROVE  Cdn(x, b, d) \/ Cdn(x, NoCid, d) \/ Going(x, t)
      <4>1. CASE b = i
        BY Zenon, <1>4, <1>6, <2>2, <3>2, <4>1
      <4>2. CASE b \in DOMAIN y.calls
        BY Zenon, <1>4, <1>6, <1>8, <1>9, <3>1, <3>2, <4>2 DEF LacMayDrop
      <4> QED
        BY <1>10, <4>1, <4>2
    <3> QED
      BY Zenon, <1>6, <3>1, <3>2 DEF LacMayDrop
  <2>3. ASSUME NEW b \in DOMAIN t.calls, t.calls[b].closing
        PROVE  LnsMayDrop(x, t, new, b)
    <3>1. b \in DOMAIN y.calls /\ y.calls[b].closing
      BY Zenon, <1>9, <1>10, <1>11, <2>3
    <3>2. LnsMayDrop(x, y, mate, b)
      BY Zenon, <2>1, <3>1 DEF ClosingMayGo
    <3> QED
      BY Zenon, <1>4, <1>6, <1>8, <3>1, <3>2 DEF LnsMayDrop
  <2> QED
    BY Zenon, <2>2, <2>3 DEF ClosingMayGo
<1>21. LacCovered(x, t, new)
  <2>1. LacCovered(x, y, mate)
    BY Zenon DEF Inv
  <2>2. i \in DOMAIN t.calls
    BY Zenon, <1>1
  <2>3. ASSUME NEW b \in LnsIds(t), new[b] \in DOMAIN x.calls, Open(x.calls[new[b]]),
               x.calls[new[b]].state = "ICCN" \/ Icrp(t, new[b], b)
        PROVE  b \in DOMAIN t.calls \/ Cdn(t, new[b], b) \/ Going(t, x)
    <3>1. CASE b = i
      BY Zenon, <2>2, <3>1
    <3>2. CASE b \in LnsIds(y)
      BY Zenon, <1>4, <1>6, <1>9, <2>1, <2>3, <3>2 DEF LacCovered
    <3> QED
      BY <1>5, <3>1, <3>2
  <2> QED
    BY Zenon, <2>3 DEF LacCovered
<1>22. LnsCovered(x, t, new)
  <2>1. LnsCovered(x, y, mate)
    BY Zenon DEF Inv
  <2>2. ASSUME NEW b \in DOMAIN t.calls, Open(t.calls[b])
        PROVE  /\ t.calls[b].state = "ICCN" =>
                    new[b] \in DOMAIN x.calls \/ Cdn(x, b, new[b]) \/ Going(x, t)
               /\ Iccn(x, b) => \/ new[b] \in DOMAIN x.calls \/ Cdn(x, b, new[b])
                                \/ Cdn(x, NoCid, new[b]) \/ Going(x, t)
    <3>1. CASE b = i
      BY Zenon, <1>11, <1>12, <3>1
    <3>2. CASE b \in DOMAIN y.calls
      BY Zenon, <1>4, <1>6, <1>8, <1>9, <2>1, <2>2, <3>2 DEF LnsCovered
    <3> QED
      BY <1>10, <3>1, <3>2
  <2> QED
    BY Zenon, <2>2 DEF LnsCovered
<1>23. IccnKnows(x, t, new)
  <2>1. IccnKnows(x, y, mate)
    BY Zenon DEF Inv
  <2>2. ASSUME NEW b \in LnsIds(t)
        PROVE  LET up == b \in DOMAIN t.calls /\ t.calls[b].state = "ICCN"
               IN  /\ up => ~Cdn(x, NoCid, new[b])
                   /\ (up \/ Iccn(x, b)) /\ new[b] \in DOMAIN x.calls
                        => x.calls[new[b]].cid # NoCid
    <3>1. CASE b = i
      BY Zenon, <1>11, <1>12, <3>1
    <3>2. CASE b \in LnsIds(y) /\ b # i
      BY Zenon, <1>4, <1>9, <1>10, <2>1, <3>2 DEF IccnKnows
    <3> QED
      BY Zenon, <1>5, <3>1, <3>2
  <2> QED
    BY Zenon, <2>2 DEF IccnKnows
<1>24. Inv(x, t, new)
  <2>1. x \in Tunnel /\ Numbered(x, t) /\ Numbered(t, x)
    BY Zenon, <1>6 DEF Inv
  <2>2. DeadEmpty(x) /\ DeadEmpty(t)
    <3>1. DeadEmpty(x)
      BY DEF Inv
    <3> QED
      BY Zenon, <1>1, <3>1 DEF DeadEmpty, Same
  <2> QED
    BY Zenon, <1>13, <1>14, <1>15, <1>16, <1>17, <1>18, <1>19, <1>20, <1>21, <1>22,
       <1>23, <2>1, <2>2 DEF Inv
<1> QED
  BY Zenon, <1>2, <1>4, <1>24 DEF NewMate

-----------------------------------------------------------------------------
(* What the operators of Calls do to a tunnel.                             *)
LEMMA CallMapIs ==
  ASSUME NEW f \in CallMap
  PROVE  DOMAIN f \subseteq Nat /\ f \in [DOMAIN f -> Call]
<1>1. PICK D \in SUBSET Nat : f \in [D -> Call]
  BY DEF CallMap
<1>2. DOMAIN f = D
  BY <1>1
<1> QED
  BY <1>1, <1>2

(* A function from numbers to calls is a list of calls.                    *)
LEMMA CallMapOf ==
  ASSUME NEW D \in SUBSET Nat, NEW f \in [D -> Call]
  PROVE  f \in CallMap
  BY DEF CallMap

(* So is the empty one, which the model writes as the empty sequence.      *)
LEMMA NoCalls == <<>> \in CallMap /\ DOMAIN <<>> = {}
<1>1. <<>> \in [{} -> Call] /\ DOMAIN <<>> = {}
  OBVIOUS
<1>2. {} \in SUBSET Nat
  OBVIOUS
<1> QED
  BY Zenon, <1>1, <1>2, CallMapOf

(* A message has been sent: s has become t.                                *)
Sent(s, t, type, cid, acid) ==
  /\ t \in Tunnel
  /\ \E m \in Packet : /\ Sends(s, t, m) /\ t.out = Append(s.out, m)
                       /\ m.type = type /\ m.cid = cid /\ m.acid = acid

(* A control message is added to the queue with the next number.           *)
LEMMA TransmitSends ==
  ASSUME NEW s \in Tunnel, NEW type \in {"ICRQ", "ICRP", "ICCN", "CDN", "StopCCN"},
         NEW cid \in Nat, NEW acid \in Nat, NEW t, t = Transmit(s, type, cid, acid)
  PROVE  Sent(s, t, type, cid, acid)
<1> DEFINE m == [type |-> type, cid |-> cid, acid |-> acid, ns |-> s.ss, nr |-> s.rr]
<1>1. s.ss \in Nat /\ s.rr \in Nat /\ s.out \in Seq(Packet)
  BY DEF Tunnel
<1>2. m \in Packet
  BY <1>1 DEF Packet
<1>3. /\ m.type = type /\ m.cid = cid /\ m.acid = acid /\ m.ns = s.ss
      /\ Follow(m) = s.ss + 1
  BY DEF Follow
<1>4. t = [s EXCEPT !.out = Append(s.out, m), !.ss = s.ss + 1]
  BY DEF Transmit
<1> HIDE DEF m
<1>5. Append(s.out, m) \in Seq(Packet) /\ s.ss + 1 \in Nat
  BY <1>1, <1>2
<1>6. t \in Tunnel
  BY Zenon, <1>4, <1>5 DEF Tunnel
<1>7. /\ t.out = Append(s.out, m) /\ t.ss = s.ss + 1 /\ t.made = s.made
      /\ t.rr = s.rr /\ t.alive = s.alive /\ t.ahead = s.ahead
      /\ t.self = s.self /\ t.calls = s.calls
  BY <1>4 DEF Tunnel
<1>8. Sends(s, t, m)
  BY Zenon, <1>2, <1>3, <1>7 DEF Sends
<1> QED
  BY Zenon, <1>2, <1>3, <1>6, <1>7, <1>8 DEF Sent

(* So is a ZLB, which takes no number.                                     *)
LEMMA ZlbIs ==
  ASSUME NEW s \in Tunnel, NEW cid \in Nat
  PROVE  LET m == [type |-> "ZLB", cid |-> cid, acid |-> NoCid, ns |-> s.ss, nr |-> s.rr]
         IN  /\ Zlb(s, cid) \in Tunnel /\ Sends(s, Zlb(s, cid), m)
             /\ m.type = "ZLB" /\ Zlb(s, cid).out = Append(s.out, m)
<1> DEFINE m == [type |-> "ZLB", cid |-> cid, acid |-> NoCid, ns |-> s.ss, nr |-> s.rr]
           t == Zlb(s, cid)
<1>1. s.ss \in Nat /\ s.rr \in Nat /\ s.out \in Seq(Packet)
  BY DEF Tunnel
<1>2. m \in Packet
  BY <1>1 DEF Packet, NoCid
<1>3. m.type = "ZLB" /\ m.ns = s.ss /\ Follow(m) = s.ss
  BY DEF Follow
<1>4. t = [s EXCEPT !.out = Append(s.out, m)]
  BY DEF Zlb
<1> HIDE DEF m
<1>5. Append(s.out, m) \in Seq(Packet)
  BY <1>1, <1>2
<1>6. t \in Tunnel
  BY Zenon, <1>4, <1>5 DEF Tunnel
<1>7. /\ t.out = Append(s.out, m) /\ t.ss = s.ss /\ t.made = s.made
      /\ t.rr = s.rr /\ t.alive = s.alive /\ t.ahead = s.ahead
      /\ t.self = s.self /\ t.calls = s.calls
  BY <1>4 DEF Tunnel
<1> HIDE DEF t
<1>8. Sends(s, t, m)
  BY Zenon, <1>2, <1>3, <1>7 DEF Sends
<1> QED
  BY Zenon, <1>3, <1>6, <1>7, <1>8 DEF m, t

(* One call is changed. *)
SetCall(s, i, c) == [s EXCEPT !.calls = [s.calls EXCEPT ![i] = c]]

(* t is s with c for its call i. *)
OneSet(s, t, i, c) ==
  /\ t \in Tunnel /\ Same(s, t) /\ t.made = s.made
  /\ DOMAIN t.calls = DOMAIN s.calls /\ t.calls[i] = c
  /\ \A j \in DOMAIN s.calls : j # i => t.calls[j] = s.calls[j]

(* SetCall does that.                                                      *)
LEMMA SetCallIs ==
  ASSUME NEW s \in Tunnel, NEW i \in DOMAIN s.calls, NEW c \in Call
  PROVE  OneSet(s, SetCall(s, i, c), i, c)
<1> DEFINE f == [s.calls EXCEPT ![i] = c]
           t == SetCall(s, i, c)
<1>1. DOMAIN s.calls \subseteq Nat /\ s.calls \in [DOMAIN s.calls -> Call]
  <2>1. s.calls \in CallMap
    BY DEF Tunnel
  <2> QED
    BY Zenon, <2>1, CallMapIs
<1>2. f \in [DOMAIN s.calls -> Call] /\ DOMAIN f = DOMAIN s.calls /\ f[i] = c
  BY <1>1
<1>3. \A j \in DOMAIN s.calls : j # i => f[j] = s.calls[j]
  BY <1>1
<1>4. f \in CallMap
  BY Zenon, <1>1, <1>2, CallMapOf
<1>5. t = [s EXCEPT !.calls = f]
  BY DEF SetCall
<1> HIDE DEF f, t
<1>6. t \in Tunnel /\ t.calls = f
  BY <1>4, <1>5 DEF Tunnel
<1>7. t.made = s.made /\ Same(s, t)
  BY <1>5 DEF Tunnel, Same
<1>8. OneSet(s, t, i, c)
  BY Zenon, <1>2, <1>3, <1>6, <1>7 DEF OneSet
<1> QED
  BY Zenon, <1>8 DEF t

(* DestroyCall takes one call off the list.                                *)
LEMMA DestroyCallIs ==
  ASSUME NEW s \in Tunnel, NEW i
  PROVE  /\ DestroyCall(s, i) \in Tunnel /\ Same(s, DestroyCall(s, i))
         /\ DestroyCall(s, i).made = s.made
         /\ DOMAIN DestroyCall(s, i).calls = DOMAIN s.calls \ {i}
         /\ \A j \in DOMAIN s.calls \ {i} : DestroyCall(s, i).calls[j] = s.calls[j]
<1> DEFINE f == [j \in DOMAIN s.calls \ {i} |-> s.calls[j]]
           t == DestroyCall(s, i)
<1>1. DOMAIN s.calls \subseteq Nat /\ s.calls \in [DOMAIN s.calls -> Call]
  <2>1. s.calls \in CallMap
    BY DEF Tunnel
  <2> QED
    BY Zenon, <2>1, CallMapIs
<1>2. /\ f \in [DOMAIN s.calls \ {i} -> Call] /\ DOMAIN f = DOMAIN s.calls \ {i}
      /\ \A j \in DOMAIN s.calls \ {i} : f[j] = s.calls[j]
      /\ DOMAIN s.calls \ {i} \in SUBSET Nat
  BY <1>1
<1>3. f \in CallMap
  BY Zenon, <1>2, CallMapOf
<1>4. t = [s EXCEPT !.calls = f]
  BY DEF DestroyCall
<1> HIDE DEF f
<1>5. t \in Tunnel /\ t.calls = f
  BY Zenon, <1>3, <1>4 DEF Tunnel
<1>6. t.made = s.made /\ Same(s, t)
  BY <1>4 DEF Tunnel, Same
<1> HIDE DEF t
<1> QED
  BY Zenon, <1>2, <1>5, <1>6 DEF t

-----------------------------------------------------------------------------
(* The invariant, as the end e with the tunnel s and its peer with the     *)
(* tunnel r see it.                                                        *)
EInv(e, s, r, mate) ==
  IF e = "lac" THEN Inv(s, r, mate) ELSE Inv(r, s, mate)

(* Both tunnels are well formed.                                           *)
LEMMA EInvTypes ==
  ASSUME NEW e, NEW s, NEW r, NEW mate, EInv(e, s, r, mate)
  PROVE  s \in Tunnel /\ r \in Tunnel
<1>1. CASE e = "lac"
  BY Zenon, <1>1 DEF EInv, Inv
<1>2. CASE e # "lac"
  BY Zenon, <1>2 DEF EInv, Inv
<1> QED
  BY <1>1, <1>2

(* The end e may drop its call i. *)
MayDrop(e, s, r, mate, i) ==
  IF e = "lac" THEN LacMayDrop(s, r, mate, i) ELSE LnsMayDrop(r, s, mate, i)

(* A step of e that sends nothing.                                         *)
LEMMA ShrinkKept ==
  ASSUME NEW e \in Ends, NEW s, NEW r, NEW mate, EInv(e, s, r, mate),
         NEW t \in Tunnel, Shrinks(s, t),
         \A i \in DOMAIN t.calls :
           t.calls[i].closing => s.calls[i].closing \/ MayDrop(e, s, r, mate, i),
         \A i \in DOMAIN s.calls :
           i \in DOMAIN t.calls \/ s.calls[i].closing \/ Going(t, r)
  PROVE  EInv(e, t, r, mate)
<1>1. CASE e = "lac"
  <2>1. Inv(s, r, mate)
    BY Zenon, <1>1 DEF EInv
  <2>2. \A i \in DOMAIN t.calls :
          t.calls[i].closing => s.calls[i].closing \/ LacMayDrop(s, r, mate, i)
    BY Zenon, <1>1 DEF MayDrop
  <2>3. Inv(t, r, mate)
    BY Zenon, <2>1, <2>2, LacShrinks
  <2> QED
    BY Zenon, <1>1, <2>3 DEF EInv
<1>2. CASE e = "lns"
  <2>1. Inv(r, s, mate) /\ e # "lac"
    BY <1>2 DEF EInv
  <2>2. \A i \in DOMAIN t.calls :
          t.calls[i].closing => s.calls[i].closing \/ LnsMayDrop(r, s, mate, i)
    BY Zenon, <2>1 DEF MayDrop
  <2>3. Inv(r, t, mate)
    BY Zenon, <2>1, <2>2, LnsShrinks
  <2> QED
    BY Zenon, <2>1, <2>3 DEF EInv
<1> QED
  BY <1>1, <1>2 DEF Ends

(* The marks of a call change, but it is not opened again.                 *)
LEMMA SetCallKept ==
  ASSUME NEW e \in Ends, NEW s, NEW r, NEW mate, EInv(e, s, r, mate),
         NEW i \in DOMAIN s.calls, NEW c \in Call,
         c.cid = s.calls[i].cid, c.state = s.calls[i].state,
         Open(c) => Open(s.calls[i]),
         c.closing => s.calls[i].closing \/ MayDrop(e, s, r, mate, i)
  PROVE  EInv(e, SetCall(s, i, c), r, mate)
<1> DEFINE t == SetCall(s, i, c)
<1>1. s \in Tunnel
  BY Zenon, EInvTypes
<1>2. /\ t \in Tunnel /\ Same(s, t) /\ t.made = s.made
      /\ DOMAIN t.calls = DOMAIN s.calls
      /\ \A j \in DOMAIN s.calls : j # i => t.calls[j] = s.calls[j]
      /\ t.calls[i] = c
  <2>1. OneSet(s, t, i, c)
    BY Zenon, <1>1, SetCallIs
  <2> QED
    BY Zenon, <2>1 DEF OneSet
<1> HIDE DEF t
<1>3. ASSUME NEW j \in DOMAIN t.calls
      PROVE  /\ j \in DOMAIN s.calls
             /\ t.calls[j].cid = s.calls[j].cid /\ t.calls[j].state = s.calls[j].state
             /\ Open(t.calls[j]) => Open(s.calls[j])
             /\ t.calls[j].closing => s.calls[j].closing \/ MayDrop(e, s, r, mate, j)
  <2>1. CASE j = i
    BY Zenon, <1>2, <2>1
  <2>2. CASE j # i
    BY Zenon, <1>2, <2>2
  <2> QED
    BY <2>1, <2>2
<1>4. Shrinks(s, t)
  BY Zenon, <1>2, <1>3 DEF Shrinks, Same
<1> QED
  BY Zenon, <1>2, <1>3, <1>4, ShrinkKept DEF t

(* The marks of the tunnel change; it goes on closing once it is.          *)
LEMMA SetSelfKept ==
  ASSUME NEW e \in Ends, NEW s, NEW r, NEW mate, EInv(e, s, r, mate),
         NEW c \in [needclose : BOOLEAN, closing : BOOLEAN, closeSs : Nat],
         s.self.closing => c.closing
  PROVE  EInv(e, [s EXCEPT !.self = c], r, mate)
<1> DEFINE t == [s EXCEPT !.self = c]
<1>1. s \in Tunnel
  BY Zenon, EInvTypes
<1>2. /\ t \in Tunnel /\ t.self = c /\ t.made = s.made /\ t.ss = s.ss
      /\ t.out = s.out /\ t.rr = s.rr /\ t.alive = s.alive /\ t.ahead = s.ahead
      /\ t.calls = s.calls
  BY Zenon, <1>1 DEF Tunnel
<1> HIDE DEF t
<1>3. Shrinks(s, t)
  BY Zenon, <1>2 DEF Shrinks
<1> QED
  BY Zenon, <1>2, <1>3, ShrinkKept DEF t

(* A ZLB is sent.                                                          *)
LEMMA ZlbKept ==
  ASSUME NEW e \in Ends, NEW s, NEW r, NEW mate, EInv(e, s, r, mate), NEW cid \in Nat
  PROVE  EInv(e, Zlb(s, cid), r, mate)
<1> DEFINE m == [type |-> "ZLB", cid |-> cid, acid |-> NoCid, ns |-> s.ss, nr |-> s.rr]
           t == Zlb(s, cid)
<1>1. s \in Tunnel
  BY Zenon, EInvTypes
<1>2. t \in Tunnel /\ Sends(s, t, m) /\ m.type = "ZLB" /\ t.out = Append(s.out, m)
  BY Zenon, <1>1, ZlbIs
<1> HIDE DEF m, t
<1>3. CASE e = "lac"
  <2>1. Inv(s, r, mate)
    BY Zenon, <1>3 DEF EInv
  <2>2. LacSays(s, r, mate, m)
    BY <1>2 DEF LacSays
  <2>3. m.type # "CDN" /\ m.type # "ICCN" /\ m.type # "ICRQ"
    BY <1>2
  <2>4. Inv(t, r, mate)
    BY Zenon, <1>2, <2>1, <2>2, <2>3, LacSends
  <2> QED
    BY Zenon, <1>3, <2>4 DEF EInv, t
<1>4. CASE e = "lns"
  <2>1. Inv(r, s, mate) /\ e # "lac"
    BY <1>4 DEF EInv
  <2>2. LnsSays(s, mate, m)
    BY <1>2 DEF LnsSays
  <2>3. m.type # "CDN" /\ m.type # "ICRP"
    BY <1>2
  <2>4. Inv(r, t, mate)
    BY Zenon, <1>2, <2>1, <2>2, <2>3, LnsSends
  <2> QED
    BY Zenon, <2>1, <2>4 DEF EInv, t
<1> QED
  BY <1>3, <1>4 DEF Ends

(* The StopCCN is sent.                                                    *)
LEMMA StopKept ==
  ASSUME NEW e \in Ends, NEW s, NEW r, NEW mate, EInv(e, s, r, mate),
         NEW t, t = Transmit(s, "StopCCN", NoCid, NoCid)
  PROVE  /\ EInv(e, t, r, mate)
         /\ \E n \in Out(t) : n.type = "StopCCN"
         /\ t \in Tunnel /\ t.self = s.self
<1>1. s \in Tunnel /\ NoCid \in Nat
  BY EInvTypes DEF NoCid
<1>2. PICK m \in Packet : /\ t \in Tunnel /\ Sends(s, t, m) /\ t.out = Append(s.out, m)
                          /\ m.type = "StopCCN" /\ m.cid = NoCid
  <2>1. Sent(s, t, "StopCCN", NoCid, NoCid)
    BY Zenon, <1>1, TransmitSends
  <2> QED
    BY Zenon, <2>1 DEF Sent
<1>3. t \in Tunnel /\ t.self = s.self
  BY Zenon, <1>2 DEF Sends
<1>4. \E n \in Out(t) : n.type = "StopCCN"
  <2>1. Out(t) = Out(s) \cup {m}
    BY Zenon, <1>1, <1>2, SentOut
  <2> QED
    BY Zenon, <1>2, <2>1
<1>5. CASE e = "lac"
  <2>1. Inv(s, r, mate)
    BY Zenon, <1>5 DEF EInv
  <2>2. LacSays(s, r, mate, m)
    BY Zenon, <1>2 DEF LacSays
  <2>3. m.type # "CDN" /\ m.type # "ICCN" /\ m.type # "ICRQ"
    BY <1>2
  <2>4. Inv(t, r, mate)
    BY Zenon, <1>2, <2>1, <2>2, <2>3, LacSends
  <2> QED
    BY Zenon, <1>4, <1>5, <1>3, <2>4 DEF EInv
<1>6. CASE e = "lns"
  <2>1. Inv(r, s, mate) /\ e # "lac"
    BY Zenon, <1>6 DEF EInv
  <2>2. LnsSays(s, mate, m)
    BY Zenon, <1>2 DEF LnsSays
  <2>3. m.type # "CDN" /\ m.type # "ICRP"
    BY <1>2
  <2>4. Inv(r, t, mate)
    BY Zenon, <1>2, <2>1, <2>2, <2>3, LnsSends
  <2> QED
    BY Zenon, <1>4, <1>3, <2>1, <2>4 DEF EInv
<1> QED
  BY <1>5, <1>6 DEF Ends

(* call_close of the tunnel. *)
LEMMA TunnelCloseKept ==
  ASSUME NEW e \in Ends, NEW s, NEW r, NEW mate, EInv(e, s, r, mate)
  PROVE  EInv(e, TunnelClose(s), r, mate)
<1>1. s \in Tunnel
  BY Zenon, EInvTypes
<1>2. CASE s.self.closing
  <2> DEFINE t == [s EXCEPT !.alive = FALSE, !.calls = <<>>]
  <2>1. TunnelClose(s) = t
    BY <1>2 DEF TunnelClose
  <2>2. /\ t \in Tunnel /\ ~t.alive /\ t.calls = <<>> /\ t.made = s.made
        /\ t.ss = s.ss /\ t.out = s.out /\ t.ahead = s.ahead /\ t.self = s.self
    BY Zenon, <1>1, NoCalls DEF Tunnel
  <2> HIDE DEF t
  <2>3. DOMAIN t.calls = {}
    BY <2>2, NoCalls
  <2>4. Shrinks(s, t) /\ Going(t, r)
    BY Zenon, <2>2, <2>3 DEF Shrinks, Going
  <2>5. EInv(e, t, r, mate)
    BY Zenon, <2>2, <2>3, <2>4, ShrinkKept
  <2> QED
    BY Zenon, <2>1, <2>5
<1>3. CASE ~s.self.closing
  <2> DEFINE u == Transmit(s, "StopCCN", NoCid, NoCid)
             c == [s.self EXCEPT !.closing = TRUE, !.closeSs = s.ss]
             t == [u EXCEPT !.self = c, !.calls = <<>>]
  <2>1. /\ EInv(e, u, r, mate)
        /\ \E n \in Out(u) : n.type = "StopCCN"
    BY StopKept
  <2>2. u \in Tunnel /\ u.self = s.self
    BY StopKept
  <2>3. c \in [needclose : BOOLEAN, closing : BOOLEAN, closeSs : Nat] /\ c.closing
    BY Zenon, <1>1 DEF Tunnel
  <2>4. TunnelClose(s) = t
    BY Zenon, <1>3, <2>2 DEF TunnelClose
  <2> HIDE DEF u, c
  <2>5. /\ t \in Tunnel /\ t.calls = <<>> /\ t.self = c /\ t.made = u.made
        /\ t.ss = u.ss /\ t.out = u.out /\ t.rr = u.rr /\ t.alive = u.alive
        /\ t.ahead = u.ahead
    BY Zenon, <2>2, <2>3, NoCalls DEF Tunnel
  <2> HIDE DEF t
  <2>6. DOMAIN t.calls = {}
    BY <2>5, NoCalls
  <2>7. Shrinks(u, t)
    BY Zenon, <2>3, <2>5, <2>6 DEF Shrinks
  <2>8. Going(t, r)
    BY Zenon, <2>1, <2>5 DEF Going, Out
  <2>9. EInv(e, t, r, mate)
    BY Zenon, <2>1, <2>5, <2>6, <2>7, <2>8, ShrinkKept
  <2> QED
    BY Zenon, <2>1, <2>4, <2>5, <2>9
<1> QED
  BY <1>2, <1>3

(* The CDN of a call that is being closed is sent, and the call is marked. *)
LEMMA LacCdn ==
  ASSUME NEW x, NEW y, NEW mate, Inv(x, y, mate), NEW a \in DOMAIN x.calls,
         ~Open(x.calls[a]), NEW t, t = Transmit(x, "CDN", x.calls[a].cid, a)
  PROVE  /\ Inv(t, y, mate) /\ t \in Tunnel /\ t.calls = x.calls
         /\ LacMayDrop(t, y, mate, a)
<1> DEFINE cid == x.calls[a].cid
<1>1. x \in Tunnel /\ LacCallsOK(x, y, mate) /\ LnsCallsOK(y, mate) /\ Mates(x, y, mate)
  BY DEF Inv
<1>2. a \in Nat /\ cid \in Nat
  <2>1. x.calls \in CallMap
    BY <1>1 DEF Tunnel
  <2>2. DOMAIN x.calls \subseteq Nat /\ x.calls \in [DOMAIN x.calls -> Call]
    BY Zenon, <2>1, CallMapIs
  <2> QED
    BY <2>2 DEF Call
<1>3. /\ a \in LacIds(x)
      /\ cid = NoCid \/ (cid \in LnsIds(y) /\ mate[cid] = a)
  BY Zenon, <1>1 DEF LacCallsOK
<1>4. PICK m \in Packet :
        /\ t \in Tunnel /\ Sends(x, t, m) /\ m.type = "CDN" /\ m.cid = cid /\ m.acid = a
        /\ t.calls = x.calls /\ t.out = Append(x.out, m)
  <2>1. Sent(x, t, "CDN", cid, a)
    BY <1>1, <1>2, TransmitSends
  <2> QED
    BY Zenon, <2>1 DEF Sent, Sends
<1>5. m.cid = NoCid => x.calls[m.acid].cid = NoCid
  BY Zenon, <1>4
<1>6. LacSays(x, y, mate, m)
  BY Zenon, <1>3, <1>4 DEF LacSays
<1>7. m.type # "ICCN" /\ m.type # "ICRQ"
  BY <1>4
<1>8. Inv(t, y, mate)
  BY Zenon, <1>4, <1>5, <1>6, <1>7, LacSends
<1>9. Cdn(t, cid, a)
  <2>1. Out(t) = Out(x) \cup {m}
    BY Zenon, <1>1, <1>4, SentOut
  <2> QED
    BY Zenon, <1>4, <2>1 DEF Cdn
<1> HIDE DEF cid
<1>10. LacMayDrop(t, y, mate, a)
  <2>1. CASE cid = NoCid
    BY Zenon, <1>9, <2>1 DEF LacMayDrop
  <2>2. CASE cid \in LnsIds(y) /\ mate[cid] = a
    <3>1. ~Icrq(t, a)
      <4>1. \A n \in Out(t) : LacSays(t, y, mate, n)
        BY <1>8 DEF Inv
      <4> QED
        BY Zenon, <2>2, <4>1 DEF LacSays, Icrq
    <3>2. \A b \in DOMAIN y.calls : mate[b] = a => b = cid
      BY Zenon, <1>1, <2>2 DEF LnsCallsOK, Mates
    <3> QED
      BY Zenon, <1>9, <3>1, <3>2 DEF LacMayDrop
  <2> QED
    BY Zenon, <1>3, <2>1, <2>2
<1> QED
  BY Zenon, <1>4, <1>8, <1>10

(* The LNS sends a CDN for a call it is closing.                           *)
LEMMA LnsCdn ==
  ASSUME NEW x, NEW y, NEW mate, Inv(x, y, mate), NEW b \in DOMAIN y.calls,
         ~Open(y.calls[b]), NEW t, t = Transmit(y, "CDN", y.calls[b].cid, b)
  PROVE  /\ Inv(x, t, mate) /\ t \in Tunnel /\ t.calls = y.calls
         /\ LnsMayDrop(x, t, mate, b)
<1> DEFINE cid == y.calls[b].cid
<1>1. y \in Tunnel /\ LnsCallsOK(y, mate)
  BY Zenon DEF Inv
<1>2. b \in Nat /\ cid \in Nat
  <2>1. y.calls \in CallMap
    BY <1>1 DEF Tunnel
  <2>2. DOMAIN y.calls \subseteq Nat /\ y.calls \in [DOMAIN y.calls -> Call]
    BY Zenon, <2>1, CallMapIs
  <2> QED
    BY <2>2 DEF Call
<1>3. b \in LnsIds(y) /\ cid = mate[b]
  BY Zenon, <1>1 DEF LnsCallsOK
<1>4. PICK m \in Packet :
        /\ t \in Tunnel /\ Sends(y, t, m) /\ m.type = "CDN" /\ m.cid = cid /\ m.acid = b
        /\ t.calls = y.calls /\ t.out = Append(y.out, m)
  <2>1. Sent(y, t, "CDN", cid, b)
    BY Zenon, <1>1, <1>2, TransmitSends
  <2> QED
    BY Zenon, <2>1 DEF Sent, Sends
<1>5. LnsSays(y, mate, m)
  BY Zenon, <1>3, <1>4 DEF LnsSays
<1>6. m.type # "ICRP"
  BY <1>4
<1>7. Inv(x, t, mate)
  BY Zenon, <1>4, <1>5, <1>6, LnsSends
<1>8. Cdn(t, cid, b)
  <2>1. Out(t) = Out(y) \cup {m}
    BY Zenon, <1>1, <1>4, SentOut
  <2> QED
    BY Zenon, <1>4, <2>1 DEF Cdn
<1> HIDE DEF cid
<1>9. LnsMayDrop(x, t, mate, b)
  BY Zenon, <1>3, <1>8 DEF LnsMayDrop
<1> QED
  BY Zenon, <1>4, <1>7, <1>9

(* What is on the list of a tunnel is a call.                              *)
LEMMA CallIs ==
  ASSUME NEW s \in Tunnel, NEW i \in DOMAIN s.calls
  PROVE  s.calls[i] \in Call /\ i \in Nat /\ s.calls[i].cid \in Nat
<1>1. s.calls \in CallMap
  BY DEF Tunnel
<1>2. DOMAIN s.calls \subseteq Nat /\ s.calls \in [DOMAIN s.calls -> Call]
  BY Zenon, <1>1, CallMapIs
<1>3. s.calls[i] \in Call /\ i \in Nat
  BY Zenon, <1>2
<1> QED
  BY <1>3 DEF Call

(* The CDN of e, whichever end it is. *)
LEMMA CdnKept ==
  ASSUME NEW e \in Ends, NEW s, NEW r, NEW mate, EInv(e, s, r, mate),
         NEW i \in DOMAIN s.calls, ~Open(s.calls[i]),
         NEW t, t = Transmit(s, "CDN", s.calls[i].cid, i)
  PROVE  /\ EInv(e, t, r, mate) /\ t \in Tunnel /\ t.calls = s.calls
         /\ MayDrop(e, t, r, mate, i)
<1>1. CASE e = "lac"
  <2>1. Inv(s, r, mate)
    BY Zenon, <1>1 DEF EInv
  <2>2. /\ Inv(t, r, mate) /\ t \in Tunnel /\ t.calls = s.calls
        /\ LacMayDrop(t, r, mate, i)
    BY <2>1, LacCdn
  <2> QED
    BY Zenon, <1>1, <2>2 DEF EInv, MayDrop
<1>2. CASE e = "lns"
  <2>1. Inv(r, s, mate) /\ e # "lac"
    BY Zenon, <1>2 DEF EInv
  <2>2. /\ Inv(r, t, mate) /\ t \in Tunnel /\ t.calls = s.calls
        /\ LnsMayDrop(r, t, mate, i)
    BY <2>1, LnsCdn
  <2> QED
    BY Zenon, <2>1, <2>2 DEF EInv, MayDrop
<1> QED
  BY <1>1, <1>2 DEF Ends

(* call_close of a call that is being closed. *)
LEMMA CallCloseKept ==
  ASSUME NEW e \in Ends, NEW s, NEW r, NEW mate, EInv(e, s, r, mate),
         NEW i \in DOMAIN s.calls, ~Open(s.calls[i])
  PROVE  EInv(e, CallClose(s, i), r, mate)
<1>1. s \in Tunnel
  BY Zenon, EInvTypes
<1>2. CASE s.calls[i].closing
  <2> DEFINE t == DestroyCall(s, i)
  <2>1. CallClose(s, i) = t
    BY Zenon, <1>2 DEF CallClose
  <2>2. /\ t \in Tunnel /\ Same(s, t) /\ t.made = s.made
        /\ DOMAIN t.calls = DOMAIN s.calls \ {i}
        /\ \A j \in DOMAIN s.calls \ {i} : t.calls[j] = s.calls[j]
    BY Zenon, <1>1, DestroyCallIs
  <2> HIDE DEF t
  <2>3. \A j \in DOMAIN t.calls : j \in DOMAIN s.calls /\ t.calls[j] = s.calls[j]
    BY Zenon, <2>2
  <2>4. \A j \in DOMAIN s.calls : j \in DOMAIN t.calls \/ s.calls[j].closing
    BY Zenon, <1>2, <2>2
  <2>5. Shrinks(s, t)
    BY Zenon, <2>2, <2>3 DEF Shrinks, Same
  <2>6. EInv(e, t, r, mate)
    BY Zenon, <2>2, <2>3, <2>4, <2>5, ShrinkKept
  <2> QED
    BY Zenon, <2>1, <2>6
<1>3. CASE ~s.calls[i].closing
  <2> DEFINE u == Transmit(s, "CDN", s.calls[i].cid, i)
             c == [u.calls[i] EXCEPT !.closing = TRUE, !.closeSs = s.ss]
             t == SetCall(u, i, c)
  <2>1. /\ EInv(e, u, r, mate) /\ u \in Tunnel /\ u.calls = s.calls
        /\ MayDrop(e, u, r, mate, i)
    BY CdnKept
  <2>2. CallClose(s, i) = t
    BY Zenon, <1>3, <2>1 DEF CallClose, SetCall
  <2>3. u.calls[i] \in Call /\ i \in DOMAIN u.calls /\ s.ss \in Nat
    BY <1>1, <2>1, CallIs DEF Tunnel
  <2> HIDE DEF u
  <2>4. /\ c \in Call /\ c.cid = u.calls[i].cid /\ c.state = u.calls[i].state
        /\ ~Open(c)
    BY Zenon, <2>3 DEF Call, Open
  <2> HIDE DEF c
  <2>5. EInv(e, t, r, mate)
    BY Zenon, <2>1, <2>3, <2>4, SetCallKept
  <2>6. t.out = u.out
    <3>1. OneSet(u, t, i, c)
      BY Zenon, <2>1, <2>3, <2>4, SetCallIs
    <3> QED
      BY Zenon, <3>1 DEF OneSet, Same
  <2> QED
    BY Zenon, <2>1, <2>2, <2>5, <2>6
<1> QED
  BY <1>2, <1>3

-----------------------------------------------------------------------------
(* The passes of the main loop.                                            *)

(* child_handler marks the call of a dead pppd, and closes it at once      *)
(* where the kernel has the session.                                       *)
LEMMA ChildHandlerKept ==
  ASSUME NEW e \in Ends, NEW s, NEW r, NEW mate, EInv(e, s, r, mate),
         NEW i \in DOMAIN s.calls
  PROVE  EInv(e, ChildHandler(s, i), r, mate)
<1> DEFINE c == [s.calls[i] EXCEPT !.pppd = "none", !.needclose = TRUE]
           t == SetCall(s, i, c)
<1>1. s \in Tunnel
  BY Zenon, EInvTypes
<1>2. s.calls[i] \in Call
  BY Zenon, <1>1, CallIs
<1>3. /\ c \in Call /\ c.cid = s.calls[i].cid /\ c.state = s.calls[i].state
      /\ ~Open(c) /\ c.closing = s.calls[i].closing
  BY Zenon, <1>2 DEF Call, Open
<1>4. ChildHandler(s, i) = IF kernel THEN CallClose(t, i) ELSE t
  <2>1. [s EXCEPT !.calls[i].pppd = "none", !.calls[i].needclose = TRUE] = t
    BY Zenon, <1>1 DEF SetCall
  <2> HIDE DEF t
  <2> QED
    BY <2>1 DEF ChildHandler
<1> HIDE DEF c
<1>5. EInv(e, t, r, mate)
  BY Zenon, <1>3, SetCallKept
<1>6. t.out = s.out /\ i \in DOMAIN t.calls /\ t.calls[i] = c
  <2>1. OneSet(s, t, i, c)
    BY Zenon, <1>1, <1>3, SetCallIs
  <2> QED
    BY Zenon, <2>1 DEF OneSet, Same
<1> HIDE DEF t
<1>7. EInv(e, CallClose(t, i), r, mate)
  BY Zenon, <1>3, <1>5, <1>6, CallCloseKept
<1> QED
  BY <1>4, <1>5, <1>6, <1>7

(* One call is visited in a pass: it is left, closed, or its pppd is       *)
(* collected.                                                              *)
LEMMA VisitKept ==
  ASSUME NEW e \in Ends, NEW s, NEW r, NEW mate, EInv(e, s, r, mate),
         NEW pass, NEW i
  PROVE  EInv(e, Visit(pass, s, i), r, mate)
<1>1. CASE pass = "signals" /\ i \in DOMAIN s.calls /\ s.calls[i].pppd = "dead"
  <2>1. Visit(pass, s, i) = ChildHandler(s, i)
    BY <1>1 DEF Visit
  <2> QED
    BY Zenon, <1>1, <2>1, ChildHandlerKept
<1>2. CASE pass = "closing" /\ i \in DOMAIN s.calls /\ Marked(s.calls[i])
  <2>1. Visit(pass, s, i) = CallClose(s, i)
    BY Zenon, <1>2 DEF Visit
  <2>2. ~Open(s.calls[i])
    <3>1. s \in Tunnel
      BY Zenon, EInvTypes
    <3>2. s.calls[i] \in Call
      BY Zenon, <1>2, <3>1, CallIs
    <3> QED
      BY Zenon, <1>2, <3>2 DEF Marked, Open, Call
  <2> QED
    BY Zenon, <1>2, <2>1, <2>2, CallCloseKept
<1>3. CASE /\ ~(pass = "signals" /\ i \in DOMAIN s.calls /\ s.calls[i].pppd = "dead")
           /\ ~(pass = "closing" /\ i \in DOMAIN s.calls /\ Marked(s.calls[i]))
  <2>1. Visit(pass, s, i) = s
    BY Zenon, <1>3 DEF Visit
  <2> QED
    BY Zenon, <2>1
<1> QED
  BY Zenon, <1>1, <1>2, <1>3

-----------------------------------------------------------------------------
(* A packet was read and handled: the invariant holds of e in state v and  *)
(* its peer in state t.                                                    *)
Good(e, v, t) == \E mate : EInv(e, v, t, mate)

(* A handler that kept the invariant may end with a ZLB.                   *)
LEMMA AckedGood ==
  ASSUME NEW e \in Ends, NEW u, NEW t, NEW mate, EInv(e, u, t, mate),
         NEW cid \in Nat
  PROVE  Good(e, Zlb(u, cid), t)
<1>1. EInv(e, Zlb(u, cid), t, mate)
  BY Zenon, ZlbKept
<1> QED
  BY Zenon, <1>1 DEF Good

(* Or without one.                                                         *)
LEMMA GoodOf ==
  ASSUME NEW e, NEW u, NEW t, NEW mate, EInv(e, u, t, mate)
  PROVE  Good(e, u, t)
  BY Zenon DEF Good

(* A packet with the number that is expected is counted.                   *)
LEMMA CheckedIs ==
  ASSUME NEW s \in Tunnel, NEW m \in Packet, m.ns = s.rr, m.type # "ZLB",
         NEW k, k = Checked(s, m)
  PROVE  k \in Tunnel /\ Reads(s, k, m) /\ k.calls = s.calls /\ k.out = s.out
<1>1. s.rr \in Nat /\ m.nr \in Nat
  BY DEF Tunnel, Packet
<1>2. k = [s EXCEPT !.rr = s.rr + 1, !.cLr = m.nr]
  BY DEF Checked
<1>3. k \in Tunnel
  <2>1. s.rr + 1 \in Nat
    BY <1>1
  <2> QED
    BY Zenon, <1>1, <1>2, <2>1 DEF Tunnel
<1>4. /\ k.out = s.out /\ k.made = s.made /\ k.ss = s.ss /\ k.alive = s.alive
      /\ k.self = s.self /\ k.calls = s.calls /\ k.ahead = s.ahead
      /\ k.rr = s.rr + 1
  BY <1>2 DEF Tunnel
<1>5. k.rr = Follow(m)
  BY <1>4 DEF Follow
<1> QED
  BY Zenon, <1>3, <1>4, <1>5 DEF Reads

(* The order of the changes to different fields does not matter.           *)
LEMMA CheckedSet ==
  ASSUME NEW s \in Tunnel, NEW m \in Packet, NEW i \in DOMAIN s.calls, NEW c \in Call
  PROVE  Checked(SetCall(s, i, c), m) = SetCall(Checked(s, m), i, c)
  BY Zenon DEF Checked, SetCall, Tunnel

(* The same for the call of the tunnel itself.                             *)
LEMMA CheckedSelf ==
  ASSUME NEW s \in Tunnel, NEW m \in Packet, NEW c
  PROVE  Checked([s EXCEPT !.self = c], m) = [Checked(s, m) EXCEPT !.self = c]
  BY Zenon DEF Checked, Tunnel

(* The same for a message sent and a call changed.                         *)
LEMMA TransmitSet ==
  ASSUME NEW s \in Tunnel, NEW i \in DOMAIN s.calls, NEW c \in Call,
         NEW type, NEW cid, NEW acid
  PROVE  Transmit(SetCall(s, i, c), type, cid, acid)
           = SetCall(Transmit(s, type, cid, acid), i, c)
  BY Zenon DEF Transmit, SetCall, Tunnel

(* What the message that is read told e has been done.                     *)
Done(e, s, mate, m) ==
  IF e = "lac" THEN LacDone(s, m) ELSE LnsDone(s, mate, m)

(* A message is read: the invariant is kept when what it said is done or   *)
(* does not matter any more.                                               *)
LEMMA ReadKept ==
  ASSUME NEW e \in Ends, NEW s, NEW r, NEW mate, EInv(e, s, r, mate),
         NEW t \in Tunnel, NEW u \in Tunnel, Pops(r, t),
         NEW m, m = Head(r.out), Reads(s, u, m),
         Going(t, u) \/ Done(e, s, mate, m)
  PROVE  EInv(e, u, t, mate)
<1>1. CASE e = "lac"
  <2>1. Inv(s, r, mate) /\ (Going(t, u) \/ LacDone(s, Head(r.out)))
    BY <1>1 DEF EInv, Done
  <2>2. Reads(s, u, Head(r.out))
    OBVIOUS
  <2>3. Inv(u, t, mate)
    BY Zenon, <2>1, <2>2, LacReads
  <2> QED
    BY Zenon, <1>1, <2>3 DEF EInv
<1>2. CASE e = "lns"
  <2>1. /\ Inv(r, s, mate) /\ (Going(t, u) \/ LnsDone(s, mate, Head(r.out)))
        /\ e # "lac"
    BY <1>2 DEF EInv, Done
  <2>2. Reads(s, u, Head(r.out))
    OBVIOUS
  <2>3. Inv(t, u, mate)
    BY Zenon, <2>1, <2>2, LnsReads
  <2> QED
    BY Zenon, <2>1, <2>3 DEF EInv
<1> QED
  BY <1>1, <1>2 DEF Ends

(* What is known of the next packet.                                       *)
LEMMA HeadIs ==
  ASSUME NEW e \in Ends, NEW s, NEW r, NEW mate, EInv(e, s, r, mate), r.out # <<>>,
         NEW m, m = Head(r.out)
  PROVE  /\ m \in Packet /\ m \in Out(r)
         /\ s.alive /\ ~s.ahead => m.ns = s.rr
         /\ m.type = "StopCCN" => m.cid = NoCid
<1>1. s \in Tunnel /\ r \in Tunnel
  BY Zenon, EInvTypes
<1>2. r.out \in Seq(Packet)
  BY Zenon, <1>1 DEF Tunnel
<1>3. m \in Packet /\ m = r.out[1] /\ 1 \in 1 .. Len(r.out)
  BY <1>2
<1>4. m \in Out(r)
  BY Zenon, <1>3 DEF Out
<1>5. CASE e = "lac"
  <2>1. Numbered(r, s) /\ \A n \in Out(r) : LnsSays(r, mate, n)
    BY Zenon, <1>5 DEF EInv, Inv
  <2> QED
    BY Zenon, <1>3, <1>4, <2>1 DEF Numbered, LnsSays
<1>6. CASE e = "lns"
  <2>1. Numbered(r, s) /\ \A n \in Out(r) : LacSays(r, s, mate, n)
    BY Zenon, <1>6 DEF EInv, Inv
  <2> QED
    BY Zenon, <1>3, <1>4, <2>1 DEF Numbered, LacSays
<1> QED
  BY Zenon, <1>5, <1>6 DEF Ends

(* A packet that is not the next one is old: a ZLB was counted.            *)
LEMMA OldGood ==
  ASSUME NEW e \in Ends, NEW s, NEW r, NEW mate, EInv(e, s, r, mate),
         NEW t \in Tunnel, Pops(r, t), NEW m, m = Head(r.out),
         s.alive => s.ahead
  PROVE  /\ Good(e, s, t)
         /\ \A cid \in Nat : Good(e, Zlb(s, cid), t)
<1>1. s \in Tunnel
  BY Zenon, EInvTypes
<1>2. Going(t, s) /\ Reads(s, s, m)
  BY Zenon DEF Going, Reads
<1>3. EInv(e, s, t, mate)
  BY Zenon, <1>1, <1>2, ReadKept
<1>4. Good(e, s, t)
  BY Zenon, <1>1, <1>3, GoodOf
<1> QED
  BY Zenon, <1>1, <1>3, <1>4, AckedGood

(* handle_special *)
LEMMA SpecialGood ==
  ASSUME NEW e \in Ends, NEW s, NEW r, NEW mate, EInv(e, s, r, mate),
         NEW t \in Tunnel, Pops(r, t), NEW m, m = Head(r.out), m.ns = s.rr,
         m.cid # NoCid, m.cid \notin DOMAIN s.calls,
         NEW v \in HandleSpecial(Checked(s, m), m)
  PROVE  Good(e, v, t)
<1>1. s \in Tunnel /\ r.out # <<>>
  BY EInvTypes DEF Pops
<1>2. m \in Packet /\ (m.type = "StopCCN" => m.cid = NoCid)
  BY Zenon, <1>1, HeadIs
<1>3. CASE m.type = "ZLB"
  <2> DEFINE w == [s EXCEPT !.rr = s.rr + 1, !.cLr = m.nr, !.ahead = TRUE]
  <2>1. v = w
    BY Zenon, <1>3 DEF HandleSpecial, Checked
  <2>2. s.rr \in Nat /\ m.nr \in Nat
    BY Zenon, <1>1, <1>2 DEF Tunnel, Packet
  <2>3. s.rr + 1 \in Nat
    BY <2>2
  <2>4. /\ w \in Tunnel /\ w.out = s.out /\ w.made = s.made /\ w.ss = s.ss
        /\ w.alive = s.alive /\ w.self = s.self /\ w.calls = s.calls /\ w.ahead
    BY Zenon, <1>1, <2>2, <2>3 DEF Tunnel
  <2> HIDE DEF w
  <2>5. Reads(s, w, m) /\ Going(t, w)
    BY Zenon, <2>4 DEF Reads, Going
  <2>6. EInv(e, w, t, mate)
    BY Zenon, <2>4, <2>5, ReadKept
  <2> QED
    BY Zenon, <1>1, <2>1, <2>4, <2>6, GoodOf
<1>4. CASE m.type # "ZLB"
  <2> DEFINE k == Checked(s, m)
  <2>1. k \in Tunnel /\ Reads(s, k, m) /\ k.out = s.out
    BY Zenon, <1>1, <1>2, <1>4, CheckedIs
  <2>2. v = Zlb(k, m.cid)
    BY <1>4 DEF HandleSpecial
  <2> HIDE DEF k
  <2>3. Done(e, s, mate, m)
    BY Zenon, <1>2 DEF Done, LacDone, LnsDone
  <2>4. EInv(e, k, t, mate)
    BY Zenon, <2>1, <2>3, ReadKept
  <2>5. m.cid \in Nat
    BY Zenon, <1>2 DEF Packet
  <2> QED
    BY Zenon, <1>1, <2>2, <2>4, <2>5, AckedGood
<1> QED
  BY Zenon, <1>3, <1>4

(* A ZLB, for the tunnel or for a call.                                    *)
LEMMA ZLBGood ==
  ASSUME NEW e \in Ends, NEW s, NEW r, NEW mate, EInv(e, s, r, mate),
         NEW t \in Tunnel, Pops(r, t), NEW m, m = Head(r.out), m.ns = s.rr,
         m.type = "ZLB", m.cid = NoCid \/ m.cid \in DOMAIN s.calls,
         NEW v \in HandleZLB(Checked(s, m), m.cid)
  PROVE  Good(e, v, t)
<1>1. s \in Tunnel /\ r.out # <<>>
  BY EInvTypes DEF Pops
<1>2. m \in Packet
  BY Zenon, <1>1, HeadIs
<1> DEFINE u == [s EXCEPT !.cLr = m.nr]
<1>3. s.rr \in Nat /\ m.nr \in Nat
  BY Zenon, <1>1, <1>2 DEF Tunnel, Packet
<1>4. /\ u \in Tunnel /\ u.out = s.out /\ u.made = s.made /\ u.ss = s.ss
      /\ u.alive = s.alive /\ u.self = s.self /\ u.calls = s.calls
      /\ u.ahead = s.ahead /\ u.rr = s.rr
  BY Zenon, <1>1, <1>3 DEF Tunnel
<1>5. [Checked(s, m) EXCEPT !.rr = @ - 1] = u
  <2>1. (s.rr + 1) - 1 = s.rr
    BY <1>3
  <2> QED
    BY Zenon, <1>1, <2>1 DEF Checked, Tunnel
<1> DEFINE done(c) == c.needclose /\ c.closing /\ u.cLr >= c.closeSs
           selfDone == [u EXCEPT !.self.needclose = FALSE]
           callDone == [u EXCEPT !.calls[m.cid].needclose = FALSE]
<1>6. \/ v = u
      \/ m.cid # NoCid /\ done(u.calls[m.cid]) /\ v = callDone
      \/ done(u.self) /\ v = selfDone
  BY Zenon, <1>5 DEF HandleZLB
<1> HIDE DEF u
<1>7. EInv(e, u, t, mate)
  <2>1. Reads(s, u, m)
    BY Zenon, <1>4 DEF Reads, Follow
  <2>2. Done(e, s, mate, m)
    BY DEF Done, LacDone, LnsDone
  <2> QED
    BY Zenon, <1>4, <2>1, <2>2, ReadKept
<1>8. CASE v = u
  BY Zenon, <1>1, <1>4, <1>7, <1>8, GoodOf
<1>9. CASE m.cid # NoCid /\ done(u.calls[m.cid]) /\ v = callDone
  <2> DEFINE c == [u.calls[m.cid] EXCEPT !.needclose = FALSE]
  <2>1. m.cid \in DOMAIN u.calls /\ u.calls[m.cid].closing
    BY Zenon, <1>4, <1>9
  <2>2. u.calls[m.cid] \in Call
    BY Zenon, <1>4, <2>1, CallIs
  <2>3. /\ c \in Call /\ c.cid = u.calls[m.cid].cid
        /\ c.state = u.calls[m.cid].state /\ ~Open(c)
        /\ c.closing = u.calls[m.cid].closing
    BY Zenon, <2>1, <2>2 DEF Call, Open
  <2>4. v = SetCall(u, m.cid, c)
    BY Zenon, <1>4, <1>9 DEF SetCall
  <2> HIDE DEF c
  <2>5. EInv(e, v, t, mate)
    BY Zenon, <1>7, <2>1, <2>3, <2>4, SetCallKept
  <2>6. v.out = s.out
    <3>1. OneSet(u, v, m.cid, c)
      BY Zenon, <1>4, <2>1, <2>3, <2>4, SetCallIs
    <3> QED
      BY Zenon, <1>4, <3>1 DEF OneSet, Same
  <2> QED
    BY Zenon, <1>1, <2>5, <2>6, GoodOf
<1>10. CASE done(u.self) /\ v = selfDone
  <2> DEFINE c == [u.self EXCEPT !.needclose = FALSE]
  <2>1. /\ c \in [needclose : BOOLEAN, closing : BOOLEAN, closeSs : Nat]
        /\ c.closing = u.self.closing
    BY Zenon, <1>4 DEF Tunnel
  <2>2. v = [u EXCEPT !.self = c]
    BY <1>4, <1>10
  <2> HIDE DEF c
  <2>3. EInv(e, v, t, mate)
    BY Zenon, <1>7, <2>1, <2>2, SetSelfKept
  <2>4. v.out = s.out
    BY Zenon, <1>4, <2>2 DEF Tunnel
  <2> QED
    BY Zenon, <1>1, <2>3, <2>4, GoodOf
<1> QED
  BY Zenon, <1>6, <1>8, <1>9, <1>10

(* The tunnel is marked as closing by the message that is read.            *)
LEMMA SelfClosingGood ==
  ASSUME NEW e \in Ends, NEW s, NEW r, NEW mate, EInv(e, s, r, mate),
         NEW t \in Tunnel, Pops(r, t), NEW m, m = Head(r.out), m.ns = s.rr,
         m.type # "ZLB",
         NEW v, v = Zlb([Checked(s, m) EXCEPT !.self.needclose = FALSE,
                                              !.self.closing = TRUE], NoCid)
  PROVE  Good(e, v, t)
<1>1. s \in Tunnel /\ r.out # <<>>
  BY EInvTypes DEF Pops
<1>2. m \in Packet
  BY Zenon, <1>1, HeadIs
<1> DEFINE c == [s.self EXCEPT !.needclose = FALSE, !.closing = TRUE]
           s1 == [s EXCEPT !.self = c]
           k == Checked(s1, m)
<1>3. c \in [needclose : BOOLEAN, closing : BOOLEAN, closeSs : Nat] /\ c.closing
  BY Zenon, <1>1 DEF Tunnel
<1>4. k = [Checked(s, m) EXCEPT !.self.needclose = FALSE, !.self.closing = TRUE]
  <2>1. Checked(s, m).self = s.self
    BY <1>1 DEF Checked, Tunnel
  <2> DEFINE q == Checked(s, m)
  <2>2. q \in Tunnel
    BY Zenon, <1>1, <1>2, CheckedIs
  <2>3. k = [q EXCEPT !.self = c]
    <3> HIDE DEF c
    <3> QED
      BY <1>1, <1>2, CheckedSelf
  <2>4. c = [q.self EXCEPT !.needclose = FALSE, !.closing = TRUE]
    BY Zenon, <2>1
  <2> HIDE DEF q, c, k
  <2>5. k = [q EXCEPT !.self.needclose = FALSE, !.self.closing = TRUE]
    BY Zenon, <2>2, <2>3, <2>4
  <2> QED
    BY Zenon, <2>5 DEF q
<1> HIDE DEF c
<1>5. EInv(e, s1, r, mate)
  BY Zenon, <1>3, SetSelfKept
<1>6. s1 \in Tunnel /\ s1.self = c /\ s1.rr = s.rr /\ s1.out = s.out
  BY Zenon, <1>1, <1>3 DEF Tunnel
<1> HIDE DEF s1
<1>7. m.ns = s1.rr
  BY <1>6
<1>8. k \in Tunnel /\ Reads(s1, k, m) /\ k.out = s1.out
  BY Zenon, <1>2, <1>6, <1>7, CheckedIs
<1> HIDE DEF k
<1>9. Going(t, k)
  BY Zenon, <1>3, <1>6, <1>8 DEF Going, Reads
<1>10. EInv(e, k, t, mate)
  BY Zenon, <1>5, <1>8, <1>9, ReadKept
<1>11. k.out = s.out /\ NoCid \in Nat /\ v = Zlb(k, NoCid)
  BY Zenon, <1>4, <1>6, <1>8 DEF NoCid
<1> QED
  BY Zenon, <1>1, <1>10, <1>11, AckedGood

(* The call whose CDN is next may be dropped, and the CDN names its peer.  *)
LEMMA CdnMatches ==
  ASSUME NEW e \in Ends, NEW s, NEW r, NEW mate, EInv(e, s, r, mate),
         NEW m \in Out(r), m.type = "CDN", m.cid # NoCid, m.cid \in DOMAIN s.calls
  PROVE  /\ MayDrop(e, s, r, mate, m.cid)
         /\ m.acid = s.calls[m.cid].cid \/ s.calls[m.cid].cid = NoCid
<1>1. CASE e = "lac"
  <2>1. Inv(s, r, mate)
    BY Zenon, <1>1 DEF EInv
  <2>2. /\ \A n \in Out(r) : LnsSays(r, mate, n)
        /\ \A n \in Out(s) : LacSays(s, r, mate, n)
        /\ CdnMeant(r) /\ LacCallsOK(s, r, mate) /\ LnsCallsOK(r, mate)
        /\ Mates(s, r, mate)
    BY Zenon, <2>1 DEF Inv
  <2>3. m.acid \in LnsIds(r) /\ m.cid = mate[m.acid]
    BY Zenon, <2>2 DEF LnsSays
  <2>4. \A b \in DOMAIN r.calls : mate[b] = m.cid => ~Open(r.calls[b])
    BY Zenon, <2>2, <2>3 DEF LnsCallsOK, Mates, CdnMeant
  <2>5. ~Icrq(s, m.cid)
    BY Zenon, <2>2, <2>3 DEF LacSays, Icrq
  <2>6. LacMayDrop(s, r, mate, m.cid)
    BY Zenon, <2>4, <2>5 DEF LacMayDrop
  <2>7. m.acid = s.calls[m.cid].cid \/ s.calls[m.cid].cid = NoCid
    <3>1. \/ s.calls[m.cid].cid = NoCid
          \/ s.calls[m.cid].cid \in LnsIds(r) /\ mate[s.calls[m.cid].cid] = m.cid
      BY Zenon, <2>2 DEF LacCallsOK
    <3> QED
      BY Zenon, <2>2, <2>3, <3>1 DEF Mates
  <2> QED
    BY Zenon, <1>1, <2>6, <2>7 DEF MayDrop
<1>2. CASE e = "lns"
  <2>1. Inv(r, s, mate) /\ e # "lac"
    BY Zenon, <1>2 DEF EInv
  <2>2. /\ \A n \in Out(r) : LacSays(r, s, mate, n)
        /\ CdnMeant(r) /\ LnsCallsOK(s, mate)
    BY Zenon, <2>1 DEF Inv
  <2>3. m.cid \in LnsIds(s) /\ mate[m.cid] = m.acid
    BY Zenon, <2>2 DEF LacSays
  <2>4. LnsMayDrop(r, s, mate, m.cid)
    BY Zenon, <2>2, <2>3 DEF LnsMayDrop, CdnMeant
  <2>5. m.acid = s.calls[m.cid].cid
    BY Zenon, <2>2, <2>3 DEF LnsCallsOK
  <2> QED
    BY Zenon, <2>1, <2>4, <2>5 DEF MayDrop
<1> QED
  BY Zenon, <1>1, <1>2 DEF Ends

(* CDN on a call.                                                          *)
LEMMA CDNGood ==
  ASSUME NEW e \in Ends, NEW s, NEW r, NEW mate, EInv(e, s, r, mate),
         NEW t \in Tunnel, Pops(r, t), NEW m, m = Head(r.out), m.ns = s.rr,
         m.type = "CDN", m.cid # NoCid, m.cid \in DOMAIN s.calls,
         NEW v \in HandleCDN(Checked(s, m), m.cid, m)
  PROVE  Good(e, v, t)
<1>1. s \in Tunnel /\ r.out # <<>>
  BY Zenon, EInvTypes DEF Pops
<1>2. m \in Packet /\ m \in Out(r)
  BY Zenon, <1>1, HeadIs
<1> DEFINE i == m.cid
           c == [s.calls[i] EXCEPT !.needclose = FALSE, !.closing = TRUE]
           s1 == SetCall(s, i, c)
           k == Checked(s1, m)
<1>3. s.calls[i] \in Call /\ s.calls[i].cid \in Nat
  BY Zenon, <1>1, CallIs
<1>4. /\ c \in Call /\ c.cid = s.calls[i].cid /\ c.state = s.calls[i].state
      /\ ~Open(c)
  BY Zenon, <1>3 DEF Call, Open
<1>5. /\ MayDrop(e, s, r, mate, i)
      /\ m.acid = s.calls[i].cid \/ s.calls[i].cid = NoCid
  BY Zenon, <1>2, CdnMatches
<1>6. Checked(s, m).calls = s.calls
  BY <1>1 DEF Checked, Tunnel
<1>7. k = [Checked(s, m) EXCEPT !.calls[i].needclose = FALSE, !.calls[i].closing = TRUE]
  <2>1. k = SetCall(Checked(s, m), i, c)
    BY Zenon, <1>1, <1>2, <1>4, CheckedSet
  <2> DEFINE q == Checked(s, m)
  <2>2. q \in Tunnel /\ q.calls = s.calls
    BY Zenon, <1>1, <1>2, CheckedIs
  <2>3. c = [q.calls[i] EXCEPT !.needclose = FALSE, !.closing = TRUE]
    BY Zenon, <2>2
  <2> HIDE DEF q, c, k
  <2>4. k = [q EXCEPT !.calls[i].needclose = FALSE, !.calls[i].closing = TRUE]
    BY Zenon, <2>1, <2>2, <2>3 DEF SetCall, q
  <2> QED
    BY Zenon, <2>4 DEF q
<1>8. v = Zlb(k, s.calls[i].cid)
  BY Zenon, <1>5, <1>6, <1>7 DEF HandleCDN, Acked
<1> HIDE DEF c
<1>9. EInv(e, s1, r, mate)
  BY Zenon, <1>4, <1>5, SetCallKept
<1>10. /\ s1 \in Tunnel /\ Same(s, s1) /\ DOMAIN s1.calls = DOMAIN s.calls
       /\ s1.calls[i] = c
  <2>1. OneSet(s, s1, i, c)
    BY Zenon, <1>1, <1>4, SetCallIs
  <2> QED
    BY Zenon, <2>1 DEF OneSet
<1> HIDE DEF s1
<1>11. m.ns = s1.rr /\ s1.out = s.out /\ m.type # "ZLB"
  BY <1>10 DEF Same
<1>12. k \in Tunnel /\ Reads(s1, k, m) /\ k.out = s1.out
  BY Zenon, <1>2, <1>10, <1>11, CheckedIs
<1> HIDE DEF k
<1>13. Done(e, s1, mate, m)
  <2>1. \A j \in DOMAIN s1.calls : Open(s1.calls[j]) => m.cid # j
    BY Zenon, <1>4, <1>10
  <2>2. m.type # "StopCCN"
    OBVIOUS
  <2> QED
    BY Zenon, <2>1, <2>2 DEF Done, LacDone, LnsDone
<1>14. EInv(e, k, t, mate)
  BY Zenon, <1>9, <1>12, <1>13, ReadKept
<1> QED
  BY Zenon, <1>1, <1>3, <1>8, <1>14, AckedGood

(* A message that the state of the call forbids.                           *)
LEMMA BadGood ==
  ASSUME NEW e \in Ends, NEW s, NEW r, NEW mate, EInv(e, s, r, mate),
         NEW t \in Tunnel, Pops(r, t), NEW m, m = Head(r.out), m.ns = s.rr,
         m.type \in {"ICRP", "ICCN"}, m.cid \in DOMAIN s.calls,
         NEW v \in BadMessage(Checked(s, m), m.cid)
  PROVE  Good(e, v, t)
<1>1. s \in Tunnel /\ r.out # <<>>
  BY Zenon, EInvTypes DEF Pops
<1>2. m \in Packet /\ m \in Out(r) /\ m.type # "ZLB"
  BY Zenon, <1>1, HeadIs
<1> DEFINE i == m.cid
           k == Checked(s, m)
           c == [k.calls[i] EXCEPT !.needclose = TRUE]
           w == SetCall(k, i, c)
<1>3. k \in Tunnel /\ Reads(s, k, m) /\ k.calls = s.calls /\ k.out = s.out
  BY Zenon, <1>1, <1>2, CheckedIs
<1>4. v = Zlb([k EXCEPT !.calls[i].needclose = TRUE], k.calls[i].cid)
  BY Zenon DEF BadMessage, Acked
<1> HIDE DEF k
<1>5. Done(e, s, mate, m)
  BY DEF Done, LacDone, LnsDone
<1>6. EInv(e, k, t, mate)
  BY Zenon, <1>3, <1>5, ReadKept
<1>7. i \in DOMAIN k.calls
  BY <1>3
<1>8. k.calls[i] \in Call /\ k.calls[i].cid \in Nat
  BY Zenon, <1>3, <1>7, CallIs
<1>9. /\ c \in Call /\ c.cid = k.calls[i].cid /\ c.state = k.calls[i].state
      /\ ~Open(c) /\ c.closing = k.calls[i].closing
  BY Zenon, <1>8 DEF Call, Open
<1>10. v = Zlb(w, k.calls[i].cid)
  <2>1. [k EXCEPT !.calls[i].needclose = TRUE] = w
    BY <1>3, <1>7 DEF SetCall
  <2> QED
    BY Zenon, <1>4, <2>1
<1> HIDE DEF c
<1>11. EInv(e, w, t, mate)
  BY Zenon, <1>6, <1>7, <1>9, SetCallKept
<1> HIDE DEF w
<1> QED
  BY Zenon, <1>1, <1>8, <1>10, <1>11, AckedGood

(* No call has the number of the tunnel itself.                            *)
LEMMA IdsNonzero ==
  ASSUME NEW s \in Tunnel
  PROVE  NoCid \notin LacIds(s) /\ NoCid \notin LnsIds(s)
<1>1. s.made \in Nat
  BY Zenon DEF Tunnel
<1> QED
  BY <1>1, CallsAssumption DEF LacIds, LnsIds, NoCid

(* CDN on the tunnel: only the LAC sends one.                              *)
LEMMA TunnelCDNGood ==
  ASSUME NEW e \in Ends, NEW s, NEW r, NEW mate, EInv(e, s, r, mate),
         NEW t \in Tunnel, Pops(r, t), NEW m, m = Head(r.out), m.ns = s.rr,
         m.type = "CDN", m.cid = NoCid,
         NEW v \in HandleTunnelCDN(Checked(s, m), m)
  PROVE  Good(e, v, t)
<1>1. s \in Tunnel /\ r \in Tunnel /\ r.out # <<>>
  BY Zenon, EInvTypes DEF Pops
<1>2. m \in Packet /\ m \in Out(r) /\ m.type # "ZLB"
  BY Zenon, <1>1, HeadIs
<1> DEFINE k == Checked(s, m)
<1>3. k \in Tunnel /\ Reads(s, k, m) /\ k.calls = s.calls /\ k.out = s.out
  BY Zenon, <1>1, <1>2, CheckedIs
<1>4. e = "lns" /\ Inv(r, s, mate)
  <2>1. CASE e = "lac"
    <3>1. Inv(s, r, mate)
      BY Zenon, <2>1 DEF EInv
    <3>2. LnsSays(r, mate, m) /\ Mates(s, r, mate)
      BY Zenon, <1>2, <3>1 DEF Inv
    <3>3. m.acid \in LnsIds(r) /\ mate[m.acid] = NoCid
      BY Zenon, <3>2 DEF LnsSays
    <3>4. NoCid \in LacIds(s)
      BY Zenon, <3>2, <3>3 DEF Mates
    <3> QED
      BY Zenon, <1>1, <3>4, IdsNonzero
  <2> QED
    BY <2>1 DEF Ends, EInv
<1>5. CASE \E i \in DOMAIN s.calls : s.calls[i].cid = m.acid
  <2>1. v = Zlb([k EXCEPT !.self.needclose = FALSE, !.self.closing = TRUE], NoCid)
    BY Zenon, <1>3, <1>5 DEF HandleTunnelCDN, Acked
  <2> QED
    BY Zenon, <1>2, <2>1, SelfClosingGood
<1>6. CASE ~ \E i \in DOMAIN s.calls : s.calls[i].cid = m.acid
  <2>1. v = Zlb(k, NoCid)
    BY Zenon, <1>3, <1>6 DEF HandleTunnelCDN, Acked
  <2>2. LnsCallsOK(s, mate)
    BY Zenon, <1>4 DEF Inv
  <2>3. \A b \in DOMAIN s.calls : m.cid # b /\ mate[b] # m.acid
    BY Zenon, <1>1, <1>6, <2>2, IdsNonzero DEF LnsCallsOK
  <2>4. Done(e, s, mate, m)
    BY Zenon, <1>4, <2>3 DEF Done, LnsDone
  <2> HIDE DEF k
  <2>5. EInv(e, k, t, mate)
    BY Zenon, <1>3, <2>4, ReadKept
  <2>6. NoCid \in Nat
    BY Zenon, <1>1, <1>3, <2>5, GoodOf DEF NoCid
  <2> QED
    BY Zenon, <1>1, <2>1, <2>5, <2>6, AckedGood
<1> QED
  BY Zenon, <1>5, <1>6

(* Sending a message leaves the calls alone.                               *)
LEMMA TransmitCalls ==
  ASSUME NEW s \in Tunnel, NEW type, NEW cid \in Nat, NEW acid \in Nat
  PROVE  Transmit(s, type, cid, acid).calls = s.calls
  BY DEF Transmit, Tunnel

(* The tunnel of the LAC, and its call, after an ICRP with the number b.   *)
Connected(c, b, p) == [c EXCEPT !.cid = b, !.state = "ICCN", !.pppd = p]

Raised(s, i, b, p) ==
  [Transmit(s, "ICCN", b, NoCid) EXCEPT
     !.calls[i].cid = b, !.calls[i].state = "ICCN", !.calls[i].pppd = p]

(* What sending an ICCN does to a call whose state changes with it.        *)
LEMMA IccnIs ==
  ASSUME NEW q \in Tunnel, NEW i \in DOMAIN q.calls, NEW b \in Nat,
         NEW p \in {"none", "running", "dead"},
         NEW c, c = Connected(q.calls[i], b, p)
  PROVE  Raised(q, i, b, p) = Transmit(SetCall(q, i, c), "ICCN", b, NoCid)
<1>1. q.calls[i] \in Call
  BY CallIs
<1>2. c \in Call
  BY Zenon, <1>1 DEF Call, Connected
<1> DEFINE z == Transmit(q, "ICCN", b, NoCid)
<1>3. NoCid \in Nat
  BY DEF NoCid
<1>4. z \in Tunnel
  BY Zenon, <1>3, TransmitSends DEF Sent
<1>5. z.calls = q.calls
  BY Zenon, <1>3, TransmitCalls
<1>6. Transmit(SetCall(q, i, c), "ICCN", b, NoCid) = SetCall(z, i, c)
  BY <1>2, TransmitSet
<1> HIDE DEF z
<1>7. [z EXCEPT !.calls[i].cid = b, !.calls[i].state = "ICCN",
                !.calls[i].pppd = p]
        = SetCall(z, i, [z.calls[i] EXCEPT !.cid = b, !.state = "ICCN", !.pppd = p])
  BY Zenon, <1>4, <1>5 DEF SetCall
<1> QED
  BY Zenon, <1>4, <1>6, <1>7, <1>5 DEF z, Connected, Raised

(* An ICRP raises the call, is counted, and an ICCN is sent.               *)
IcrpRead(s, m, i, b, v) ==
  \E s1 \in Tunnel, k \in Tunnel, n \in Packet :
    /\ Ups(s, s1, i, b) /\ s1.rr = s.rr /\ s1.out = s.out
    /\ Reads(s1, k, m) /\ k.out = s1.out
    /\ i \in DOMAIN k.calls /\ k.calls[i].cid = b
    /\ v \in Tunnel /\ Sends(k, v, n) /\ v.out = Append(k.out, n)
    /\ n.type = "ICCN" /\ n.cid = b

(* What an ICRP does is a call coming up, the ICRP counted and an ICCN     *)
(* sent, one after the other.                                              *)
LEMMA IcrpSteps ==
  ASSUME NEW s \in Tunnel, NEW m \in Packet, m.ns = s.rr, m.type # "ZLB",
         NEW i \in DOMAIN s.calls, NEW b \in Nat,
         NEW p \in {"none", "running", "dead"},
         NEW v, v = Raised(Checked(s, m), i, b, p)
  PROVE  IcrpRead(s, m, i, b, v)
<1> DEFINE q == Checked(s, m)
           c == Connected(s.calls[i], b, p)
           s1 == SetCall(s, i, c)
           k == Checked(s1, m)
<1>1. q \in Tunnel /\ q.calls = s.calls
  BY CheckedIs
<1>2. s.calls[i] \in Call
  BY Zenon, CallIs
<1>3. /\ c \in Call /\ c.cid = b /\ c.state = "ICCN"
      /\ c.needclose = s.calls[i].needclose /\ c.closing = s.calls[i].closing
  BY Zenon, <1>2 DEF Call, Connected
<1>4. i \in DOMAIN q.calls /\ c = Connected(q.calls[i], b, p)
  BY <1>1
<1> HIDE DEF c
<1>5. k = SetCall(q, i, c)
  BY <1>3, CheckedSet
<1>6. v = Raised(q, i, b, p)
  BY Zenon
<1> HIDE DEF q, k
<1>7. v = Transmit(k, "ICCN", b, NoCid)
  BY <1>1, <1>4, <1>5, <1>6, IccnIs
<1>8. /\ s1 \in Tunnel /\ Same(s, s1) /\ s1.made = s.made
      /\ DOMAIN s1.calls = DOMAIN s.calls
      /\ \A j \in DOMAIN s.calls : j # i => s1.calls[j] = s.calls[j]
      /\ s1.calls[i] = c
  <2>1. OneSet(s, s1, i, c)
    BY Zenon, <1>3, SetCallIs
  <2> QED
    BY Zenon, <2>1 DEF OneSet
<1> HIDE DEF s1
<1>9. Ups(s, s1, i, b)
  BY Zenon, <1>3, <1>8 DEF Ups
<1>10. s1.rr = s.rr /\ s1.out = s.out
  BY Zenon, <1>8 DEF Same
<1>11. k \in Tunnel /\ Reads(s1, k, m) /\ k.calls = s1.calls /\ k.out = s1.out
  BY Zenon, <1>8, <1>10, CheckedIs DEF k
<1>12. PICK n \in Packet : /\ v \in Tunnel /\ Sends(k, v, n)
                           /\ v.out = Append(k.out, n)
                           /\ n.type = "ICCN" /\ n.cid = b
  <2>1. NoCid \in Nat
    BY Zenon DEF NoCid
  <2>2. Sent(k, v, "ICCN", b, NoCid)
    BY Zenon, <1>7, <1>11, <2>1, TransmitSends
  <2> QED
    BY Zenon, <2>2 DEF Sent
<1>13. i \in DOMAIN k.calls /\ k.calls[i].cid = b
  BY Zenon, <1>3, <1>8, <1>11
<1> QED
  BY Zenon, <1>8, <1>9, <1>10, <1>11, <1>12, <1>13 DEF IcrpRead

(* ICRP: the LAC knows the number of the LNS, and says so with an ICCN.    *)
LEMMA ICRPGood ==
  ASSUME NEW e \in Ends, NEW s, NEW r, NEW mate, EInv(e, s, r, mate),
         NEW t \in Tunnel, Pops(r, t), NEW m, m = Head(r.out), m.ns = s.rr,
         m.type = "ICRP", m.cid = NoCid \/ m.cid \in DOMAIN s.calls,
         NEW v \in HandleICRP(Checked(s, m), m.cid, m)
  PROVE  Good(e, v, t)
<1>1. s \in Tunnel /\ r \in Tunnel /\ r.out # <<>>
  BY Zenon, EInvTypes DEF Pops
<1>2. m \in Packet /\ m \in Out(r) /\ m.type # "ZLB" /\ m.acid \in Nat
  BY <1>1, HeadIs DEF Packet
<1>3. e = "lac" /\ Inv(s, r, mate)
  <2>1. CASE e = "lns"
    <3>1. Inv(r, s, mate)
      BY Zenon, <2>1 DEF EInv
    <3>2. LacSays(r, s, mate, m)
      BY Zenon, <1>2, <3>1 DEF Inv
    <3> QED
      BY Zenon, <3>2 DEF LacSays
  <2> QED
    BY Zenon, <2>1 DEF Ends, EInv
<1>4. m.acid \in LnsIds(r) /\ mate[m.acid] = m.cid /\ Icrp(r, m.cid, m.acid)
  <2>1. LnsSays(r, mate, m)
    BY Zenon, <1>2, <1>3 DEF Inv
  <2>2. m.acid \in LnsIds(r) /\ mate[m.acid] = m.cid
    BY Zenon, <2>1 DEF LnsSays
  <2> QED
    BY Zenon, <1>2, <2>2 DEF Icrp
<1>5. m.cid \in DOMAIN s.calls
  <2>1. m.cid \in LacIds(s)
    <3>1. Mates(s, r, mate)
      BY Zenon, <1>3 DEF Inv
    <3> QED
      BY Zenon, <1>4, <3>1 DEF Mates
  <2> QED
    BY Zenon, <1>1, <2>1, IdsNonzero
<1> DEFINE i == m.cid
           q == Checked(s, m)
<1>6. q \in Tunnel /\ q.calls = s.calls
  BY Zenon, <1>1, <1>2, CheckedIs
<1>7. CASE s.calls[i].state # "ICRQ"
  <2>1. v \in BadMessage(q, i)
    BY Zenon, <1>6, <1>7 DEF HandleICRP
  <2> QED
    BY Zenon, <1>5, <2>1, BadGood
<1>8. CASE s.calls[i].state = "ICRQ"
  <2>1. PICK p \in StartPppd :
          v = Raised(q, i, m.acid, p)
    BY Zenon, <1>6, <1>8 DEF HandleICRP, Raised
  <2>2. p \in {"none", "running", "dead"}
    BY DEF StartPppd
  <2>3. PICK s1 \in Tunnel, k \in Tunnel, n \in Packet :
          /\ Ups(s, s1, i, m.acid) /\ s1.rr = s.rr /\ s1.out = s.out
          /\ Reads(s1, k, m) /\ k.out = s1.out
          /\ i \in DOMAIN k.calls /\ k.calls[i].cid = m.acid
          /\ v \in Tunnel /\ Sends(k, v, n) /\ v.out = Append(k.out, n)
          /\ n.type = "ICCN" /\ n.cid = m.acid
    <3>1. IcrpRead(s, m, i, m.acid, v)
      BY Zenon, <1>1, <1>2, <1>5, <2>1, <2>2, IcrpSteps
    <3> QED
      BY Zenon, <3>1 DEF IcrpRead
  <2>4. Inv(s1, r, mate)
    BY Zenon, <1>3, <1>4, <2>3, LacUp
  <2>5. EInv(e, k, t, mate)
    <3>1. EInv(e, s1, r, mate)
      BY Zenon, <1>3, <2>4 DEF EInv
    <3>2. Done(e, s1, mate, m)
      BY Zenon DEF Done, LacDone, LnsDone
    <3>3. m.ns = s1.rr
      BY Zenon, <2>3
    <3> QED
      BY Zenon, <2>3, <3>1, <3>2, <3>3, ReadKept
  <2>6. Inv(k, t, mate)
    BY Zenon, <1>3, <2>5 DEF EInv
  <2>7. LacSays(k, t, mate, n)
    <3>1. m.acid \in LnsIds(t)
      BY Zenon, <1>4 DEF Pops, LnsIds
    <3> QED
      BY Zenon, <2>3, <3>1 DEF LacSays
  <2>8. mate[n.cid] \in DOMAIN k.calls /\ k.calls[mate[n.cid]].cid # NoCid
    <3>1. m.acid # NoCid
      BY Zenon, <1>1, <1>4, IdsNonzero
    <3> QED
      BY Zenon, <1>4, <2>3, <3>1
  <2>9. n.type # "CDN" /\ n.type # "ICRQ"
    BY Zenon, <2>3
  <2>10. Inv(v, t, mate)
    BY Zenon, <2>3, <2>6, <2>7, <2>8, <2>9, LacSends
  <2> QED
    BY Zenon, <1>3, <2>10 DEF Good, EInv
<1> QED
  BY Zenon, <1>7, <1>8

(* The call i of the LNS is c, and the invariant holds.                    *)
IccnRaises(e, s, k, t, mate, i, c) ==
  /\ EInv(e, k, t, mate) /\ k \in Tunnel /\ k.out = s.out
  /\ i \in DOMAIN k.calls /\ k.calls[i] = c

(* The call of the LNS is up and its ICCN is counted.                      *)
LEMMA IccnRead ==
  ASSUME NEW e \in Ends, NEW s, NEW r, NEW mate, EInv(e, s, r, mate), e = "lns",
         NEW t \in Tunnel, Pops(r, t), NEW m, m = Head(r.out), m.ns = s.rr,
         m.type = "ICCN", NEW i \in DOMAIN s.calls, m.cid = i,
         NEW c \in Call, c.cid = s.calls[i].cid, c.state = "ICCN",
         c.needclose = s.calls[i].needclose, c.closing = s.calls[i].closing,
         NEW k, k = SetCall(Checked(s, m), i, c)
  PROVE  IccnRaises(e, s, k, t, mate, i, c)
<1>1. s \in Tunnel /\ r.out # <<>>
  BY EInvTypes DEF Pops
<1>2. m \in Packet /\ m.type # "ZLB"
  BY <1>1, HeadIs
<1> DEFINE s1 == SetCall(s, i, c)
<1>3. k = Checked(s1, m)
  BY Zenon, <1>1, <1>2, CheckedSet
<1>4. /\ s1 \in Tunnel /\ Same(s, s1) /\ s1.made = s.made
      /\ DOMAIN s1.calls = DOMAIN s.calls
      /\ \A j \in DOMAIN s.calls : j # i => s1.calls[j] = s.calls[j]
      /\ s1.calls[i] = c
  <2>1. OneSet(s, s1, i, c)
    BY Zenon, <1>1, SetCallIs
  <2> QED
    BY Zenon, <2>1 DEF OneSet
<1> HIDE DEF s1
<1>5. Ups(s, s1, i, s.calls[i].cid)
  BY Zenon, <1>4 DEF Ups
<1>6. EInv(e, s1, r, mate)
  <2>1. Inv(r, s, mate) /\ e # "lac"
    BY Zenon DEF EInv
  <2>2. Head(r.out).type = "ICCN" /\ Head(r.out).cid = i
    BY Zenon
  <2>3. Inv(r, s1, mate)
    BY Zenon, <1>1, <1>4, <1>5, <2>1, <2>2, LnsUp
  <2> QED
    BY Zenon, <2>1, <2>3 DEF EInv
<1>7. s1 \in Tunnel /\ m.ns = s1.rr /\ s1.out = s.out
  BY Zenon, <1>4 DEF Same
<1>8. k \in Tunnel /\ Reads(s1, k, m) /\ k.calls = s1.calls /\ k.out = s1.out
  BY Zenon, <1>2, <1>3, <1>7, CheckedIs
<1>9. Done(e, s1, mate, m)
  BY Zenon, <1>4 DEF Done, LnsDone
<1>10. EInv(e, k, t, mate)
  BY Zenon, <1>6, <1>8, <1>9, ReadKept
<1> QED
  BY Zenon, <1>4, <1>7, <1>8, <1>10 DEF IccnRaises

(* ICCN: the LNS has the call up, or closes it for want of an address.     *)
LEMMA ICCNGood ==
  ASSUME NEW e \in Ends, NEW s, NEW r, NEW mate, EInv(e, s, r, mate),
         NEW t \in Tunnel, Pops(r, t), NEW m, m = Head(r.out), m.ns = s.rr,
         m.type = "ICCN", m.cid = NoCid \/ m.cid \in DOMAIN s.calls,
         NEW v \in HandleICCN(Checked(s, m), m.cid)
  PROVE  Good(e, v, t)
<1>1. s \in Tunnel /\ r \in Tunnel /\ r.out # <<>>
  BY Zenon, EInvTypes DEF Pops
<1>2. m \in Packet /\ m \in Out(r) /\ m.type # "ZLB"
  BY Zenon, <1>1, HeadIs
<1>3. e = "lns" /\ Inv(r, s, mate)
  <2>1. CASE e = "lac"
    <3>1. Inv(s, r, mate)
      BY Zenon, <2>1 DEF EInv
    <3>2. LnsSays(r, mate, m)
      BY Zenon, <1>2, <3>1 DEF Inv
    <3> QED
      BY Zenon, <3>2 DEF LnsSays
  <2> QED
    BY Zenon, <2>1 DEF Ends, EInv
<1>4. m.cid \in DOMAIN s.calls
  <2>1. LacSays(r, s, mate, m)
    BY Zenon, <1>2, <1>3 DEF Inv
  <2>2. m.cid \in LnsIds(s)
    BY Zenon, <2>1 DEF LacSays
  <2> QED
    BY Zenon, <1>1, <2>2, IdsNonzero
<1> DEFINE i == m.cid
           q == Checked(s, m)
<1>5. q \in Tunnel /\ q.calls = s.calls /\ i \in DOMAIN q.calls
  BY <1>1, <1>2, <1>4, CheckedIs
<1>6. s.calls[i] \in Call /\ s.calls[i].cid \in Nat
  BY Zenon, <1>1, <1>4, CallIs
<1>7. CASE s.calls[i].state # "ICRP"
  <2>1. v \in BadMessage(q, i)
    BY Zenon, <1>5, <1>7 DEF HandleICCN
  <2> QED
    BY Zenon, <1>4, <2>1, BadGood
<1>8. ASSUME NEW p \in StartPppd,
             v = Zlb([[q EXCEPT !.calls[i].state = "ICCN"] EXCEPT
                        !.calls[i].pppd = p], s.calls[i].cid)
      PROVE  Good(e, v, t)
  <2> DEFINE c == [q.calls[i] EXCEPT !.state = "ICCN", !.pppd = p]
             k == SetCall(q, i, c)
  <2>1. p \in {"none", "running", "dead"}
    BY Zenon DEF StartPppd
  <2>2. /\ c \in Call /\ c.cid = s.calls[i].cid /\ c.state = "ICCN"
        /\ c.needclose = s.calls[i].needclose /\ c.closing = s.calls[i].closing
    BY Zenon, <1>5, <1>6, <2>1 DEF Call
  <2>3. v = Zlb(k, s.calls[i].cid)
    <3> HIDE DEF q
    <3>1. [[q EXCEPT !.calls[i].state = "ICCN"] EXCEPT !.calls[i].pppd = p] = k
      BY Zenon, <1>5 DEF SetCall
    <3> QED
      BY Zenon, <1>8, <3>1
  <2> HIDE DEF c
  <2>4. EInv(e, k, t, mate) /\ k.out = s.out
    <3>1. IccnRaises(e, s, k, t, mate, i, c)
      BY Zenon, <1>3, <1>4, <2>2, IccnRead
    <3> QED
      BY Zenon, <3>1 DEF IccnRaises
  <2> HIDE DEF k
  <2> QED
    BY Zenon, <1>1, <1>6, <2>3, <2>4, AckedGood
<1>9. ASSUME v = Zlb(CallClose([[q EXCEPT !.calls[i].state = "ICCN"] EXCEPT
                                 !.calls[i].needclose = TRUE], i), s.calls[i].cid)
      PROVE  Good(e, v, t)
  <2> DEFINE c == [q.calls[i] EXCEPT !.state = "ICCN"]
             k == SetCall(q, i, c)
             d == [c EXCEPT !.needclose = TRUE]
             w == SetCall(k, i, d)
             u == CallClose(w, i)
  <2>1. /\ c \in Call /\ c.cid = s.calls[i].cid /\ c.state = "ICCN"
        /\ c.needclose = s.calls[i].needclose /\ c.closing = s.calls[i].closing
    BY Zenon, <1>5, <1>6 DEF Call
  <2>2. v = Zlb(u, s.calls[i].cid)
    <3> HIDE DEF q
    <3>1. [[q EXCEPT !.calls[i].state = "ICCN"] EXCEPT !.calls[i].needclose = TRUE] = w
      BY Zenon, <1>5 DEF SetCall
    <3> QED
      BY Zenon, <1>9, <3>1
  <2> HIDE DEF c
  <2>3. /\ EInv(e, k, t, mate) /\ k \in Tunnel /\ k.out = s.out
        /\ i \in DOMAIN k.calls /\ k.calls[i] = c
    <3>1. IccnRaises(e, s, k, t, mate, i, c)
      BY Zenon, <1>3, <1>4, <2>1, IccnRead
    <3> QED
      BY Zenon, <3>1 DEF IccnRaises
  <2> HIDE DEF k
  <2>4. /\ d \in Call /\ d.cid = k.calls[i].cid /\ d.state = k.calls[i].state
        /\ ~Open(d) /\ d.closing = k.calls[i].closing
    BY Zenon, <2>1, <2>3 DEF Call, Open
  <2> HIDE DEF d
  <2>5. EInv(e, w, t, mate)
    BY Zenon, <2>3, <2>4, SetCallKept
  <2>6. w.out = s.out /\ i \in DOMAIN w.calls /\ w.calls[i] = d
    <3>1. OneSet(k, w, i, d)
      BY Zenon, <2>3, <2>4, SetCallIs
    <3> QED
      BY Zenon, <2>3, <3>1 DEF OneSet, Same
  <2> HIDE DEF w
  <2>7. EInv(e, u, t, mate)
    BY Zenon, <2>4, <2>5, <2>6, CallCloseKept
  <2> HIDE DEF u
  <2> QED
    BY Zenon, <1>1, <1>6, <2>2, <2>7, AckedGood
<1>10. CASE s.calls[i].state = "ICRP"
  <2> HIDE DEF q
  <2>1. v \in {Zlb([[q EXCEPT !.calls[i].state = "ICCN"] EXCEPT
                      !.calls[i].pppd = p], s.calls[i].cid) : p \in StartPppd}
        \/ v = Zlb(CallClose([[q EXCEPT !.calls[i].state = "ICCN"] EXCEPT
                                !.calls[i].needclose = TRUE], i), s.calls[i].cid)
    BY Zenon, <1>5, <1>10 DEF HandleICCN, Acked, q
  <2> QED
    BY Zenon, <1>8, <1>9, <2>1
<1> QED
  BY Zenon, <1>7, <1>10

(* What a new call does to the tunnel it is put on.                        *)
LEMMA AddCallIs ==
  ASSUME NEW s \in Tunnel, NEW i \in Nat, NEW c \in Call,
         NEW t, t = AddCall(s, i, c)
  PROVE  t \in Tunnel /\ Adds(s, t, i, c)
<1> DEFINE D == DOMAIN s.calls \cup {i}
           f == [j \in D |-> IF j = i THEN c ELSE s.calls[j]]
<1>1. DOMAIN s.calls \subseteq Nat /\ s.calls \in [DOMAIN s.calls -> Call]
  <2>1. s.calls \in CallMap
    BY Zenon DEF Tunnel
  <2> QED
    BY Zenon, <2>1, CallMapIs
<1>2. D \in SUBSET Nat
  BY Zenon, <1>1
<1>3. f \in [D -> Call]
  BY Zenon, <1>1
<1>4. f \in CallMap
  BY Zenon, <1>2, <1>3, CallMapOf
<1>5. /\ DOMAIN f = D /\ f[i] = c
      /\ \A j \in DOMAIN s.calls : j # i => f[j] = s.calls[j]
  BY Zenon
<1>6. t = [s EXCEPT !.made = s.made + 1, !.calls = f]
  BY Zenon DEF AddCall
<1>7. s.made + 1 \in Nat
  BY DEF Tunnel
<1> HIDE DEF f
<1>8. t \in Tunnel /\ t.calls = f /\ t.made = s.made + 1
  BY Zenon, <1>4, <1>6, <1>7 DEF Tunnel
<1>9. Same(s, t)
  BY <1>6 DEF Tunnel, Same
<1> QED
  BY Zenon, <1>5, <1>8, <1>9 DEF Adds

(* The request that is read is the only one for its call, and no call was  *)
(* made for it before.                                                     *)
FreshRequest(x, y, mate, a) ==
  /\ a \in LacIds(x)
  /\ \A b \in LnsIds(y) : mate[b] # a
  /\ ~Icrq(x, a)
  /\ a \in DOMAIN x.calls /\ x.calls[a].closing => Cdn(x, NoCid, a) \/ Going(x, y)

(* A request that is read is the only one with its number, and no call has *)
(* been made for it.                                                       *)
LEMMA IcrqFresh ==
  ASSUME NEW r, NEW s, NEW mate, Inv(r, s, mate), NEW t \in Tunnel, Pops(r, t),
         NEW m, m = Head(r.out), m.type = "ICRQ",
         NEW k \in Tunnel, Reads(s, k, m)
  PROVE  FreshRequest(t, k, mate, m.acid)
<1>1. r \in Tunnel /\ r.out \in Seq(Packet) /\ r.out # <<>>
  BY Zenon DEF Inv, Tunnel, Pops
<1>2. /\ t.made = r.made /\ t.calls = r.calls /\ LacIds(t) = LacIds(r)
      /\ k.made = s.made /\ LnsIds(k) = LnsIds(s) /\ t.out = Tail(r.out)
  BY Zenon DEF Pops, Reads, LacIds, LnsIds
<1>3. Out(r) = Out(t) \cup {m}
  BY Zenon, <1>1, PoppedIs
<1>4. LacSays(r, s, mate, m)
  BY Zenon, <1>3 DEF Inv
<1>5. m.acid \in LacIds(t) /\ \A b \in LnsIds(k) : mate[b] # m.acid
  BY Zenon, <1>2, <1>4 DEF LacSays
<1>6. ~Icrq(t, m.acid)
  <2>1. SUFFICES ASSUME Icrq(t, m.acid) PROVE FALSE
    OBVIOUS
  <2>2. PICK n \in Out(t) : n.type = "ICRQ" /\ n.acid = m.acid
    BY Zenon, <2>1 DEF Icrq
  <2>3. PICK j \in 1 .. Len(t.out) : n = t.out[j]
    BY Zenon DEF Out
  <2>4. /\ j + 1 \in 1 .. Len(r.out) /\ n = r.out[j + 1] /\ m = r.out[1]
        /\ 1 \in 1 .. Len(r.out) /\ j + 1 # 1
    BY <1>1, <1>2, <2>3, TailIs
  <2>5. Ordered(r, mate)
    BY DEF Inv
  <2>6. \A i, h \in 1 .. Len(r.out) :
          (/\ r.out[i].type = "ICRQ" /\ r.out[h].type = "ICRQ"
           /\ r.out[i].acid = r.out[h].acid) => i = h
    BY Zenon, <2>5 DEF Ordered
  <2> HIDE DEF Out
  <2> QED
    BY Zenon, <2>2, <2>4, <2>6
<1>7. ASSUME m.acid \in DOMAIN t.calls, t.calls[m.acid].closing
      PROVE  Cdn(t, NoCid, m.acid) \/ Going(t, k)
  <2>1. ClosingMayGo(r, s, mate)
    BY DEF Inv
  <2>2. LacMayDrop(r, s, mate, m.acid)
    BY Zenon, <1>2, <1>7, <2>1 DEF ClosingMayGo
  <2>3. Icrq(r, m.acid)
    BY Zenon, <1>3 DEF Icrq
  <2>4. Cdn(r, NoCid, m.acid) \/ Going(r, s)
    BY Zenon, <2>2, <2>3 DEF LacMayDrop
  <2>5. m.type # "CDN" /\ m.type # "StopCCN"
    BY Zenon
  <2>6. Cdn(r, NoCid, m.acid) => Cdn(t, NoCid, m.acid)
    BY Zenon, <1>1, <2>5, PoppedIs
  <2>7. Going(r, s) => Going(t, k)
    <3>1. Going(r, s) => Going(t, k) \/ m.type = "StopCCN"
      BY <1>3, PoppedGoing
    <3> QED
      BY Zenon, <2>5, <3>1
  <2> QED
    BY Zenon, <2>4, <2>6, <2>7
<1> QED
  BY Zenon, <1>5, <1>6, <1>7 DEF FreshRequest

(* The LNS has counted the request of call a and made call i, c, for it.   *)
IcrqMade(e, s, w, t, i, c) ==
  \E mate : /\ EInv(e, w, t, mate) /\ mate[i] = c.cid /\ i \in LnsIds(w)
            /\ w \in Tunnel /\ w.out = s.out
            /\ i \in DOMAIN w.calls /\ w.calls[i] = c

(* The LNS makes a call for the request it reads.                          *)
LEMMA IcrqMakes ==
  ASSUME NEW e \in Ends, NEW s, NEW r, NEW mate, EInv(e, s, r, mate), e = "lns",
         NEW t \in Tunnel, Pops(r, t), NEW m, m = Head(r.out), m.ns = s.rr,
         m.type = "ICRQ", s.alive, NEW k, k = Checked(s, m),
         NEW i, i = OurCid("lns", k.made + 1),
         NEW c \in Call, c.cid = m.acid, c.state \in {"none", "ICRP"}, ~c.closing
  PROVE  IcrqMade(e, s, AddCall(k, i, c), t, i, c)
<1>1. s \in Tunnel /\ r.out # <<>>
  BY Zenon, EInvTypes DEF Pops
<1>2. m \in Packet /\ m.type # "ZLB" /\ Inv(r, s, mate) /\ e # "lac"
  BY Zenon, <1>1, HeadIs DEF EInv
<1>3. k \in Tunnel /\ Reads(s, k, m) /\ k.calls = s.calls /\ k.out = s.out
  BY <1>1, <1>2, CheckedIs
<1>4. Done(e, s, mate, m)
  BY DEF Done, LnsDone
<1>5. EInv(e, k, t, mate)
  BY Zenon, <1>3, <1>4, ReadKept
<1>6. Inv(t, k, mate)
  BY Zenon, <1>2, <1>5 DEF EInv
<1>7. /\ m.acid \in LacIds(t)
      /\ \A b \in LnsIds(k) : mate[b] # m.acid
      /\ ~Icrq(t, m.acid)
      /\ m.acid \in DOMAIN t.calls /\ t.calls[m.acid].closing
           => Cdn(t, NoCid, m.acid) \/ Going(t, k)
  <2>1. FreshRequest(t, k, mate, m.acid)
    BY Zenon, <1>2, <1>3, IcrqFresh
  <2> QED
    BY Zenon, <2>1 DEF FreshRequest
<1>8. i \in Nat
  <2>1. k.made \in Nat
    BY Zenon, <1>3 DEF Tunnel
  <2> QED
    BY <2>1, CallsAssumption DEF OurCid
<1> DEFINE w == AddCall(k, i, c)
           new == MatesWith(w, mate, i, m.acid)
<1>9. w \in Tunnel /\ Adds(k, w, i, c)
  BY Zenon, <1>3, <1>8, AddCallIs
<1> HIDE DEF w
<1>10. k.alive
  BY Zenon, <1>3 DEF Reads
<1>11. NewMate(t, w, new, i, m.acid)
  BY Zenon, <1>6, <1>7, <1>9, <1>10, LnsCreates
<1> HIDE DEF new
<1>12. EInv(e, w, t, new) /\ new[i] = c.cid /\ i \in LnsIds(w)
  BY Zenon, <1>2, <1>11 DEF EInv, NewMate
<1>13. w.out = s.out /\ i \in DOMAIN w.calls /\ w.calls[i] = c
  BY Zenon, <1>3, <1>9 DEF Adds, Same
<1> QED
  BY Zenon, <1>9, <1>12, <1>13 DEF IcrqMade, w

(* The request is answered, or refused.                                    *)
LEMMA IcrqAnswered ==
  ASSUME NEW e \in Ends, e = "lns", NEW s \in Tunnel, NEW t, NEW w, NEW i \in Nat,
         NEW c \in Call, IcrqMade(e, s, w, t, i, c),
         NEW v, v = Zlb(Transmit(w, "ICRP", c.cid, i), NoCid)
  PROVE  Good(e, v, t)
<1>1. PICK mate : /\ EInv(e, w, t, mate) /\ mate[i] = c.cid /\ i \in LnsIds(w)
                  /\ w \in Tunnel /\ w.out = s.out
                  /\ i \in DOMAIN w.calls /\ w.calls[i] = c
  BY Zenon DEF IcrqMade
<1>2. Inv(t, w, mate) /\ e # "lac"
  BY Zenon, <1>1 DEF EInv
<1> DEFINE u == Transmit(w, "ICRP", c.cid, i)
<1>3. Sent(w, u, "ICRP", c.cid, i)
  <2>1. c.cid \in Nat
    BY Zenon DEF Call
  <2> QED
    BY Zenon, <1>1, <2>1, TransmitSends
<1>4. v = Zlb(u, NoCid) /\ NoCid \in Nat
  BY DEF NoCid
<1> HIDE DEF u
<1>5. PICK n \in Packet : /\ u \in Tunnel /\ Sends(w, u, n) /\ u.out = Append(w.out, n)
                          /\ n.type = "ICRP" /\ n.cid = c.cid /\ n.acid = i
  BY Zenon, <1>3 DEF Sent
<1>6. LnsSays(w, mate, n) /\ n.type # "CDN" /\ n.acid \in DOMAIN w.calls
  BY Zenon, <1>1, <1>5 DEF LnsSays
<1>7. Inv(t, u, mate)
  BY Zenon, <1>2, <1>5, <1>6, LnsSends
<1>8. EInv(e, u, t, mate)
  BY Zenon, <1>2, <1>7 DEF EInv
<1> QED
  BY Zenon, <1>4, <1>8, AckedGood

(* No address for the peer: the new call is closed at once.                *)
LEMMA IcrqRefused ==
  ASSUME NEW e \in Ends, e = "lns", NEW s \in Tunnel, NEW t, NEW w, NEW i \in Nat,
         NEW c \in Call, IcrqMade(e, s, w, t, i, c),
         NEW v, v = Zlb(CallClose([w EXCEPT !.calls[i].needclose = TRUE], i), NoCid)
  PROVE  Good(e, v, t)
<1>1. PICK mate : /\ EInv(e, w, t, mate) /\ mate[i] = c.cid /\ i \in LnsIds(w)
                  /\ w \in Tunnel /\ w.out = s.out
                  /\ i \in DOMAIN w.calls /\ w.calls[i] = c
  BY Zenon DEF IcrqMade
<1> DEFINE d == [w.calls[i] EXCEPT !.needclose = TRUE]
           z == SetCall(w, i, d)
           u == CallClose(z, i)
<1>2. v = Zlb(u, NoCid) /\ NoCid \in Nat
  <2>1. [w EXCEPT !.calls[i].needclose = TRUE] = z
    BY Zenon, <1>1 DEF SetCall
  <2> QED
    BY Zenon, <2>1 DEF NoCid
<1>3. /\ d \in Call /\ d.cid = w.calls[i].cid /\ d.state = w.calls[i].state
      /\ ~Open(d) /\ d.closing = w.calls[i].closing
  BY Zenon, <1>1 DEF Call, Open
<1> HIDE DEF d
<1>4. EInv(e, z, t, mate)
  BY Zenon, <1>1, <1>3, SetCallKept
<1>5. z.out = s.out /\ i \in DOMAIN z.calls /\ z.calls[i] = d
  <2>1. OneSet(w, z, i, d)
    BY Zenon, <1>1, <1>3, SetCallIs
  <2> QED
    BY Zenon, <1>1, <2>1 DEF OneSet, Same
<1> HIDE DEF z
<1>6. EInv(e, u, t, mate)
  BY Zenon, <1>3, <1>4, <1>5, CallCloseKept
<1> HIDE DEF u
<1> QED
  BY Zenon, <1>2, <1>6, AckedGood

(* ICRQ: the LNS makes a call for it.                                      *)
LEMMA ICRQGood ==
  ASSUME NEW e \in Ends, NEW s, NEW r, NEW mate, EInv(e, s, r, mate),
         NEW t \in Tunnel, Pops(r, t), NEW m, m = Head(r.out), m.ns = s.rr,
         m.type = "ICRQ", s.alive, NEW v \in HandleICRQ(Checked(s, m), m)
  PROVE  Good(e, v, t)
<1>1. s \in Tunnel /\ r \in Tunnel /\ r.out # <<>>
  BY Zenon, EInvTypes DEF Pops
<1>2. m \in Packet /\ m \in Out(r) /\ m.type # "ZLB" /\ m.acid \in Nat
  BY <1>1, HeadIs DEF Packet
<1>3. e = "lns"
  <2>1. CASE e = "lac"
    <3>1. Inv(s, r, mate)
      BY Zenon, <2>1 DEF EInv
    <3>2. LnsSays(r, mate, m)
      BY Zenon, <1>2, <3>1 DEF Inv
    <3> QED
      BY Zenon, <3>2 DEF LnsSays
  <2> QED
    BY Zenon, <2>1 DEF Ends
<1> DEFINE k == Checked(s, m)
           i == OurCid("lns", k.made + 1)
           c == NewCall("none", m.acid)
           d == [c EXCEPT !.state = "ICRP"]
<1>4. i \in Nat
  <2>1. k \in Tunnel
    BY Zenon, <1>1, <1>2, CheckedIs
  <2>2. k.made \in Nat
    BY Zenon, <2>1 DEF Tunnel
  <2> HIDE DEF k
  <2> QED
    BY <2>2, CallsAssumption DEF OurCid
<1>5. c \in Call /\ c.cid = m.acid /\ c.state \in {"none", "ICRP"} /\ ~c.closing
  BY Zenon, <1>2 DEF NewCall, Call
<1>6. d \in Call /\ d.cid = m.acid /\ d.state \in {"none", "ICRP"} /\ ~d.closing
  BY Zenon, <1>2 DEF NewCall, Call
<1>7. \/ v = Zlb(Transmit(AddCall(k, i, d), "ICRP", m.acid, i), NoCid)
      \/ v = Zlb(CallClose([AddCall(k, i, c) EXCEPT !.calls[i].needclose = TRUE], i),
                 NoCid)
  <2> HIDE DEF k, c
  <2> QED
    BY Zenon DEF HandleICRQ, Acked, k, c
<1> HIDE DEF c, d
<1>8. /\ IcrqMade(e, s, AddCall(k, i, c), t, i, c)
      /\ IcrqMade(e, s, AddCall(k, i, d), t, i, d)
  BY Zenon, <1>3, <1>5, <1>6, IcrqMakes
<1> HIDE DEF k, i
<1>9. CASE v = Zlb(Transmit(AddCall(k, i, d), "ICRP", m.acid, i), NoCid)
  <2>1. v = Zlb(Transmit(AddCall(k, i, d), "ICRP", d.cid, i), NoCid)
    BY Zenon, <1>6, <1>9
  <2> QED
    BY Zenon, <1>1, <1>3, <1>4, <1>6, <1>8, <2>1, IcrqAnswered
<1>10. CASE v = Zlb(CallClose([AddCall(k, i, c) EXCEPT !.calls[i].needclose = TRUE], i),
                    NoCid)
  BY Zenon, <1>1, <1>3, <1>4, <1>5, <1>8, <1>10, IcrqRefused
<1> QED
  BY Zenon, <1>7, <1>9, <1>10

(* handle_avps and control_finish.                                         *)
LEMMA ControlGood ==
  ASSUME NEW e \in Ends, NEW s, NEW r, NEW mate, EInv(e, s, r, mate),
         NEW t \in Tunnel, Pops(r, t), NEW m, m = Head(r.out), m.ns = s.rr,
         s.alive, m.cid = NoCid \/ m.cid \in DOMAIN s.calls,
         NEW v \in HandleControl(Checked(s, m), m.cid, m)
  PROVE  Good(e, v, t)
<1>1. r.out # <<>>
  BY Zenon DEF Pops
<1>2. /\ m.type \in {"ICRQ", "ICRP", "ICCN", "CDN", "StopCCN", "ZLB"}
      /\ m.type = "StopCCN" => m.cid = NoCid
  BY <1>1, HeadIs DEF Packet
<1>3. CASE m.type = "ZLB"
  <2>1. v \in HandleZLB(Checked(s, m), m.cid)
    BY Zenon, <1>3 DEF HandleControl
  <2> QED
    BY Zenon, <1>3, <2>1, ZLBGood
<1>4. CASE m.type = "ICRQ"
  <2>1. v \in HandleICRQ(Checked(s, m), m)
    BY Zenon, <1>4 DEF HandleControl
  <2> QED
    BY Zenon, <1>4, <2>1, ICRQGood
<1>5. CASE m.type = "ICRP"
  <2>1. v \in HandleICRP(Checked(s, m), m.cid, m)
    BY Zenon, <1>5 DEF HandleControl
  <2> QED
    BY Zenon, <1>5, <2>1, ICRPGood
<1>6. CASE m.type = "ICCN"
  <2>1. v \in HandleICCN(Checked(s, m), m.cid)
    BY Zenon, <1>6 DEF HandleControl
  <2> QED
    BY Zenon, <1>6, <2>1, ICCNGood
<1>7. CASE m.type = "CDN" /\ m.cid = NoCid
  <2>1. v \in HandleTunnelCDN(Checked(s, m), m)
    BY Zenon, <1>7 DEF HandleControl
  <2> QED
    BY Zenon, <1>7, <2>1, TunnelCDNGood
<1>8. CASE m.type = "CDN" /\ m.cid # NoCid
  <2>1. v \in HandleCDN(Checked(s, m), m.cid, m)
    BY Zenon, <1>8 DEF HandleControl
  <2> QED
    BY Zenon, <1>8, <2>1, CDNGood
<1>9. CASE m.type = "StopCCN"
  <2>1. v \in HandleStopCCN(Checked(s, m))
    BY Zenon, <1>9 DEF HandleControl
  <2>2. v = Zlb([Checked(s, m) EXCEPT !.self.needclose = FALSE,
                                      !.self.closing = TRUE], NoCid)
    BY Zenon, <2>1 DEF HandleStopCCN, Acked
  <2>3. m.type # "ZLB"
    BY Zenon, <1>9
  <2> QED
    BY Zenon, <2>2, <2>3, SelfClosingGood
<1> QED
  BY Zenon, <1>2, <1>3, <1>4, <1>5, <1>6, <1>7, <1>8, <1>9

(* The possible results of handle_packet.                                  *)
LEMMA PacketIs ==
  ASSUME NEW s \in Tunnel, NEW m \in Packet, NEW v \in HandlePacket(s, m)
  PROVE  \/ /\ m.ns = s.rr /\ (m.cid = NoCid \/ m.cid \in DOMAIN s.calls)
            /\ v \in HandleControl(Checked(s, m), m.cid, m)
         \/ /\ m.ns = s.rr /\ m.cid # NoCid /\ m.cid \notin DOMAIN s.calls
            /\ v \in HandleSpecial(Checked(s, m), m)
         \/ /\ m.ns # s.rr
            /\ \/ v = s
               \/ v = Zlb(s, IF m.cid \in DOMAIN s.calls THEN s.calls[m.cid].cid
                             ELSE m.cid)
<1>1. m.ns = s.rr => ~(m.ns < s.rr)
  BY DEF Tunnel, Packet
<1>2. CASE m.ns = s.rr /\ (m.cid = NoCid \/ m.cid \in DOMAIN s.calls)
  <2>1. v \in HandleControl(Checked(s, m), m.cid, m)
    BY Zenon, <1>1, <1>2 DEF HandlePacket
  <2> QED
    BY Zenon, <1>2, <2>1
<1>3. CASE m.ns = s.rr /\ ~(m.cid = NoCid \/ m.cid \in DOMAIN s.calls)
  <2>1. v \in HandleSpecial(Checked(s, m), m)
    BY Zenon, <1>1, <1>3 DEF HandlePacket
  <2> QED
    BY Zenon, <1>3, <2>1
<1>4. CASE m.ns # s.rr /\ m.ns < s.rr /\ m.type # "ZLB"
  BY Zenon, <1>4 DEF HandlePacket
<1>5. CASE m.ns # s.rr /\ ~(m.ns < s.rr /\ m.type # "ZLB")
  BY Zenon, <1>5 DEF HandlePacket
<1> QED
  BY Zenon, <1>2, <1>3, <1>4, <1>5

(* A packet is read, by a tunnel that is there or by one that is gone.     *)
LEMMA PacketGood ==
  ASSUME NEW e \in Ends, NEW s, NEW r, NEW mate, EInv(e, s, r, mate),
         NEW t \in Tunnel, Pops(r, t), NEW m, m = Head(r.out),
         NEW v \in IF s.alive THEN HandlePacket(s, m) ELSE {s}
  PROVE  Good(e, v, t)
<1>1. s \in Tunnel /\ r.out # <<>>
  BY Zenon, EInvTypes DEF Pops
<1>2. /\ m \in Packet /\ m.cid \in Nat
      /\ s.alive /\ ~s.ahead => m.ns = s.rr
  BY Zenon, <1>1, HeadIs DEF Packet
<1>3. CASE ~s.alive
  <2>1. v = s
    BY Zenon, <1>3
  <2>2. Good(e, s, t)
    BY Zenon, <1>3, OldGood
  <2> QED
    BY Zenon, <2>1, <2>2
<1>4. CASE s.alive
  <2>1. v \in HandlePacket(s, m)
    BY Zenon, <1>4
  <2>2. CASE /\ m.ns = s.rr /\ (m.cid = NoCid \/ m.cid \in DOMAIN s.calls)
             /\ v \in HandleControl(Checked(s, m), m.cid, m)
    BY Zenon, <1>4, <2>2, ControlGood
  <2>3. CASE /\ m.ns = s.rr /\ m.cid # NoCid /\ m.cid \notin DOMAIN s.calls
             /\ v \in HandleSpecial(Checked(s, m), m)
    BY Zenon, <2>3, SpecialGood
  <2> DEFINE reply == IF m.cid \in DOMAIN s.calls THEN s.calls[m.cid].cid ELSE m.cid
  <2>4. CASE m.ns # s.rr /\ (v = s \/ v = Zlb(s, reply))
    <3>1. s.alive => s.ahead
      BY Zenon, <1>2, <2>4
    <3>2. reply \in Nat
      BY Zenon, <1>1, <1>2, CallIs
    <3> HIDE DEF reply
    <3>3. Good(e, s, t) /\ Good(e, Zlb(s, reply), t)
      BY Zenon, <3>1, <3>2, OldGood
    <3> QED
      BY Zenon, <2>4, <3>3
  <2> QED
    BY Zenon, <1>1, <1>2, <2>1, <2>2, <2>3, <2>4, PacketIs
<1> QED
  BY Zenon, <1>3, <1>4

-----------------------------------------------------------------------------
(* The system.                                                             *)

(* There are two ends.                                                     *)
LEMMA PeerIs ==
  ASSUME NEW e \in Ends
  PROVE  /\ Peer(e) \in Ends /\ Peer(e) # e /\ Peer(Peer(e)) = e
         /\ \A d \in Ends : d = e \/ d = Peer(e)
  BY Zenon DEF Ends, Peer

(* What Matched says from the side of one end, and back.                   *)
LEMMA MatchedAt ==
  ASSUME Matched, NEW e \in Ends
  PROVE  \E mate : EInv(e, end[e], end[Peer(e)], mate)
<1>1. PICK mate : Inv(end["lac"], end["lns"], mate)
  BY DEF Matched
<1>2. CASE e = "lac"
  <2>1. EInv(e, end[e], end[Peer(e)], mate)
    BY Zenon, <1>1, <1>2 DEF EInv, Peer
  <2> QED
    BY Zenon, <2>1
<1>3. CASE e = "lns"
  <2>1. EInv(e, end[e], end[Peer(e)], mate)
    BY Zenon, <1>1, <1>3 DEF EInv, Peer
  <2> QED
    BY Zenon, <2>1
<1> QED
  BY Zenon, <1>2, <1>3 DEF Ends

(* And back.                                                               *)
LEMMA AtMatched ==
  ASSUME NEW e \in Ends, NEW x, NEW y, NEW s, NEW r, NEW mate, EInv(e, s, r, mate),
         e = "lac" => x = s /\ y = r,
         e = "lns" => x = r /\ y = s
  PROVE  \E n : Inv(x, y, n)
<1>1. CASE e = "lac"
  <2>1. Inv(x, y, mate)
    BY Zenon, <1>1 DEF EInv
  <2> QED
    BY Zenon, <2>1
<1>2. CASE e = "lns"
  <2>1. e # "lac"
    BY Zenon, <1>2
  <2>2. Inv(x, y, mate)
    BY Zenon, <1>2, <2>1 DEF EInv
  <2> QED
    BY Zenon, <2>2
<1> QED
  BY Zenon, <1>1, <1>2 DEF Ends

(* A step of one end that keeps the invariant.                             *)
LEMMA OneMoves ==
  ASSUME Matched, NEW e \in Ends, NEW mate, NEW u,
         EInv(e, u, end[Peer(e)], mate),
         end' = [end EXCEPT ![e] = u]
  PROVE  Matched'
<1>1. end \in [Ends -> Tunnel]
  BY DEF Matched
<1>2. u \in Tunnel
  BY Zenon, EInvTypes
<1>3. end' \in [Ends -> Tunnel] /\ end'[e] = u /\ end'[Peer(e)] = end[Peer(e)]
  BY Zenon, <1>1, <1>2, PeerIs
<1>4. /\ e = "lac" => end'["lac"] = u /\ end'["lns"] = end[Peer(e)]
      /\ e = "lns" => end'["lac"] = end[Peer(e)] /\ end'["lns"] = u
  BY Zenon, <1>3 DEF Peer
<1>5. \E n : Inv(end'["lac"], end'["lns"], n)
  <2> DEFINE x == end'["lac"]
             y == end'["lns"]
  <2>1. /\ e = "lac" => x = u /\ y = end[Peer(e)]
        /\ e = "lns" => x = end[Peer(e)] /\ y = u
    BY Zenon, <1>4
  <2> HIDE DEF x, y
  <2>2. \E n : Inv(x, y, n)
    BY Zenon, <2>1, AtMatched
  <2> QED
    BY Zenon, <2>2 DEF x, y
<1> QED
  BY Zenon, <1>3, <1>5 DEF Matched

(* The LAC asks for a new call.                                            *)
LEMMA RequestKept ==
  ASSUME NEW x, NEW y, NEW mate, Inv(x, y, mate), x.alive,
         NEW i, i = OurCid("lac", x.made + 1),
         NEW u, u = Transmit(AddCall(x, i, NewCall("ICRQ", NoCid)), "ICRQ", NoCid, i)
  PROVE  Inv(u, y, mate)
<1> DEFINE c == NewCall("ICRQ", NoCid)
           w == AddCall(x, i, c)
<1>1. x \in Tunnel /\ x.made \in Nat
  BY Zenon DEF Inv, Tunnel
<1>2. i = x.made + 1 /\ i \in Nat
  BY <1>1 DEF OurCid
<1>3. c \in Call /\ ~c.closing
  BY Zenon DEF Call, NewCall, NoCid
<1> HIDE DEF c
<1>4. w \in Tunnel /\ Adds(x, w, i, c)
  BY Zenon, <1>1, <1>2, <1>3, AddCallIs
<1>5. u = Transmit(w, "ICRQ", NoCid, i)
  BY Zenon DEF c
<1> HIDE DEF w
<1>6. Adds(x, w, x.made + 1, NewCall("ICRQ", NoCid))
  BY Zenon, <1>2, <1>4 DEF c
<1>7. /\ Inv(w, y, mate) /\ x.made + 1 \in LacIds(w)
      /\ \A b \in LnsIds(y) : mate[b] # x.made + 1
      /\ \A n \in Out(w) : n.type \in {"ICRQ", "CDN"} => n.acid # x.made + 1
  BY Zenon, <1>4, <1>6, LacDials
<1>8. /\ i \in LacIds(w)
      /\ \A b \in LnsIds(y) : mate[b] # i
      /\ \A n \in Out(w) : n.type \in {"ICRQ", "CDN"} => n.acid # i
  BY Zenon, <1>2, <1>7
<1>9. PICK n \in Packet : /\ u \in Tunnel /\ Sends(w, u, n) /\ u.out = Append(w.out, n)
                          /\ n.type = "ICRQ" /\ n.cid = NoCid /\ n.acid = i
  <2>1. NoCid \in Nat
    BY Zenon DEF NoCid
  <2>2. Sent(w, u, "ICRQ", NoCid, i)
    BY Zenon, <1>2, <1>4, <1>5, <2>1, TransmitSends
  <2> QED
    BY Zenon, <2>2 DEF Sent
<1>10. LacSays(w, y, mate, n)
  BY Zenon, <1>8, <1>9 DEF LacSays
<1>11. n.type # "CDN" /\ n.type # "ICCN"
  BY Zenon, <1>9
<1>12. /\ n.acid \in DOMAIN w.calls => ~w.calls[n.acid].closing
       /\ \A l \in Out(w) : l.type \in {"ICRQ", "CDN"} => l.acid # n.acid
  BY Zenon, <1>3, <1>4, <1>8, <1>9 DEF Adds
<1>13. Inv(u, y, mate)
  BY Zenon, <1>7, <1>9, <1>10, <1>11, <1>12, LacSends
<1> QED
  BY Zenon, <1>13

(* The LAC dials a call.                                                   *)
LEMMA DialKept ==
  ASSUME Matched, Dial
  PROVE  Matched'
<1> DEFINE s == end["lac"]
           i == OurCid("lac", s.made + 1)
           u == Transmit(AddCall(s, i, NewCall("ICRQ", NoCid)), "ICRQ", NoCid, i)
<1>1. PICK mate : Inv(s, end["lns"], mate)
  BY DEF Matched
<1>2. end' = [end EXCEPT !["lac"] = u] /\ s.alive
  BY DEF Dial
<1> HIDE DEF s
<1>3. Inv(u, end["lns"], mate)
  BY <1>1, <1>2, RequestKept
<1> HIDE DEF u
<1>4. Peer("lac") = "lns" /\ "lac" \in Ends
  BY Zenon DEF Peer, Ends
<1>5. EInv("lac", u, end[Peer("lac")], mate)
  BY Zenon, <1>3, <1>4 DEF EInv, s
<1> QED
  BY Zenon, <1>2, <1>4, <1>5, OneMoves

(* lac_disconnect closes the tunnel of an end.                             *)
LEMMA DisconnectKept ==
  ASSUME Matched, NEW e \in Ends, Disconnect(e)
  PROVE  Matched'
<1> DEFINE s == end[e]
           c == [s.self EXCEPT !.needclose = TRUE]
           w == [s EXCEPT !.self = c]
           u == TunnelClose(w)
<1>1. PICK mate : EInv(e, s, end[Peer(e)], mate)
  BY Zenon, MatchedAt
<1>2. s \in Tunnel
  BY Zenon, <1>1, EInvTypes
<1>3. end' = [end EXCEPT ![e] = TunnelClose([s EXCEPT !.self.needclose = TRUE])]
  BY DEF Disconnect
<1> HIDE DEF s
<1>4. [s EXCEPT !.self.needclose = TRUE] = w
  BY <1>2 DEF Tunnel
<1>5. end' = [end EXCEPT ![e] = u]
  BY Zenon, <1>3, <1>4
<1>6. /\ c \in [needclose : BOOLEAN, closing : BOOLEAN, closeSs : Nat]
      /\ s.self.closing => c.closing
  BY Zenon, <1>2 DEF Tunnel
<1> HIDE DEF c
<1>7. EInv(e, w, end[Peer(e)], mate)
  BY Zenon, <1>1, <1>6, SetSelfKept
<1> HIDE DEF w
<1>8. EInv(e, u, end[Peer(e)], mate)
  BY Zenon, <1>7, TunnelCloseKept
<1> HIDE DEF u
<1> QED
  BY Zenon, <1>5, <1>8, OneMoves

(* An end whose peer is gone drops its tunnel with its calls.              *)
LEMMA GiveUpKept ==
  ASSUME Matched, NEW e \in Ends, GiveUp(e)
  PROVE  Matched'
<1> DEFINE s == end[e]
           u == [s EXCEPT !.alive = FALSE, !.calls = <<>>]
<1>1. PICK mate : EInv(e, s, end[Peer(e)], mate)
  BY Zenon, MatchedAt
<1>2. s \in Tunnel /\ end \in [Ends -> Tunnel]
  BY Zenon, <1>1, EInvTypes DEF Matched
<1>3. end' = [end EXCEPT ![e] = u]
  BY Zenon, <1>2 DEF GiveUp
<1> HIDE DEF s
<1>4. /\ u \in Tunnel /\ ~u.alive /\ u.calls = <<>> /\ u.made = s.made
      /\ u.ss = s.ss /\ u.out = s.out /\ u.ahead = s.ahead /\ u.self = s.self
  BY Zenon, <1>2, NoCalls DEF Tunnel
<1> HIDE DEF u
<1>5. DOMAIN u.calls = {}
  BY <1>4, NoCalls
<1>6. Shrinks(s, u) /\ Going(u, end[Peer(e)])
  BY Zenon, <1>4, <1>5 DEF Shrinks, Going
<1>7. EInv(e, u, end[Peer(e)], mate)
  BY Zenon, <1>1, <1>4, <1>5, <1>6, ShrinkKept
<1> QED
  BY Zenon, <1>3, <1>7, OneMoves

(* The environment changes one field of a call.                            *)
LEMMA CallStepKept ==
  ASSUME Matched, NEW e \in Ends, NEW i \in DOMAIN end[e].calls, NEW c \in Call,
         c.cid = end[e].calls[i].cid, c.state = end[e].calls[i].state,
         Open(c) => Open(end[e].calls[i]), c.closing = end[e].calls[i].closing,
         end' = [end EXCEPT ![e] = SetCall(end[e], i, c)]
  PROVE  Matched'
<1> DEFINE s == end[e]
           u == SetCall(s, i, c)
<1>1. PICK mate : EInv(e, s, end[Peer(e)], mate)
  BY Zenon, MatchedAt
<1>2. EInv(e, u, end[Peer(e)], mate)
  BY <1>1, SetCallKept
<1>3. end' = [end EXCEPT ![e] = u]
  BY Zenon
<1> HIDE DEF u
<1> QED
  BY Zenon, <1>2, <1>3, OneMoves

(* A pppd dies.                                                            *)
LEMMA PppdDiesKept ==
  ASSUME Matched, NEW e \in Ends, NEW i, PppdDies(e, i)
  PROVE  Matched'
<1> DEFINE s == end[e]
           c == [s.calls[i] EXCEPT !.pppd = "dead"]
<1>1. s \in Tunnel /\ end \in [Ends -> Tunnel] /\ i \in DOMAIN s.calls
  BY DEF Matched, PppdDies
<1>2. s.calls[i] \in Call
  BY Zenon, <1>1, CallIs
<1>3. /\ c \in Call /\ c.cid = s.calls[i].cid /\ c.state = s.calls[i].state
      /\ Open(c) => Open(s.calls[i])
      /\ c.closing = s.calls[i].closing
  BY <1>2 DEF Call, Open
<1>4. end' = [end EXCEPT ![e] = [s EXCEPT !.calls[i].pppd = "dead"]]
  BY Zenon, <1>1 DEF PppdDies
<1> HIDE DEF s
<1>5. [s EXCEPT !.calls[i].pppd = "dead"] = SetCall(s, i, c)
  BY Zenon, <1>1 DEF SetCall
<1> HIDE DEF c
<1>6. end' = [end EXCEPT ![e] = SetCall(end[e], i, c)]
  BY Zenon, <1>4, <1>5 DEF s
<1> QED
  BY Zenon, <1>1, <1>3, <1>6, CallStepKept DEF s

(* A foreign LAC gives up a call that is not answered.                     *)
LEMMA EarlyHangUpKept ==
  ASSUME Matched, NEW i, EarlyHangUp(i)
  PROVE  Matched'
<1> DEFINE e == "lac"
           s == end[e]
           c == [s.calls[i] EXCEPT !.needclose = TRUE]
<1>1. e \in Ends
  BY DEF Ends
<1>2. s \in Tunnel /\ end \in [Ends -> Tunnel] /\ i \in DOMAIN s.calls
  BY <1>1 DEF Matched, EarlyHangUp
<1>3. s.calls[i] \in Call
  BY Zenon, <1>2, CallIs
<1>4. /\ c \in Call /\ c.cid = s.calls[i].cid /\ c.state = s.calls[i].state
      /\ Open(c) => Open(s.calls[i])
      /\ c.closing = s.calls[i].closing
  BY Zenon, <1>3 DEF Call, Open
<1>5. end' = [end EXCEPT ![e] = [s EXCEPT !.calls[i].needclose = TRUE]]
  BY <1>1, <1>2 DEF EarlyHangUp
<1> HIDE DEF s
<1>6. [s EXCEPT !.calls[i].needclose = TRUE] = SetCall(s, i, c)
  BY <1>2 DEF SetCall
<1> HIDE DEF c
<1>7. end' = [end EXCEPT ![e] = SetCall(end[e], i, c)]
  BY Zenon, <1>5, <1>6 DEF s
<1> QED
  BY Zenon, <1>1, <1>2, <1>4, <1>7, CallStepKept DEF s

(* A packet is received.                                                   *)
LEMMA ReceiveKept ==
  ASSUME Matched, NEW e \in Ends, Receive(e)
  PROVE  Matched'
<1> DEFINE s == end[e]
           r == end[Peer(e)]
           m == Head(r.out)
           t == [r EXCEPT !.out = Tail(r.out)]
<1>1. PICK mate : EInv(e, s, r, mate)
  BY Zenon, MatchedAt
<1>2. end \in [Ends -> Tunnel] /\ s \in Tunnel /\ r \in Tunnel /\ r.out # <<>>
  BY Zenon, <1>1, EInvTypes DEF Matched, Receive
<1>3. PICK v \in IF s.alive THEN HandlePacket(s, m) ELSE {s} :
        end' = [end EXCEPT ![Peer(e)].out = Tail(@), ![e] = v]
  BY Zenon DEF Receive
<1>4. Peer(e) \in Ends /\ Peer(e) # e
  BY Zenon, PeerIs
<1>5. end' = [end EXCEPT ![Peer(e)] = t, ![e] = v]
  BY <1>2, <1>3, <1>4
<1> HIDE DEF s, r
<1>6. Tail(r.out) \in Seq(Packet)
  BY <1>2 DEF Tunnel
<1>7. t \in Tunnel /\ Pops(r, t)
  BY Zenon, <1>2, <1>6 DEF Tunnel, Pops
<1> HIDE DEF t
<1>8. Good(e, v, t)
  BY <1>1, <1>3, <1>7, PacketGood
<1>9. PICK n : EInv(e, v, t, n)
  BY Zenon, <1>8 DEF Good
<1>10. v \in Tunnel
  BY Zenon, <1>9, EInvTypes
<1>11. end' \in [Ends -> Tunnel] /\ end'[e] = v /\ end'[Peer(e)] = t
  BY Zenon, <1>2, <1>4, <1>5, <1>7, <1>10
<1> DEFINE x == end'["lac"]
           y == end'["lns"]
<1>12. /\ e = "lac" => x = v /\ y = t
       /\ e = "lns" => x = t /\ y = v
  BY Zenon, <1>11 DEF Peer
<1> HIDE DEF x, y
<1>13. \E l : Inv(x, y, l)
  BY Zenon, <1>9, <1>12, AtMatched
<1> QED
  BY Zenon, <1>11, <1>13 DEF Matched, x, y

-----------------------------------------------------------------------------
(* It holds initially: there are no calls and no messages.                 *)
LEMMA InitMatched ==
  ASSUME Init
  PROVE  CallsInv
<1> DEFINE s == NewEnd
           mate == [b \in LnsIds(s) |-> NoCid]
<1>1. /\ kernel \in BOOLEAN /\ looped = [e \in Ends |-> TRUE]
      /\ stops = [e \in Ends |-> 0] /\ end = [e \in Ends |-> s]
  BY Zenon DEF Init
<1>2. looped \in [Ends -> BOOLEAN] /\ stops \in [Ends -> Nat]
  BY Zenon, <1>1
<1>3. end["lac"] = s /\ end["lns"] = s
  BY Zenon, <1>1 DEF Ends
<1>4. /\ s \in Tunnel /\ s.out = <<>> /\ s.alive /\ s.made = 0 /\ s.rr = s.ss
      /\ s.calls = <<>>
  <2>1. <<>> \in Seq(Packet)
    OBVIOUS
  <2> QED
    BY Zenon, <2>1, NoCalls DEF NewEnd, Tunnel
<1> HIDE DEF s
<1>5. DOMAIN s.calls = {}
  BY Zenon, <1>4, NoCalls
<1>6. Out(s) = {} /\ LnsIds(s) = {}
  BY <1>4, CallsAssumption DEF Out, LnsIds
<1>7. Mates(s, s, mate)
  BY Zenon, <1>6 DEF Mates
<1> HIDE DEF mate
<1>8. /\ LacCallsOK(s, s, mate) /\ LnsCallsOK(s, mate)
      /\ CdnMeant(s) /\ DeadEmpty(s)
  BY Zenon, <1>4, <1>5, <1>6 DEF LacCallsOK, LnsCallsOK, CdnMeant, DeadEmpty
<1>9. /\ ClosingMayGo(s, s, mate) /\ LacCovered(s, s, mate)
      /\ LnsCovered(s, s, mate) /\ IccnKnows(s, s, mate)
  BY Zenon, <1>5, <1>6 DEF ClosingMayGo, LacCovered, LnsCovered, IccnKnows
<1>10. Ordered(s, mate) /\ Numbered(s, s)
  <2>1. Len(s.out) = 0
    BY Zenon, <1>4
  <2> QED
    BY <1>4, <2>1 DEF Ordered, Numbered
<1>11. Inv(s, s, mate)
  BY Zenon, <1>4, <1>6, <1>7, <1>8, <1>9, <1>10 DEF Inv
<1>12. end \in [Ends -> Tunnel]
  BY Zenon, <1>1, <1>4
<1>13. Matched
  BY Zenon, <1>3, <1>11, <1>12 DEF Matched
<1> QED
  BY Zenon, <1>1, <1>2, <1>13 DEF CallsInv

-----------------------------------------------------------------------------
(* The steps and properties that take an induction: a pass over the calls *)
(* of a tunnel, and the numbers of the messages on their way.              *)
INSTANCE WellFoundedInduction

(* Induction over the natural numbers, for a set.                          *)
LEMMA SetInduction ==
  ASSUME NEW S, 0 \in S, \A n \in Nat : n \in S => n + 1 \in S
  PROVE  \A n \in Nat : n \in S
<1> DEFINE R == {ss \in Nat \X Nat : ss[1] < ss[2]}
           Bad == Nat \ S
<1> SUFFICES ASSUME Bad # {}
             PROVE  FALSE
  OBVIOUS
<1>1. IsWellFoundedOn(R, Nat)
  BY NatLessThanWellFounded DEF OpToRel
<1>2. Bad \in SUBSET Nat /\ Bad # {}
  OBVIOUS
<1>3. PICK x \in Bad : \A y \in Bad : ~ (<<y, x>> \in R)
  <2> HIDE DEF R, Bad
  <2> QED
    BY Zenon, <1>1, <1>2, WFMin
<1>4. x \in Nat /\ x \notin S /\ x # 0
  OBVIOUS
<1>5. x - 1 \in Nat /\ (x - 1) + 1 = x /\ x - 1 < x
  BY <1>4
<1>6. x - 1 \in Bad
  BY <1>4, <1>5
<1>7. <<x - 1, x>> \in R
  <2>1. /\ <<x - 1, x>> \in Nat \X Nat
        /\ <<x - 1, x>>[1] = x - 1 /\ <<x - 1, x>>[2] = x
    BY <1>4, <1>5
  <2> QED
    BY <2>1, <1>5
<1> QED
  BY <1>3, <1>6, <1>7

(* A message on its way is one its reader still expects, unless the reader *)
(* has lost count.                                                         *)
LEMMA NotYetRead ==
  ASSUME NEW s \in Tunnel, NEW r \in Tunnel, Numbered(s, r), r.alive, ~r.ahead,
         NEW m \in Out(s)
  PROVE  m.ns >= r.rr
<1> DEFINE q == s.out
           S == {n \in Nat : n + 1 \in 1 .. Len(q) => q[n + 1].ns >= r.rr}
<1>1. q \in Seq(Packet) /\ r.rr \in Nat /\ Len(q) \in Nat
  BY DEF Tunnel
<1>2. /\ q # <<>> => q[1].ns = r.rr
      /\ \A i \in 1 .. Len(q) - 1 : q[i + 1].ns = Follow(q[i])
  BY Zenon DEF Numbered
<1> HIDE DEF q
<1>3. \A i \in 1 .. Len(q) : q[i].ns \in Nat /\ Follow(q[i]) \in Nat
                             /\ Follow(q[i]) >= q[i].ns
  <2>1. ASSUME NEW i \in 1 .. Len(q)
        PROVE  q[i].ns \in Nat /\ Follow(q[i]) \in Nat /\ Follow(q[i]) >= q[i].ns
    <3>1. q[i] \in Packet
      BY <1>1
    <3>2. q[i].ns \in Nat
      BY <3>1 DEF Packet
    <3> QED
      BY <3>2 DEF Follow
  <2> QED
    BY <2>1
<1>4. 0 \in S
  <2>1. 1 \in 1 .. Len(q) => q # <<>>
    BY <1>1
  <2>2. 1 \in 1 .. Len(q) => q[1].ns >= r.rr
    BY <1>1, <1>2, <2>1
  <2> QED
    BY <2>2
<1>5. ASSUME NEW n \in Nat, n \in S
      PROVE  n + 1 \in S
  <2>1. ASSUME (n + 1) + 1 \in 1 .. Len(q)
        PROVE  q[(n + 1) + 1].ns >= r.rr
    <3>1. n + 1 \in 1 .. Len(q) /\ n + 1 \in 1 .. Len(q) - 1
      BY <1>1, <2>1
    <3>2. q[n + 1].ns >= r.rr
      BY <1>5, <3>1
    <3>3. q[(n + 1) + 1].ns = Follow(q[n + 1])
      BY Zenon, <1>2, <3>1
    <3>4. q[n + 1].ns \in Nat /\ Follow(q[n + 1]) \in Nat
          /\ Follow(q[n + 1]) >= q[n + 1].ns
      BY Zenon, <1>3, <3>1
    <3> QED
      BY <1>1, <3>2, <3>3, <3>4
  <2> QED
    BY <2>1
<1> HIDE DEF S
<1>6. \A n \in Nat : n \in S
  BY Zenon, <1>4, <1>5, SetInduction
<1>7. PICK i \in 1 .. Len(q) : m = q[i]
  BY Zenon DEF Out, q
<1>8. i - 1 \in Nat /\ (i - 1) + 1 = i
  BY <1>1, <1>7
<1>9. i - 1 \in S
  BY Zenon, <1>6, <1>8
<1> QED
  BY <1>7, <1>8, <1>9 DEF S

(* What NoneLeftBehind asks of a call id of r whose peer s knows it as k.  *)
Told(s, r, id, k) ==
  \/ k \in DOMAIN s.calls \/ ~s.alive \/ r.self.closing
  \/ \E m \in Out(s) : /\ m.ns >= r.rr
                       /\ \/ m.type = "StopCCN"
                          \/ m.type = "CDN" /\ m.cid = id

(* What the invariant knows of a message on its way, NoneLeftBehind says   *)
(* with the number the reader expects.                                     *)
LEMMA ToldOf ==
  ASSUME NEW s \in Tunnel, NEW r \in Tunnel, Numbered(s, r), r.alive, ~r.ahead,
         NEW id, NEW k, k \in DOMAIN s.calls \/ Cdn(s, id, k) \/ Going(s, r)
  PROVE  Told(s, r, id, k)
<1>1. \A m \in Out(s) : m.ns >= r.rr
  BY Zenon, NotYetRead
<1>2. CASE k \in DOMAIN s.calls
  BY Zenon, <1>2 DEF Told
<1>3. CASE Cdn(s, id, k)
  BY Zenon, <1>1, <1>3 DEF Told, Cdn
<1>4. CASE Going(s, r)
  BY Zenon, <1>1, <1>4 DEF Told, Going
<1> QED
  BY <1>2, <1>3, <1>4

(* A call that is up at one end has its mate, or its end will be told that *)
(* the mate is gone: LacCovered and LnsCovered, with the numbers in order. *)
LEMMA NoneLeftFollows ==
  ASSUME Matched
  PROVE  NoneLeftBehind
<1> DEFINE x == end["lac"]
           y == end["lns"]
<1>1. PICK mate : Inv(x, y, mate)
  BY DEF Matched
<1>2. /\ x \in Tunnel /\ y \in Tunnel /\ DeadEmpty(x) /\ DeadEmpty(y)
      /\ LacCallsOK(x, y, mate) /\ LnsCallsOK(y, mate)
      /\ Numbered(x, y) /\ Numbered(y, x)
      /\ LacCovered(x, y, mate) /\ LnsCovered(x, y, mate)
  BY <1>1 DEF Inv
<1> HIDE DEF x, y
<1>3. ASSUME NEW a \in DOMAIN x.calls, x.calls[a].state = "ICCN",
             Open(x.calls[a]), ~x.ahead
      PROVE  Told(y, x, a, x.calls[a].cid)
  <2> DEFINE b == x.calls[a].cid
  <2>1. x.alive
    BY Zenon, <1>2 DEF DeadEmpty
  <2>2. b \in LnsIds(y) /\ mate[b] = a
    <3>1. x.calls[a].state # "ICRQ"
      BY <1>3
    <3> QED
      BY Zenon, <1>2, <3>1 DEF LacCallsOK
  <2> HIDE DEF b
  <2>3. b \in DOMAIN y.calls \/ Cdn(y, a, b) \/ Going(y, x)
    BY Zenon, <1>2, <1>3, <2>2 DEF LacCovered
  <2>4. Told(y, x, a, b)
    BY Zenon, <1>2, <1>3, <2>1, <2>3, ToldOf
  <2> QED
    BY Zenon, <2>4 DEF b
<1>4. ASSUME NEW b \in DOMAIN y.calls, y.calls[b].state = "ICCN",
             Open(y.calls[b]), ~y.ahead
      PROVE  Told(x, y, b, y.calls[b].cid)
  <2> DEFINE a == y.calls[b].cid
  <2>1. y.alive
    BY Zenon, <1>2 DEF DeadEmpty
  <2>2. a = mate[b]
    BY Zenon, <1>2 DEF LnsCallsOK
  <2> HIDE DEF a
  <2>3. a \in DOMAIN x.calls \/ Cdn(x, b, a) \/ Going(x, y)
    BY Zenon, <1>2, <1>4, <2>2 DEF LnsCovered
  <2>4. Told(x, y, b, a)
    BY Zenon, <1>2, <1>4, <2>1, <2>3, ToldOf
  <2> QED
    BY Zenon, <2>4 DEF a
<1>5. ASSUME NEW e \in Ends, NEW id \in DOMAIN end[e].calls,
             end[e].calls[id].state = "ICCN", Open(end[e].calls[id]), ~end[e].ahead
      PROVE  Told(end[Peer(e)], end[e], id, end[e].calls[id].cid)
  <2>1. CASE e = "lac"
    <3>1. end[e] = x /\ end[Peer(e)] = y
      BY <2>1 DEF Peer, x, y
    <3> QED
      BY <1>3, <1>5, <3>1
  <2>2. CASE e = "lns"
    <3>1. end[e] = y /\ end[Peer(e)] = x
      BY <2>2 DEF Peer, x, y
    <3> QED
      BY <1>4, <1>5, <3>1
  <2> QED
    BY <2>1, <2>2 DEF Ends
<1>6. \A e \in Ends : ToEnd(e) = Out(end[Peer(e)])
  BY DEF ToEnd, Out
<1>7. ASSUME NEW e \in Ends, NEW id \in DOMAIN end[e].calls,
             end[e].calls[id].state = "ICCN", Open(end[e].calls[id]), ~end[e].ahead
      PROVE  \/ Exists(Peer(e), end[e].calls[id].cid) \/ ~end[Peer(e)].alive
             \/ end[e].self.closing
             \/ \E m \in ToEnd(e) : /\ m.ns >= end[e].rr
                                    /\ \/ m.type = "StopCCN"
                                       \/ m.type = "CDN" /\ m.cid = id
  <2>1. Told(end[Peer(e)], end[e], id, end[e].calls[id].cid)
    BY <1>5, <1>7
  <2>2. ToEnd(e) = Out(end[Peer(e)])
    BY <1>6
  <2> QED
    BY Zenon, <2>1, <2>2 DEF Told, Exists
<1> QED
  BY <1>7 DEF NoneLeftBehind

(* f is the table of the first n steps of a pass over the calls of s.      *)
Steps(pass, s, n, f) ==
  f = [i \in 0 .. n |-> IF i = 0 THEN s
                        ELSE Visit(pass, f[i - 1], 2 * MaxCalls + 1 - i)]

(* There is such a sequence for every number of visits.                    *)
LEMMA StepsExist ==
  ASSUME NEW pass, NEW s
  PROVE  \A n \in Nat : \E f : Steps(pass, s, n, f)
<1> DEFINE S == {n \in Nat : \E f : Steps(pass, s, n, f)}
<1>1. 0 \in S
  <2> DEFINE f == [i \in 0 .. 0 |-> s]
  <2>1. Steps(pass, s, 0, f)
    BY DEF Steps
  <2> QED
    BY <2>1
<1>2. ASSUME NEW n \in Nat, n \in S
      PROVE  n + 1 \in S
  <2>1. PICK f : Steps(pass, s, n, f)
    BY Zenon, <1>2
  <2> DEFINE last == Visit(pass, f[n], 2 * MaxCalls + 1 - (n + 1))
             g == [i \in 0 .. n + 1 |-> IF i = n + 1 THEN last ELSE f[i]]
             at(h, i) == IF i = 0 THEN s ELSE Visit(pass, h[i - 1], 2 * MaxCalls + 1 - i)
  <2>2. \A i \in 0 .. n : f[i] = at(f, i)
    BY Zenon, <2>1 DEF Steps
  <2>3. ASSUME NEW i \in 0 .. n + 1
        PROVE  g[i] = at(g, i)
    <3>1. CASE i = n + 1
      <4>1. g[i] = last /\ i - 1 = n /\ g[n] = f[n] /\ i # 0
        BY <3>1
      <4>2. at(g, i) = Visit(pass, g[i - 1], 2 * MaxCalls + 1 - i)
        BY Zenon, <4>1
      <4>3. g[i - 1] = f[n]
        BY <4>1
      <4> HIDE DEF g, at
      <4> QED
        BY Zenon, <3>1, <4>1, <4>2, <4>3
    <3>2. CASE i # n + 1
      <4>1. i \in 0 .. n /\ g[i] = f[i]
        BY <3>2
      <4>2. i # 0 => g[i - 1] = f[i - 1]
        BY <4>1
      <4>3. at(g, i) = at(f, i)
        <5> HIDE DEF g
        <5>1. CASE i = 0
          BY Zenon, <5>1
        <5>2. CASE i # 0
          BY Zenon, <4>2, <5>2
        <5> QED
          BY <5>1, <5>2
      <4> HIDE DEF g, at
      <4> QED
        BY Zenon, <2>2, <4>1, <4>3
    <3> QED
      BY <3>1, <3>2
  <2>4. g = [i \in 0 .. n + 1 |-> g[i]]
    OBVIOUS
  <2>5. Steps(pass, s, n + 1, g)
    <3> HIDE DEF g
    <3> QED
      BY Zenon, <2>3, <2>4 DEF Steps
  <2>6. n + 1 \in Nat
    OBVIOUS
  <2> HIDE DEF g
  <2> QED
    BY Zenon, <2>5, <2>6
<1>3. \A n \in Nat : n \in S
  <2> HIDE DEF S
  <2> QED
    BY Zenon, <1>1, <1>2, SetInduction
<1> QED
  BY Zenon, <1>3

(* A pass over the list is such a sequence of visits.                      *)
LEMMA OverCallsSteps ==
  ASSUME NEW pass, NEW s
  PROVE  \E f : /\ Steps(pass, s, 2 * MaxCalls, f)
                /\ OverCalls(pass, s) = f[2 * MaxCalls]
<1> DEFINE left == CHOOSE f : f = [i \in 0 .. 2 * MaxCalls |->
                     IF i = 0 THEN s
                     ELSE Visit(pass, f[i - 1], 2 * MaxCalls + 1 - i)]
<1>1. OverCalls(pass, s) = left[2 * MaxCalls]
  BY Zenon DEF OverCalls
<1>2. 2 * MaxCalls \in Nat
  BY CallsAssumption
<1>3. \E f : Steps(pass, s, 2 * MaxCalls, f)
  BY Zenon, <1>2, StepsExist
<1>4. Steps(pass, s, 2 * MaxCalls, left)
  BY Zenon, <1>3 DEF Steps
<1> QED
  BY Zenon, <1>1, <1>4

(* A pass keeps the invariant, since each of its visits does.              *)
LEMMA OverCallsKept ==
  ASSUME NEW e \in Ends, NEW s, NEW r, NEW mate, EInv(e, s, r, mate), NEW pass
  PROVE  EInv(e, OverCalls(pass, s), r, mate)
<1>1. PICK f : /\ Steps(pass, s, 2 * MaxCalls, f)
               /\ OverCalls(pass, s) = f[2 * MaxCalls]
  BY Zenon, OverCallsSteps
<1> DEFINE N == 2 * MaxCalls
           S == {n \in Nat : n <= N => EInv(e, f[n], r, mate)}
<1>2. N \in Nat
  BY CallsAssumption
<1>3. \A i \in 0 .. N : f[i] = IF i = 0 THEN s ELSE Visit(pass, f[i - 1], N + 1 - i)
  BY Zenon, <1>1 DEF Steps
<1> HIDE DEF N
<1>4. 0 \in S
  <2>1. 0 \in 0 .. N
    BY <1>2
  <2>2. f[0] = s
    BY Zenon, <1>3, <2>1
  <2> QED
    BY <2>2
<1>5. ASSUME NEW n \in Nat, n \in S
      PROVE  n + 1 \in S
  <2> SUFFICES ASSUME n + 1 <= N
               PROVE  EInv(e, f[n + 1], r, mate)
    OBVIOUS
  <2>1. n + 1 \in 0 .. N /\ n + 1 # 0 /\ (n + 1) - 1 = n /\ n <= N
    BY <1>2
  <2>2. f[n + 1] = Visit(pass, f[n], N + 1 - (n + 1))
    BY Zenon, <1>3, <2>1
  <2>3. EInv(e, f[n], r, mate)
    BY <1>5, <2>1
  <2> QED
    BY Zenon, <2>2, <2>3, VisitKept
<1>6. \A n \in Nat : n \in S
  <2> HIDE DEF S
  <2> QED
    BY Zenon, <1>4, <1>5, SetInduction
<1>7. N <= N
  BY <1>2
<1>8. EInv(e, f[N], r, mate)
  BY Zenon, <1>2, <1>6, <1>7
<1> QED
  BY Zenon, <1>1, <1>8 DEF N

(* process_signal and build_fdset, the first half of a round of the loop.  *)
LEMMA LoopKept ==
  ASSUME NEW e \in Ends, NEW s, NEW r, NEW mate, EInv(e, s, r, mate)
  PROVE  EInv(e, ClosingPass(Signals(s)), r, mate)
<1> DEFINE u == Signals(s)
           t == OverCalls("closing", u)
           v == ClosingPass(u)
<1>1. EInv(e, u, r, mate)
  BY Zenon, OverCallsKept DEF Signals
<1>2. EInv(e, t, r, mate)
  BY Zenon, <1>1, OverCallsKept
<1>3. v = IF Marked(t.self) THEN TunnelClose(t) ELSE t
  BY DEF ClosingPass
<1>4. EInv(e, TunnelClose(t), r, mate)
  BY Zenon, <1>2, TunnelCloseKept
<1> HIDE DEF u, t, v
<1>5. EInv(e, v, r, mate)
  BY Zenon, <1>2, <1>3, <1>4
<1> QED
  BY Zenon, <1>5 DEF u, v

(* One turn of the main loop of an end.                                    *)
LEMMA LoopStepKept ==
  ASSUME Matched, NEW e \in Ends, Loop(e)
  PROVE  Matched'
<1> DEFINE u == ClosingPass(Signals(end[e]))
<1>1. PICK mate : EInv(e, end[e], end[Peer(e)], mate)
  BY Zenon, MatchedAt
<1>2. end' = [end EXCEPT ![e] = u]
  BY DEF Loop
<1>3. EInv(e, u, end[Peer(e)], mate)
  BY Zenon, <1>1, LoopKept
<1> HIDE DEF u
<1> QED
  BY Zenon, <1>2, <1>3, OneMoves

(* Every step of the system keeps the invariant.                           *)
LEMMA StepKept ==
  ASSUME CallsInv, [Next]_vars
  PROVE  CallsInv'
<1>1. /\ Matched /\ kernel \in BOOLEAN /\ looped \in [Ends -> BOOLEAN]
      /\ stops \in [Ends -> Nat]
  BY DEF CallsInv
<1>2. "lac" \in Ends
  BY DEF Ends
<1>3. CASE Dial
  <2>1. Matched'
    BY Zenon, <1>1, <1>3, DialKept
  <2>2. kernel' = kernel /\ looped' = looped /\ stops' = stops
    BY Zenon, <1>3 DEF Dial
  <2> QED
    BY Zenon, <1>1, <1>2, <2>1, <2>2 DEF CallsInv
<1>4. ASSUME NEW e \in Ends, Loop(e)
      PROVE  CallsInv'
  <2>1. Matched'
    BY Zenon, <1>1, <1>4, LoopStepKept
  <2>2. kernel' = kernel /\ looped' \in [Ends -> BOOLEAN] /\ stops' = stops
    BY Zenon, <1>1, <1>4 DEF Loop
  <2> QED
    BY Zenon, <1>1, <2>1, <2>2 DEF CallsInv
<1>5. ASSUME NEW e \in Ends, Receive(e)
      PROVE  CallsInv'
  <2>1. Matched'
    BY Zenon, <1>1, <1>5, ReceiveKept
  <2>2. kernel' = kernel /\ stops' = stops
        /\ looped' = [looped EXCEPT ![e] = ~end[e].alive]
    BY Zenon, <1>5 DEF Receive
  <2>3. looped' \in [Ends -> BOOLEAN]
    BY Zenon, <1>1, <2>2
  <2> QED
    BY Zenon, <1>1, <2>1, <2>2, <2>3 DEF CallsInv
<1>6. ASSUME NEW e \in Ends, Disconnect(e)
      PROVE  CallsInv'
  <2>1. Matched'
    BY Zenon, <1>1, <1>6, DisconnectKept
  <2>2. kernel' = kernel /\ looped' = looped /\ stops' = [stops EXCEPT ![e] = @ + 1]
    BY Zenon, <1>6 DEF Disconnect
  <2>3. stops' \in [Ends -> Nat]
    BY <1>1, <2>2
  <2> QED
    BY Zenon, <1>1, <2>1, <2>2, <2>3 DEF CallsInv
<1>7. ASSUME NEW e \in Ends, GiveUp(e)
      PROVE  CallsInv'
  <2>1. Matched'
    BY Zenon, <1>1, <1>7, GiveUpKept
  <2>2. kernel' = kernel /\ looped' = looped /\ stops' = stops
    BY Zenon, <1>7 DEF GiveUp
  <2> QED
    BY Zenon, <1>1, <2>1, <2>2 DEF CallsInv
<1>8. ASSUME NEW e \in Ends, NEW i, PppdDies(e, i)
      PROVE  CallsInv'
  <2>1. Matched'
    BY Zenon, <1>1, <1>8, PppdDiesKept
  <2>2. kernel' = kernel /\ looped' = looped /\ stops' = stops
    BY Zenon, <1>8 DEF PppdDies
  <2> QED
    BY Zenon, <1>1, <2>1, <2>2 DEF CallsInv
<1>9. ASSUME NEW i, EarlyHangUp(i)
      PROVE  CallsInv'
  <2>1. Matched'
    BY Zenon, <1>1, <1>9, EarlyHangUpKept
  <2>2. kernel' = kernel /\ looped' = looped /\ stops' = stops
    BY Zenon, <1>9 DEF EarlyHangUp
  <2> QED
    BY Zenon, <1>1, <2>1, <2>2 DEF CallsInv
<1>10. CASE UNCHANGED vars
  BY Zenon, <1>1, <1>10 DEF CallsInv, Matched, vars
<1>11. CASE Next
  BY Zenon, <1>2, <1>3, <1>4, <1>5, <1>6, <1>7, <1>8, <1>9, <1>11 DEF Next
<1> QED
  BY Zenon, <1>10, <1>11

(* The numbers, messages and calls of the two ends stay matched (CallsInv) *)
(* in every behaviour of the two daemons, for every number of calls,       *)
(* disconnects and set of faults.                                          *)
THEOREM CallsInvariant == Spec => []CallsInv
<1>1. Init => CallsInv
  BY Zenon, InitMatched
<1>2. CallsInv /\ [Next]_vars => CallsInv'
  BY Zenon, StepKept
<1> QED
  BY <1>1, <1>2, PTL DEF Spec

(* The two ends of a call name each other (CallsPaired): handle_avps and   *)
(* get_call never join a call to the wrong one of the peer.                *)
THEOREM PairedAlways == Spec => []CallsPaired
<1>1. CallsInv => CallsPaired
  BY Zenon, PairedFollows DEF CallsInv
<1> QED
  BY <1>1, CallsInvariant, PTL

(* A call that is up is never left behind by its peer (NoneLeftBehind):    *)
(* call_close, destroy_call and the closing pass drop a call only after    *)
(* its CDN was sent, or with the tunnel.                                   *)
THEOREM NoneLeftBehindAlways == Spec => []NoneLeftBehind
<1>1. CallsInv => NoneLeftBehind
  BY Zenon, NoneLeftFollows DEF CallsInv
<1> QED
  BY <1>1, CallsInvariant, PTL
=============================================================================
