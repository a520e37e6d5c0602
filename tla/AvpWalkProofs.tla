--------------------------- MODULE AvpWalkProofs ---------------------------
(* Proofs about AvpWalk: the invariants of a message being read and of the *)
(* list of calls, the shortening of the message by every round, and the    *)
(* stability of the numbers, for any number of calls and any messages,     *)
(* with types that have the M bit and types that have not.                 *)
EXTENDS AvpWalk, TLAPS

Calls == {Self} \cup CallIds

CallRecord ==
  [state : {"none", "ICRQ", "OCRQ", "ICRP", "ICCN"}, cid : Nat,
   qcid : {-1} \cup Nat, needclose : BOOLEAN, closing : BOOLEAN,
   result : BOOLEAN, cut : BOOLEAN]

TunnelRecord ==
  [state : {"none", "SCCRQ", "SCCRP", "SCCCN"}, tid : Nat,
   qtid : {-1} \cup (Nat \ {0}), vector : BOOLEAN]

WalkRecord ==
  [c : Calls \cup {Nobody}, len : Int, first : BOOLEAN, broken : BOOLEAN,
   msgtype : Msgs \cup {"none"}, valid : BOOLEAN, optional : BOOLEAN,
   made : CallIds \cup {Nobody}, null : BOOLEAN]

TypeOK ==
  /\ tun \in TunnelRecord
  /\ list \in Seq(CallIds)
  /\ node \in [Calls -> CallRecord]
  /\ walk \in WalkRecord

(* The list, and the calls that are not in it.  An ICRP that is acted on   *)
(* without being accepted may be for the tunnel.                           *)
Listed ==
  /\ \A i, j \in DOMAIN list : list[i] = list[j] => i = j
  /\ \A x \in CallIds : x \notin Live => node[x] = NewCall
  /\ node[Self].state \in {"none", "ICCN"}

(* A message being read: what message_type_avp found of it stays true, the *)
(* last call that it made is at the head, and is one that nothing will be  *)
(* heard of as soon as the type is another.                                *)
Reading ==
  /\ walk.c \in {Self, Nobody} \cup Live
  /\ walk.c = Nobody => walk = Idle
  /\ walk.null => walk.optional
  /\ walk.msgtype # "none" /\ ~walk.optional =>
       walk.valid /\ Appropriate(walk.msgtype, walk.c)
  /\ walk.msgtype = "ICRQ" /\ walk.valid => walk.made # Nobody
  /\ walk.made # Nobody =>
       /\ walk.c = Self /\ list # <<>> /\ list[1] = walk.made
       /\ node[walk.made].state = "none"
       /\ (walk.msgtype = "ICRQ" /\ walk.valid) \/ node[walk.made].cut

(* A call that is neither answered nor on its way out is the one that the  *)
(* message being read has made.                                            *)
Accounted(p) ==
  \/ node[p].state # "none" \/ node[p].cut \/ node[p].closing
  \/ node[Self].needclose \/ node[Self].closing

IInv ==
  /\ TypeOK /\ Listed /\ Reading
  /\ \A p \in Live : p = walk.made \/ Accounted(p)

-----------------------------------------------------------------------------
(* The numbers that stand for calls are apart. *)
LEMMA Apart ==
  /\ Self \notin CallIds /\ Nobody \notin CallIds /\ Nobody # Self
  /\ Self \in Calls /\ CallIds \subseteq Calls /\ Nobody \notin Calls
  BY AvpAssumption DEF Self, Nobody, CallIds, Calls

(* What is in the list is a call. *)
LEMMA LiveCalls ==
  ASSUME TypeOK
  PROVE  /\ Live \subseteq CallIds
         /\ list # <<>> => list[1] \in Live /\ Head(list) = list[1]
         /\ list = <<>> => Live = {}
  BY DEF TypeOK, Live

(* The call that new_call makes is not in the list, and is as new. *)
LEMMA Fresh ==
  ASSUME TypeOK, Listed, Live # CallIds
  PROVE  FreeId \in CallIds /\ FreeId \notin Live /\ node[FreeId] = NewCall
  <1>1. \E x \in CallIds : x \notin Live
    BY LiveCalls
  <1>2. FreeId \in CallIds /\ FreeId \notin Live
    BY <1>1 DEF FreeId
  <1> QED BY <1>2 DEF Listed

(* A call that is linked at the head leaves the list sound. *)
LEMMA LinkedSound ==
  ASSUME TypeOK, Listed, NEW x \in CallIds, x \notin Live, list' = Linked(x)
  PROVE  /\ list' \in Seq(CallIds) /\ list' # <<>> /\ list'[1] = x
         /\ Live' = Live \cup {x}
         /\ \A i, j \in DOMAIN list' : list'[i] = list'[j] => i = j
  <1>1. list \in Seq(CallIds)
    BY DEF TypeOK
  <1>2. /\ Len(list') = Len(list) + 1 /\ list' \in Seq(CallIds)
        /\ \A i \in 1 .. Len(list') :
             list'[i] = IF i = 1 THEN x ELSE list[i - 1]
    BY <1>1 DEF Linked
  <1>3. DOMAIN list' = 1 .. Len(list) + 1 /\ DOMAIN list = 1 .. Len(list)
    BY <1>1, <1>2
  <1>4. Live' = Live \cup {x}
    <2>1. ASSUME NEW i \in DOMAIN list' PROVE list'[i] \in Live \cup {x}
      BY <1>1, <1>2, <1>3 DEF Live
    <2>2. ASSUME NEW i \in DOMAIN list PROVE list[i] \in Live'
      <3>1. i + 1 \in DOMAIN list' /\ list'[i + 1] = list[i]
        BY <1>1, <1>2, <1>3
      <3> QED BY <3>1 DEF Live
    <2>3. x \in Live'
      <3>1. 1 \in DOMAIN list' /\ list'[1] = x
        BY <1>1, <1>2, <1>3
      <3> QED BY <3>1 DEF Live
    <2> QED BY <2>1, <2>2, <2>3 DEF Live
  <1>5. ASSUME NEW i \in DOMAIN list', NEW j \in DOMAIN list',
               list'[i] = list'[j]
        PROVE  i = j
    <2>1. \A k \in 1 .. Len(list) : list[k] # x
      BY <1>3 DEF Live
    <2>2. \A k, l \in 1 .. Len(list) : list[k] = list[l] => k = l
      BY <1>3 DEF Listed
    <2>3. i \in 1 .. Len(list) + 1 /\ j \in 1 .. Len(list) + 1 /\ Len(list) \in Nat
      BY <1>1, <1>3
    <2>4. CASE i = 1 \/ j = 1
      BY <1>2, <1>5, <2>1, <2>3, <2>4
    <2>5. CASE i # 1 /\ j # 1
      BY <1>2, <1>5, <2>2, <2>3, <2>5
    <2> QED BY <2>4, <2>5
  <1> QED BY <1>1, <1>2, <1>4, <1>5

(* Unlinking a call takes that one out of the list. *)
LEMMA UnlinkedSound ==
  ASSUME TypeOK, Listed, NEW i \in DOMAIN list, list' = Unlinked(i)
  PROVE  /\ list' \in Seq(CallIds)
         /\ Live' = Live \ {list[i]}
         /\ \A k, j \in DOMAIN list' : list'[k] = list'[j] => k = j
  <1>1. list \in Seq(CallIds) /\ i \in 1 .. Len(list)
    BY DEF TypeOK
  <1>2. /\ list' \in Seq(CallIds)
        /\ DOMAIN list' = 1 .. Len(list) - 1
        /\ \A j \in 1 .. Len(list) - 1 :
             list'[j] = IF j < i THEN list[j] ELSE list[j + 1]
    <2> DEFINE a == SubSeq(list, 1, i - 1)
               b == SubSeq(list, i + 1, Len(list))
    <2>1. /\ a \in Seq(CallIds) /\ Len(a) = i - 1
          /\ \A j \in 1 .. i - 1 : a[j] = list[j]
      BY <1>1
    <2>2. /\ b \in Seq(CallIds) /\ Len(b) = Len(list) - i
          /\ \A j \in 1 .. Len(list) - i : b[j] = list[i + j]
      BY <1>1
    <2>3. list' = a \o b
      BY DEF Unlinked
    <2> HIDE DEF a, b
    <2>4. list' \in Seq(CallIds) /\ Len(list') = Len(list) - 1
      BY <1>1, <2>1, <2>2, <2>3
    <2>5. ASSUME NEW j \in 1 .. Len(list) - 1
          PROVE  list'[j] = IF j < i THEN list[j] ELSE list[j + 1]
      <3>1. CASE j < i
        <4>1. j \in 1 .. Len(a)
          BY <1>1, <2>1, <3>1
        <4>2. list'[j] = a[j]
          BY <2>1, <2>2, <2>3, <4>1
        <4> QED BY <2>1, <3>1, <4>1, <4>2
      <3>2. CASE ~(j < i)
        <4> DEFINE k == j - (i - 1)
        <4>1. /\ Len(list) \in Nat /\ i \in 1 .. Len(list)
              /\ j \in 1 .. Len(list) - 1 /\ ~(j < i)
          BY <1>1, <3>2
        <4>2. k \in 1 .. Len(list) - i /\ j = (i - 1) + k /\ i + k = j + 1
          BY <4>1
        <4>3. k \in 1 .. Len(b) /\ j = Len(a) + k /\ i + k = j + 1
          BY Zenon, <2>1, <2>2, <4>2
        <4> HIDE DEF k
        <4>4. \A u, w \in Seq(CallIds) : \A m \in 1 .. Len(w) :
                (u \o w)[Len(u) + m] = w[m]
          OBVIOUS
        <4>5. list'[j] = b[k]
          <5>1. a \in Seq(CallIds) /\ b \in Seq(CallIds)
            BY Zenon, <2>1, <2>2
          <5>2. (a \o b)[Len(a) + k] = b[k]
            BY Zenon, <4>3, <4>4, <5>1
          <5> QED BY Zenon, <2>3, <4>3, <5>2
        <4>6. b[k] = list[j + 1]
          BY <2>2, <4>3
        <4> QED BY <3>2, <4>5, <4>6
      <3> QED BY <3>1, <3>2
    <2> QED BY <2>4, <2>5
  <1>3. DOMAIN list = 1 .. Len(list)
    BY <1>1
  <1>4. Live' = Live \ {list[i]}
    <2>1. ASSUME NEW j \in DOMAIN list' PROVE list'[j] \in Live \ {list[i]}
      <3> DEFINE k == IF j < i THEN j ELSE j + 1
      <3>1. k \in DOMAIN list /\ k # i /\ list'[j] = list[k]
        BY <1>1, <1>2, <1>3
      <3> QED BY <3>1, <1>1, <1>3 DEF Live, Listed
    <2>2. ASSUME NEW j \in DOMAIN list, j # i PROVE list[j] \in Live'
      <3> DEFINE k == IF j < i THEN j ELSE j - 1
      <3>1. k \in DOMAIN list' /\ list'[k] = list[j]
        BY <1>1, <1>2, <1>3, <2>2
      <3> QED BY <3>1 DEF Live
    <2> QED BY <2>1, <2>2 DEF Live
  <1>5. ASSUME NEW k \in DOMAIN list', NEW j \in DOMAIN list',
               list'[k] = list'[j]
        PROVE  k = j
    <2>1. \A m, l \in 1 .. Len(list) : list[m] = list[l] => m = l
      BY <1>3 DEF Listed
    <2>2. k \in 1 .. Len(list) - 1 /\ j \in 1 .. Len(list) - 1
      BY <1>2
    <2> QED BY <1>1, <1>2, <1>5, <2>1, <2>2
  <1> QED BY <1>2, <1>4, <1>5

-----------------------------------------------------------------------------
(* A call as it may be changed while a message is read.                    *)
Kin(r, s) ==
  /\ s \in CallRecord /\ s.state = r.state /\ s.closing = r.closing
  /\ r.cut => s.cut
  /\ r.needclose => s.needclose

(* What is left alone while a message is read.  The numbers are, if the    *)
(* types of the message have the M bit.                                    *)
Untouched ==
  /\ list' = list
  /\ tun'.state = tun.state
  /\ \A x \in Calls : Kin(node[x], node'[x])
  /\ \A x \in CallIds : x \notin Live => node'[x] = node[x]
  /\ ~walk.optional =>
       /\ tun.state = "SCCCN" => tun'.tid = tun.tid
       /\ \A x \in Calls : node[x].state = "ICCN" => node'[x].cid = node[x].cid

(* So the list and the calls not in it stay as they were. *)
LEMMA StillListed ==
  ASSUME IInv, Untouched
  PROVE  /\ Live' = Live /\ Listed' /\ NumbersKept
         /\ \A p \in Live : Accounted(p) => Accounted(p)'
         /\ \A m, c : c \in Calls /\ Appropriate(m, c) => Appropriate(m, c)'
  <1>1. Live' = Live
    BY Zenon DEF Untouched, Live
  <1>2. /\ \A x \in Calls : /\ node'[x].state = node[x].state
                            /\ node'[x].closing = node[x].closing
                            /\ node[x].cut => node'[x].cut
                            /\ node[x].needclose => node'[x].needclose
        /\ Live \subseteq Calls /\ Self \in Calls /\ CallIds \subseteq Calls
    BY Zenon, Apart, LiveCalls DEF IInv, Untouched, Kin
  <1>3. Listed'
    <2>1. \A i, j \in DOMAIN list' : list'[i] = list'[j] => i = j
      BY Zenon DEF IInv, Untouched, Listed
    <2>2. \A x \in CallIds : x \notin Live' => node'[x] = NewCall
      BY Zenon, <1>1 DEF IInv, Untouched, Listed
    <2>3. node'[Self].state \in {"none", "ICCN"}
      BY Zenon, <1>2 DEF IInv, Listed
    <2> QED BY Zenon, <2>1, <2>2, <2>3 DEF Listed
  <1>4. \A p \in Live : Accounted(p) => Accounted(p)'
    BY Zenon, <1>2 DEF Accounted
  <1>5. NumbersKept
    BY Zenon, <1>2 DEF Untouched, NumbersKept
  <1>6. ASSUME NEW m, NEW c \in Calls, Appropriate(m, c)
        PROVE  Appropriate(m, c)'
    <2>1. tun'.state = tun.state /\ node'[c].state = node[c].state
      BY Zenon, <1>2 DEF Untouched
    <2> QED BY Zenon, <1>6, <2>1 DEF Appropriate
  <1> QED BY Zenon, <1>1, <1>3, <1>4, <1>5, <1>6

(* The walk goes on to the next AVP. *)
LEMMA ReadOn ==
  ASSUME IInv, TypeOK', Untouched, walk.c # Nobody, walk'.c = walk.c,
         walk'.made = walk.made, walk'.msgtype = walk.msgtype,
         walk'.valid = walk.valid, walk'.optional = walk.optional,
         walk'.null => walk.optional
  PROVE  IInv'
  <1>1. /\ walk.c \in Calls /\ walk.c \in {Self, Nobody} \cup Live
        /\ walk.made # Nobody => walk.made \in Calls
    BY Apart, LiveCalls DEF IInv, Reading, TypeOK, WalkRecord
  <1>2. walk'.c \in {Self, Nobody} \cup Live'
    BY Zenon, <1>1, StillListed
  <1>3. walk'.msgtype # "none" /\ ~walk'.optional =>
          walk'.valid /\ Appropriate(walk.msgtype, walk.c)'
    <2>1. walk.msgtype # "none" /\ ~walk.optional =>
            walk.valid /\ Appropriate(walk.msgtype, walk.c)
      BY Zenon DEF IInv, Reading
    <2>2. Appropriate(walk.msgtype, walk.c) => Appropriate(walk.msgtype, walk.c)'
      <3>1. walk'.msgtype = walk.msgtype /\ walk'.c = walk.c
        OBVIOUS
      <3>2. tun'.state = tun.state /\ node'[walk.c].state = node[walk.c].state
        BY Zenon, <1>1 DEF Untouched, Kin
      <3> QED BY Zenon, <3>1, <3>2 DEF Appropriate
    <2> QED BY Zenon, <2>1, <2>2
  <1>4. walk'.made # Nobody =>
          /\ walk'.c = Self /\ list' # <<>> /\ list'[1] = walk'.made
          /\ node'[walk'.made].state = "none"
          /\ \/ walk'.msgtype = "ICRQ" /\ walk'.valid
             \/ node'[walk'.made].cut
    BY Zenon, <1>1 DEF IInv, Reading, Untouched, Kin
  <1>5. Reading'
    BY Zenon, <1>2, <1>3, <1>4 DEF IInv, Reading
  <1>6. \A p \in Live' : p = walk'.made \/ Accounted(p)'
    BY Zenon, StillListed DEF IInv
  <1> QED BY Zenon, <1>5, <1>6, StillListed DEF IInv

(* The walk goes on after a message type that made no call.                *)
LEMMA TypeOn ==
  ASSUME IInv, TypeOK', Untouched, walk.c # Nobody, walk'.c = walk.c,
         walk'.made = walk.made, walk'.null => walk'.optional,
         walk.made # Nobody => node'[walk.made].cut,
         ~walk'.optional =>
           walk'.valid /\ Appropriate(walk'.msgtype, walk.c),
         walk'.valid => walk'.msgtype # "ICRQ"
  PROVE  IInv'
  <1>1. /\ walk.c \in Calls /\ walk.c \in {Self, Nobody} \cup Live
        /\ walk.made # Nobody => walk.made \in Calls
    BY Apart, LiveCalls DEF IInv, Reading, TypeOK, WalkRecord
  <1>2. walk'.c \in {Self, Nobody} \cup Live'
    BY Zenon, <1>1, StillListed
  <1>3. ~walk'.optional =>
          walk'.valid /\ Appropriate(walk.msgtype, walk.c)'
    <2>1. Appropriate(walk'.msgtype, walk.c)
            => Appropriate(walk.msgtype, walk.c)'
      <3>1. tun'.state = tun.state /\ node'[walk.c].state = node[walk.c].state
        BY Zenon, <1>1 DEF Untouched, Kin
      <3> QED BY Zenon, <3>1 DEF Appropriate
    <2> QED BY Zenon, <2>1
  <1>4. walk'.made # Nobody =>
          /\ walk'.c = Self /\ list' # <<>> /\ list'[1] = walk'.made
          /\ node'[walk'.made].state = "none" /\ node'[walk'.made].cut
    BY Zenon, <1>1 DEF IInv, Reading, Untouched, Kin
  <1>5. Reading'
    BY Zenon, <1>2, <1>3, <1>4 DEF Reading
  <1>6. \A p \in Live' : p = walk'.made \/ Accounted(p)'
    BY Zenon, StillListed DEF IInv
  <1> QED BY Zenon, <1>5, <1>6, StillListed DEF IInv

(* Between messages there is nothing to say of the walk.                   *)
LEMMA IdleReading ==
  ASSUME walk' = Idle
  PROVE  Reading'
  BY Apart DEF Reading, Idle

(* The walk is given up, and the call or tunnel of the message closed. *)
LEMMA Abandoned ==
  ASSUME IInv, TypeOK', Untouched, walk.c # Nobody, walk' = Idle,
         node'[walk.c].needclose
  PROVE  IInv'
  <1>1. ASSUME NEW p \in Live PROVE Accounted(p)'
    <2>1. CASE walk.made = Nobody
      <3>1. p # walk.made
        BY <2>1, Apart, LiveCalls DEF IInv
      <3> QED BY Zenon, <3>1, StillListed DEF IInv
    <2>2. CASE walk.made # Nobody
      <3>1. walk.c = Self
        BY Zenon, <2>2 DEF IInv, Reading
      <3> QED BY Zenon, <3>1 DEF Accounted
    <2> QED BY <2>1, <2>2
  <1> QED BY Zenon, <1>1, IdleReading, StillListed DEF IInv

(* Moving on to the next AVP keeps the type of the walk. *)
LEMMA AdvanceType ==
  ASSUME NEW w \in WalkRecord, NEW n \in Nat
  PROVE  /\ Advance(w, n) \in WalkRecord
         /\ Advance(w, n).c = w.c /\ Advance(w, n).made = w.made
         /\ Advance(w, n).msgtype = w.msgtype /\ Advance(w, n).valid = w.valid
         /\ Advance(w, n).optional = w.optional /\ Advance(w, n).null = w.null
         /\ Advance(w, n).broken \/ Advance(w, n).len < w.len
  <1>1. CASE n = 0
    <2>1. Advance(w, n) = [w EXCEPT !.broken = TRUE]
      BY <1>1 DEF Advance
    <2> QED BY <2>1 DEF WalkRecord
  <1>2. CASE n # 0
    <2>1. Advance(w, n) = [w EXCEPT !.len = @ - n, !.first = FALSE]
      BY <1>2 DEF Advance
    <2>2. w.len - n \in Int /\ w.len - n < w.len
      BY <1>2 DEF WalkRecord
    <2> QED BY <2>1, <2>2 DEF WalkRecord
  <1> QED BY <1>1, <1>2

(* The walk has its type between messages. *)
LEMMA IdleType == Idle \in WalkRecord
  BY Apart DEF Idle, WalkRecord

(* A call is given a record that is akin to what it was.                   *)
LEMMA KinExcept ==
  ASSUME NEW n \in [Calls -> CallRecord], NEW x \in Calls, NEW r,
         Kin(n[x], r)
  PROVE  LET m == [n EXCEPT ![x] = r]
         IN  /\ m \in [Calls -> CallRecord] /\ m[x] = r
             /\ \A y \in Calls : Kin(n[y], m[y]) /\ (y # x => m[y] = n[y])
  <1> DEFINE m == [n EXCEPT ![x] = r]
  <1>1. r \in CallRecord
    BY DEF Kin
  <1>2. /\ m \in [Calls -> CallRecord] /\ m[x] = r
        /\ \A y \in Calls : y # x => m[y] = n[y]
    BY <1>1
  <1>3. \A y \in Calls : n[y] \in CallRecord
    OBVIOUS
  <1> HIDE DEF m
  <1>4. \A y \in Calls : Kin(n[y], n[y])
    BY Zenon, <1>3 DEF Kin
  <1> QED BY Zenon, <1>2, <1>4 DEF m

(* What may become of a call while a message is read.                      *)
LEMMA KinRecords ==
  ASSUME NEW r \in CallRecord
  PROVE  /\ Kin(r, r)
         /\ LET s == [r EXCEPT !.needclose = TRUE, !.result = TRUE]
            IN  Kin(r, s) /\ s.cid = r.cid /\ s.needclose /\ s.cut = r.cut
         /\ LET s == [r EXCEPT !.needclose = TRUE]
            IN  Kin(r, s) /\ s.cid = r.cid /\ s.needclose /\ s.cut = r.cut
         /\ LET s == [r EXCEPT !.cut = TRUE]
            IN  Kin(r, s) /\ s.cid = r.cid /\ s.cut
         /\ LET s == [r EXCEPT !.result = TRUE] IN  Kin(r, s) /\ s.cid = r.cid
         /\ \A v \in {-1} \cup Nat : LET s == [r EXCEPT !.qcid = v]
                                     IN  Kin(r, s) /\ s.cid = r.cid
         /\ \A v \in Nat : LET s == [r EXCEPT !.cid = v] IN Kin(r, s)
  <1>1. Kin(r, r)
    BY Zenon DEF Kin
  <1>2. LET s == [r EXCEPT !.needclose = TRUE, !.result = TRUE]
        IN  Kin(r, s) /\ s.cid = r.cid /\ s.needclose /\ s.cut = r.cut
    BY DEF Kin, CallRecord
  <1>3. LET s == [r EXCEPT !.needclose = TRUE]
        IN  Kin(r, s) /\ s.cid = r.cid /\ s.needclose /\ s.cut = r.cut
    BY DEF Kin, CallRecord
  <1>4. LET s == [r EXCEPT !.cut = TRUE] IN Kin(r, s) /\ s.cid = r.cid /\ s.cut
    BY DEF Kin, CallRecord
  <1>5. LET s == [r EXCEPT !.result = TRUE] IN Kin(r, s) /\ s.cid = r.cid
    BY DEF Kin, CallRecord
  <1>6. ASSUME NEW v \in {-1} \cup Nat
        PROVE  LET s == [r EXCEPT !.qcid = v] IN Kin(r, s) /\ s.cid = r.cid
    BY DEF Kin, CallRecord
  <1>7. ASSUME NEW v \in Nat
        PROVE  LET s == [r EXCEPT !.cid = v] IN Kin(r, s)
    BY DEF Kin, CallRecord
  <1> QED BY Zenon, <1>1, <1>2, <1>3, <1>4, <1>5, <1>6, <1>7

(* The calls n, as a handler leaves them.                                  *)
Tended(n) ==
  /\ n \in [Calls -> CallRecord]
  /\ \A x \in Calls : Kin(node[x], n[x]) /\ n[x].cid = node[x].cid
  /\ \A x \in CallIds : x \notin Live => n[x] = node[x]

(* One more call that is marked leaves them so.                            *)
LEMMA TendedExcept ==
  ASSUME TypeOK, NEW n, Tended(n), NEW x \in {Self} \cup Live, NEW r,
         Kin(n[x], r), r.cid = n[x].cid
  PROVE  Tended([n EXCEPT ![x] = r])
  <1> DEFINE m == [n EXCEPT ![x] = r]
  <1>1. x \in Calls /\ n \in [Calls -> CallRecord]
    BY Zenon, Apart, LiveCalls DEF Tended
  <1>2. /\ m \in [Calls -> CallRecord] /\ m[x] = r
        /\ \A y \in Calls : Kin(n[y], m[y]) /\ (y # x => m[y] = n[y])
    BY Zenon, <1>1, KinExcept
  <1> HIDE DEF m
  <1>3. ASSUME NEW y \in Calls PROVE Kin(node[y], m[y]) /\ m[y].cid = node[y].cid
    <2>1. m[y].cid = n[y].cid
      BY Zenon, <1>2
    <2>2. Kin(node[y], n[y]) /\ Kin(n[y], m[y]) /\ n[y].cid = node[y].cid
      BY Zenon, <1>2 DEF Tended
    <2> QED BY Zenon, <2>1, <2>2 DEF Kin
  <1>4. ASSUME NEW y \in CallIds, y \notin Live PROVE m[y] = node[y]
    <2>1. y # x /\ y \in Calls
      BY Zenon, <1>4, Apart
    <2> QED BY Zenon, <1>2, <1>4, <2>1 DEF Tended
  <1> QED BY Zenon, <1>2, <1>3, <1>4 DEF Tended, m

(* What set_error, and another message type, do to the calls.              *)
LEMMA MarksTend ==
  ASSUME IInv, walk.c # Nobody
  PROVE  /\ Tended(node)
         /\ Tended(SetError(walk.c)) /\ SetError(walk.c)[walk.c].needclose
         /\ Tended(Passed) /\ (walk.made # Nobody => Passed[walk.made].cut)
         /\ LET n == [Passed EXCEPT ![walk.c].needclose = TRUE,
                                    ![walk.c].result = TRUE]
            IN  Tended(n) /\ (walk.made # Nobody => n[walk.made].cut)
  <1> DEFINE c == walk.c
             m == walk.made
  <1>1. /\ TypeOK /\ node \in [Calls -> CallRecord] /\ c \in {Self} \cup Live
        /\ c \in Calls /\ (m # Nobody => m \in Live /\ m \in Calls /\ m # c)
    BY Apart, LiveCalls DEF IInv, Reading, TypeOK
  <1> HIDE DEF c, m
  <1>2. Tended(node)
    <2>1. \A x \in Calls : node[x] \in CallRecord
      BY <1>1
    <2> QED BY Zenon, <1>1, <2>1, KinRecords DEF Tended
  <1>3. Tended(SetError(c)) /\ SetError(c)[c].needclose
    <2> DEFINE r == [node[c] EXCEPT !.needclose = TRUE, !.result = TRUE]
    <2>1. SetError(c) = [node EXCEPT ![c] = r]
      BY DEF SetError
    <2>2. Kin(node[c], r) /\ r.cid = node[c].cid /\ r.needclose
      <3>1. node[c] \in CallRecord
        BY <1>1
      <3> QED BY Zenon, <3>1, KinRecords
    <2> HIDE DEF r
    <2>3. [node EXCEPT ![c] = r][c] = r
      BY <1>1
    <2>4. Tended([node EXCEPT ![c] = r])
      BY Zenon, <1>1, <1>2, <2>2, TendedExcept
    <2> QED BY Zenon, <2>1, <2>2, <2>3, <2>4
  <1>4. Tended(Passed) /\ (m # Nobody => Passed[m].cut)
    <2>1. CASE m = Nobody
      BY Zenon, <1>2, <2>1 DEF Passed, m
    <2>2. CASE m # Nobody
      <3> DEFINE r == [node[m] EXCEPT !.cut = TRUE]
      <3>1. Passed = [node EXCEPT ![m] = r]
        BY <2>2 DEF Passed, m
      <3>2. Kin(node[m], r) /\ r.cid = node[m].cid /\ r.cut
        <4>1. node[m] \in CallRecord
          BY <1>1, <2>2
        <4> QED BY Zenon, <4>1, KinRecords
      <3> HIDE DEF r
      <3>3. [node EXCEPT ![m] = r][m] = r /\ m \in {Self} \cup Live
        BY <1>1, <2>2
      <3> QED BY Zenon, <1>1, <1>2, <2>2, <3>1, <3>2, <3>3, TendedExcept
    <2> QED BY <2>1, <2>2
  <1>5. LET n == [Passed EXCEPT ![c].needclose = TRUE, ![c].result = TRUE]
        IN  Tended(n) /\ (m # Nobody => n[m].cut)
    <2> DEFINE q == Passed
               r == [q[c] EXCEPT !.needclose = TRUE, !.result = TRUE]
               n == [q EXCEPT ![c] = r]
    <2>1. q \in [Calls -> CallRecord] /\ q[c] \in CallRecord
      BY <1>1, <1>4 DEF Tended
    <2> HIDE DEF q
    <2>2. Kin(q[c], r) /\ r.cid = q[c].cid
      BY Zenon, <2>1, KinRecords
    <2>3. [q EXCEPT ![c].needclose = TRUE, ![c].result = TRUE] = n
      BY <1>1, <2>1
    <2> HIDE DEF r
    <2>4. m # Nobody => n[m] = q[m]
      BY <1>1, <2>1
    <2> HIDE DEF n
    <2>5. Tended(n)
      BY Zenon, <1>1, <1>4, <2>2, TendedExcept DEF q, n
    <2> QED BY Zenon, <1>4, <2>3, <2>4, <2>5 DEF q
  <1> QED BY Zenon, <1>2, <1>3, <1>4, <1>5 DEF c, m

-----------------------------------------------------------------------------
(* What the table says of a handler: what it stores by way of the head of  *)
(* the list comes with the messages about calls, and the number of a call  *)
(* or of the tunnel with those that may give it.                           *)
InTable(h, attr, msgtype) ==
  /\ h.to \in {"call", "head", "tunnel"}
  /\ h.to = "head" =>
       \/ h.msgs \subseteq {"ICRQ", "OCRQ", "OCRP", "OCCN"}
       \/ attr = "assigned call" /\ msgtype = "ICRQ"
  /\ attr = "assigned tunnel" =>
       h.msgs = {"SCCRP", "SCCRQ", "StopCCN"} /\ h.to = "tunnel"
  /\ attr = "assigned call" =>
       /\ h.msgs = {"CDN", "ICRP", "ICRQ", "OCRP"}
       /\ h.to = IF msgtype = "ICRQ" THEN "head" ELSE "call"
  /\ h.other \in {"ignored", "failed"}
  /\ h.short \in {"wrong_length", "failed"}

(* So it is for every attribute that has a handler. *)
LEMMA HandlerFacts ==
  ASSUME NEW attr \in Attributes \ {"message type", "unknown", "no handler"},
         NEW msgtype
  PROVE  InTable(HandlerOf(attr, msgtype), attr, msgtype)
  <1> DEFINE h == HandlerOf(attr, msgtype)
             About == {"ICRQ", "OCRQ", "OCRP", "OCCN"}
             Sane(x) == /\ x.to \in {"call", "head", "tunnel"}
                        /\ x.to = "head" => x.msgs \subseteq About
                        /\ x.other \in {"ignored", "failed"}
                        /\ x.short \in {"wrong_length", "failed"}
  <1>1. CASE attr = "result code"
    BY <1>1 DEF HandlerOf, Handler, result_code_avp, InTable
  <1>2. CASE attr \in {"assigned tunnel", "assigned call"}
    <2>1. CASE attr = "assigned tunnel"
      <3>1. h = assigned_tunnel_avp
        BY <2>1 DEF HandlerOf
      <3>2. InTable(assigned_tunnel_avp, attr, msgtype)
        BY <2>1 DEF Handler, SetUp, assigned_tunnel_avp, InTable
      <3> QED BY Zenon, <3>1, <3>2
    <2>2. CASE attr = "assigned call"
      <3>1. h = assigned_call_avp(msgtype)
        BY <2>2 DEF HandlerOf
      <3>2. InTable(assigned_call_avp(msgtype), attr, msgtype)
        BY <2>2 DEF Handler, assigned_call_avp, InTable
      <3> QED BY Zenon, <3>1, <3>2
    <2> QED BY <1>2, <2>1, <2>2
  <1>3. \A msgs, lens, to :
          (to = "head" => msgs \subseteq About) /\ to \in {"call", "head", "tunnel"}
            => Sane(Handler(msgs, lens, to))
    <2> SUFFICES ASSUME NEW msgs, NEW lens, NEW to,
                        to = "head" => msgs \subseteq About,
                        to \in {"call", "head", "tunnel"}
                 PROVE  Sane(Handler(msgs, lens, to))
      BY Zenon
    <2> DEFINE x == Handler(msgs, lens, to)
    <2>1. /\ x.to = to /\ x.msgs = msgs
          /\ x.other = "ignored" /\ x.short = "wrong_length"
      BY DEF Handler
    <2> HIDE DEF x, About
    <2>2. Sane(x)
      BY <2>1
    <2> HIDE DEF Sane
    <2> QED BY Zenon, <2>2 DEF x
  <1> HIDE DEF Sane
  <1>4. CASE attr = "sequencing required"
    <2>1. h = seq_reqd_avp
      BY <1>4 DEF HandlerOf
    <2>2. Sane(seq_reqd_avp)
      BY DEF seq_reqd_avp, Handler, Sane
    <2> QED BY <1>4, <2>1, <2>2 DEF Sane, InTable
  <1>5. CASE attr = "protocol version"
    <2>1. h = protocol_version_avp
      BY <1>5 DEF HandlerOf
    <2>2. Sane(protocol_version_avp)
      BY DEF protocol_version_avp, Handler, Sane
    <2> QED BY <1>5, <2>1, <2>2 DEF Sane, InTable
  <1>6. CASE attr = "challenge response"
    <2>1. h = chalresp_avp
      BY <1>6 DEF HandlerOf
    <2>2. Sane(chalresp_avp)
      BY DEF chalresp_avp, Handler, Sane
    <2> QED BY <1>6, <2>1, <2>2 DEF Sane, InTable
  <1>7. CASE attr \in {"random vector", "proxy authen", "framing caps",
         "bearer caps"}
    <2>1. h \in {rand_vector_avp, ignore_avp, framing_caps_avp,
         bearer_caps_avp}
      BY <1>7 DEF HandlerOf
    <2>2. Sane(rand_vector_avp) /\ Sane(ignore_avp)
          /\ Sane(framing_caps_avp) /\ Sane(bearer_caps_avp)
      BY <1>3 DEF SetUp, rand_vector_avp, ignore_avp, framing_caps_avp,
         bearer_caps_avp
    <2> QED BY <1>7, <2>1, <2>2 DEF Sane, InTable
  <1>8. CASE attr \in {"firmware revision", "bearer type", "framing type",
         "host name"}
    <2>1. h \in {firmware_rev_avp, bearer_type_avp, frame_type_avp,
         hostname_avp}
      BY <1>8 DEF HandlerOf
    <2>2. Sane(firmware_rev_avp) /\ Sane(bearer_type_avp)
          /\ Sane(frame_type_avp) /\ Sane(hostname_avp)
      BY <1>3 DEF SetUp, firmware_rev_avp, bearer_type_avp, frame_type_avp,
         hostname_avp
    <2> QED BY <1>8, <2>1, <2>2 DEF Sane, InTable
  <1>9. CASE attr \in {"dialing number", "dialed number", "sub address",
         "vendor name"}
    <2>1. h \in {dialing_number_avp, dialed_number_avp, sub_address_avp,
         vendor_avp}
      BY <1>9 DEF HandlerOf
    <2>2. Sane(dialing_number_avp) /\ Sane(dialed_number_avp)
          /\ Sane(sub_address_avp) /\ Sane(vendor_avp)
      BY <1>3 DEF SetUp, dialing_number_avp, dialed_number_avp,
         sub_address_avp, vendor_avp
    <2> QED BY <1>9, <2>1, <2>2 DEF Sane, InTable
  <1>10. CASE attr \in {"challenge", "packet delay", "call serial number",
         "rx speed"}
    <2>1. h \in {challenge_avp, packet_delay_avp, call_serno_avp,
         rx_speed_avp}
      BY <1>10 DEF HandlerOf
    <2>2. Sane(challenge_avp) /\ Sane(packet_delay_avp)
          /\ Sane(call_serno_avp) /\ Sane(rx_speed_avp)
      BY <1>3 DEF SetUp, challenge_avp, packet_delay_avp, call_serno_avp,
         rx_speed_avp
    <2> QED BY <1>10, <2>1, <2>2 DEF Sane, InTable
  <1>11. CASE attr \in {"tx speed", "physical channel",
         "receive window size"}
    <2>1. h \in {tx_speed_avp, call_physchan_avp, receive_window_size_avp}
      BY <1>11 DEF HandlerOf
    <2>2. Sane(tx_speed_avp) /\ Sane(call_physchan_avp)
          /\ Sane(receive_window_size_avp)
      BY <1>3 DEF SetUp, tx_speed_avp, call_physchan_avp,
         receive_window_size_avp
    <2> QED BY <1>11, <2>1, <2>2 DEF Sane, InTable
  <1> QED
    BY <1>1, <1>2, <1>4, <1>5, <1>6, <1>7, <1>8, <1>9, <1>10, <1>11 DEF Attributes

(* A handler stores an attribute only in a message that it is for. *)
LEMMA OutcomeFacts ==
  ASSUME NEW h, NEW attr, NEW msgtype, NEW len, InTable(h, attr, msgtype),
         Outcome(h, msgtype, len) = "stored"
  PROVE  msgtype \in h.msgs
  BY DEF Outcome, InTable

(* What a handler stores in x, or tries to store by way of a NULL pointer. *)
LEMMA StoreKeeps ==
  ASSUME IInv, walk.c # Nobody, NEW attr, attr # "message type",
         NEW x \in {Self, Nobody} \cup Live, NEW v \in Values(attr),
         attr = "assigned tunnel" =>
           walk.msgtype \in {"SCCRP", "SCCRQ", "StopCCN"},
         attr = "assigned call" /\ ~walk.optional =>
           /\ walk.msgtype \in {"CDN", "ICRP", "ICRQ", "OCRP"}
           /\ x = IF walk.msgtype = "ICRQ" THEN walk.made ELSE walk.c,
         Store(attr, x, v), list' = list
  PROVE  /\ tun' \in TunnelRecord /\ node' \in [Calls -> CallRecord]
         /\ Untouched
  <1>1. /\ TypeOK /\ Live \subseteq CallIds /\ node \in [Calls -> CallRecord]
        /\ x # Nobody => x \in Calls /\ node[x] \in CallRecord
    BY Apart, LiveCalls DEF IInv, TypeOK
  <1>2. /\ tun' \in TunnelRecord /\ tun'.state = tun.state
        /\ ~walk.optional /\ tun.state = "SCCCN" => tun'.tid = tun.tid
    <2>1. CASE attr = "assigned tunnel" /\ walk.msgtype = "StopCCN"
      <3>1. tun' = [tun EXCEPT !.qtid = v] /\ v \in Nat \ {0}
        BY <2>1, AvpAssumption DEF Store, Values
      <3> QED BY <1>1, <3>1 DEF TypeOK, TunnelRecord
    <2>2. CASE attr = "assigned tunnel" /\ walk.msgtype # "StopCCN"
      <3>1. tun' = [tun EXCEPT !.tid = v] /\ v \in Nat
        BY <2>2, AvpAssumption DEF Store, Values
      <3>2. ~walk.optional => tun.state # "SCCCN"
        BY <2>2 DEF IInv, Reading, Appropriate
      <3> QED BY <1>1, <3>1, <3>2 DEF TypeOK, TunnelRecord
    <2>3. CASE attr = "random vector"
      <3>1. tun' = [tun EXCEPT !.vector = TRUE]
        BY <2>3 DEF Store
      <3> QED BY <1>1, <3>1 DEF TypeOK, TunnelRecord
    <2>4. CASE attr \notin {"assigned tunnel", "random vector"}
      <3>1. tun' = tun
        BY <2>4 DEF Store
      <3> QED BY <1>1, <3>1 DEF TypeOK
    <2> QED BY <2>1, <2>2, <2>3, <2>4
  <1> DEFINE Kept ==
        /\ node' \in [Calls -> CallRecord]
        /\ \A y \in Calls :
             /\ Kin(node[y], node'[y])
             /\ ~walk.optional /\ node[y].state = "ICCN" =>
                  node'[y].cid = node[y].cid
             /\ y # x => node'[y] = node[y]
  <1>3. ASSUME x # Nobody, NEW r, Kin(node[x], r),
               ~walk.optional /\ node[x].state = "ICCN" => r.cid = node[x].cid,
               node' = [node EXCEPT ![x] = r]
        PROVE  Kept
    <2>1. /\ node' \in [Calls -> CallRecord] /\ node'[x] = r
          /\ \A y \in Calls : Kin(node[y], node'[y]) /\ (y # x => node'[y] = node[y])
      <3> DEFINE m == [node EXCEPT ![x] = r]
      <3>1. /\ m \in [Calls -> CallRecord] /\ m[x] = r
            /\ \A y \in Calls : Kin(node[y], m[y]) /\ (y # x => m[y] = node[y])
        BY Zenon, <1>1, <1>3, KinExcept
      <3>2. node' = m
        BY Zenon, <1>3
      <3> HIDE DEF m
      <3> QED BY Zenon, <3>1, <3>2
    <2> QED BY Zenon, <1>3, <2>1
  <1>4. ASSUME node' = node PROVE Kept
    <2>1. \A y \in Calls : node[y] \in CallRecord
      BY <1>1
    <2> QED BY Zenon, <1>1, <1>4, <2>1, KinRecords
  <1> HIDE DEF Kept
  <1>5. Kept
    <2>0. CASE x = Nobody
      BY <1>4, <2>0 DEF Store
    <2>1. CASE x # Nobody /\ attr = "assigned call" /\ walk.msgtype = "CDN"
      <3> DEFINE r == [node[x] EXCEPT !.qcid = v]
      <3>1. v \in {-1} \cup Nat
        BY <2>1, AvpAssumption DEF Values
      <3>2. node' = [node EXCEPT ![x] = r]
        BY <2>1 DEF Store
      <3>3. Kin(node[x], r) /\ r.cid = node[x].cid
        BY Zenon, <1>1, <2>1, <3>1, KinRecords
      <3> HIDE DEF r
      <3> QED BY Zenon, <1>3, <2>1, <3>2, <3>3
    <2>2. CASE x # Nobody /\ attr = "assigned call" /\ walk.msgtype # "CDN"
      <3> DEFINE r == [node[x] EXCEPT !.cid = v]
      <3>1. v \in Nat
        BY <2>2, AvpAssumption DEF Values
      <3>2. node' = [node EXCEPT ![x] = r]
        BY <2>2 DEF Store
      <3>3. Kin(node[x], r)
        BY Zenon, <1>1, <2>2, <3>1, KinRecords
      <3>4. ~walk.optional => node[x].state # "ICCN"
        BY <2>2 DEF IInv, Reading, Appropriate
      <3> HIDE DEF r
      <3> QED BY Zenon, <1>3, <2>2, <3>2, <3>3, <3>4
    <2>3. CASE x # Nobody /\ attr = "result code" /\ v = "in range"
      <3> DEFINE r == [node[x] EXCEPT !.result = TRUE]
      <3>1. node' = [node EXCEPT ![x] = r]
        BY <2>3 DEF Store
      <3>2. Kin(node[x], r) /\ r.cid = node[x].cid
        BY Zenon, <1>1, <2>3, KinRecords
      <3> HIDE DEF r
      <3> QED BY Zenon, <1>3, <2>3, <3>1, <3>2
    <2>4. CASE x # Nobody /\ attr # "assigned call"
               /\ ~(attr = "result code" /\ v = "in range")
      BY <1>4, <2>4 DEF Store
    <2> QED BY <2>0, <2>1, <2>2, <2>3, <2>4
  <1>6. \A y \in CallIds : y \notin Live => y \in Calls /\ y # x
    BY Zenon, Apart
  <1> QED BY Zenon, <1>2, <1>5, <1>6 DEF Untouched, Kept

(* A handler that writes by way of t->call_head finds a call there: the    *)
(* message is about a call that is in the list.                            *)
LEMMA HeadFound ==
  ASSUME IInv, walk.c # Nobody, ~walk.optional,
         walk.msgtype \in {"ICRQ", "OCRQ", "OCRP", "OCCN"}
  PROVE  /\ Head1 \in Live
         /\ walk.msgtype = "ICRQ" => Head1 = walk.made
  <1>0. walk.valid /\ Appropriate(walk.msgtype, walk.c)
    BY Zenon DEF IInv, Reading
  <1>1. walk.msgtype = "ICRQ" => list # <<>> /\ list[1] = walk.made
    BY Zenon, <1>0 DEF IInv, Reading
  <1>2. walk.msgtype # "ICRQ" => list # <<>>
    <2>1. walk.msgtype # "ICRQ" => node[walk.c].state = "OCRQ"
      BY <1>0 DEF Appropriate
    <2>2. walk.msgtype # "ICRQ" => walk.c \in Live
      BY <2>1 DEF IInv, Reading, Listed
    <2> QED BY <2>2, LiveCalls DEF IInv
  <1> QED BY <1>1, <1>2, LiveCalls DEF Head1, IInv

(* What a handler does to the calls leaves them as they have to be.        *)
LEMMA TendedUntouched ==
  ASSUME IInv, tun' = tun, list' = list, Tended(node')
  PROVE  Untouched
  BY Zenon, Apart DEF Tended, Untouched

(* A handler failed: the walk is given up, or goes on.                     *)
LEMMA FailsKeeps ==
  ASSUME IInv, walk.c # Nobody, NEW a \in Avp, NEW n, NEW w \in WalkRecord,
         Tended(n), HandlerFails(a, w, n), tun' = tun, list' = list
  PROVE  \/ IInv' /\ Untouched /\ walk'.c = Nobody
         \/ /\ TypeOK' /\ Untouched /\ node' = n
            /\ ~a.m /\ walk' = Advance(w, a.len)
  <1>1. walk.c \in {Self} \cup Live /\ walk.c \in Calls /\ TypeOK
    BY Apart, LiveCalls DEF IInv, Reading
  <1>2. n \in [Calls -> CallRecord] /\ a.len \in Nat
    BY AvpAssumption DEF Avp, Tended
  <1>3. CASE a.m
    <2> DEFINE r == [n[walk.c] EXCEPT !.needclose = TRUE]
    <2>1. walk' = Idle /\ node' = [n EXCEPT ![walk.c] = r]
      BY <1>3 DEF HandlerFails
    <2>2. Kin(n[walk.c], r) /\ r.cid = n[walk.c].cid /\ r.needclose
      <3>1. n[walk.c] \in CallRecord
        BY <1>1, <1>2
      <3> QED BY Zenon, <3>1, KinRecords
    <2> HIDE DEF r
    <2>3. Tended(node')
      BY Zenon, <1>1, <2>1, <2>2, TendedExcept
    <2>4. node'[walk.c] = r
      BY <1>1, <1>2, <2>1
    <2>5. TypeOK'
      BY Zenon, <1>1, <2>1, <2>3, IdleType DEF TypeOK, Tended
    <2>6. Untouched
      BY Zenon, <2>3, TendedUntouched
    <2>7. IInv'
      BY Zenon, <2>1, <2>2, <2>4, <2>5, <2>6, Abandoned
    <2> QED BY <2>1, <2>6, <2>7 DEF Idle
  <1>4. CASE ~a.m
    <2>1. walk' = Advance(w, a.len) /\ node' = n
      BY <1>4 DEF HandlerFails
    <2>2. walk' \in WalkRecord
      BY Zenon, <1>2, <2>1, AdvanceType
    <2>3. TypeOK'
      BY Zenon, <1>1, <2>1, <2>2 DEF TypeOK, Tended
    <2>4. Untouched
      BY Zenon, <2>1, TendedUntouched
    <2> QED BY <1>4, <2>1, <2>3, <2>4
  <1> QED BY <1>3, <1>4

(* The handlers of the attributes but Message Type. *)
LEMMA HandleKeeps ==
  ASSUME IInv, walk.c # Nobody, NEW a \in Avp, NEW v \in Values(a.attr),
         a.attr \notin {"message type", "unknown", "no handler"}, Handle(a, v)
  PROVE  /\ IInv' /\ Untouched
         /\ walk'.c = Nobody \/ walk'.broken \/ walk'.len < walk.len
  <1> DEFINE h == HandlerOf(a.attr, walk.msgtype)
             out == Outcome(h, walk.msgtype, a.inner)
             x == CASE h.to = "call" -> walk.c
                    [] h.to = "head" -> Head1
                    [] h.to = "tunnel" -> Self
             w == Advance(walk, a.len)
  <1>1. /\ TypeOK /\ walk \in WalkRecord /\ walk.c \in Calls
        /\ walk.c \in {Self} \cup Live /\ list' = list
    BY Apart, LiveCalls DEF IInv, Reading, TypeOK, Handle
  <1>2. a.len \in Nat /\ a.attr \in Attributes
    BY AvpAssumption DEF Avp
  <1>3. /\ w \in WalkRecord /\ w.c = walk.c /\ w.made = walk.made
        /\ w.msgtype = walk.msgtype /\ w.valid = walk.valid
        /\ w.optional = walk.optional /\ w.null = walk.null
        /\ w.broken \/ w.len < walk.len
    BY Zenon, <1>1, <1>2, AdvanceType
  <1>4. walk.null => walk.optional
    BY Zenon DEF IInv, Reading
  <1>5. \/ out = "stored" /\ Store(a.attr, x, v)
           /\ walk' = [w EXCEPT !.null = x = Nobody]
        \/ walk' = w /\ UNCHANGED <<tun, node>>
        \/ /\ HandlerFails(a, walk, IF out = "failed" THEN node
                                    ELSE SetError(walk.c))
           /\ UNCHANGED tun
    BY DEF Handle
  <1> HIDE DEF w
  <1>6. CASE /\ out = "stored" /\ Store(a.attr, x, v)
             /\ walk' = [w EXCEPT !.null = x = Nobody]
    <2>0. a.attr \in Attributes \ {"message type", "unknown", "no handler"}
      BY <1>2
    <2>1. InTable(h, a.attr, walk.msgtype)
      BY Zenon, <2>0, HandlerFacts
    <2> HIDE DEF h
    <2>2. walk.msgtype \in h.msgs
      <3>1. Outcome(h, walk.msgtype, a.inner) = "stored"
        BY <1>6
      <3> QED BY Zenon, <2>1, <3>1, OutcomeFacts
    <2> HIDE DEF out
    <2>3. h.to = "head" =>
            walk.msgtype \in {"ICRQ", "OCRQ", "OCRP", "OCCN"}
      BY <2>1, <2>2 DEF InTable
    <2>4. h.to = "head" /\ ~walk.optional =>
            Head1 \in Live /\ (walk.msgtype = "ICRQ" => Head1 = walk.made)
      BY Zenon, <2>3, HeadFound
    <2>5. Head1 \in {Nobody} \cup Live
      BY <1>1, LiveCalls DEF Head1
    <2>6. Nobody \notin Live /\ Nobody # Self
      BY Zenon, <1>1, Apart, LiveCalls
    <2>7. h.to \in {"call", "head", "tunnel"}
      BY Zenon, <2>1 DEF InTable
    <2>8. /\ x \in {Self, Nobody} \cup Live
          /\ x = Nobody => walk.optional
      BY <1>1, <2>4, <2>5, <2>6, <2>7
    <2>9. a.attr = "assigned call" /\ ~walk.optional =>
            /\ walk.msgtype \in {"CDN", "ICRP", "ICRQ", "OCRP"}
            /\ x = IF walk.msgtype = "ICRQ" THEN walk.made ELSE walk.c
      BY <2>1, <2>2, <2>4 DEF InTable
    <2>10. a.attr = "assigned tunnel" =>
             walk.msgtype \in {"SCCRP", "SCCRQ", "StopCCN"}
      BY <2>1, <2>2 DEF InTable
    <2> HIDE DEF x
    <2>11. /\ tun' \in TunnelRecord /\ node' \in [Calls -> CallRecord]
           /\ Untouched
      BY Zenon, <1>1, <1>6, <2>0, <2>8, <2>9, <2>10, StoreKeeps
    <2>12. /\ walk' \in WalkRecord /\ walk'.c = w.c /\ walk'.made = w.made
           /\ walk'.msgtype = w.msgtype /\ walk'.valid = w.valid
           /\ walk'.optional = w.optional /\ walk'.null = (x = Nobody)
           /\ walk'.broken = w.broken /\ walk'.len = w.len
      BY <1>3, <1>6 DEF WalkRecord
    <2>13. TypeOK'
      BY Zenon, <1>1, <2>11, <2>12 DEF TypeOK
    <2>14. IInv'
      BY Zenon, <1>3, <2>8, <2>11, <2>12, <2>13, ReadOn
    <2> QED BY <1>3, <2>11, <2>12, <2>14
  <1>7. CASE walk' = w /\ UNCHANGED <<tun, node>>
    <2>1. tun' = tun /\ node' = node
      BY <1>7
    <2>2. Untouched
      BY Zenon, <1>1, <2>1, MarksTend, TendedUntouched
    <2>3. TypeOK'
      BY Zenon, <1>1, <1>3, <1>7, <2>1 DEF TypeOK
    <2>4. IInv'
      BY Zenon, <1>3, <1>4, <1>7, <2>2, <2>3, ReadOn
    <2> QED BY <1>3, <1>7, <2>2, <2>4
  <1>8. CASE /\ HandlerFails(a, walk, IF out = "failed" THEN node
                                      ELSE SetError(walk.c))
             /\ UNCHANGED tun
    <2> DEFINE n == IF out = "failed" THEN node ELSE SetError(walk.c)
    <2>1. Tended(n)
      BY Zenon, MarksTend
    <2> HIDE DEF n
    <2>2. HandlerFails(a, walk, n) /\ tun' = tun
      BY <1>8 DEF n
    <2>3. \/ IInv' /\ Untouched /\ walk'.c = Nobody
          \/ TypeOK' /\ Untouched /\ walk' = w
      BY Zenon, <1>1, <2>1, <2>2, FailsKeeps DEF w
    <2>4. ASSUME TypeOK', Untouched, walk' = w PROVE IInv'
      BY Zenon, <1>3, <1>4, <2>4, ReadOn
    <2> QED BY Zenon, <1>3, <2>3, <2>4
  <1> QED BY <1>5, <1>6, <1>7, <1>8

(* message_type_avp; the call of an ICRQ is put at the head of the list. *)
LEMMA MessageTypeKeeps ==
  ASSUME IInv, walk.c # Nobody, NEW a \in Avp, NEW msgtype \in Msgs,
         MessageType(a, msgtype)
  PROVE  /\ IInv' /\ NumbersKept
         /\ walk'.c = Nobody \/ walk'.broken \/ walk'.len < walk.len
  <1> DEFINE ok == a.inner = 8 /\ Appropriate(msgtype, walk.c)
             w == [walk EXCEPT !.msgtype = msgtype, !.valid = ok,
                               !.optional = @ \/ ~a.m]
             n == IF a.inner = 8 THEN Passed
                  ELSE [Passed EXCEPT ![walk.c].needclose = TRUE,
                                      ![walk.c].result = TRUE]
  <1>1. /\ TypeOK /\ Listed /\ walk \in WalkRecord /\ walk.c \in Calls
        /\ tun' = tun
    BY Apart, LiveCalls DEF IInv, Reading, TypeOK, MessageType
  <1>2. a.len \in Nat /\ a.m \in BOOLEAN /\ ok \in BOOLEAN
    BY AvpAssumption DEF Avp, Appropriate
  <1>3. \/ ~ok /\ list' = list /\ HandlerFails(a, w, n)
        \/ /\ ok /\ msgtype = "ICRQ" /\ Live # CallIds
           /\ list' = Linked(FreeId) /\ node' = Passed
           /\ walk' = Advance([w EXCEPT !.made = FreeId], a.len)
        \/ /\ ok /\ msgtype # "ICRQ" /\ walk' = Advance(w, a.len)
           /\ node' = Passed /\ list' = list
    BY Zenon DEF MessageType
  <1>4. ok => Appropriate(msgtype, walk.c)
    OBVIOUS
  <1> HIDE DEF ok
  <1>5. /\ w \in WalkRecord /\ w.c = walk.c /\ w.made = walk.made
        /\ w.msgtype = msgtype /\ w.valid = ok /\ w.len = walk.len
        /\ w.optional = (walk.optional \/ ~a.m) /\ w.null = walk.null
    BY <1>1, <1>2 DEF WalkRecord
  <1>6. w.null => w.optional
    BY <1>5 DEF IInv, Reading
  <1>7. Tended(Passed) /\ (walk.made # Nobody => Passed[walk.made].cut)
    BY Zenon, MarksTend
  <1>8. Tended(n) /\ (walk.made # Nobody => n[walk.made].cut)
    BY Zenon, <1>7, MarksTend
  <1> HIDE DEF w, n
  <1>9. CASE ~ok /\ list' = list /\ HandlerFails(a, w, n)
    <2>1. \/ IInv' /\ Untouched /\ walk'.c = Nobody
          \/ /\ TypeOK' /\ Untouched /\ node' = n
             /\ ~a.m /\ walk' = Advance(w, a.len)
      BY Zenon, <1>1, <1>5, <1>8, <1>9, FailsKeeps
    <2>2. ASSUME TypeOK', Untouched, node' = n, ~a.m, walk' = Advance(w, a.len)
          PROVE  IInv' /\ (walk'.broken \/ walk'.len < walk.len)
      <3>1. /\ walk'.c = w.c /\ walk'.made = w.made /\ walk'.valid = w.valid
            /\ walk'.optional = w.optional
            /\ walk'.broken \/ walk'.len < w.len
        BY Zenon, <1>2, <1>5, <2>2, AdvanceType
      <3>2. walk'.c = walk.c /\ walk'.made = walk.made
        BY Zenon, <1>5, <3>1
      <3>3. walk'.optional /\ ~walk'.valid
        BY <1>5, <1>9, <2>2, <3>1
      <3>4. walk.made # Nobody => node'[walk.made].cut
        BY Zenon, <1>8, <2>2
      <3>5. IInv'
        BY Zenon, <2>2, <3>2, <3>3, <3>4, TypeOn
      <3> QED BY <1>5, <3>1, <3>5
    <2> QED BY Zenon, <2>1, <2>2, StillListed
  <1>10. CASE /\ ok /\ msgtype # "ICRQ" /\ walk' = Advance(w, a.len)
              /\ node' = Passed /\ list' = list
    <2>1. /\ walk' \in WalkRecord /\ walk'.c = w.c /\ walk'.made = w.made
          /\ walk'.msgtype = w.msgtype /\ walk'.valid = w.valid
          /\ walk'.optional = w.optional /\ walk'.null = w.null
          /\ walk'.broken \/ walk'.len < w.len
      BY Zenon, <1>2, <1>5, <1>10, AdvanceType
    <2>2. Untouched
      BY Zenon, <1>1, <1>7, <1>10, TendedUntouched
    <2>3. TypeOK'
      BY Zenon, <1>1, <1>7, <1>10, <2>1 DEF TypeOK, Tended
    <2>4. /\ walk'.c = walk.c /\ walk'.made = walk.made
          /\ walk'.null => walk'.optional
          /\ walk'.valid /\ walk'.msgtype = msgtype
      BY <1>5, <1>6, <1>10, <2>1
    <2>5. walk.made # Nobody => node'[walk.made].cut
      BY Zenon, <1>7, <1>10
    <2>6. Appropriate(walk'.msgtype, walk.c)
      BY Zenon, <1>4, <1>10, <2>4
    <2>7. IInv'
      BY Zenon, <1>10, <2>2, <2>3, <2>4, <2>5, <2>6, TypeOn
    <2> QED BY <1>5, <2>1, <2>2, <2>7, StillListed
  <1>11. CASE /\ ok /\ msgtype = "ICRQ" /\ Live # CallIds
              /\ list' = Linked(FreeId) /\ node' = Passed
              /\ walk' = Advance([w EXCEPT !.made = FreeId], a.len)
    <2> DEFINE u == [w EXCEPT !.made = FreeId]
    <2>1. FreeId \in CallIds /\ FreeId \notin Live /\ node[FreeId] = NewCall
      BY Zenon, <1>1, <1>11, Fresh
    <2>2. /\ u \in WalkRecord /\ u.c = w.c /\ u.made = FreeId
          /\ u.msgtype = w.msgtype /\ u.valid = w.valid /\ u.len = w.len
          /\ u.optional = w.optional /\ u.null = w.null
      BY <1>5, <2>1 DEF WalkRecord
    <2> HIDE DEF u
    <2>3. /\ walk' \in WalkRecord /\ walk'.c = u.c /\ walk'.made = u.made
          /\ walk'.msgtype = u.msgtype /\ walk'.valid = u.valid
          /\ walk'.optional = u.optional /\ walk'.null = u.null
          /\ walk'.broken \/ walk'.len < u.len
      BY Zenon, <1>2, <1>11, <2>2, AdvanceType DEF u
    <2>4. /\ walk'.c = walk.c /\ walk'.made = FreeId
          /\ walk'.null => walk'.optional
          /\ walk'.valid /\ walk'.msgtype = "ICRQ"
          /\ walk'.broken \/ walk'.len < walk.len
      <3>1. walk'.c = walk.c /\ walk'.made = FreeId /\ walk'.msgtype = "ICRQ"
        <4>1. w.c = walk.c /\ w.msgtype = "ICRQ"
          BY Zenon, <1>5, <1>11
        <4>2. walk'.c = w.c /\ walk'.made = FreeId /\ walk'.msgtype = w.msgtype
          BY Zenon, <2>2, <2>3
        <4> QED BY Zenon, <4>1, <4>2
      <3>2. walk'.valid /\ (walk'.null => walk'.optional)
        <4>1. walk'.valid = ok /\ walk'.null = w.null /\ walk'.optional = w.optional
          BY Zenon, <1>5, <2>2, <2>3
        <4> QED BY Zenon, <1>6, <1>11, <4>1
      <3>3. walk'.broken \/ walk'.len < walk.len
        BY Zenon, <1>5, <2>2, <2>3
      <3> QED BY Zenon, <3>1, <3>2, <3>3
    <2>5. /\ list' \in Seq(CallIds) /\ list' # <<>> /\ list'[1] = FreeId
          /\ Live' = Live \cup {FreeId}
          /\ \A i, j \in DOMAIN list' : list'[i] = list'[j] => i = j
      BY Zenon, <1>1, <1>11, <2>1, LinkedSound
    <2>6. TypeOK'
      BY Zenon, <1>1, <1>7, <1>11, <2>3, <2>5 DEF TypeOK, Tended
    <2>7. /\ \A x \in Calls :
               /\ node'[x].state = node[x].state
               /\ node'[x].cid = node[x].cid
               /\ node'[x].closing = node[x].closing
               /\ node[x].cut => node'[x].cut
               /\ node[x].needclose => node'[x].needclose
          /\ \A x \in CallIds : x \notin Live => node'[x] = node[x]
      BY Zenon, <1>7, <1>11 DEF Tended, Kin
    <2>8. Listed'
      <3>1. node'[Self].state \in {"none", "ICCN"}
        BY Zenon, <1>1, <2>7, Apart DEF Listed
      <3>2. \A x \in CallIds : x \notin Live' => node'[x] = NewCall
        BY Zenon, <1>1, <2>5, <2>7 DEF Listed
      <3> QED BY Zenon, <2>5, <3>1, <3>2 DEF Listed
    <2>9. Appropriate("ICRQ", walk.c)
      BY Zenon, <1>4, <1>11
    <2>10. walk.c = Self /\ tun.state = "SCCCN"
      BY <2>9 DEF Appropriate
    <2>11. Appropriate(walk.msgtype, walk.c)'
      BY <1>1, <2>4, <2>10 DEF Appropriate
    <2>12. node'[FreeId].state = "none"
      <3>1. NewCall.state = "none"
        BY DEF NewCall
      <3> QED BY Zenon, <2>1, <2>7, <3>1
    <2>13. Reading'
      <3>1. walk'.c \in {Self, Nobody} \cup Live' /\ walk'.c # Nobody
        BY <2>4, <2>10, Apart
      <3>2. walk'.made # Nobody
        BY Zenon, <2>1, <2>4, Apart
      <3>3. /\ walk'.c = Self /\ list' # <<>> /\ list'[1] = walk'.made
            /\ node'[walk'.made].state = "none"
        BY Zenon, <2>4, <2>5, <2>10, <2>12
      <3> QED BY Zenon, <2>4, <2>11, <3>1, <3>2, <3>3 DEF Reading
    <2>14. ASSUME NEW p \in Live' PROVE p = walk'.made \/ Accounted(p)'
      <3>1. CASE p = FreeId
        BY <2>4, <3>1
      <3>2. CASE p \in Live
        <4>0. p \in Calls /\ p # Nobody
          BY Zenon, <1>1, <3>2, Apart, LiveCalls
        <4>1. CASE p = walk.made
          BY Zenon, <1>7, <1>11, <4>0, <4>1 DEF Accounted
        <4>2. CASE Accounted(p)
          BY Zenon, <2>7, <4>0, <4>2, Apart DEF Accounted
        <4> QED BY Zenon, <3>2, <4>1, <4>2 DEF IInv
      <3> QED BY <2>5, <3>1, <3>2
    <2>15. NumbersKept
      BY Zenon, <1>1, <2>7, Apart DEF NumbersKept
    <2> QED BY Zenon, <2>4, <2>6, <2>8, <2>13, <2>14, <2>15 DEF IInv
  <1> QED BY Zenon, <1>3, <1>9, <1>10, <1>11

(* One round of the loop. *)
LEMMA StepKeeps ==
  ASSUME IInv, Step
  PROVE  /\ IInv' /\ NumbersKept
         /\ walk'.c = Nobody \/ walk'.broken \/ walk'.len < walk.len
  <1>1. /\ walk.c # Nobody /\ TypeOK /\ walk \in WalkRecord
        /\ walk.c \in Calls /\ walk.c \in {Self} \cup Live
        /\ walk.null => walk.optional
    BY Apart, LiveCalls DEF Step, IInv, Reading, TypeOK
  <1>2. PICK a \in Avp :
          \/ Refuse(a)
          \/ Skip(a)
          \/ /\ ~Unfit(a)
             /\ \E v \in Values(a.attr) :
                  IF a.attr = "message type" THEN MessageType(a, v)
                  ELSE Handle(a, v)
    BY Zenon DEF Step
  <1>3. a.len \in Nat
    BY AvpAssumption DEF Avp
  <1>4. CASE Refuse(a)
    <2>1. /\ node' = SetError(walk.c) /\ walk' = Idle
          /\ tun' = tun /\ list' = list
      BY <1>4 DEF Refuse
    <2>2. Tended(node') /\ node'[walk.c].needclose
      BY Zenon, <1>1, <2>1, MarksTend
    <2>3. TypeOK'
      BY Zenon, <1>1, <2>1, <2>2, IdleType DEF TypeOK, Tended
    <2>4. Untouched
      BY Zenon, <2>1, <2>2, TendedUntouched
    <2>5. IInv'
      BY Zenon, <1>1, <2>1, <2>2, <2>3, <2>4, Abandoned
    <2>6. walk'.c = Nobody
      BY <2>1 DEF Idle
    <2> QED BY Zenon, <2>4, <2>5, <2>6, StillListed
  <1>5. CASE Skip(a)
    <2>1. walk' = Advance(walk, a.len) /\ tun' = tun /\ list' = list /\ node' = node
      BY <1>5 DEF Skip
    <2>2. /\ walk' \in WalkRecord /\ walk'.c = walk.c /\ walk'.made = walk.made
          /\ walk'.msgtype = walk.msgtype /\ walk'.valid = walk.valid
          /\ walk'.optional = walk.optional /\ walk'.null = walk.null
          /\ walk'.broken \/ walk'.len < walk.len
      BY Zenon, <1>1, <1>3, <2>1, AdvanceType
    <2>3. TypeOK'
      BY Zenon, <1>1, <2>1, <2>2 DEF TypeOK
    <2>4. Untouched
      BY Zenon, <1>1, <2>1, MarksTend, TendedUntouched
    <2>5. IInv'
      BY Zenon, <1>1, <2>2, <2>3, <2>4, ReadOn
    <2> QED BY Zenon, <2>2, <2>4, <2>5, StillListed
  <1>6. ASSUME NEW v \in Values(a.attr), a.attr = "message type",
               MessageType(a, v)
        PROVE  /\ IInv' /\ NumbersKept
               /\ walk'.c = Nobody \/ walk'.broken \/ walk'.len < walk.len
    <2>1. v \in Msgs
      BY <1>6 DEF Values
    <2> QED BY Zenon, <1>1, <1>6, <2>1, MessageTypeKeeps
  <1>7. ASSUME ~Unfit(a), NEW v \in Values(a.attr), a.attr # "message type",
               Handle(a, v)
        PROVE  /\ IInv' /\ NumbersKept
               /\ walk'.c = Nobody \/ walk'.broken \/ walk'.len < walk.len
    <2>1. a.attr \notin {"message type", "unknown", "no handler"}
      BY <1>7 DEF Unfit
    <2> QED BY Zenon, <1>1, <1>7, <2>1, HandleKeeps, StillListed
  <1> QED BY Zenon, <1>2, <1>4, <1>5, <1>6, <1>7

-----------------------------------------------------------------------------
(* A message begins. *)
LEMMA BeginKeeps ==
  ASSUME IInv, NEW c, NEW len \in MsgLens, Begin(c, len)
  PROVE  IInv' /\ NumbersKept
  <1>1. /\ TypeOK /\ walk = Idle /\ c \in {Self} \cup Live /\ c \in Calls
        /\ len \in Int /\ list' = list /\ node' = node
        /\ walk' = [Idle EXCEPT !.c = c, !.len = len, !.first = TRUE]
        /\ tun' = [tun EXCEPT !.vector = FALSE]
    BY Apart, LiveCalls, AvpAssumption DEF IInv, Begin, Looped, Reading
  <1>2. /\ walk' \in WalkRecord /\ walk'.c = c /\ walk'.msgtype = "none"
        /\ walk'.made = Nobody /\ ~walk'.null /\ walk.made = Nobody
    BY <1>1, Apart DEF WalkRecord, Idle
  <1>3. tun' \in TunnelRecord /\ tun'.state = tun.state /\ tun'.tid = tun.tid
    BY <1>1 DEF TypeOK, TunnelRecord
  <1>4. TypeOK' /\ Live' = Live
    BY Zenon, <1>1, <1>2, <1>3 DEF TypeOK, Live
  <1>5. Listed'
    BY Zenon, <1>1, <1>4 DEF IInv, Listed
  <1>6. Reading'
    <2>1. walk'.c \in {Self, Nobody} \cup Live' /\ walk'.c # Nobody
      BY <1>1, <1>2, <1>4, Apart
    <2>2. "none" # "ICRQ"
      OBVIOUS
    <2> QED BY Zenon, <1>2, <2>1, <2>2 DEF Reading
  <1>7. \A p \in Live' : p = walk'.made \/ Accounted(p)'
    BY Zenon, <1>1, <1>2, <1>4 DEF IInv, Accounted
  <1>8. NumbersKept
    BY Zenon, <1>1, <1>3 DEF NumbersKept
  <1> QED BY Zenon, <1>4, <1>5, <1>6, <1>7, <1>8 DEF IInv

(* A call as control_finish may leave it.                                  *)
Later(r, s) ==
  /\ s \in CallRecord /\ s.cid = r.cid
  /\ s.state # "none" \/ r.state = "none"
  /\ r.cut => s.cut
  /\ r.closing => s.closing
  /\ r.needclose => s.needclose \/ s.closing

(* What control_finish may do to x, and to the tunnel.  The call that an   *)
(* ICRQ made is accounted for.                                             *)
LEMMA EndKeeps ==
  ASSUME IInv, walk.c # Nobody, list' = list, walk' = Idle,
         tun' \in TunnelRecord, tun.tid # 0 => tun'.tid = tun.tid,
         NEW x \in {Self} \cup Live, NEW r, Later(node[x], r),
         node' = [node EXCEPT ![x] = r],
         x = Self => r.state \in {node[x].state, "ICCN"},
         \/ walk.msgtype # "ICRQ" \/ ~walk.valid
         \/ x = walk.made /\ (r.state # "none" \/ r.closing \/ r.cut)
  PROVE  IInv' /\ NumbersKept
  <1>1. /\ TypeOK /\ Live \subseteq CallIds /\ Live' = Live /\ x \in Calls
        /\ CallIds \subseteq Calls /\ Self \in Calls /\ Self \notin CallIds
        /\ Nobody \notin CallIds
    BY Zenon, Apart, LiveCalls DEF IInv, Live
  <1>2. node \in [Calls -> CallRecord] /\ r \in CallRecord
    BY Zenon, <1>1 DEF TypeOK, Later
  <1>3. /\ node' \in [Calls -> CallRecord] /\ node'[x] = r
        /\ \A y \in Calls : y # x => node'[y] = node[y]
    BY <1>1, <1>2
  <1>4. \A y \in Calls : Later(node[y], node'[y])
    <2>1. \A y \in Calls : node[y] \in CallRecord
      BY <1>2
    <2>2. \A y \in Calls : Later(node[y], node[y])
      BY Zenon, <2>1 DEF Later
    <2> QED BY Zenon, <1>3, <2>2
  <1>5. TypeOK'
    BY Zenon, <1>1, <1>3, IdleType DEF TypeOK
  <1>6. Listed'
    <2>1. \A i, j \in DOMAIN list' : list'[i] = list'[j] => i = j
      BY Zenon DEF IInv, Listed
    <2>2. ASSUME NEW y \in CallIds, y \notin Live' PROVE node'[y] = NewCall
      <3>1. y \in Calls /\ y \notin Live /\ y # x
        BY Zenon, <1>1, <2>2
      <3> QED BY Zenon, <1>3, <3>1 DEF IInv, Listed
    <2>3. node'[Self].state \in {"none", "ICCN"}
      <3>1. node[Self].state \in {"none", "ICCN"}
        BY Zenon DEF IInv, Listed
      <3>2. CASE x = Self
        BY <1>3, <3>1, <3>2
      <3>3. CASE x # Self
        BY Zenon, <1>1, <1>3, <3>1, <3>3
      <3> QED BY <3>2, <3>3
    <2> QED BY Zenon, <2>1, <2>2, <2>3 DEF Listed
  <1>7. ASSUME NEW p \in Live PROVE Accounted(p)'
    <2>0. p \in Calls /\ p # Nobody
      BY Zenon, <1>1
    <2>1. CASE p = walk.made /\ (walk.msgtype # "ICRQ" \/ ~walk.valid)
      <3>1. node[p].cut
        BY Zenon, <2>0, <2>1 DEF IInv, Reading
      <3> QED BY Zenon, <1>4, <2>0, <3>1 DEF Accounted, Later
    <2>2. CASE /\ p = walk.made /\ x = walk.made
               /\ r.state # "none" \/ r.closing \/ r.cut
      BY Zenon, <1>3, <2>2 DEF Accounted
    <2>3. CASE Accounted(p)
      BY Zenon, <1>1, <1>4, <2>0, <2>3 DEF Accounted, Later
    <2> QED BY Zenon, <2>1, <2>2, <2>3 DEF IInv
  <1>8. NumbersKept
    BY Zenon, <1>1, <1>4 DEF NumbersKept, Later
  <1> QED BY Zenon, <1>1, <1>5, <1>6, <1>7, <1>8, IdleReading DEF IInv

(* What may become of a call at the end of a message.                      *)
LEMMA LaterRecords ==
  ASSUME NEW r \in CallRecord
  PROVE  /\ Later(r, r)
         /\ LET s == [r EXCEPT !.needclose = TRUE, !.result = TRUE]
            IN  Later(r, s) /\ s.state = r.state
         /\ LET s == [r EXCEPT !.needclose = FALSE, !.closing = TRUE]
            IN  Later(r, s) /\ s.state = r.state /\ s.closing
         /\ LET s == [r EXCEPT !.state = "ICCN"]
            IN  Later(r, s) /\ s.state = "ICCN"
         /\ LET s == [r EXCEPT !.state = "ICCN", !.closing = TRUE,
                               !.needclose = TRUE, !.result = TRUE]
            IN  Later(r, s) /\ s.state = "ICCN"
         /\ LET s == [r EXCEPT !.qcid = -1, !.needclose = FALSE, !.closing = TRUE]
            IN  Later(r, s) /\ s.state = r.state
         /\ LET s == [r EXCEPT !.qcid = -1] IN Later(r, s) /\ s.state = r.state
         /\ LET s == [r EXCEPT !.state = "ICRP"]
            IN  Later(r, s) /\ s.state = "ICRP"
         /\ LET s == [r EXCEPT !.needclose = TRUE, !.result = TRUE,
                               !.closing = TRUE]
            IN  Later(r, s) /\ s.closing
         /\ LET s == [r EXCEPT !.cut = TRUE] IN Later(r, s) /\ s.cut
  <1>1. Later(r, r)
    BY Zenon DEF Later
  <1>2. LET s == [r EXCEPT !.needclose = TRUE, !.result = TRUE]
        IN  Later(r, s) /\ s.state = r.state
    BY DEF Later, CallRecord
  <1>3. LET s == [r EXCEPT !.needclose = FALSE, !.closing = TRUE]
        IN  Later(r, s) /\ s.state = r.state /\ s.closing
    BY DEF Later, CallRecord
  <1>4. LET s == [r EXCEPT !.state = "ICCN"] IN Later(r, s) /\ s.state = "ICCN"
    BY DEF Later, CallRecord
  <1>5. LET s == [r EXCEPT !.state = "ICCN", !.closing = TRUE,
                           !.needclose = TRUE, !.result = TRUE]
        IN  Later(r, s) /\ s.state = "ICCN"
    BY DEF Later, CallRecord
  <1>6. LET s == [r EXCEPT !.qcid = -1, !.needclose = FALSE, !.closing = TRUE]
        IN  Later(r, s) /\ s.state = r.state
    BY DEF Later, CallRecord
  <1>7. LET s == [r EXCEPT !.qcid = -1] IN Later(r, s) /\ s.state = r.state
    BY DEF Later, CallRecord
  <1>8. LET s == [r EXCEPT !.state = "ICRP"] IN Later(r, s) /\ s.state = "ICRP"
    BY DEF Later, CallRecord
  <1>9. LET s == [r EXCEPT !.needclose = TRUE, !.result = TRUE, !.closing = TRUE]
        IN  Later(r, s) /\ s.closing
    BY DEF Later, CallRecord
  <1>10. LET s == [r EXCEPT !.cut = TRUE] IN Later(r, s) /\ s.cut
    BY DEF Later, CallRecord
  <1> QED BY Zenon, <1>1, <1>2, <1>3, <1>4, <1>5, <1>6, <1>7, <1>8, <1>9, <1>10

(* set_error, and what is stored in the same call after it.                *)
LEMMA SetErrorRecord ==
  ASSUME TypeOK, NEW x \in Calls
  PROVE  LET r == node[x] IN
         /\ node = [node EXCEPT ![x] = r] /\ r \in CallRecord
         /\ SetError(x) = [node EXCEPT ![x] = [r EXCEPT !.needclose = TRUE,
                                                        !.result = TRUE]]
         /\ [SetError(x) EXCEPT ![x].closing = TRUE] =
              [node EXCEPT ![x] = [r EXCEPT !.needclose = TRUE, !.result = TRUE,
                                            !.closing = TRUE]]
         /\ [SetError(x) EXCEPT ![x].state = "ICCN", ![x].closing = TRUE] =
              [node EXCEPT ![x] = [r EXCEPT !.state = "ICCN", !.closing = TRUE,
                                            !.needclose = TRUE, !.result = TRUE]]
  <1> DEFINE r == node[x]
             e == [r EXCEPT !.needclose = TRUE, !.result = TRUE]
  <1>1. node \in [Calls -> CallRecord]
    BY DEF TypeOK
  <1>2. node = [node EXCEPT ![x] = r] /\ r \in CallRecord
    BY <1>1
  <1>3. SetError(x) = [node EXCEPT ![x] = e]
    BY DEF SetError
  <1>4. [SetError(x) EXCEPT ![x].closing = TRUE] =
          [node EXCEPT ![x] = [e EXCEPT !.closing = TRUE]]
    <2> HIDE DEF e
    <2> QED BY <1>1, <1>3
  <1>5. [SetError(x) EXCEPT ![x].state = "ICCN", ![x].closing = TRUE] =
          [node EXCEPT ![x] = [e EXCEPT !.state = "ICCN", !.closing = TRUE]]
    <2> HIDE DEF e
    <2> QED BY <1>1, <1>3
  <1>6. [e EXCEPT !.closing = TRUE] =
          [r EXCEPT !.needclose = TRUE, !.result = TRUE, !.closing = TRUE]
    BY <1>2 DEF CallRecord
  <1>7. [e EXCEPT !.state = "ICCN", !.closing = TRUE] =
          [r EXCEPT !.state = "ICCN", !.closing = TRUE, !.needclose = TRUE,
                    !.result = TRUE]
    BY <1>2 DEF CallRecord
  <1> QED BY Zenon, <1>2, <1>3, <1>4, <1>5, <1>6, <1>7

(* control_finish on all messages but ICRQ; of a call that was made for an *)
(* earlier type of the message, nothing more will be heard.                *)
LEMMA FinishKeeps ==
  ASSUME IInv, walk.c # Nobody, list' = list, walk' = Idle,
         walk.msgtype # "ICRQ", control_finish(walk.c)
  PROVE  IInv' /\ NumbersKept
  <1> DEFINE c == walk.c
             r == node[c]
  <1>1. TypeOK /\ c \in Calls /\ c \in {Self} \cup Live /\ tun \in TunnelRecord
    BY Apart, LiveCalls DEF IInv, Reading, TypeOK
  <1>2. node = [node EXCEPT ![c] = r] /\ r \in CallRecord
    BY Zenon, <1>1, SetErrorRecord
  <1> HIDE DEF c
  <1>3. ASSUME NEW s, Later(r, s), node' = [node EXCEPT ![c] = s],
               s.state \in {r.state, "ICCN"},
               tun' \in TunnelRecord, tun.tid # 0 => tun'.tid = tun.tid
        PROVE  IInv' /\ NumbersKept
    BY Zenon, <1>1, <1>3, EndKeeps DEF c
  <1> HIDE DEF r
  <1>4. ASSUME node' = node, tun' \in TunnelRecord,
               tun.tid # 0 => tun'.tid = tun.tid
        PROVE  IInv' /\ NumbersKept
    <2>1. Later(r, r)
      BY Zenon, <1>2, LaterRecords
    <2>2. r.state \in {r.state, "ICCN"}
      OBVIOUS
    <2>3. node' = [node EXCEPT ![c] = r]
      BY Zenon, <1>2, <1>4
    <2> QED BY Zenon, <1>3, <1>4, <2>1, <2>2, <2>3
  <1>5. ASSUME node' = SetError(c), tun' \in TunnelRecord,
               tun.tid # 0 => tun'.tid = tun.tid
        PROVE  IInv' /\ NumbersKept
    <2> DEFINE s == [r EXCEPT !.needclose = TRUE, !.result = TRUE]
    <2>1. node' = [node EXCEPT ![c] = s]
      BY Zenon, <1>1, <1>5, SetErrorRecord DEF r
    <2>2. Later(r, s) /\ s.state = r.state
      BY Zenon, <1>2, LaterRecords
    <2> HIDE DEF s
    <2>3. s.state \in {r.state, "ICCN"}
      BY Zenon, <2>2
    <2> QED BY Zenon, <1>3, <1>5, <2>1, <2>2, <2>3
  <1>6. ASSUME node' = [node EXCEPT ![c].needclose = FALSE, ![c].closing = TRUE],
               tun' \in TunnelRecord, tun.tid # 0 => tun'.tid = tun.tid
        PROVE  IInv' /\ NumbersKept
    <2> DEFINE s == [r EXCEPT !.needclose = FALSE, !.closing = TRUE]
    <2>1. node' = [node EXCEPT ![c] = s]
      BY <1>6 DEF r
    <2>2. Later(r, s) /\ s.state = r.state
      BY Zenon, <1>2, LaterRecords
    <2> HIDE DEF s
    <2>3. s.state \in {r.state, "ICCN"}
      BY Zenon, <2>2
    <2> QED BY Zenon, <1>3, <1>6, <2>1, <2>2, <2>3
  <1>7. tun \in TunnelRecord /\ (tun.tid # 0 => tun.tid = tun.tid)
    BY Zenon, <1>1
  <1>8. CASE walk.msgtype \in {"SCCRQ", "SCCRP", "SCCCN"}
    <2>1. FinishSetUp(c)
      BY <1>8 DEF control_finish, c
    <2>2. ASSUME tun' = [tun EXCEPT !.state = IF walk.msgtype = "SCCRQ"
                                              THEN "SCCRP" ELSE "SCCCN"]
          PROVE  tun' \in TunnelRecord /\ tun'.tid = tun.tid
      BY <1>1, <2>2 DEF TunnelRecord
    <2>3. /\ tun' \in TunnelRecord /\ (tun.tid # 0 => tun'.tid = tun.tid)
          /\ \/ node' = node \/ node' = SetError(c)
             \/ node' = [node EXCEPT ![c].needclose = FALSE, ![c].closing = TRUE]
      BY Zenon, <1>7, <2>1, <2>2 DEF FinishSetUp
    <2> QED BY Zenon, <1>4, <1>5, <1>6, <2>3
  <1>9. CASE walk.msgtype = "StopCCN"
    <2>1. FinishStopCCN(c)
      BY <1>9 DEF control_finish, c
    <2>2. CASE UNCHANGED <<tun, node>>
      <3>1. tun' = tun /\ node' = node
        BY <2>2
      <3> QED BY Zenon, <1>4, <1>7, <3>1
    <2>3. CASE /\ tun.qtid # -1 /\ tun.tid \in {0, tun.qtid}
               /\ tun' = [tun EXCEPT !.tid = tun.qtid]
               /\ \/ node' = node
                  \/ node' = [node EXCEPT ![c].needclose = FALSE,
                                          ![c].closing = TRUE]
      <3>1. tun' \in TunnelRecord /\ (tun.tid # 0 => tun'.tid = tun.tid)
        BY <1>1, <2>3 DEF TunnelRecord
      <3> QED BY Zenon, <1>4, <1>6, <2>3, <3>1
    <2> QED BY <2>1, <2>2, <2>3 DEF FinishStopCCN
  <1>10. CASE walk.msgtype \in {"ICRP", "ICCN"}
    <2>1. FinishCall(c)
      BY <1>10 DEF control_finish, c
    <2>2. tun' = tun
      BY <2>1 DEF FinishCall
    <2>3. CASE node' = node
      BY Zenon, <1>4, <1>7, <2>2, <2>3
    <2>4. CASE node' = [node EXCEPT ![c].state = "ICCN"]
      <3> DEFINE s == [r EXCEPT !.state = "ICCN"]
      <3>1. node' = [node EXCEPT ![c] = s]
        BY <2>4 DEF r
      <3>2. Later(r, s) /\ s.state = "ICCN"
        BY Zenon, <1>2, LaterRecords
      <3> HIDE DEF s
      <3>3. s.state \in {r.state, "ICCN"}
        BY Zenon, <3>2
      <3> QED BY Zenon, <1>3, <1>7, <2>2, <3>1, <3>2, <3>3
    <2>5. CASE node' = [SetError(c) EXCEPT ![c].state = "ICCN",
                                           ![c].closing = TRUE]
      <3> DEFINE s == [r EXCEPT !.state = "ICCN", !.closing = TRUE,
                                !.needclose = TRUE, !.result = TRUE]
      <3>1. node' = [node EXCEPT ![c] = s]
        BY Zenon, <1>1, <2>5, SetErrorRecord DEF r
      <3>2. Later(r, s) /\ s.state = "ICCN"
        BY Zenon, <1>2, LaterRecords
      <3> HIDE DEF s
      <3>3. s.state \in {r.state, "ICCN"}
        BY Zenon, <3>2
      <3> QED BY Zenon, <1>3, <1>7, <2>2, <3>1, <3>2, <3>3
    <2> QED BY Zenon, <2>1, <2>3, <2>4, <2>5 DEF FinishCall
  <1>11. CASE walk.msgtype = "CDN"
    <2>1. FinishCDN(c)
      BY <1>11 DEF control_finish, c
    <2> DEFINE s == [r EXCEPT !.qcid = -1, !.needclose = FALSE, !.closing = TRUE]
               q == [r EXCEPT !.qcid = -1]
    <2>2. /\ tun' = tun
          /\ \/ node' = node
             \/ node' = [node EXCEPT ![c] = s] \/ node' = [node EXCEPT ![c] = q]
      BY <2>1 DEF FinishCDN, r
    <2>3. Later(r, s) /\ s.state = r.state /\ Later(r, q) /\ q.state = r.state
      BY Zenon, <1>2, LaterRecords
    <2> HIDE DEF s, q
    <2>4. s.state \in {r.state, "ICCN"} /\ q.state \in {r.state, "ICCN"}
      BY Zenon, <2>3
    <2> QED BY Zenon, <1>3, <1>4, <1>7, <2>2, <2>3, <2>4
  <1>12. CASE walk.msgtype \in {"none", "OCRP", "OCCN", "Hello", "SLI"}
    <2>1. tun' = tun /\ node' = node
      BY <1>12 DEF control_finish
    <2> QED BY Zenon, <1>4, <1>7, <2>1
  <1>13. CASE walk.msgtype \notin
                {"SCCRQ", "SCCRP", "SCCCN", "StopCCN", "ICRP", "ICCN", "CDN",
                 "none", "OCRP", "OCCN", "Hello", "SLI"}
    <2>1. tun' = tun /\ node' = SetError(c)
      BY <1>13 DEF control_finish, c
    <2> QED BY Zenon, <1>5, <1>7, <2>1
  <1> QED BY Zenon, <1>8, <1>9, <1>10, <1>11, <1>12, <1>13

(* ICRQ: the call at the head is answered or closed.  It is the one that   *)
(* the message made, unless the type was refused.                          *)
LEMMA ICRQKeeps ==
  ASSUME IInv, walk.c # Nobody, list' = list, walk' = Idle,
         walk.msgtype = "ICRQ", FinishICRQ
  PROVE  IInv' /\ NumbersKept
  <1> DEFINE p == Head(list)
             r == node[p]
  <1>1. /\ TypeOK /\ list # <<>> /\ p \in Live /\ p \in Calls /\ p # Self
        /\ tun' = tun /\ tun \in TunnelRecord
        /\ walk.valid => p = walk.made
    BY Apart, LiveCalls DEF IInv, Reading, FinishICRQ, TypeOK
  <1>2. r \in CallRecord
    BY Zenon, <1>1, SetErrorRecord
  <1> DEFINE s == [r EXCEPT !.state = "ICRP"]
             q == [r EXCEPT !.needclose = TRUE, !.result = TRUE, !.closing = TRUE]
             u == [r EXCEPT !.needclose = FALSE, !.closing = TRUE]
  <1>3. \/ node' = [node EXCEPT ![p] = s]
        \/ node' = [SetError(p) EXCEPT ![p].closing = TRUE]
        \/ node' = [node EXCEPT ![p] = u]
    BY DEF FinishICRQ
  <1> HIDE DEF p
  <1>4. [SetError(p) EXCEPT ![p].closing = TRUE] = [node EXCEPT ![p] = q]
    BY Zenon, <1>1, SetErrorRecord
  <1>5. /\ Later(r, s) /\ s.state # "none" /\ Later(r, q) /\ q.closing
        /\ Later(r, u) /\ u.closing
    <2>1. /\ Later(r, s) /\ s.state = "ICRP" /\ Later(r, q) /\ q.closing
          /\ Later(r, u) /\ u.closing
      BY Zenon, <1>2, LaterRecords
    <2> HIDE DEF s, q, u
    <2> QED BY <2>1
  <1> HIDE DEF r, s, q, u
  <1>6. ASSUME NEW v, Later(r, v), node' = [node EXCEPT ![p] = v],
               v.closing \/ v.state # "none"
        PROVE  IInv' /\ NumbersKept
    BY Zenon, <1>1, <1>6, EndKeeps DEF r
  <1> QED BY Zenon, <1>3, <1>4, <1>5, <1>6

(* The end of a message, however it was left. *)
LEMMA EndActionKeeps ==
  ASSUME IInv, End
  PROVE  IInv' /\ NumbersKept
  <1>1. /\ walk.c # Nobody /\ list' = list /\ TypeOK /\ walk.c \in Calls
        /\ walk.c \in {Self} \cup Live /\ tun \in TunnelRecord
        /\ walk \in WalkRecord
        /\ walk.made # Nobody => walk.made \in Live /\ walk.made \in Calls
                                 /\ walk.made # Self
    BY Apart, LiveCalls DEF End, IInv, TypeOK, Reading
  <1>2. CASE node' = Passed /\ walk' = Idle /\ tun' = tun
    <2>1. CASE walk.made = Nobody
      <3>1. node' = [node EXCEPT ![walk.c] = node[walk.c]]
            /\ node[walk.c] \in CallRecord
        BY Zenon, <1>1, <1>2, <2>1, SetErrorRecord DEF Passed
      <3>2. Later(node[walk.c], node[walk.c])
        BY Zenon, <3>1, LaterRecords
      <3>3. node[walk.c].state \in {node[walk.c].state, "ICCN"}
        OBVIOUS
      <3>4. walk.msgtype # "ICRQ" \/ ~walk.valid
        BY Zenon, <2>1 DEF IInv, Reading
      <3> QED BY Zenon, <1>1, <1>2, <3>1, <3>2, <3>3, <3>4, EndKeeps
    <2>2. CASE walk.made # Nobody
      <3> DEFINE m == walk.made
                 s == [node[m] EXCEPT !.cut = TRUE]
      <3>1. node' = [node EXCEPT ![m] = s]
        BY <1>2, <2>2 DEF Passed
      <3>2. node[m] \in CallRecord
        BY Zenon, <1>1, <2>2, SetErrorRecord
      <3>3. Later(node[m], s) /\ s.cut
        BY Zenon, <3>2, LaterRecords
      <3> HIDE DEF s
      <3> QED BY Zenon, <1>1, <1>2, <2>2, <3>1, <3>3, EndKeeps
    <2> QED BY <2>1, <2>2
  <1>3. CASE control_finish(walk.c) /\ walk' = Idle
    <2>1. CASE walk.msgtype = "ICRQ"
      <3>1. FinishICRQ
        BY <1>3, <2>1 DEF control_finish
      <3> QED BY Zenon, <1>1, <1>3, <2>1, <3>1, ICRQKeeps
    <2>2. CASE walk.msgtype # "ICRQ"
      BY Zenon, <1>1, <1>3, <2>2, FinishKeeps
    <2> QED BY <2>1, <2>2
  <1>4. CASE Fatal
    <2>1. /\ ~walk.valid /\ walk.msgtype # "none" /\ tun' = tun /\ node' = node
          /\ walk' = [walk EXCEPT !.null = TRUE]
      BY <1>4 DEF Fatal
    <2>2. walk.optional
      BY Zenon, <2>1 DEF IInv, Reading
    <2>3. /\ walk' \in WalkRecord /\ walk'.c = walk.c /\ walk'.made = walk.made
          /\ walk'.msgtype = walk.msgtype /\ walk'.valid = walk.valid
          /\ walk'.optional = walk.optional
      BY <1>1, <2>1 DEF WalkRecord
    <2>4. TypeOK'
      BY Zenon, <1>1, <2>1, <2>3 DEF TypeOK
    <2>5. Untouched
      BY Zenon, <1>1, <2>1, MarksTend, TendedUntouched
    <2>6. IInv'
      BY Zenon, <1>1, <2>2, <2>3, <2>4, <2>5, ReadOn
    <2> QED BY Zenon, <2>5, <2>6, StillListed
  <1> QED BY Zenon, <1>2, <1>3, <1>4 DEF End

-----------------------------------------------------------------------------
(* Between messages: l2tp_call. *)
LEMMA DialKeeps ==
  ASSUME IInv, Dial
  PROVE  IInv' /\ NumbersKept
  <1>1. /\ TypeOK /\ walk' = walk /\ list' = list /\ node' = node
        /\ walk.c = Nobody /\ tun.state = "none"
        /\ tun' = [tun EXCEPT !.state = "SCCRQ"]
    BY DEF IInv, Dial
  <1>2. tun' \in TunnelRecord /\ tun'.state = "SCCRQ"
    BY <1>1 DEF TypeOK, TunnelRecord
  <1>3. TypeOK' /\ Live' = Live
    BY <1>1, <1>2 DEF TypeOK, Live
  <1>4. Listed' /\ Reading'
    BY Zenon, <1>1, <1>3, IdleReading DEF IInv, Listed, Reading
  <1>5. \A p \in Live' : p = walk'.made \/ Accounted(p)'
    BY <1>1, <1>3 DEF IInv, Accounted
  <1> QED BY <1>1, <1>2, <1>3, <1>4, <1>5 DEF IInv, NumbersKept

(* lac_call. *)
LEMMA PlaceKeeps ==
  ASSUME IInv, NEW state \in {"ICRQ", "OCRQ"}, Place(state)
  PROVE  IInv' /\ NumbersKept
  <1> DEFINE f == FreeId
             r == [node[f] EXCEPT !.state = state]
  <1>1. /\ TypeOK /\ Listed /\ walk' = walk /\ tun' = tun /\ walk.c = Nobody
        /\ Live # CallIds /\ list' = Linked(f)
        /\ node' = [node EXCEPT ![f] = r]
    BY DEF IInv, Place
  <1>2. f \in CallIds /\ f \in Calls /\ f \notin Live /\ node[f] = NewCall
    BY <1>1, Fresh, Apart
  <1>3. node \in [Calls -> CallRecord] /\ node[f] \in CallRecord
    BY <1>1, <1>2 DEF TypeOK
  <1>4. r \in CallRecord /\ r.state = state
    BY <1>3 DEF CallRecord
  <1> HIDE DEF f, r
  <1>5. /\ node' \in [Calls -> CallRecord] /\ node'[f] = r
        /\ \A x \in Calls : x # f => node'[x] = node[x]
    BY <1>1, <1>2, <1>3, <1>4
  <1>6. /\ list' \in Seq(CallIds) /\ Live' = Live \cup {f}
        /\ \A i, j \in DOMAIN list' : list'[i] = list'[j] => i = j
    BY <1>1, <1>2, LinkedSound
  <1>7. TypeOK'
    BY <1>1, <1>5, <1>6 DEF TypeOK
  <1>8. Listed'
    BY <1>1, <1>2, <1>5, <1>6, Apart DEF Listed
  <1>9. Reading'
    BY Zenon, <1>1, IdleReading DEF IInv, Reading
  <1>10. ASSUME NEW p \in Live' PROVE Accounted(p)'
    <2>1. CASE p = f
      BY <1>4, <1>5, <2>1 DEF Accounted
    <2>2. CASE p \in Live /\ p # f
      <3>1. Accounted(p) /\ p \in Calls
        BY <1>1, <2>2, Apart, LiveCalls DEF IInv, Reading, Idle
      <3> QED BY <1>2, <1>5, <2>2, <3>1, Apart DEF Accounted
    <2> QED BY <1>6, <2>1, <2>2
  <1>11. NumbersKept
    <2>1. node[f].state = "none"
      BY <1>2 DEF NewCall
    <2> QED BY <1>1, <1>5, <2>1, Apart DEF NumbersKept
  <1> QED BY <1>7, <1>8, <1>9, <1>10, <1>11 DEF IInv

(* build_fdset and call_close on a call. *)
LEMMA CloseCallKeeps ==
  ASSUME IInv, NEW p \in Live, CloseCall(p)
  PROVE  IInv' /\ NumbersKept
  <1>1. /\ TypeOK /\ Listed /\ walk' = walk /\ tun' = tun /\ walk.c = Nobody
        /\ p \in CallIds /\ p \in Calls /\ p # Self
        /\ node \in [Calls -> CallRecord] /\ node[p] \in CallRecord
    BY Apart, LiveCalls DEF IInv, CloseCall, TypeOK
  <1>2. ASSUME NEW x \in Live PROVE Accounted(x) /\ x \in Calls
    BY <1>1, <1>2, Apart, LiveCalls DEF IInv, Reading, Idle
  <1>3. Reading'
    BY Zenon, <1>1, IdleReading DEF IInv, Reading
  <1>4. CASE /\ node' = [node EXCEPT ![p].closing = TRUE, ![p].result = TRUE]
             /\ UNCHANGED list
    <2> DEFINE r == [node[p] EXCEPT !.closing = TRUE, !.result = TRUE]
    <2>1. /\ r \in CallRecord /\ r.closing /\ r.state = node[p].state
          /\ r.cid = node[p].cid
      BY <1>1 DEF CallRecord
    <2>2. node' = [node EXCEPT ![p] = r]
      BY <1>4
    <2> HIDE DEF r
    <2>3. /\ node' \in [Calls -> CallRecord] /\ node'[p] = r
          /\ \A x \in Calls : x # p => node'[x] = node[x]
      BY <1>1, <2>1, <2>2
    <2>4. TypeOK' /\ Live' = Live
      BY <1>1, <1>4, <2>3 DEF TypeOK, Live
    <2>5. Listed'
      BY <1>1, <1>4, <2>3, <2>4, Apart DEF Listed
    <2>6. ASSUME NEW x \in Live PROVE Accounted(x)'
      BY <1>1, <1>2, <2>1, <2>3, Apart DEF Accounted
    <2>7. NumbersKept
      BY <1>1, <2>1, <2>3, Apart DEF NumbersKept
    <2> QED BY <1>3, <2>4, <2>5, <2>6, <2>7 DEF IInv
  <1>5. CASE DestroyCall(p)
    <2>1. PICK i \in DOMAIN list : list[i] = p /\ list' = Unlinked(i)
      BY <1>5 DEF DestroyCall
    <2>2. node' = [node EXCEPT ![p] = NewCall]
      BY <1>5 DEF DestroyCall
    <2>3. NewCall \in CallRecord /\ NewCall.state = "none"
      BY DEF NewCall, CallRecord
    <2>4. /\ list' \in Seq(CallIds) /\ Live' = Live \ {p}
          /\ \A k, j \in DOMAIN list' : list'[k] = list'[j] => k = j
      BY <1>1, <2>1, UnlinkedSound
    <2>5. /\ node' \in [Calls -> CallRecord] /\ node'[p] = NewCall
          /\ \A x \in Calls : x # p => node'[x] = node[x]
      BY <1>1, <2>2, <2>3
    <2>6. TypeOK'
      BY <1>1, <2>4, <2>5 DEF TypeOK
    <2>7. Listed'
      BY <1>1, <2>4, <2>5, Apart DEF Listed
    <2>8. ASSUME NEW x \in Live' PROVE Accounted(x)'
      BY <1>1, <1>2, <2>4, <2>5, Apart DEF Accounted
    <2>9. NumbersKept
      BY <1>1, <2>3, <2>5, Apart DEF NumbersKept
    <2> QED BY <1>3, <2>6, <2>7, <2>8, <2>9 DEF IInv
  <1> QED BY <1>4, <1>5 DEF CloseCall

(* The same for the tunnel, with which its calls go. *)
LEMMA CloseTunnelKeeps ==
  ASSUME IInv, CloseTunnel
  PROVE  IInv' /\ NumbersKept
  <1>1. /\ TypeOK /\ walk' = walk /\ list' = <<>> /\ walk.c = Nobody
        /\ node \in [Calls -> CallRecord] /\ node[Self] \in CallRecord
        /\ DOMAIN node = Calls /\ tun \in TunnelRecord
        /\ node[Self].state \in {"none", "ICCN"}
    BY Apart DEF IInv, CloseTunnel, TypeOK, Listed
  <1>2. Live' = {}
    BY <1>1 DEF Live
  <1>3. NewCall \in CallRecord /\ NewCall.state = "none"
    BY DEF NewCall, CallRecord
  <1>4. NewTunnel \in TunnelRecord /\ NewTunnel.state = "none"
    BY DEF NewTunnel, TunnelRecord
  <1> DEFINE r == [node[Self] EXCEPT !.closing = TRUE, !.result = TRUE]
  <1>5. r \in CallRecord /\ r.state \in {"none", "ICCN"}
    BY <1>1 DEF CallRecord
  <1>6. /\ \/ node' = [x \in DOMAIN node |-> IF x = Self THEN r ELSE NewCall]
              /\ tun' = tun
           \/ node' = [x \in DOMAIN node |-> NewCall] /\ tun' = NewTunnel
    BY DEF CloseTunnel
  <1> HIDE DEF r
  <1>7. /\ node' \in [Calls -> CallRecord]
        /\ node'[Self].state \in {"none", "ICCN"}
        /\ \A x \in CallIds : node'[x] = NewCall
        /\ tun' = tun \/ tun' = NewTunnel
    BY <1>1, <1>3, <1>5, <1>6, Apart
  <1>8. TypeOK'
    BY <1>1, <1>4, <1>7 DEF TypeOK
  <1>9. Listed'
    BY <1>1, <1>2, <1>4, <1>7 DEF Listed
  <1>10. Reading'
    BY Zenon, <1>1, IdleReading DEF IInv, Reading
  <1>11. NumbersKept
    BY <1>1, <1>3, <1>4, <1>7, Apart DEF NumbersKept
  <1> QED BY <1>2, <1>8, <1>9, <1>10, <1>11 DEF IInv

(* The invariant holds at the start. *)
LEMMA InitIInv == Init => IInv
  <1> SUFFICES ASSUME Init PROVE IInv
    OBVIOUS
  <1>1. NewCall \in CallRecord /\ NewCall.state = "none"
    BY DEF NewCall, CallRecord
  <1>2. NewTunnel \in TunnelRecord /\ NewTunnel.state = "none"
    BY DEF NewTunnel, TunnelRecord
  <1>3. /\ list = <<>> /\ walk = Idle /\ tun = NewTunnel /\ Live = {}
        /\ node \in [Calls -> CallRecord]
        /\ \A x \in Calls : node[x] = NewCall
    BY <1>1 DEF Init, Live, Calls
  <1>4. TypeOK
    BY <1>2, <1>3, IdleType DEF TypeOK
  <1>5. Listed
    BY <1>1, <1>2, <1>3, Apart DEF Listed
  <1>6. Reading
    BY <1>3, Apart DEF Reading, Idle
  <1> QED BY <1>3, <1>4, <1>5, <1>6 DEF IInv

(* Every step keeps the invariant and the numbers, and a round of the loop *)
(* shortens the message.                                                   *)
LEMMA NextIInv ==
  ASSUME IInv, [Next]_vars
  PROVE  /\ IInv' /\ [NumbersKept]_vars
         /\ [walk.c # Nobody /\ walk.len > 0 /\ ~walk.broken =>
              walk'.c = Nobody \/ walk'.broken \/ walk'.len < walk.len]_vars
  <1> DEFINE Shorter == walk.c # Nobody /\ walk.len > 0 /\ ~walk.broken =>
                          walk'.c = Nobody \/ walk'.broken \/ walk'.len < walk.len
  <1>1. ASSUME UNCHANGED vars PROVE IInv'
    <2>1. tun' = tun /\ list' = list /\ node' = node /\ walk' = walk
      BY <1>1 DEF vars
    <2>2. Live' = Live
      BY Zenon, <2>1 DEF Live
    <2>3. TypeOK' /\ Listed'
      BY Zenon, <2>1, <2>2 DEF IInv, TypeOK, Listed
    <2>4. Reading'
      BY Zenon, <2>1, <2>2 DEF IInv, Reading, Appropriate
    <2>5. \A p \in Live' : p = walk'.made \/ Accounted(p)'
      BY Zenon, <2>1, <2>2 DEF IInv, Accounted
    <2> QED BY Zenon, <2>3, <2>4, <2>5 DEF IInv
  <1>2. ASSUME Next PROVE IInv' /\ NumbersKept
    BY <1>2, BeginKeeps, StepKeeps, EndActionKeeps, DialKeeps, PlaceKeeps,
       CloseCallKeeps, CloseTunnelKeeps DEF Next
  <1>3. ASSUME Next PROVE Shorter
    <2>1. CASE Step
      BY Zenon, <2>1, StepKeeps
    <2>2. CASE End
      <3>1. walk.len \in Int
        BY DEF IInv, TypeOK, WalkRecord
      <3>2. walk.len <= 0 \/ walk.broken
        BY <2>2 DEF End
      <3> QED BY <3>1, <3>2
    <2>3. CASE \/ \E c \in {Self} \cup Live, len \in MsgLens : Begin(c, len)
               \/ Dial
               \/ \E state \in {"ICRQ", "OCRQ"} : Place(state)
               \/ \E p \in Live : CloseCall(p)
               \/ CloseTunnel
      <3>1. walk.c = Nobody
        BY Zenon, <2>3 DEF Begin, Looped, Dial, Place, CloseCall, CloseTunnel
      <3> QED BY Zenon, <3>1
    <2> QED BY Zenon, <1>3, <2>1, <2>2, <2>3 DEF Next
  <1> HIDE DEF Shorter
  <1> QED BY Zenon, <1>1, <1>2, <1>3 DEF Shorter

(* The inductive invariant: the soundness of the list, what has been found *)
(* of the message being read whether its types had the M bit or not, and   *)
(* that a call which was neither answered nor closed is the one that the   *)
(* message being read has made.                                            *)
THEOREM Invariance == Spec => []IInv
  <1>1. IInv /\ [Next]_vars => IInv'
    BY NextIInv
  <1> QED BY InitIInv, <1>1, PTL DEF Spec

(* control_finish acts only on a message that message_type_avp found       *)
(* appropriate, and that is so still, if its types had the M bit.          *)
THEOREM ActedIfValid == Spec => []ActedOnlyIfValid
  <1>1. IInv => ActedOnlyIfValid
    BY Zenon DEF IInv, Reading, ActedOnlyIfValid
  <1> QED BY Invariance, <1>1, PTL

(* A pointer that is NULL is followed only in a message one of whose types *)
(* had no M bit.                                                           *)
THEOREM HeadThere == Spec => []HeadExists
  <1>1. IInv => HeadExists
    BY Zenon DEF IInv, Reading, HeadExists
  <1> QED BY Invariance, <1>1, PTL

(* The list of calls stays sound while messages are read, with the call    *)
(* that an ICRQ made at its head.                                          *)
THEOREM ListStaysSound == Spec => []ListSound
  <1>1. IInv => ListSound
    <2> SUFFICES ASSUME IInv PROVE ListSound
      OBVIOUS
    <2>1. list # <<>> => Head(list) = list[1]
      BY Zenon, LiveCalls DEF IInv
    <2>2. "ICRQ" # "none"
      OBVIOUS
    <2> QED BY Zenon, <2>1, <2>2 DEF IInv, Listed, Reading, ListSound
  <1> QED BY Invariance, <1>1, PTL

(* A call that an ICRQ made is answered or on its way out, but after two   *)
(* paths of handle_avps.                                                   *)
THEOREM NoneForgotten == Spec => []NoCallForgotten
  <1>1. IInv => NoCallForgotten
    BY Apart, LiveCalls DEF IInv, Reading, Idle, Accounted, NoCallForgotten
  <1> QED BY Invariance, <1>1, PTL

(* Once a tunnel or a call is up, the peer's number for it stays, in       *)
(* messages whose types have the M bit.                                    *)
THEOREM NumbersStay == Spec => NumbersStable
  <1>1. IInv /\ [Next]_vars => [NumbersKept]_vars
    BY NextIInv
  <1> QED BY Invariance, <1>1, PTL DEF Spec, NumbersStable

(* Every round of the loop ends it or leaves less of the message to read.  *)
THEOREM RoundsShorten == Spec => RoundShortens
  <1>1. IInv /\ [Next]_vars
          => [walk.c # Nobody /\ walk.len > 0 /\ ~walk.broken =>
                walk'.c = Nobody \/ walk'.broken \/ walk'.len < walk.len]_vars
    BY NextIInv
  <1> QED BY Invariance, <1>1, PTL DEF Spec, RoundShortens
=============================================================================
