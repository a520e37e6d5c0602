--------------------------- MODULE AddrPoolProofs ---------------------------
(***************************************************************************)
(* Proofs about AddrPool, for any sections, ranges, calls and peers.  The  *)
(* remote addresses in use are exactly those of the calls, and no two      *)
(* calls share one: each fact needs the other, for a call that ends gives  *)
(* back its address for everybody.  The section's local address, which it  *)
(* gives back too, is always one that a local range names.                 *)
(***************************************************************************)
EXTENDS AddrPool, WellFoundedInduction, TLAPS

States == {"none", "ICRP", "ICCN", "full", "repeated"}

Call == [state : States, lns : Sections, peer : Peers \cup {0},
         addr : RemoteAddrs \cup {NoAddr}]

Conf == [range : Seq(Rules(RemoteAddrs)), lacs : Seq(Rules(Peers)),
         localrange : Seq(Rules(LocalAddrs))]

(* Before the daemon runs there is no call and no address in use; then the *)
(* configuration stays.                                                    *)
Idle ==
  /\ \A c \in Calls : /\ ~running => calls[c].state = "none"
                      /\ calls[c].state = "none" => calls[c] = NoCall
  /\ ~running => used = {} /\ \A l \in Sections : localaddr[l] = NoAddr

LocalsRanged == \A l \in Sections : localaddr[l] \in LocalRanged \cup {NoAddr}

IInv ==
  /\ running \in BOOLEAN /\ access \in BOOLEAN /\ assign \subseteq Sections
  /\ lnslist \in Seq(Lns) /\ deflns \in BOOLEAN
  /\ conf \in [Sections -> Conf]
  /\ calls \in [Calls -> Call]
  /\ used \subseteq RemoteAddrs \cup LocalAddrs
  /\ localaddr \in [Sections -> LocalAddrs \cup {NoAddr}]
  /\ Idle
  /\ LocalsRanged
  /\ RemoteUnique
  /\ RemoteReserved
  /\ FromRange
  /\ AccessRespected

(* The inductive invariant implies the types. *)
LEMMA Typed == IInv => TypeOK
  BY DEF IInv, TypeOK, Conf, Call, States

-----------------------------------------------------------------------------
(* get_addr never gives out an address in use, nor one that the ranges of  *)
(* the section do not assign.                                              *)
LEMMA FirstFreeFacts ==
  ASSUME NEW addrs, addrs \subseteq Nat, NEW rs \in Seq(Rules(addrs)),
         NEW busy, NEW a \in Nat, FirstFree(rs, busy, a)
  PROVE  a \notin busy /\ Assignable(rs, a)
  <1>1. PICK i \in DOMAIN rs : a \in Free(rs, i, busy)
    BY DEF FirstFree
  <1>2. PICK j \in DOMAIN rs : Decides(rs, i, a, j) /\ rs[j].sense = "allow"
    BY <1>1 DEF Free
  <1>3. DOMAIN rs = 1 .. Len(rs) /\ Len(rs) \in Nat
    OBVIOUS
  <1>4. InRange(a, rs[j]) /\ \A k \in j + 1 .. Len(rs) : ~InRange(a, rs[k])
    BY <1>2 DEF Decides
  <1>5. \A k \in DOMAIN rs : k > j => k \in j + 1 .. Len(rs)
    BY <1>2, <1>3
  <1>6. Assignable(rs, a)
    BY <1>2, <1>4, <1>5 DEF Assignable
  <1>7. a \notin busy
    BY <1>1 DEF Free
  <1> QED BY <1>6, <1>7

(* get_addr finds nothing only when all that may be assigned is in use. *)
LEMMA FullFacts ==
  ASSUME NEW addrs, addrs \subseteq Nat, NEW rs \in Seq(Rules(addrs)),
         NEW busy, Full(rs, busy), NEW a \in Nat, Assignable(rs, a)
  PROVE  a \in busy
  <1>1. PICK j \in DOMAIN rs :
          /\ InRange(a, rs[j]) /\ rs[j].sense = "allow"
          /\ \A k \in DOMAIN rs : k > j => ~InRange(a, rs[k])
    BY DEF Assignable
  <1>2. DOMAIN rs = 1 .. Len(rs) /\ Len(rs) \in Nat /\ j \in 1 .. Len(rs)
        /\ rs[j] \in Rules(addrs)
    OBVIOUS
  <1>3. a \in rs[j].start .. rs[j].end
    BY <1>1, <1>2 DEF InRange, Rules
  <1>4. \A k \in j + 1 .. Len(rs) : k \in DOMAIN rs /\ k > j
    BY <1>2
  <1>5. Decides(rs, j, a, j)
    BY <1>1, <1>2, <1>4 DEF Decides
  <1>6. Free(rs, j, busy) = {}
    BY <1>1 DEF Full
  <1> QED BY <1>1, <1>3, <1>5, <1>6 DEF Free

(* A nonempty set of natural numbers has a least element. *)
LEMMA LeastNat ==
  ASSUME NEW S \in SUBSET Nat, S # {}
  PROVE  \E m \in S : \A k \in S : m <= k
  <1> DEFINE R == {ss \in Nat \X Nat : ss[1] < ss[2]}
  <1>1. IsWellFoundedOn(R, Nat)
    BY NatLessThanWellFounded DEF OpToRel
  <1>2. PICK x \in S : \A y \in S : ~ (<<y, x>> \in R)
    BY Zenon, <1>1, WFMin
  <1>3. ASSUME NEW y \in S, y < x
        PROVE  FALSE
    <2>1. <<y, x>> \in Nat \X Nat /\ <<y, x>>[1] = y /\ <<y, x>>[2] = x
      OBVIOUS
    <2> QED BY <1>2, <1>3, <2>1
  <1> QED BY <1>3

GoAlike(f, g, n) ==
  f[0] = g[0] /\ \A i \in 1 .. n : f[i - 1] = g[i - 1] => f[i] = g[i]

Alike(f, g, n) == \A i \in 0 .. n : f[i] = g[i]

(* Two tables that begin alike and go on alike are alike. *)
LEMMA SameTable ==
  ASSUME NEW n \in Nat, NEW f, NEW g, GoAlike(f, g, n)
  PROVE  Alike(f, g, n)
  <1> DEFINE Bad == {i \in 0 .. n : f[i] # g[i]}
  <1> USE DEF GoAlike, Alike
  <1> SUFFICES ASSUME Bad # {} PROVE FALSE
    OBVIOUS
  <1>1. PICK m \in Bad : \A k \in Bad : m <= k
    <2>1. Bad \in SUBSET Nat
      OBVIOUS
    <2> HIDE DEF Bad
    <2> QED BY <2>1, LeastNat
  <1>2. m \in 1 .. n /\ m - 1 \in 0 .. n /\ ~(m <= m - 1)
    BY <1>1
  <1>3. f[m - 1] = g[m - 1]
    BY <1>1, <1>2
  <1> QED BY <1>1, <1>2, <1>3

(* The inner loop of get_lns leaves what the last rule about the peer      *)
(* says.                                                                   *)
LEMMA SenseFacts ==
  ASSUME NEW rs \in Seq(Rules(Peers)), NEW p
  PROVE  Sense(rs, p, "deny") = IF Assignable(rs, p) THEN "allow" ELSE "deny"
  <1> DEFINE n == Len(rs)
             Upto(i) == \E j \in 1 .. i :
                          /\ InRange(p, rs[j]) /\ rs[j].sense = "allow"
                          /\ \A k \in j + 1 .. i : ~InRange(p, rs[k])
             g == [i \in 0 .. n |-> IF Upto(i) THEN "allow" ELSE "deny"]
             f == CHOOSE f : f = [i \in 0 .. Len(rs) |->
                    IF i = 0 THEN "deny"
                    ELSE IF InRange(p, rs[i]) THEN rs[i].sense ELSE f[i - 1]]
  <1>1. Sense(rs, p, "deny") = f[Len(rs)]
    BY Zenon DEF Sense
  <1>2. n \in Nat /\ DOMAIN rs = 1 .. n
        /\ \A i \in 1 .. n : rs[i].sense \in {"allow", "deny"}
    BY DEF Rules
  <1>3. ~Upto(0)
    OBVIOUS
  <1>4. ASSUME NEW i \in 1 .. n
        PROVE  Upto(i) <=> IF InRange(p, rs[i]) THEN rs[i].sense = "allow"
                           ELSE Upto(i - 1)
    <2>1. CASE InRange(p, rs[i])
      <3>1. ASSUME NEW j \in 1 .. i, j # i
            PROVE  i \in j + 1 .. i
        BY <1>2, <3>1
      <3>2. i \in 1 .. i /\ i + 1 .. i = {}
        BY <1>2
      <3> QED BY <2>1, <3>1, <3>2
    <2>2. CASE ~InRange(p, rs[i])
      <3>1. 1 .. i = (1 .. i - 1) \cup {i}
        BY <1>2
      <3>2. ASSUME NEW j \in 1 .. i - 1
            PROVE  j + 1 .. i = (j + 1 .. i - 1) \cup {i}
        BY <1>2
      <3> QED BY <2>2, <3>1, <3>2
    <2> QED BY <2>1, <2>2
  <1> HIDE DEF Upto
  <1>5. g = [i \in 0 .. Len(rs) |->
               IF i = 0 THEN "deny"
               ELSE IF InRange(p, rs[i]) THEN rs[i].sense ELSE g[i - 1]]
    <2>1. ASSUME NEW i \in 0 .. n
          PROVE  g[i] = IF i = 0 THEN "deny"
                        ELSE IF InRange(p, rs[i]) THEN rs[i].sense ELSE g[i - 1]
      <3>1. CASE i = 0
        BY <1>2, <1>3, <3>1
      <3>2. CASE i # 0
        <4>1. i \in 1 .. n /\ i - 1 \in 0 .. n
          BY <1>2, <3>2
        <4> QED BY <1>2, <1>4, <3>2, <4>1
      <3> QED BY <3>1, <3>2
    <2>2. g = [i \in 0 .. Len(rs) |-> g[i]]
      OBVIOUS
    <2> HIDE DEF g
    <2> QED BY Zenon, <2>1, <2>2
  <1> HIDE DEF g
  <1>6. f = [i \in 0 .. Len(rs) |->
               IF i = 0 THEN "deny"
               ELSE IF InRange(p, rs[i]) THEN rs[i].sense ELSE f[i - 1]]
    BY Zenon, <1>5
  <1> HIDE DEF f
  <1>7. GoAlike(f, g, n)
    <2>1. /\ 0 \in 0 .. n
          /\ \A i \in 1 .. n : i # 0 /\ i \in 0 .. n
      BY <1>2
    <2>2. ASSUME NEW h, h = [i \in 0 .. Len(rs) |->
                               IF i = 0 THEN "deny"
                               ELSE IF InRange(p, rs[i]) THEN rs[i].sense
                               ELSE h[i - 1]]
          PROVE  /\ h[0] = "deny"
                 /\ \A i \in 1 .. n : h[i] = IF InRange(p, rs[i]) THEN rs[i].sense
                                             ELSE h[i - 1]
      BY Zenon, <2>1, <2>2
    <2> QED BY Zenon, <1>5, <1>6, <2>2 DEF GoAlike
  <1>8. f[n] = g[n]
    <2>1. Alike(f, g, n)
      BY Zenon, <1>2, <1>7, SameTable
    <2> QED BY <1>2, <2>1 DEF Alike
  <1>9. Upto(n) <=> Assignable(rs, p)
    <2>1. \A j \in 1 .. n : \A k \in 1 .. n : k > j <=> k \in j + 1 .. n
      BY <1>2
    <2>2. \A j \in 1 .. n : \A k \in j + 1 .. n : k \in 1 .. n
      BY <1>2
    <2> QED BY Zenon, <1>2, <2>1, <2>2 DEF Assignable, Upto
  <1>10. g[n] = IF Upto(n) THEN "allow" ELSE "deny"
    BY <1>2 DEF g
  <1> QED BY Zenon, <1>1, <1>8, <1>9, <1>10

(* The outer loop: allow is set once a section has a rule that allows the  *)
(* peer and no later one about it.                                         *)
LEMMA AllowFacts ==
  ASSUME NEW list, NEW n \in Nat, n = Len(list), NEW p,
         \A i \in 1 .. n : conf[list[i]].lacs \in Seq(Rules(Peers))
  PROVE  \A i \in 0 .. n :
           Allow(list, p)[i] = IF \E m \in 1 .. i : Assignable(conf[list[m]].lacs, p)
                               THEN "allow" ELSE "deny"
  <1> DEFINE Adm(i) == Assignable(conf[list[i]].lacs, p)
             Upto(i) == \E m \in 1 .. i : Adm(m)
             Body(h, i) == IF i = 0 THEN "deny"
                           ELSE IF h[i - 1] = "allow" THEN "allow"
                           ELSE Sense(conf[list[i]].lacs, p, h[i - 1])
             g == [i \in 0 .. n |-> IF Upto(i) THEN "allow" ELSE "deny"]
             f == CHOOSE f : f = [i \in 0 .. n |-> Body(f, i)]
  <1>1. Allow(list, p) = f
    BY Zenon DEF Allow
  <1>2. ~Upto(0)
    OBVIOUS
  <1>3. ASSUME NEW i \in 1 .. n
        PROVE  Upto(i) <=> Upto(i - 1) \/ Adm(i)
    <2>1. 1 .. i = (1 .. i - 1) \cup {i}
      OBVIOUS
    <2> HIDE DEF Adm
    <2> QED BY Zenon, <2>1
  <1>4. \A i \in 1 .. n :
          Sense(conf[list[i]].lacs, p, "deny") = IF Adm(i) THEN "allow" ELSE "deny"
    BY Zenon, SenseFacts
  <1> HIDE DEF Upto, Adm
  <1>5. ASSUME NEW i \in 0 .. n
        PROVE  g[i] = Body(g, i)
    <2>1. CASE i = 0
      BY <1>2, <2>1
    <2>2. CASE i # 0
      <3>1. i \in 1 .. n /\ i - 1 \in 0 .. n
        BY <2>2
      <3>2. /\ g[i] = IF Upto(i) THEN "allow" ELSE "deny"
            /\ g[i - 1] = IF Upto(i - 1) THEN "allow" ELSE "deny"
        BY <3>1
      <3>3. Upto(i) <=> Upto(i - 1) \/ Adm(i)
        BY <1>3, <3>1
      <3>4. Sense(conf[list[i]].lacs, p, "deny") = IF Adm(i) THEN "allow" ELSE "deny"
        BY <1>4, <3>1
      <3> HIDE DEF g
      <3>5. CASE Upto(i - 1)
        BY Zenon, <2>2, <3>2, <3>3, <3>5
      <3>6. CASE ~Upto(i - 1)
        <4>1. g[i - 1] = "deny" /\ g[i - 1] # "allow"
          BY <3>2, <3>6
        <4> QED BY Zenon, <2>2, <3>2, <3>3, <3>4, <3>6, <4>1
      <3> QED BY Zenon, <3>5, <3>6
    <2> QED BY <2>1, <2>2
  <1>6. g = [i \in 0 .. n |-> Body(g, i)]
    <2>1. g = [i \in 0 .. n |-> g[i]]
      OBVIOUS
    <2> HIDE DEF g, Body
    <2> QED BY Zenon, <1>5, <2>1
  <1>7. f = [i \in 0 .. n |-> Body(f, i)]
    <2> HIDE DEF g
    <2> QED BY Zenon, <1>6
  <1>8. ASSUME NEW i \in 0 .. n
        PROVE  f[i] = Body(f, i)
    <2> HIDE DEF f, Body
    <2> QED BY Zenon, <1>7
  <1>9. 0 \in 0 .. n /\ \A i \in 1 .. n : i \in 0 .. n /\ i # 0
    OBVIOUS
  <1>10. GoAlike(f, g, n)
    <2> HIDE DEF f, g
    <2>1. f[0] = g[0]
      BY Zenon, <1>5, <1>8, <1>9
    <2>2. ASSUME NEW i \in 1 .. n, f[i - 1] = g[i - 1]
          PROVE  f[i] = g[i]
      <3>1. f[i] = Body(f, i) /\ g[i] = Body(g, i) /\ i # 0
        BY Zenon, <1>5, <1>8, <1>9
      <3> QED BY Zenon, <2>2, <3>1
    <2> QED BY Zenon, <2>1, <2>2 DEF GoAlike
  <1> HIDE DEF f
  <1>11. \A i \in 0 .. n : f[i] = g[i]
    <2> HIDE DEF g
    <2>1. Alike(f, g, n)
      BY Zenon, <1>10, SameTable
    <2> QED BY Zenon, <2>1 DEF Alike
  <1> QED BY Zenon, <1>1, <1>11 DEF Upto, Adm

(* get_lns gives the section the peer is entitled to. *)
LEMMA GetLnsFacts ==
  ASSUME IInv, NEW l \in Sections, NEW p \in Peers, GetLns(p, l)
  PROVE  Entitled(l, p)
  <1> DEFINE list == Asked
             n == Len(list)
             a == Allow(list, p)
             Adm(i) == Assignable(conf[list[i]].lacs, p)
  <1>1. /\ list \in Seq(Sections) /\ n \in Nat /\ DOMAIN list = 1 .. n
        /\ \A i \in 1 .. n : list[i] \in Sections
    <2>1. lnslist \in Seq(Lns) /\ Default \in Sections
      BY DEF IInv, Sections
    <2>2. lnslist \in Seq(Sections)
      BY <2>1 DEF Sections
    <2>3. list \in Seq(Sections)
      BY <2>1, <2>2 DEF Asked
    <2> HIDE DEF list
    <2> QED BY <2>3
  <1>2. \A i \in 1 .. n : conf[list[i]].lacs \in Seq(Rules(Peers))
    <2> HIDE DEF list, n
    <2> QED BY <1>1 DEF IInv, Conf
  <1>3. \A i \in 0 .. n : a[i] = IF \E m \in 1 .. i : Adm(m) THEN "allow" ELSE "deny"
    <2> HIDE DEF list
    <2> QED BY Zenon, <1>1, <1>2, AllowFacts
  <1>4. CASE \E i \in DOMAIN list :
               /\ a[i - 1] # "allow" /\ a[i] = "allow" /\ l = list[i]
    <2>1. PICK i \in 1 .. n : a[i - 1] # "allow" /\ a[i] = "allow" /\ l = list[i]
      BY <1>1, <1>4
    <2>2. i \in 0 .. n /\ i - 1 \in 0 .. n
      BY <1>1
    <2>3. (\A m \in 1 .. i - 1 : ~Adm(m)) /\ \E m \in 1 .. i : Adm(m)
      <3> HIDE DEF a, Adm, list, n
      <3>1. "allow" # "deny"
        OBVIOUS
      <3> QED BY Zenon, <1>3, <2>1, <2>2, <3>1
    <2>4. Adm(i)
      <3>1. 1 .. i = (1 .. i - 1) \cup {i}
        BY <1>1
      <3> HIDE DEF Adm
      <3> QED BY Zenon, <2>3, <3>1
    <2> QED BY Zenon, <1>1, <2>1, <2>3, <2>4 DEF Entitled
  <1>5. CASE a[n] # "allow" /\ ~access /\ l = Default
    <2>1. n \in 0 .. n
      BY <1>1
    <2>2. \A m \in 1 .. n : ~Adm(m)
      <3> HIDE DEF a, Adm, list, n
      <3> QED BY Zenon, <1>3, <1>5, <2>1
    <2> QED BY Zenon, <1>1, <1>5, <2>2 DEF Entitled
  <1> QED BY Zenon, <1>4, <1>5 DEF GetLns

-----------------------------------------------------------------------------
(* Who may have which section depends on the configuration alone.          *)
LEMMA SameEntitled ==
  ASSUME lnslist' = lnslist, deflns' = deflns, access' = access, conf' = conf
  PROVE  \A l, q : Entitled(l, q)' <=> Entitled(l, q)
  <1> TAKE l, q
  <1>1. Asked' = Asked
    BY Zenon DEF Asked
  <1>2. ~access' <=> ~access
    BY Zenon
  <1> QED BY Zenon, <1>1, <1>2 DEF Entitled

(* A step that gives call c the record n, and leaves the others and the    *)
(* configuration alone.                                                    *)
LEMMA CallStep ==
  ASSUME IInv, NEW c \in Calls, NEW n \in Call,
         calls' = [calls EXCEPT ![c] = n],
         running' = running, config' = config,
         ~running => n.state = "none" /\ used' = used /\ localaddr' = localaddr,
         n.state = "none" => n = NoCall,
         used' \subseteq RemoteAddrs \cup LocalAddrs,
         localaddr' \in [Sections -> LocalAddrs \cup {NoAddr}],
         \A l \in Sections : localaddr'[l] \in LocalRanged \cup {NoAddr},
         used' \ LocalRanged
           = ((used \ LocalRanged) \ {calls[c].addr})
             \cup ({n.addr} \ (LocalRanged \cup {NoAddr})),
         \/ n.addr \in LocalRanged \cup {NoAddr, calls[c].addr}
         \/ n.addr \notin used,
         n.addr # NoAddr => Assignable(conf[n.lns].range, n.addr),
         n.state # "none" => Entitled(n.lns, n.peer)
  PROVE  IInv'
  <1>0. /\ lnslist' = lnslist /\ deflns' = deflns /\ access' = access
        /\ assign' = assign /\ conf' = conf
    BY Zenon DEF config
  <1> DEFINE L == LocalRanged \cup {NoAddr}
  <1>1. /\ calls \in [Calls -> Call] /\ RemoteUnique /\ RemoteReserved
        /\ FromRange /\ AccessRespected /\ Idle /\ access' \in BOOLEAN
        /\ assign' \subseteq Sections /\ lnslist' \in Seq(Lns)
        /\ deflns' \in BOOLEAN
    BY <1>0 DEF IInv
  <1>2. /\ calls' \in [Calls -> Call]
        /\ calls'[c] = n
        /\ \A d \in Calls : d # c => calls'[d] = calls[d]
    BY <1>1
  <1>3. LocalRanged' = LocalRanged
    BY Zenon, <1>0 DEF LocalRanged
  <1>4. \A l, q : Entitled(l, q)' <=> Entitled(l, q)
    BY Zenon, <1>0, SameEntitled
  <1>5. used \ LocalRanged = {calls[d].addr : d \in Calls} \ L
    BY <1>1 DEF RemoteReserved
  <1>6. \A d \in Calls : d # c /\ calls[d].addr \notin L => calls[d].addr # n.addr
    <2> SUFFICES ASSUME NEW d \in Calls, d # c, calls[d].addr \notin L,
                        calls[d].addr = n.addr
                 PROVE  FALSE
      OBVIOUS
    <2>1. calls[d].addr \in used
      BY <1>5
    <2> QED BY <1>1, <2>1 DEF RemoteUnique
  <1>7. RemoteUnique'
    BY <1>1, <1>2, <1>3, <1>6 DEF RemoteUnique
  <1>8. RemoteReserved'
    <2>1. \A d \in Calls : d # c /\ calls[d].addr \notin L =>
            calls[d].addr # calls[c].addr
      BY <1>1 DEF RemoteUnique
    <2>2. ASSUME NEW x \in used' \ LocalRanged
          PROVE  \E d \in Calls : x = calls'[d].addr /\ x \notin L
      <3>1. CASE x = n.addr /\ x \notin L
        BY <1>2, <3>1
      <3>2. CASE x \in used \ LocalRanged /\ x # calls[c].addr
        BY <1>2, <1>5, <3>2
      <3> QED BY <2>2, <3>1, <3>2
    <2>3. ASSUME NEW d \in Calls, calls'[d].addr \notin L
          PROVE  calls'[d].addr \in used' \ LocalRanged
      <3>1. CASE d = c
        BY <1>2, <2>3, <3>1
      <3>2. CASE d # c
        <4>1. calls[d].addr \in used \ LocalRanged
          BY <1>2, <1>5, <2>3, <3>2
        <4> QED BY <1>2, <2>1, <2>3, <3>2, <4>1
      <3> QED BY <3>1, <3>2
    <2>4. used' \ LocalRanged = {calls'[d].addr : d \in Calls} \ L
      <3> HIDE DEF L
      <3> QED BY <2>2, <2>3
    <2> QED BY Zenon, <1>3, <2>4 DEF RemoteReserved
  <1>9. FromRange' /\ AccessRespected'
    <2>1. ASSUME NEW d \in Calls, calls'[d].addr # NoAddr
          PROVE  Assignable(conf[calls'[d].lns].range, calls'[d].addr)
      BY <1>1, <1>2, <2>1 DEF FromRange
    <2>2. ASSUME NEW d \in Calls, calls'[d].state # "none"
          PROVE  Entitled(calls'[d].lns, calls'[d].peer)
      BY <1>1, <1>2, <2>2 DEF AccessRespected
    <2> QED BY Zenon, <1>0, <1>4, <2>1, <2>2 DEF FromRange, AccessRespected
  <1>10. Idle'
    BY <1>1, <1>2 DEF Idle
  <1>11. LocalsRanged'
    BY Zenon, <1>3 DEF LocalsRanged
  <1>12. conf' \in [Sections -> Conf] /\ running' \in BOOLEAN
    BY Zenon, <1>0 DEF IInv
  <1> QED BY Zenon, <1>1, <1>2, <1>7, <1>8, <1>9, <1>10, <1>11, <1>12 DEF IInv

(* Without calls and reservations all is well, whatever the configuration. *)
LEMMA Fresh ==
  ASSUME running \in BOOLEAN, access \in BOOLEAN, assign \subseteq Sections,
         lnslist \in Seq(Lns), deflns \in BOOLEAN, conf \in [Sections -> Conf],
         calls \in [Calls -> Call], \A c \in Calls : calls[c] = NoCall,
         used = {}, localaddr \in [Sections -> LocalAddrs \cup {NoAddr}],
         \A l \in Sections : localaddr[l] = NoAddr
  PROVE  IInv
  <1>1. NoCall.addr = NoAddr /\ NoCall.state = "none"
    BY DEF NoCall
  <1>2. RemoteUnique /\ FromRange /\ AccessRespected /\ Idle
    BY <1>1 DEF RemoteUnique, FromRange, AccessRespected, Idle
  <1>3. RemoteReserved /\ LocalsRanged
    BY <1>1 DEF RemoteReserved, LocalsRanged
  <1> QED BY Zenon, <1>2, <1>3 DEF IInv

(* The daemon starts without calls or reservations. *)
LEMMA InitIInv == Init => IInv
  <1> SUFFICES ASSUME Init PROVE IInv
    OBVIOUS
  <1>1. NoCall \in Call
    BY DEF NoCall, Call, States, Sections
  <1>2. /\ calls \in [Calls -> Call] /\ \A c \in Calls : calls[c] = NoCall
        /\ localaddr \in [Sections -> LocalAddrs \cup {NoAddr}]
        /\ \A l \in Sections : localaddr[l] = NoAddr
    BY <1>1 DEF Init
  <1>3. conf \in [Sections -> Conf] /\ lnslist \in Seq(Lns)
    BY DEF Init, Conf
  <1>4. /\ running \in BOOLEAN /\ used = {} /\ deflns \in BOOLEAN
        /\ access \in BOOLEAN /\ assign \subseteq Sections
    BY Zenon DEF Init
  <1> QED BY Zenon, <1>2, <1>3, <1>4, Fresh

(* The configuration is read while there are no calls. *)
LEMMA ConfigStep ==
  ASSUME IInv, ~running, running' \in BOOLEAN, access' \in BOOLEAN,
         assign' \subseteq Sections, lnslist' \in Seq(Lns),
         deflns' \in BOOLEAN, conf' \in [Sections -> Conf],
         calls' = calls, used' = used, localaddr' = localaddr
  PROVE  IInv'
  <1>1. /\ calls' \in [Calls -> Call] /\ used' = {}
        /\ \A c \in Calls : calls'[c] = NoCall
        /\ localaddr' \in [Sections -> LocalAddrs \cup {NoAddr}]
        /\ \A l \in Sections : localaddr'[l] = NoAddr
    BY Zenon DEF IInv, Idle
  <1>2. NoCall.addr = NoAddr /\ NoCall.state = "none"
    BY DEF NoCall
  <1>3. RemoteUnique' /\ FromRange' /\ AccessRespected' /\ Idle'
    BY <1>1, <1>2 DEF RemoteUnique, FromRange, AccessRespected, Idle
  <1>4. RemoteReserved' /\ LocalsRanged'
    BY <1>1, <1>2 DEF RemoteReserved, LocalsRanged
  <1>5. used' \subseteq RemoteAddrs \cup LocalAddrs
    BY <1>1
  <1> QED BY Zenon, <1>1, <1>3, <1>4, <1>5 DEF IInv

(* A range is added to a section. *)
LEMMA SetRangeKeeps ==
  ASSUME IInv, NEW l \in Sections,
         SetIprange(l) \/ SetLac(l) \/ SetLocaliprange(l)
  PROVE  IInv'
  <1>1. /\ ~running /\ running' = running /\ calls' = calls /\ used' = used
        /\ localaddr' = localaddr /\ access' = access /\ assign' = assign
        /\ lnslist' = lnslist /\ deflns' = deflns
    BY DEF SetIprange, SetLac, SetLocaliprange, SetRange
  <1>2. /\ conf \in [Sections -> Conf]
        /\ conf[l] \in Conf
        /\ conf[l].range \in Seq(Rules(RemoteAddrs))
        /\ conf[l].lacs \in Seq(Rules(Peers))
        /\ conf[l].localrange \in Seq(Rules(LocalAddrs))
    BY DEF IInv, Conf
  <1>3. conf' \in [Sections -> Conf]
    <2>1. CASE SetIprange(l)
      <3>1. PICK r \in Rules(RemoteAddrs) :
              conf' = [conf EXCEPT ![l].range = Append(@, r)]
        BY Zenon, <2>1 DEF SetIprange, SetRange
      <3>2. Append(conf[l].range, r) \in Seq(Rules(RemoteAddrs))
        BY <1>2
      <3>3. [conf[l] EXCEPT !.range = Append(conf[l].range, r)] \in Conf
        BY Zenon, <1>2, <3>2 DEF Conf
      <3> QED BY <1>2, <3>1, <3>3
    <2>2. CASE SetLac(l)
      <3>1. PICK r \in Rules(Peers) :
              conf' = [conf EXCEPT ![l].lacs = Append(@, r)]
        BY Zenon, <2>2 DEF SetLac, SetRange
      <3>2. Append(conf[l].lacs, r) \in Seq(Rules(Peers))
        BY <1>2
      <3>3. [conf[l] EXCEPT !.lacs = Append(conf[l].lacs, r)] \in Conf
        BY Zenon, <1>2, <3>2 DEF Conf
      <3> QED BY <1>2, <3>1, <3>3
    <2>3. CASE SetLocaliprange(l)
      <3>1. PICK r \in Rules(LocalAddrs) :
              conf' = [conf EXCEPT ![l].localrange = Append(@, r)]
        BY Zenon, <2>3 DEF SetLocaliprange, SetRange
      <3>2. Append(conf[l].localrange, r) \in Seq(Rules(LocalAddrs))
        BY <1>2
      <3>3. [conf[l] EXCEPT !.localrange = Append(conf[l].localrange, r)] \in Conf
        BY Zenon, <1>2, <3>2 DEF Conf
      <3> QED BY <1>2, <3>1, <3>3
    <2> QED BY <2>1, <2>2, <2>3
  <1> QED BY Zenon, <1>1, <1>3, ConfigStep DEF IInv

(* And so are sections and their other options. *)
LEMMA SetOptionKeeps ==
  ASSUME IInv,
         \/ SetAccesscontrol \/ Start
         \/ \E l \in Sections : SetAssignip(l) \/ NewLns(l)
  PROVE  IInv'
  <1>1. /\ ~running /\ running' \in BOOLEAN
        /\ calls' = calls /\ used' = used
        /\ localaddr' = localaddr /\ conf' = conf
        /\ access' \in BOOLEAN /\ assign' \subseteq Sections
        /\ deflns' \in BOOLEAN
    BY Zenon DEF SetAccesscontrol, SetAssignip, Start, NewLns, config, IInv
  <1>2. lnslist' \in Seq(Lns)
    <2>1. CASE lnslist' = lnslist
      BY Zenon, <2>1 DEF IInv
    <2>2. CASE \E l \in Lns : lnslist' = <<l>> \o lnslist
      BY <2>2 DEF IInv
    <2> QED
      BY Zenon, <2>1, <2>2
      DEF SetAccesscontrol, SetAssignip, Start, NewLns, config, Sections
  <1> QED BY Zenon, <1>1, <1>2, ConfigStep DEF IInv

(* An ICRQ reserves a free address for its call, or none. *)
LEMMA IncomingKeeps ==
  ASSUME IInv, NEW c \in Calls, NEW p \in Peers, NEW l \in Sections,
         IncomingCall(c, p, l)
  PROVE  IInv'
  <1> DEFINE new(s, a) == [state |-> s, lns |-> l, peer |-> p, addr |-> a]
             L == LocalRanged \cup {NoAddr}
  <1>1. /\ running /\ calls[c].state = "none" /\ GetLns(p, l)
        /\ running' = running /\ config' = config /\ localaddr' = localaddr
    BY DEF IncomingCall
  <1>2. calls[c].addr = NoAddr
    <2>1. calls[c] = NoCall
      BY <1>1 DEF IInv, Idle
    <2> QED BY <2>1 DEF NoCall
  <1>3. /\ Entitled(l, p)
        /\ used \subseteq RemoteAddrs \cup LocalAddrs
        /\ localaddr \in [Sections -> LocalAddrs \cup {NoAddr}]
        /\ \A k \in Sections : localaddr[k] \in LocalRanged \cup {NoAddr}
        /\ conf[l].range \in Seq(Rules(RemoteAddrs))
        /\ NoAddr \notin used
    BY <1>1, GetLnsFacts, PoolAssumption DEF IInv, Conf, LocalsRanged
  <1>4. ASSUME NEW s \in States \ {"none"}, used' = used,
               calls' = [calls EXCEPT ![c] = new(s, NoAddr)]
        PROVE  IInv'
    <2> DEFINE n == new(s, NoAddr)
    <2>1. /\ n \in Call /\ n.lns = l /\ n.peer = p /\ n.addr = NoAddr
          /\ n.state = s /\ calls' = [calls EXCEPT ![c] = n]
      BY <1>4 DEF Call, States
    <2>2. used' \ LocalRanged
            = ((used \ LocalRanged) \ {calls[c].addr})
              \cup ({NoAddr} \ L)
      BY Zenon, <1>2, <1>3, <1>4
    <2> HIDE DEF n
    <2> QED BY Zenon, <1>1, <1>3, <1>4, <2>1, <2>2, CallStep
  <1>5. ASSUME NEW a \in RemoteAddrs, FirstFree(conf[l].range, used, a),
               calls' = [calls EXCEPT ![c] = new("ICRP", a)],
               used' = used \cup {a}
        PROVE  IInv'
    <2> DEFINE n == new("ICRP", a)
    <2>1. /\ n \in Call /\ n.lns = l /\ n.peer = p /\ n.addr = a
          /\ n.state = "ICRP" /\ calls' = [calls EXCEPT ![c] = n]
      BY <1>5 DEF Call, States
    <2>2. a \notin used /\ Assignable(conf[l].range, a) /\ a # NoAddr
      BY <1>3, <1>5, FirstFreeFacts, PoolAssumption
    <2>3. used' \ LocalRanged
            = ((used \ LocalRanged) \ {calls[c].addr}) \cup ({a} \ L)
      BY <1>2, <1>3, <1>5, <2>2
    <2>4. used' \subseteq RemoteAddrs \cup LocalAddrs
      BY <1>3, <1>5
    <2> HIDE DEF n
    <2> QED BY Zenon, <1>1, <1>3, <2>1, <2>2, <2>3, <2>4, CallStep
  <1>6. \/ \E a \in RemoteAddrs :
             /\ FirstFree(conf[l].range, used, a)
             /\ calls' = [calls EXCEPT ![c] = new("ICRP", a)]
             /\ used' = used \cup {a}
        \/ /\ used' = used
           /\ \E s \in {"full", "ICRP", "repeated"} :
                calls' = [calls EXCEPT ![c] = new(s, NoAddr)]
    <2>1. /\ \A a : [new("ICRP", NoAddr) EXCEPT !.addr = a] = new("ICRP", a)
          /\ \A s : [new("ICRP", NoAddr) EXCEPT !.state = s] = new(s, NoAddr)
      OBVIOUS
    <2>2. \/ \E a \in RemoteAddrs :
               /\ FirstFree(conf[l].range, used, a)
               /\ calls' = [calls EXCEPT ![c] = [new("ICRP", NoAddr) EXCEPT !.addr = a]]
               /\ used' = used \cup {a}
          \/ /\ used' = used
             /\ \/ calls' = [calls EXCEPT ![c] = [new("ICRP", NoAddr) EXCEPT !.state = "full"]]
                \/ calls' = [calls EXCEPT ![c] = new("ICRP", NoAddr)]
                \/ calls' = [calls EXCEPT ![c] =
                               [new("ICRP", NoAddr) EXCEPT !.state = "repeated"]]
      BY DEF IncomingCall
    <2> HIDE DEF new
    <2> QED BY <2>1, <2>2
  <1>7. {"full", "ICRP", "repeated"} \subseteq States \ {"none"}
    BY DEF States
  <1> HIDE DEF new
  <1> QED BY <1>4, <1>5, <1>6, <1>7

(* An ICCN may reserve an address of the local range; the remote ones      *)
(* stay.                                                                   *)
LEMMA ConnectKeeps ==
  ASSUME IInv, NEW c \in Calls, Connect(c)
  PROVE  IInv'
  <1>1. /\ calls[c] \in Call /\ calls \in [Calls -> Call]
        /\ calls[c].state = "ICRP" /\ running' = running /\ config' = config
        /\ calls[c].lns \in Sections
    BY DEF IInv, Call, Connect
  <1>2. /\ running
        /\ calls[c].addr # NoAddr =>
             Assignable(conf[calls[c].lns].range, calls[c].addr)
        /\ Entitled(calls[c].lns, calls[c].peer)
        /\ used \subseteq RemoteAddrs \cup LocalAddrs
        /\ localaddr \in [Sections -> LocalAddrs \cup {NoAddr}]
        /\ LocalsRanged /\ NoAddr \notin used
        /\ conf[calls[c].lns].localrange \in Seq(Rules(LocalAddrs))
        /\ LocalAddrs \subseteq Nat
    BY <1>1, PoolAssumption DEF IInv, Idle, FromRange, AccessRespected, Conf
  <1>3. PICK s \in {"ICCN", "full"}, A \in SUBSET LocalRanged :
          /\ calls' = [calls EXCEPT ![c].state = s]
          /\ used' = used \cup A
          /\ localaddr' \in [Sections -> LocalAddrs \cup {NoAddr}]
          /\ \A l \in Sections : localaddr'[l] \in LocalRanged \cup {NoAddr}
    <2>1. CASE calls' = [calls EXCEPT ![c].state = "ICCN"]
               /\ used' = used /\ localaddr' = localaddr
      <3>1. used = used \cup {} /\ {} \in SUBSET LocalRanged
        OBVIOUS
      <3> QED BY Zenon, <1>2, <2>1, <3>1 DEF LocalsRanged
    <2>2. CASE /\ calls' = [calls EXCEPT ![c].state = "full"]
               /\ used' = used
               /\ localaddr' = [localaddr EXCEPT ![calls[c].lns] = NoAddr]
      <3>1. used = used \cup {} /\ {} \in SUBSET LocalRanged
        OBVIOUS
      <3>2. /\ localaddr' \in [Sections -> LocalAddrs \cup {NoAddr}]
            /\ \A l \in Sections : localaddr'[l] \in LocalRanged \cup {NoAddr}
        BY <1>1, <1>2, <2>2 DEF LocalsRanged
      <3> QED BY Zenon, <2>2, <3>1, <3>2
    <2>3. CASE \E b \in LocalAddrs :
                 /\ FirstFree(conf[calls[c].lns].localrange, used, b)
                 /\ calls' = [calls EXCEPT ![c].state = "ICCN"]
                 /\ used' = used \cup {b}
                 /\ localaddr' = [localaddr EXCEPT ![calls[c].lns] = b]
      <3>1. PICK b \in LocalAddrs :
                 /\ FirstFree(conf[calls[c].lns].localrange, used, b)
                 /\ calls' = [calls EXCEPT ![c].state = "ICCN"]
                 /\ used' = used \cup {b}
                 /\ localaddr' = [localaddr EXCEPT ![calls[c].lns] = b]
        BY Zenon, <2>3
      <3>2. Assignable(conf[calls[c].lns].localrange, b)
        BY <1>2, <3>1, FirstFreeFacts
      <3>3. b \in LocalRanged
        BY Zenon, <1>1, <3>2 DEF Assignable, LocalRanged
      <3>4. /\ localaddr' \in [Sections -> LocalAddrs \cup {NoAddr}]
            /\ \A l \in Sections : localaddr'[l] \in LocalRanged \cup {NoAddr}
        BY <1>1, <1>2, <3>1, <3>3 DEF LocalsRanged
      <3>5. {b} \in SUBSET LocalRanged
        BY <3>3
      <3> QED BY Zenon, <3>1, <3>4, <3>5
    <2> QED BY Zenon, <2>1, <2>2, <2>3 DEF Connect
  <1> DEFINE n == [calls[c] EXCEPT !.state = s]
  <1>4. /\ n \in Call /\ n.state = s /\ n.addr = calls[c].addr
        /\ n.lns = calls[c].lns /\ n.peer = calls[c].peer
        /\ calls' = [calls EXCEPT ![c] = n]
    BY Zenon, <1>1, <1>3 DEF Call, States
  <1> HIDE DEF n
  <1>5. s # "none"
    OBVIOUS
  <1>6. calls[c].addr \notin LocalRanged \cup {NoAddr} => calls[c].addr \in used
    BY <1>1 DEF IInv, RemoteReserved
  <1>7. /\ used' \subseteq RemoteAddrs \cup LocalAddrs
        /\ used' \ LocalRanged = used \ LocalRanged
    BY <1>2, <1>3 DEF LocalRanged
  <1>8. used' \ LocalRanged
          = ((used \ LocalRanged) \ {calls[c].addr})
            \cup ({n.addr} \ (LocalRanged \cup {NoAddr}))
    BY <1>2, <1>4, <1>6, <1>7
  <1>9. n.addr \in LocalRanged \cup {NoAddr, calls[c].addr}
    BY <1>4
  <1>10. /\ n.state # "none"
         /\ n.addr # NoAddr => Assignable(conf[n.lns].range, n.addr)
         /\ Entitled(n.lns, n.peer)
    BY <1>2, <1>4, <1>5
  <1>11. /\ n \in Call /\ calls' = [calls EXCEPT ![c] = n]
         /\ running' = running /\ config' = config /\ running
         /\ used' \subseteq RemoteAddrs \cup LocalAddrs
    BY Zenon, <1>1, <1>2, <1>4, <1>7
  <1>12. /\ localaddr' \in [Sections -> LocalAddrs \cup {NoAddr}]
         /\ \A l \in Sections : localaddr'[l] \in LocalRanged \cup {NoAddr}
    BY Zenon, <1>3
  <1> QED BY Zenon, <1>8, <1>9, <1>10, <1>11, <1>12, CallStep

(* A call that ends gives back its own remote address, and what else it    *)
(* gives back is of a local range.                                         *)
LEMMA DestroyKeeps ==
  ASSUME IInv, NEW c \in Calls, DestroyCall(c)
  PROVE  IInv'
  <1>1. /\ NoCall \in Call /\ NoCall.addr = NoAddr /\ NoCall.state = "none"
    BY DEF NoCall, Call, States, Sections
  <1>2. /\ running' = running /\ config' = config /\ localaddr' = localaddr
        /\ calls' = [calls EXCEPT ![c] = NoCall] /\ used' = used \ Released(c)
        /\ calls[c].state # "none"
    BY DEF DestroyCall
  <1>3. /\ calls[c].lns \in Sections /\ running
        /\ localaddr \in [Sections -> LocalAddrs \cup {NoAddr}]
        /\ \A l \in Sections : localaddr[l] \in LocalRanged \cup {NoAddr}
        /\ used \subseteq RemoteAddrs \cup LocalAddrs
        /\ NoAddr \notin used
    BY <1>2, PoolAssumption DEF IInv, Call, Idle, LocalsRanged
  <1>4. (used \ LocalRanged) \ Released(c) = (used \ LocalRanged) \ {calls[c].addr}
    <2>1. localaddr[calls[c].lns] \in LocalRanged \cup {NoAddr}
      BY Zenon, <1>3
    <2> QED BY <1>3, <2>1 DEF Released
  <1>5. used' \ LocalRanged
          = ((used \ LocalRanged) \ {calls[c].addr})
            \cup ({NoCall.addr} \ (LocalRanged \cup {NoAddr}))
    BY <1>1, <1>2, <1>4
  <1>6. used' \subseteq RemoteAddrs \cup LocalAddrs
    BY <1>2, <1>3
  <1>7. NoCall.addr \in LocalRanged \cup {NoAddr, calls[c].addr}
    BY <1>1
  <1> QED BY Zenon, <1>1, <1>2, <1>3, <1>5, <1>6, <1>7, CallStep

-----------------------------------------------------------------------------
(* Every step keeps the invariant. *)
LEMMA NextKeeps == IInv /\ [Next]_vars => IInv'
  <1> SUFFICES ASSUME IInv, [Next]_vars PROVE IInv'
    OBVIOUS
  <1>1. CASE UNCHANGED vars
    <2>0. /\ running' = running /\ lnslist' = lnslist /\ deflns' = deflns
          /\ access' = access /\ assign' = assign /\ conf' = conf
          /\ calls' = calls /\ used' = used /\ localaddr' = localaddr
      BY <1>1 DEF vars
    <2>1. LocalRanged' = LocalRanged
      BY Zenon, <2>0 DEF LocalRanged
    <2>2. \A l, q : Entitled(l, q)' <=> Entitled(l, q)
      BY Zenon, <2>0, SameEntitled
    <2>3. Idle' /\ LocalsRanged' /\ FromRange'
      BY Zenon, <2>0, <2>1 DEF IInv, Idle, LocalsRanged, FromRange
    <2>4. RemoteUnique' /\ RemoteReserved'
      BY Zenon, <2>0, <2>1 DEF IInv, RemoteUnique, RemoteReserved
    <2>5. AccessRespected'
      BY Zenon, <2>0, <2>2 DEF IInv, AccessRespected
    <2> QED
      BY Zenon, <2>0, <2>3, <2>4, <2>5 DEF IInv
  <1> QED
    BY Zenon, <1>1, SetRangeKeeps, SetOptionKeeps, IncomingKeeps, ConnectKeeps,
       DestroyKeeps
    DEF Next

(* Remote addresses are given to one call at a time (get_addr with         *)
(* reserve_addr), those excepted that a local range names as well.         *)
THEOREM OneCallPerAddress == Spec => []RemoteUnique
  <1>1. IInv => RemoteUnique
    BY DEF IInv
  <1> QED BY <1>1, InitIInv, NextKeeps, PTL DEF Spec

(* And they are reserved exactly while a call has them (destroy_call),     *)
(* with the same exception.                                                *)
THEOREM NoAddressLost == Spec => []RemoteReserved
  <1>1. IInv => RemoteReserved
    BY DEF IInv
  <1> QED BY <1>1, InitIInv, NextKeeps, PTL DEF Spec

(* Calls have addresses that the rules of their section assign (get_addr). *)
THEOREM RulesObeyed == Spec => [](TypeOK /\ FromRange)
  <1>1. IInv => TypeOK /\ FromRange
    BY Typed DEF IInv
  <1> QED BY <1>1, InitIInv, NextKeeps, PTL DEF Spec

(* A call is of the first section of the list whose rules allow its peer,  *)
(* or of the default without access control: by an induction over the two  *)
(* loops of get_lns.                                                       *)
THEOREM AccessObeyed == Spec => []AccessRespected
  <1>1. IInv => AccessRespected
    BY DEF IInv
  <1> QED BY <1>1, InitIInv, NextKeeps, PTL DEF Spec

(* A call goes without an address only if all its section may assign are   *)
(* in use ("No available IP address").                                     *)
THEOREM RefusalJustified == Spec => RefusedOnlyIfFull
  <1> DEFINE Justified ==
        \A c \in Calls :
          calls[c].state = "none" /\ calls'[c].state = "full" =>
            \A a \in RemoteAddrs :
              Assignable(conf[calls'[c].lns].range, a) => a \in used
  <1>1. IInv /\ [Next]_vars => [Justified]_vars
    <2> SUFFICES ASSUME IInv, Next, NEW c \in Calls,
                        calls[c].state = "none", calls'[c].state = "full",
                        NEW a \in RemoteAddrs,
                        Assignable(conf[calls'[c].lns].range, a)
                 PROVE  a \in used
      OBVIOUS
    <2>1. calls \in [Calls -> Call]
      BY DEF IInv
    <2>2. PICK p \in Peers, l \in Sections : IncomingCall(c, p, l)
      <3>1. calls' # calls
        OBVIOUS
      <3>2. ASSUME NEW d \in Calls, Connect(d) PROVE FALSE
        <4>1. d # c
          BY <3>2 DEF Connect
        <4>2. calls'[c] = calls[c]
          BY <2>1, <3>2, <4>1 DEF Connect
        <4> QED BY <4>2
      <3>3. ASSUME NEW d \in Calls, DestroyCall(d) PROVE FALSE
        BY <2>1, <3>3 DEF DestroyCall, NoCall
      <3>4. ASSUME NEW d \in Calls, NEW p \in Peers, NEW l \in Sections,
                   IncomingCall(d, p, l)
            PROVE  d = c
        BY <2>1, <3>4 DEF IncomingCall
      <3> QED
        BY <3>1, <3>2, <3>3, <3>4
        DEF Next, Start, SetIprange, SetLac, SetLocaliprange, SetRange,
            SetAccesscontrol, SetAssignip, NewLns
    <2>3. calls'[c].lns = l /\ Full(conf[l].range, used)
      BY <2>1, <2>2 DEF IncomingCall, NoCall
    <2>4. conf[l].range \in Seq(Rules(RemoteAddrs)) /\ a \in Nat
          /\ RemoteAddrs \subseteq Nat
      BY PoolAssumption DEF IInv, Conf
    <2> QED BY Zenon, <2>3, <2>4, FullFacts
  <1> QED BY <1>1, InitIInv, NextKeeps, PTL DEF Spec, RefusedOnlyIfFull
=============================================================================
