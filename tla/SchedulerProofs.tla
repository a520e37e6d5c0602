-------------------------- MODULE SchedulerProofs --------------------------
(* The invariants of Scheduler, for every number of tunnels and events and *)
(* every setting of the delays: the event list is in order and sound       *)
(* (Proper) after each of the operations that the handlers are made of,    *)
(* and therefore after each of their combinations.                         *)
EXTENDS Scheduler, WellFoundedInduction, TLAPS

Times == [sec : Nat, usec : 0 .. USec - 1]

Buffers ==
  [tunnel : Tunnels, retries : Nat \ {0}, first : Nat, acked : BOOLEAN]

Entry ==
  [tv : Times, func : {"control_xmit"}, data : Buffers]
    \cup [tv : Times, func : {"hello"}, data : Tunnels]
    \cup [tv : Times, func : {"magic_lac_dial"}, data : Dials]

States == {"free", "setup", "up", "dropped", "closing", "risen"}

TypeOK ==
  /\ now \in Nat
  /\ tun \in [Tunnels -> States]
  /\ pc \in {"handle", "process", "select"}

InOrder(ev) ==
  \A i, j \in 1 .. Len(ev) : i <= j => Value(ev[i].tv) <= Value(ev[j].tv)

(* EventsHaveTunnel, of one entry; a Hello is there only for a tunnel that *)
(* was established and not closed since.                                   *)
Alive(e, tn) ==
  /\ e.func = "control_xmit" => tn[e.data.tunnel] # "free"
  /\ e.func = "hello" => tn[e.data] \in Greeted

(* BackoffKept, of one entry.                                              *)
OnTime(e) ==
  e.func = "control_xmit" /\ e.data.retries <= 32 =>
    LET due == e.data.first + (2 ^ e.data.retries - 1) * USec
    IN  Value(e.tv) \in due .. due + (e.data.retries - 1) * Late

One(ev, t) ==
  \E i \in 1 .. Len(ev) : {j \in 1 .. Len(ev) : IsHello(ev[j], t)} = {i}

None(ev, t) == \A i \in 1 .. Len(ev) : ~IsHello(ev[i], t)

(* A list that is in order and holds nothing due before x, whose entries   *)
(* have their tunnels and whose established tunnels have their Hello, but  *)
(* for those of the set m, whose Hello is still to be scheduled.           *)
Proper(ev, tn, x, m) ==
  /\ ev \in Seq(Entry) /\ InOrder(ev)
  /\ \A i \in 1 .. Len(ev) :
       Alive(ev[i], tn) /\ OnTime(ev[i]) /\ x <= Value(ev[i].tv)
  /\ \A t \in Tunnels : IF t \in m THEN None(ev, t)
                        ELSE tn[t] \in Greeted => One(ev, t)

(* Nothing is due when the daemon goes to sleep or wakes up; a round of    *)
(* handlers makes it late at most once before the list is processed.       *)
Earliest == IF pc = "process" THEN now - Late ELSE now

(* What select was told.                                                   *)
Slept ==
  pc = "select" =>
    \/ timeout = {} /\ events = <<>>
    \/ /\ events # <<>>
       /\ \E tv \in timeout : /\ timeout = {tv} /\ tv \in Times
                              /\ Value(tv) > 0
                              /\ now + Value(tv) = Value(events[1].tv)

IInv == TypeOK /\ Proper(events, tun, Earliest, {}) /\ Slept
-----------------------------------------------------------------------------
(* A nonempty set of natural numbers has a least element: what the         *)
(* arguments over the positions of a list rest on.                         *)
LEMMA LeastNat ==
  ASSUME NEW S \in SUBSET Nat, S # {}
  PROVE  \E m \in S : \A k \in S : m <= k
<1> DEFINE R == {ss \in Nat \X Nat : ss[1] < ss[2]}
<1>1. IsWellFoundedOn(R, Nat)
  BY NatLessThanWellFounded DEF OpToRel
<1>2. PICK x \in S : \A y \in S : ~ (<<y, x>> \in R)
  BY Zenon, <1>1, WFMin
<1>3. ASSUME NEW y \in S, y < x
      PROVE  FALSE
  <2>1. <<y, x>> \in Nat \X Nat /\ <<y, x>>[1] = y /\ <<y, x>>[2] = x
    OBVIOUS
  <2>2. <<y, x>> \in R
    BY <2>1, <1>3
  <2> QED
    BY <2>2, <1>2
<1> QED
  BY <1>3

(* Multiplication by the microseconds of a second keeps the order.         *)
LEMMA TimesUSec ==
  ASSUME NEW a \in Int, NEW b \in Int
  PROVE  /\ a * USec \in Int
         /\ (a + b) * USec = a * USec + b * USec
         /\ (a - b) * USec = a * USec - b * USec
         /\ a \in Nat => a * USec \in Nat
         /\ a > 0 => a * USec >= USec
         /\ a < b => a * USec + USec <= b * USec
<1>1. USec \in Nat \ {0}
  BY SchedulerAssumption
<1> QED
  BY <1>1

(* The clock in seconds and microseconds is the clock.                     *)
LEMMA ClockReads ==
  ASSUME now \in Nat
  PROVE  gettimeofday \in Times /\ Value(gettimeofday) = now
<1>1. USec \in Nat \ {0}
  BY SchedulerAssumption
<1>2. /\ now \div USec \in Nat /\ now % USec \in 0 .. USec - 1
      /\ now = (now \div USec) * USec + (now % USec)
  BY <1>1
<1> QED
  BY <1>2 DEF gettimeofday, Tv, Times, Value

(* The macros of scheduler.h compare normalised times as numbers.          *)
LEMMA Compares ==
  ASSUME NEW a \in Times, NEW b \in Times
  PROVE  /\ Value(a) \in Nat
         /\ TVLESS(a, b) <=> Value(a) < Value(b)
         /\ TVLESSEQ(a, b) <=> Value(a) <= Value(b)
<1>1. USec \in Nat \ {0}
  BY SchedulerAssumption
<1>2. /\ a.sec \in Nat /\ a.usec \in 0 .. USec - 1
      /\ b.sec \in Nat /\ b.usec \in 0 .. USec - 1
  BY DEF Times
<1> DEFINE A == a.sec * USec
           B == b.sec * USec
<1>3. /\ A \in Nat /\ B \in Nat
      /\ a.sec < b.sec => A + USec <= B
      /\ b.sec < a.sec => B + USec <= A
      /\ a.sec = b.sec => A = B
  <2> DEFINE x == a.sec
             y == b.sec
  <2>1. x \in Int /\ y \in Int /\ x \in Nat /\ y \in Nat
    BY <1>2
  <2> HIDE DEF x, y
  <2>2. /\ x * USec \in Nat /\ y * USec \in Nat
        /\ x < y => x * USec + USec <= y * USec
        /\ y < x => y * USec + USec <= x * USec
    BY <2>1, TimesUSec
  <2> QED
    BY <2>2 DEF x, y
<1>4. Value(a) = A + a.usec /\ Value(b) = B + b.usec
  BY DEF Value
<1> HIDE DEF A, B
<1> QED
  BY <1>1, <1>2, <1>3, <1>4 DEF TVLESS, TVLESSEQ

(* The shift of control_xmit doubles the delay.                            *)
LEMMA Doubling ==
  ASSUME NEW n \in 1 .. 32
  PROVE  2 ^ (n - 1) \in Nat /\ 2 ^ n = 2 * 2 ^ (n - 1)
<1> DEFINE p == [i \in 0 .. 32 |-> 2 ^ i]
<1>1. /\ p[n] = 2 ^ n /\ p[n - 1] = 2 ^ (n - 1)
  OBVIOUS
<1>2. /\ p[0] = 1 /\ p[1] = 2 /\ p[2] = 4
      /\ p[3] = 8 /\ p[4] = 16 /\ p[5] = 32
      /\ p[6] = 64 /\ p[7] = 128 /\ p[8] = 256
      /\ p[9] = 512 /\ p[10] = 1024 /\ p[11] = 2048
      /\ p[12] = 4096 /\ p[13] = 8192 /\ p[14] = 16384
      /\ p[15] = 32768 /\ p[16] = 65536 /\ p[17] = 131072
      /\ p[18] = 262144 /\ p[19] = 524288 /\ p[20] = 1048576
      /\ p[21] = 2097152 /\ p[22] = 4194304 /\ p[23] = 8388608
      /\ p[24] = 16777216 /\ p[25] = 33554432 /\ p[26] = 67108864
      /\ p[27] = 134217728 /\ p[28] = 268435456 /\ p[29] = 536870912
      /\ p[30] = 1073741824 /\ p[31] = 2147483648 /\ p[32] = 4294967296
  OBVIOUS
<1> HIDE DEF p
<1>3. p[n - 1] \in Nat /\ p[n] = 2 * p[n - 1]
  BY <1>2
<1> QED
  BY <1>1, <1>3

(* r is the list ev with the entry e put in at place p.                    *)
Into(ev, r, p, e) ==
  /\ r \in Seq(Entry) /\ Len(r) = Len(ev) + 1 /\ p \in 1 .. Len(r)
  /\ r[p] = e
  /\ \A k \in 1 .. p - 1 : r[k] = ev[k]
  /\ \A k \in p + 1 .. Len(r) : r[k] = ev[k - 1]

LEMMA InsertedInto ==
  ASSUME NEW ev \in Seq(Entry), NEW e \in Entry, NEW p \in 1 .. Len(ev) + 1
  PROVE  Into(ev, Inserted(ev, p, e), p, e)
<1> DEFINE a == SubSeq(ev, 1, p - 1)
           b == SubSeq(ev, p, Len(ev))
           r == a \o <<e>> \o b
<1>1. /\ a \in Seq(Entry) /\ Len(a) = p - 1
      /\ \A k \in 1 .. p - 1 : a[k] = ev[k]
  OBVIOUS
<1>2. /\ b \in Seq(Entry) /\ Len(b) = Len(ev) - p + 1
      /\ \A k \in 1 .. Len(b) : b[k] = ev[p + k - 1]
  OBVIOUS
<1> HIDE DEF a, b
<1>3. /\ a \o <<e>> \in Seq(Entry) /\ Len(a \o <<e>>) = p
      /\ (a \o <<e>>)[p] = e
      /\ \A k \in 1 .. p - 1 : (a \o <<e>>)[k] = ev[k]
  <2>1. <<e>> \in Seq(Entry) /\ Len(<<e>>) = 1 /\ <<e>>[1] = e
    OBVIOUS
  <2>2. a \o <<e>> \in Seq(Entry) /\ Len(a \o <<e>>) = p
    BY <1>1, <2>1
  <2>3. (a \o <<e>>)[p] = e
    BY <1>1, <2>1
  <2>4. \A k \in 1 .. p - 1 : (a \o <<e>>)[k] = ev[k]
    BY <1>1, <2>1
  <2> QED
    BY <2>2, <2>3, <2>4
<1>4. /\ r \in Seq(Entry) /\ Len(r) = Len(ev) + 1
      /\ \A k \in 1 .. p : r[k] = (a \o <<e>>)[k]
      /\ \A k \in p + 1 .. Len(r) : r[k] = b[k - p]
  BY <1>2, <1>3
<1>5. ASSUME NEW k \in p + 1 .. Len(ev) + 1
      PROVE  b[k - p] = ev[k - 1]
  <2>1. k - p \in 1 .. Len(b) /\ p + (k - p) - 1 = k - 1
    BY <1>2
  <2> QED
    BY <2>1, <1>2
<1>6. Inserted(ev, p, e) = r
  BY DEF Inserted, a, b
<1> HIDE DEF r
<1> QED
  BY <1>3, <1>4, <1>5, <1>6 DEF Into

LEMMA IntoEntries ==
  ASSUME NEW ev \in Seq(Entry), NEW r, NEW p, NEW e, Into(ev, r, p, e),
         NEW i \in 1 .. Len(r)
  PROVE  r[i] = e \/ \E j \in 1 .. Len(ev) : r[i] = ev[j]
<1>1. CASE i = p
  BY <1>1 DEF Into
<1>2. CASE i < p
  <2>1. i \in 1 .. p - 1 /\ i \in 1 .. Len(ev)
    BY <1>2 DEF Into
  <2> QED
    BY <2>1 DEF Into
<1>3. CASE i > p
  <2>1. i \in p + 1 .. Len(r) /\ i - 1 \in 1 .. Len(ev)
    BY <1>3 DEF Into
  <2> QED
    BY <2>1 DEF Into
<1> QED
  BY <1>1, <1>2, <1>3 DEF Into

(* What putting in an entry does to the Hellos of a tunnel.                *)
LEMMA IntoHellos ==
  ASSUME NEW ev \in Seq(Entry), NEW r, NEW p, NEW e, NEW t, Into(ev, r, p, e)
  PROVE  /\ ~IsHello(e, t) /\ One(ev, t) => One(r, t)
         /\ ~IsHello(e, t) /\ None(ev, t) => None(r, t)
         /\ IsHello(e, t) /\ None(ev, t) => One(r, t)
<1>1. /\ Len(ev) \in Nat /\ Len(r) = Len(ev) + 1 /\ p \in 1 .. Len(r)
      /\ r[p] = e
      /\ \A k \in 1 .. p - 1 : r[k] = ev[k]
      /\ \A k \in p + 1 .. Len(r) : r[k] = ev[k - 1]
  BY DEF Into
<1>2. ASSUME NEW k \in 1 .. Len(r), k # p
      PROVE  \/ k < p /\ k \in 1 .. Len(ev) /\ r[k] = ev[k]
             \/ k > p /\ k - 1 \in 1 .. Len(ev) /\ r[k] = ev[k - 1]
  <2>1. CASE k < p
    <3>1. k \in 1 .. p - 1 /\ k \in 1 .. Len(ev)
      BY <1>1, <2>1
    <3> QED
      BY <1>1, <2>1, <3>1
  <2>2. CASE k > p
    <3>1. k \in p + 1 .. Len(r) /\ k - 1 \in 1 .. Len(ev)
      BY <1>1, <2>2
    <3> QED
      BY <1>1, <2>2, <3>1
  <2> QED
    BY <1>1, <1>2, <2>1, <2>2
<1>3. ASSUME None(ev, t)
      PROVE  \A k \in 1 .. Len(r) : k # p => ~IsHello(r[k], t)
  BY <1>2, <1>3 DEF None
<1>4. ASSUME ~IsHello(e, t), One(ev, t)
      PROVE  One(r, t)
  <2>1. PICK i \in 1 .. Len(ev) :
          {j \in 1 .. Len(ev) : IsHello(ev[j], t)} = {i}
    BY <1>4 DEF One
  <2> DEFINE q == IF i < p THEN i ELSE i + 1
  <2>2. q \in 1 .. Len(r) /\ q # p /\ r[q] = ev[i]
    <3>1. CASE i < p
      BY <1>1, <3>1
    <3>2. CASE ~(i < p)
      BY <1>1, <3>2
    <3> QED
      BY <3>1, <3>2
  <2>3. IsHello(r[q], t)
    BY <2>1, <2>2
  <2>4. ASSUME NEW k \in 1 .. Len(r), IsHello(r[k], t)
        PROVE  k = q
    <3>1. k # p
      BY <2>4, <1>4, <1>1
    <3>2. CASE k < p /\ k \in 1 .. Len(ev) /\ r[k] = ev[k]
      <4>1. k = i
        BY <3>2, <2>1, <2>4
      <4> QED
        BY <4>1, <3>2
    <3>3. CASE k > p /\ k - 1 \in 1 .. Len(ev) /\ r[k] = ev[k - 1]
      <4>1. k - 1 = i
        BY <3>3, <2>1, <2>4
      <4> QED
        BY <4>1, <3>3, <1>1
    <3> QED
      BY <3>1, <3>2, <3>3, <1>2
  <2> HIDE DEF q
  <2> QED
    BY <2>2, <2>3, <2>4 DEF One
<1>5. ASSUME ~IsHello(e, t), None(ev, t)
      PROVE  None(r, t)
  BY <1>1, <1>3, <1>5 DEF None
<1>6. ASSUME IsHello(e, t), None(ev, t)
      PROVE  One(r, t)
  <2>1. {j \in 1 .. Len(r) : IsHello(r[j], t)} = {p}
    BY <1>1, <1>3, <1>6
  <2> QED
    BY <2>1, <1>1 DEF One
<1> QED
  BY <1>4, <1>5, <1>6

(* The loop of schedule stops at the place that keeps the list in order.   *)
LEMMA ScheduleInto ==
  ASSUME now \in Nat, NEW ev \in Seq(Entry), InOrder(ev), NEW s \in Nat,
         NEW f, NEW d,
         \A tv \in Times : [tv |-> tv, func |-> f, data |-> d] \in Entry
  PROVE  \E tv \in Times, p \in 1 .. Len(ev) + 1 :
           /\ Value(tv) = now + s * USec
           /\ Into(ev, Schedule(ev, Tv(s, 0), f, d), p,
                   [tv |-> tv, func |-> f, data |-> d])
           /\ InOrder(Schedule(ev, Tv(s, 0), f, d))
<1> DEFINE g == gettimeofday
           sum == Tv(g.sec + s, g.usec + 0)
           tv == IF sum.usec > USec THEN Tv(sum.sec + 1, sum.usec - USec)
                 ELSE sum
           later == {i \in 1 .. Len(ev) : TVLESS(tv, ev[i].tv)}
           here == IF later = {} THEN Len(ev) + 1 ELSE Min(later)
           e == [tv |-> tv, func |-> f, data |-> d]
           r == Schedule(ev, Tv(s, 0), f, d)
<1>1. r = Inserted(ev, here, e)
  BY DEF Schedule, Tv
<1>2. tv \in Times /\ Value(tv) = now + s * USec
  <2>1. /\ g.sec \in Nat /\ g.usec \in 0 .. USec - 1
        /\ g.sec * USec + g.usec = now
    BY ClockReads DEF Times, Value
  <2>2. USec \in Nat
    BY SchedulerAssumption
  <2> HIDE DEF g
  <2>3. PICK a \in Nat, u \in 0 .. USec - 1 :
          a = g.sec /\ u = g.usec /\ a * USec + u = now
    BY <2>1
  <2>4. tv = [sec |-> a + s, usec |-> u]
    <3>1. u + 0 = u /\ ~(u > USec)
      BY <2>2
    <3>2. sum = [sec |-> a + s, usec |-> u]
      BY Zenon, <2>3, <3>1 DEF Tv
    <3> HIDE DEF sum
    <3>3. sum.usec = u
      BY <3>2
    <3> QED
      BY Zenon, <3>1, <3>2, <3>3
  <2>5. /\ (a + s) * USec = a * USec + s * USec
        /\ a * USec \in Int /\ s * USec \in Int
    BY <2>2
  <2>6. Value(tv) = (a + s) * USec + u
    BY <2>4 DEF Value
  <2>7. (a + s) * USec + u = now + s * USec
    <3> DEFINE A == a * USec
               S == s * USec
               T == (a + s) * USec
    <3>1. T = A + S /\ A \in Int /\ S \in Int /\ A + u = now
      BY <2>3, <2>5
    <3> HIDE DEF A, S, T
    <3>2. T + u = now + S
      BY <3>1, <2>2
    <3> QED
      BY <3>2 DEF S, T
  <2> QED
    BY <2>4, <2>6, <2>7 DEF Times
<1> HIDE DEF tv
<1>3. ASSUME NEW i \in 1 .. Len(ev)
      PROVE  /\ ev[i].tv \in Times /\ Value(ev[i].tv) \in Nat
             /\ i \in later <=> Value(tv) < Value(ev[i].tv)
  <2>1. ev[i].tv \in Times
    BY DEF Entry
  <2> QED
    BY <2>1, <1>2, Compares
<1>4. /\ here \in 1 .. Len(ev) + 1
      /\ \A i \in 1 .. here - 1 : i \in 1 .. Len(ev) /\ i \notin later
      /\ here \in 1 .. Len(ev) => here \in later
  <2>1. CASE later = {}
    BY <2>1
  <2>2. CASE later # {}
    <3>1. later \in SUBSET Nat
      OBVIOUS
    <3>2. PICK m \in later : \A k \in later : m <= k
      BY Zenon, <2>2, <3>1, LeastNat
    <3>3. Min(later) \in later /\ \A k \in later : Min(later) <= k
      BY Zenon, <3>2 DEF Min
    <3>4. later \subseteq 1 .. Len(ev) /\ here = Min(later)
      BY <2>2
    <3> HIDE DEF later, here
    <3>5. here \in later /\ here \in 1 .. Len(ev)
      BY Zenon, <3>3, <3>4
    <3>6. ASSUME NEW i \in 1 .. here - 1
          PROVE  i \in 1 .. Len(ev) /\ i \notin later
      BY <3>3, <3>4, <3>5
    <3> QED
      BY <3>5, <3>6
  <2> QED
    BY <2>1, <2>2
<1> HIDE DEF here, later
<1>5. e \in Entry
  BY <1>2
<1> HIDE DEF e
<1>6. Into(ev, r, here, e)
  BY <1>1, <1>4, <1>5, InsertedInto
<1>7. e.tv = tv
  BY DEF e
<1>8. InOrder(r)
  <2>1. /\ Len(r) = Len(ev) + 1 /\ here \in 1 .. Len(r)
        /\ r[here] = e /\ Len(ev) \in Nat
        /\ \A k \in 1 .. here - 1 : r[k] = ev[k]
        /\ \A k \in here + 1 .. Len(r) : r[k] = ev[k - 1]
    BY <1>6 DEF Into
  <2> HIDE DEF r
  <2>2. Value(tv) \in Nat
    BY <1>2, Compares
  <2>3. ASSUME NEW i \in 1 .. here - 1
        PROVE  /\ i \in 1 .. Len(ev) /\ r[i] = ev[i]
               /\ Value(r[i].tv) \in Nat /\ Value(r[i].tv) <= Value(tv)
    BY <1>3, <1>4, <2>1, <2>2
  <2>4. ASSUME NEW i \in here + 1 .. Len(r)
        PROVE  /\ i - 1 \in 1 .. Len(ev) /\ r[i] = ev[i - 1]
               /\ Value(r[i].tv) \in Nat /\ Value(tv) <= Value(r[i].tv)
    <3>1. i - 1 \in 1 .. Len(ev) /\ r[i] = ev[i - 1]
      BY <2>1
    <3>2. here \in 1 .. Len(ev) /\ here <= i - 1
      BY <2>1
    <3>3. Value(tv) < Value(ev[here].tv) /\ Value(ev[here].tv) \in Nat
      BY <3>2, <1>4, <1>3
    <3>4. /\ Value(ev[here].tv) <= Value(ev[i - 1].tv)
          /\ Value(ev[i - 1].tv) \in Nat
      BY <3>1, <3>2, <1>3 DEF InOrder
    <3> QED
      BY <3>1, <3>3, <3>4, <2>2
  <2>5. ASSUME NEW i \in 1 .. Len(r), NEW j \in 1 .. Len(r), i <= j
        PROVE  Value(r[i].tv) <= Value(r[j].tv)
    <3>1. CASE j < here
      <4>1. i \in 1 .. here - 1 /\ j \in 1 .. here - 1
        BY <3>1, <2>1, <2>5
      <4> QED
        BY <4>1, <2>3, <2>5 DEF InOrder
    <3>2. CASE here < i
      <4>1. i \in here + 1 .. Len(r) /\ j \in here + 1 .. Len(r)
        BY <3>2, <2>1, <2>5
      <4>2. i - 1 <= j - 1
        BY <2>5
      <4> QED
        BY Zenon, <4>1, <4>2, <2>4 DEF InOrder
    <3>3. CASE i <= here /\ here <= j
      <4>1. Value(r[i].tv) <= Value(tv) /\ Value(r[i].tv) \in Nat
        BY <3>3, <2>1, <2>2, <2>3, <1>7
      <4>2. Value(tv) <= Value(r[j].tv) /\ Value(r[j].tv) \in Nat
        BY <3>3, <2>1, <2>2, <2>4, <1>7
      <4> QED
        BY <4>1, <4>2, <2>2
    <3> QED
      BY <3>1, <3>2, <3>3, <2>1
  <2> QED
    BY <2>5 DEF InOrder
<1> HIDE DEF r
<1>9. here \in 1 .. Len(ev) + 1
  BY <1>4
<1> QED
  BY <1>2, <1>6, <1>8, <1>9 DEF e, r

(* f is the table of the walk of call_close over the first n entries.      *)
Walk(ev, t, n, f) ==
  f = [i \in 0 .. n |-> IF i = 0 THEN <<>>
                        ELSE IF Mine(ev[i], t) THEN f[i - 1]
                        ELSE Append(f[i - 1], ev[i])]

LEMMA WalkExists ==
  ASSUME NEW ev \in Seq(Entry), NEW t, NEW n \in 0 .. Len(ev)
  PROVE  \E f : Walk(ev, t, n, f)
<1> DEFINE Bad == {i \in Nat : ~ \E f : Walk(ev, t, i, f)}
<1> SUFFICES ASSUME Bad # {}
             PROVE  FALSE
  <2>1. n \in Nat
    OBVIOUS
  <2> QED
    BY Zenon, <2>1
<1>1. PICK m \in Bad : \A k \in Bad : m <= k
  <2>1. Bad \in SUBSET Nat
    OBVIOUS
  <2> HIDE DEF Bad
  <2> QED
    BY <2>1, LeastNat
<1>2. m \in Nat /\ ~ \E f : Walk(ev, t, m, f)
  OBVIOUS
<1>3. CASE m = 0
  <2> DEFINE f == [i \in 0 .. 0 |-> <<>>]
  <2>1. Walk(ev, t, 0, f)
    BY DEF Walk
  <2> QED
    BY <2>1, <1>2, <1>3
<1>4. CASE m # 0
  <2>1. m - 1 \in Nat /\ m - 1 \notin Bad
    <3>1. m - 1 \in Nat /\ ~(m <= m - 1)
      BY <1>2, <1>4
    <3> HIDE DEF Bad
    <3> QED
      BY <3>1, <1>1
  <2>2. PICK f : Walk(ev, t, m - 1, f)
    BY <2>1
  <2> DEFINE last == IF Mine(ev[m], t) THEN f[m - 1]
                     ELSE Append(f[m - 1], ev[m])
             g == [i \in 0 .. m |-> IF i = m THEN last ELSE f[i]]
  <2>3. \A i \in 0 .. m - 1 :
          f[i] = IF i = 0 THEN <<>> ELSE IF Mine(ev[i], t) THEN f[i - 1]
                                   ELSE Append(f[i - 1], ev[i])
    BY Zenon, <2>2 DEF Walk
  <2>4. ASSUME NEW i \in 0 .. m
        PROVE  g[i] = IF i = 0 THEN <<>> ELSE IF Mine(ev[i], t) THEN g[i - 1]
                                         ELSE Append(g[i - 1], ev[i])
    <3>1. CASE i = m
      <4>1. g[i] = last /\ g[i - 1] = f[m - 1] /\ i # 0
        BY <3>1, <1>2, <1>4
      <4> QED
        BY <4>1, <3>1
    <3>2. CASE i # m
      <4>1. i \in 0 .. m - 1 /\ g[i] = f[i]
        BY <3>2, <1>2
      <4>2. i # 0 => g[i - 1] = f[i - 1]
        BY <4>1, <1>2
      <4> QED
        BY <4>1, <4>2, <2>3
    <3> QED
      BY <3>1, <3>2
  <2>5. Walk(ev, t, m, g)
    <3>1. g = [i \in 0 .. m |-> g[i]]
      OBVIOUS
    <3> HIDE DEF g
    <3> QED
      BY Zenon, <3>1, <2>4 DEF Walk
  <2> QED
    BY <2>5, <1>2
<1> QED
  BY <1>3, <1>4

LEMMA PurgeWalks ==
  ASSUME NEW ev \in Seq(Entry), NEW t
  PROVE  \E f : Walk(ev, t, Len(ev), f) /\ Purge(ev, t) = f[Len(ev)]
<1> DEFINE left == CHOOSE f : f = [i \in 0 .. Len(ev) |->
                     IF i = 0 THEN <<>>
                     ELSE IF Mine(ev[i], t) THEN f[i - 1]
                     ELSE Append(f[i - 1], ev[i])]
<1>1. Purge(ev, t) = left[Len(ev)]
  BY Zenon DEF Purge
<1>2. Len(ev) \in 0 .. Len(ev)
  OBVIOUS
<1>3. \E f : Walk(ev, t, Len(ev), f)
  BY Zenon, <1>2, WalkExists
<1>4. Walk(ev, t, Len(ev), left)
  BY Zenon, <1>3 DEF Walk
<1> QED
  BY Zenon, <1>1, <1>4

(* r holds the entries that stay of the first n of ev, in their order: k   *)
(* says where each of them was.                                            *)
KeptBy(ev, t, n, r, k) ==
  /\ k \in [1 .. Len(r) -> 1 .. n]
  /\ \A a, b \in 1 .. Len(r) : a < b => k[a] < k[b]
  /\ \A a \in 1 .. Len(r) : r[a] = ev[k[a]] /\ ~Mine(ev[k[a]], t)
  /\ \A i \in 1 .. n :
       ~Mine(ev[i], t) => \E a \in 1 .. Len(r) : k[a] = i

Kept(ev, t, n, r) == r \in Seq(Entry) /\ \E k : KeptBy(ev, t, n, r, k)

(* One step of the walk.                                                   *)
LEMMA KeptStep ==
  ASSUME NEW ev \in Seq(Entry), NEW t, NEW n \in Nat, n + 1 <= Len(ev),
         NEW r, Kept(ev, t, n, r)
  PROVE  Kept(ev, t, n + 1, IF Mine(ev[n + 1], t) THEN r
                            ELSE Append(r, ev[n + 1]))
<1>1. r \in Seq(Entry) /\ Len(r) \in Nat
  BY DEF Kept
<1>2. PICK k : KeptBy(ev, t, n, r, k)
  BY DEF Kept
<1>3. /\ k \in [1 .. Len(r) -> 1 .. n]
      /\ \A a, b \in 1 .. Len(r) : a < b => k[a] < k[b]
      /\ \A a \in 1 .. Len(r) : r[a] = ev[k[a]] /\ ~Mine(ev[k[a]], t)
      /\ \A i \in 1 .. n :
           ~Mine(ev[i], t) => \E a \in 1 .. Len(r) : k[a] = i
  BY <1>2 DEF KeptBy
<1>4. \A i \in 1 .. n + 1 : i \in 1 .. n \/ i = n + 1
  OBVIOUS
<1>5. CASE Mine(ev[n + 1], t)
  <2>1. k \in [1 .. Len(r) -> 1 .. n + 1]
    BY <1>3
  <2>2. KeptBy(ev, t, n + 1, r, k)
    BY <1>3, <1>4, <1>5, <2>1 DEF KeptBy
  <2> QED
    BY <1>1, <1>5, <2>2 DEF Kept
<1>6. CASE ~Mine(ev[n + 1], t)
  <2> DEFINE q == Append(r, ev[n + 1])
             h == [a \in 1 .. Len(r) + 1 |->
                     IF a = Len(r) + 1 THEN n + 1 ELSE k[a]]
  <2>1. ev[n + 1] \in Entry
    OBVIOUS
  <2>2. /\ q \in Seq(Entry) /\ Len(q) = Len(r) + 1
        /\ q[Len(r) + 1] = ev[n + 1]
        /\ \A a \in 1 .. Len(r) : q[a] = r[a]
    BY <1>1, <2>1
  <2>3. /\ h[Len(r) + 1] = n + 1
        /\ \A a \in 1 .. Len(r) : h[a] = k[a] /\ h[a] \in 1 .. n
    BY <1>1, <1>3
  <2>4. h \in [1 .. Len(r) + 1 -> 1 .. n + 1]
    BY <1>1, <1>3
  <2> HIDE DEF q, h
  <2>5. \A a \in 1 .. Len(q) : a \in 1 .. Len(r) \/ a = Len(r) + 1
    BY <1>1, <2>2
  <2>6. ASSUME NEW a \in 1 .. Len(q), NEW b \in 1 .. Len(q), a < b
        PROVE  h[a] < h[b]
    <3>1. a \in 1 .. Len(r)
      BY <1>1, <2>2, <2>6
    <3>2. CASE b \in 1 .. Len(r)
      BY <3>1, <3>2, <2>3, <2>6, <1>3
    <3>3. CASE b = Len(r) + 1
      BY <3>1, <3>3, <2>3
    <3> QED
      BY <3>2, <3>3, <2>5
  <2>7. \A a \in 1 .. Len(q) : q[a] = ev[h[a]] /\ ~Mine(ev[h[a]], t)
    BY <1>3, <1>6, <2>2, <2>3, <2>5
  <2>8. ASSUME NEW i \in 1 .. n + 1, ~Mine(ev[i], t)
        PROVE  \E a \in 1 .. Len(q) : h[a] = i
    <3>1. CASE i = n + 1
      <4>1. Len(r) + 1 \in 1 .. Len(q)
        BY <2>2, <1>1
      <4> QED
        BY <4>1, <3>1, <2>3
    <3>2. CASE i \in 1 .. n
      <4>1. PICK a \in 1 .. Len(r) : k[a] = i
        BY <3>2, <2>8, <1>3
      <4>2. a \in 1 .. Len(q)
        BY <2>2, <1>1
      <4> QED
        BY <4>1, <4>2, <2>3
    <3> QED
      BY <3>1, <3>2, <1>4
  <2>9. KeptBy(ev, t, n + 1, q, h)
    BY <2>2, <2>4, <2>6, <2>7, <2>8 DEF KeptBy
  <2>10. Kept(ev, t, n + 1, q)
    BY <2>2, <2>9 DEF Kept
  <2> QED
    BY <2>10, <1>6 DEF q
<1> QED
  BY <1>5, <1>6

(* call_close leaves the entries that are not the tunnel's, in order.      *)
LEMMA PurgeKeeps ==
  ASSUME NEW ev \in Seq(Entry), NEW t
  PROVE  Kept(ev, t, Len(ev), Purge(ev, t))
<1>1. PICK f : Walk(ev, t, Len(ev), f) /\ Purge(ev, t) = f[Len(ev)]
  BY PurgeWalks
<1>2. \A i \in 0 .. Len(ev) :
        f[i] = IF i = 0 THEN <<>> ELSE IF Mine(ev[i], t) THEN f[i - 1]
                                 ELSE Append(f[i - 1], ev[i])
  BY Zenon, <1>1 DEF Walk
<1> DEFINE Bad == {i \in 0 .. Len(ev) : ~Kept(ev, t, i, f[i])}
<1> SUFFICES ASSUME Bad # {}
             PROVE  FALSE
  <2>1. Len(ev) \in 0 .. Len(ev)
    OBVIOUS
  <2> QED
    BY <1>1, <2>1
<1>3. PICK m \in Bad : \A k \in Bad : m <= k
  <2>1. Bad \in SUBSET Nat
    OBVIOUS
  <2> HIDE DEF Bad
  <2> QED
    BY <2>1, LeastNat
<1>4. m \in 0 .. Len(ev) /\ ~Kept(ev, t, m, f[m])
  OBVIOUS
<1>5. CASE m = 0
  <2> DEFINE e == <<>>
             k == [a \in 1 .. 0 |-> a]
  <2>1. e \in Seq(Entry) /\ Len(e) = 0
    OBVIOUS
  <2>2. k \in [1 .. 0 -> 1 .. 0] /\ 1 .. 0 = {}
    OBVIOUS
  <2> HIDE DEF e, k
  <2>3. KeptBy(ev, t, 0, e, k)
    BY <2>1, <2>2 DEF KeptBy
  <2>4. Kept(ev, t, 0, e)
    BY <2>1, <2>3 DEF Kept
  <2>5. f[0] = e
    BY <1>2 DEF e
  <2> QED
    BY <2>4, <2>5, <1>4, <1>5
<1>6. CASE m # 0
  <2>1. m - 1 \in 0 .. Len(ev) /\ ~(m <= m - 1) /\ (m - 1) + 1 = m
    BY <1>4, <1>6
  <2>2. m - 1 \notin Bad
    <3> HIDE DEF Bad
    <3> QED
      BY <2>1, <1>3
  <2>3. Kept(ev, t, m - 1, f[m - 1])
    BY <2>1, <2>2
  <2>4. m - 1 \in Nat /\ (m - 1) + 1 <= Len(ev)
    BY <2>1, <1>4
  <2>5. Kept(ev, t, m, IF Mine(ev[m], t) THEN f[m - 1]
                       ELSE Append(f[m - 1], ev[m]))
    BY <2>1, <2>3, <2>4, KeptStep
  <2> QED
    BY <2>5, <1>2, <1>4, <1>6
<1> QED
  BY <1>5, <1>6
-----------------------------------------------------------------------------
(* The operations on the list, one lemma each.                             *)

(* schedule of something that is not a Hello.                              *)
LEMMA ScheduleProper ==
  ASSUME now \in Nat, NEW tn, NEW x \in Int, x <= now, NEW m,
         NEW ev, Proper(ev, tn, x, m), NEW s \in Nat, NEW f, NEW d,
         f # "hello",
         \A tv \in Times : Value(tv) = now + s * USec =>
           OnTime([tv |-> tv, func |-> f, data |-> d]),
         \A tv \in Times : /\ [tv |-> tv, func |-> f, data |-> d] \in Entry
                           /\ Alive([tv |-> tv, func |-> f, data |-> d], tn)
  PROVE  Proper(Schedule(ev, Tv(s, 0), f, d), tn, x, m)
<1> DEFINE r == Schedule(ev, Tv(s, 0), f, d)
           E(tv) == [tv |-> tv, func |-> f, data |-> d]
<1>1. ev \in Seq(Entry) /\ InOrder(ev)
  BY DEF Proper
<1>2. PICK tv \in Times, p \in 1 .. Len(ev) + 1 :
        /\ Value(tv) = now + s * USec
        /\ Into(ev, r, p, E(tv)) /\ InOrder(r)
  BY Zenon, <1>1, ScheduleInto
<1> DEFINE e == E(tv)
<1>3. /\ e.tv = tv /\ e.func = f /\ OnTime(e) /\ Alive(e, tn)
      /\ \A t : ~IsHello(e, t)
  BY <1>2 DEF IsHello
<1>4. x <= Value(e.tv)
  <2>1. PICK z \in Nat : z = s * USec
    BY SchedulerAssumption
  <2> QED
    BY <2>1, <1>2, <1>3
<1>5. Into(ev, r, p, e) /\ InOrder(r)
  BY <1>2
<1> HIDE DEF e, r
<1>6. ASSUME NEW i \in 1 .. Len(r)
      PROVE  Alive(r[i], tn) /\ OnTime(r[i]) /\ x <= Value(r[i].tv)
  <2>1. r[i] = e \/ \E j \in 1 .. Len(ev) : r[i] = ev[j]
    BY <1>1, <1>5, IntoEntries
  <2> QED
    BY <2>1, <1>3, <1>4 DEF Proper
<1>7. ASSUME NEW t \in Tunnels
      PROVE  IF t \in m THEN None(r, t) ELSE tn[t] \in Greeted => One(r, t)
  <2>1. IF t \in m THEN None(ev, t) ELSE tn[t] \in Greeted => One(ev, t)
    BY DEF Proper
  <2> QED
    BY <2>1, <1>1, <1>3, <1>5, IntoHellos
<1>8. r \in Seq(Entry)
  BY <1>5 DEF Into
<1>9. Proper(r, tn, x, m)
  BY <1>5, <1>6, <1>7, <1>8 DEF Proper
<1> QED
  BY <1>9 DEF r

(* schedule of the Hello that an established tunnel lacks.                 *)
LEMMA GreetProper ==
  ASSUME now \in Nat, NEW tn, NEW x \in Int, x <= now,
         NEW u \in Tunnels, tn[u] \in Greeted,
         NEW ev, Proper(ev, tn, x, {u}), NEW s \in Nat
  PROVE  Proper(Schedule(ev, Tv(s, 0), "hello", u), tn, x, {})
<1> DEFINE r == Schedule(ev, Tv(s, 0), "hello", u)
           E(tv) == [tv |-> tv, func |-> "hello", data |-> u]
<1>1. ev \in Seq(Entry) /\ InOrder(ev)
  BY DEF Proper
<1>2. \A tv \in Times : E(tv) \in Entry
  BY DEF Entry
<1>3. PICK tv \in Times, p \in 1 .. Len(ev) + 1 :
        /\ Value(tv) = now + s * USec
        /\ Into(ev, r, p, E(tv)) /\ InOrder(r)
  BY Zenon, <1>1, <1>2, ScheduleInto
<1> DEFINE e == E(tv)
<1>4. /\ e.tv = tv /\ OnTime(e) /\ Alive(e, tn)
      /\ IsHello(e, u) /\ \A t : t # u => ~IsHello(e, t)
  BY DEF OnTime, Alive, IsHello
<1>5. x <= Value(e.tv)
  <2>1. PICK z \in Nat : z = s * USec
    BY SchedulerAssumption
  <2> QED
    BY <2>1, <1>3, <1>4
<1>6. Into(ev, r, p, e) /\ InOrder(r)
  BY <1>3
<1> HIDE DEF e, r
<1>7. ASSUME NEW i \in 1 .. Len(r)
      PROVE  Alive(r[i], tn) /\ OnTime(r[i]) /\ x <= Value(r[i].tv)
  <2>1. r[i] = e \/ \E j \in 1 .. Len(ev) : r[i] = ev[j]
    BY <1>1, <1>6, IntoEntries
  <2> QED
    BY <2>1, <1>4, <1>5 DEF Proper
<1>8. ASSUME NEW t \in Tunnels, tn[t] \in Greeted
      PROVE  One(r, t)
  <2>1. IF t \in {u} THEN None(ev, t) ELSE tn[t] \in Greeted => One(ev, t)
    BY DEF Proper
  <2> QED
    BY Zenon, <2>1, <1>1, <1>4, <1>6, <1>8, IntoHellos
<1>9. r \in Seq(Entry)
  BY <1>6 DEF Into
<1>10. Proper(r, tn, x, {})
  BY <1>6, <1>7, <1>8, <1>9 DEF Proper
<1> QED
  BY <1>10 DEF r

(* call_close, as far as the list: what is left is proper for a tunnel     *)
(* that is no longer established.                                          *)
LEMMA PurgeProper ==
  ASSUME NEW tn \in [Tunnels -> States], NEW x \in Int, NEW t \in Tunnels,
         NEW ev, Proper(ev, tn, x, {}), NEW st \in States \ Greeted
  PROVE  Proper(Purge(ev, t), [tn EXCEPT ![t] = st], x, {})
<1> DEFINE r == Purge(ev, t)
           tm == [tn EXCEPT ![t] = st]
<1>1. ev \in Seq(Entry) /\ InOrder(ev) /\ Len(ev) \in Nat
  BY DEF Proper
<1>2. r \in Seq(Entry) /\ Len(r) \in Nat /\ \E k : KeptBy(ev, t, Len(ev), r, k)
  BY <1>1, PurgeKeeps DEF Kept
<1> HIDE DEF r
<1>3. PICK k : KeptBy(ev, t, Len(ev), r, k)
  BY <1>2
<1>4. /\ \A a \in 1 .. Len(r) : k[a] \in 1 .. Len(ev)
      /\ \A a, b \in 1 .. Len(r) : a < b => k[a] < k[b]
      /\ \A a \in 1 .. Len(r) : r[a] = ev[k[a]] /\ ~Mine(ev[k[a]], t)
      /\ \A i \in 1 .. Len(ev) :
           ~Mine(ev[i], t) => \E a \in 1 .. Len(r) : k[a] = i
  BY <1>3 DEF KeptBy
<1>5. ASSUME NEW a \in 1 .. Len(r), NEW b \in 1 .. Len(r), a <= b
      PROVE  k[a] <= k[b]
  <2>0. k[a] \in 1 .. Len(ev) /\ k[b] \in 1 .. Len(ev)
    BY Zenon, <1>4
  <2>1. CASE a = b
    BY <2>0, <2>1
  <2>2. CASE a < b
    <3>1. k[a] < k[b]
      BY Zenon, <2>2, <1>4
    <3> QED
      BY <2>0, <3>1
  <2> QED
    BY <2>1, <2>2, <1>5
<1>6. InOrder(r)
  <2>1. ASSUME NEW a \in 1 .. Len(r), NEW b \in 1 .. Len(r), a <= b
        PROVE  Value(r[a].tv) <= Value(r[b].tv)
    <3>1. /\ k[a] \in 1 .. Len(ev) /\ k[b] \in 1 .. Len(ev) /\ k[a] <= k[b]
          /\ r[a] = ev[k[a]] /\ r[b] = ev[k[b]]
      BY Zenon, <1>4, <1>5, <2>1
    <3>2. Value(ev[k[a]].tv) <= Value(ev[k[b]].tv)
      BY Zenon, <1>1, <3>1 DEF InOrder
    <3> QED
      BY Zenon, <3>1, <3>2
  <2> QED
    BY Zenon, <2>1 DEF InOrder
<1>7. tm[t] = st /\ \A u \in Tunnels : u # t => tm[u] = tn[u]
  OBVIOUS
<1> HIDE DEF tm
<1>8. ASSUME NEW a \in 1 .. Len(r)
      PROVE  Alive(r[a], tm) /\ OnTime(r[a]) /\ x <= Value(r[a].tv)
  <2> DEFINE e == ev[k[a]]
  <2>1. r[a] = e /\ ~Mine(e, t) /\ k[a] \in 1 .. Len(ev)
    BY <1>4
  <2>2. e \in Entry /\ Alive(e, tn) /\ OnTime(e) /\ x <= Value(e.tv)
    BY <2>1, <1>1 DEF Proper
  <2> HIDE DEF e
  <2>3. e.func = "control_xmit" => e.data.tunnel \in Tunnels \ {t}
    BY <2>1, <2>2 DEF Entry, Buffers, Mine
  <2>4. e.func = "hello" => e.data \in Tunnels \ {t}
    BY <2>1, <2>2 DEF Entry, Mine, IsHello
  <2>5. Alive(e, tm)
    BY <2>2, <2>3, <2>4, <1>7 DEF Alive
  <2> QED
    BY <2>1, <2>2, <2>5
<1>9. ASSUME NEW u \in Tunnels, tm[u] \in Greeted
      PROVE  One(r, u)
  <2>1. u # t /\ tn[u] \in Greeted
    BY <1>7, <1>9
  <2>2. One(ev, u)
    BY <2>1 DEF Proper
  <2>3. PICK i \in 1 .. Len(ev) :
          {j \in 1 .. Len(ev) : IsHello(ev[j], u)} = {i}
    BY <2>2 DEF One
  <2>4. IsHello(ev[i], u)
    BY <2>3
  <2>5. ~Mine(ev[i], t)
    BY <2>1, <2>4 DEF Mine, IsHello
  <2>6. PICK a \in 1 .. Len(r) : k[a] = i
    BY <2>5, <1>4
  <2>7. IsHello(r[a], u)
    BY <2>4, <2>6, <1>4
  <2>8. ASSUME NEW b \in 1 .. Len(r), IsHello(r[b], u)
        PROVE  b = a
    <3>1. k[b] \in 1 .. Len(ev) /\ IsHello(ev[k[b]], u)
      BY <2>8, <1>4
    <3>2. k[b] = k[a]
      BY <3>1, <2>3, <2>6
    <3>3. ~(a < b) /\ ~(b < a)
      BY <3>2, <1>4
    <3> QED
      BY <3>3, <1>2
  <2>9. {j \in 1 .. Len(r) : IsHello(r[j], u)} = {a}
    BY <2>7, <2>8
  <2> QED
    BY <2>9 DEF One
<1>10. Proper(r, tm, x, {})
  BY <1>2, <1>6, <1>8, <1>9 DEF Proper
<1> QED
  BY <1>10 DEF r, tm

(* The first entry is taken off the list: if it was a Hello, its tunnel    *)
(* lacks it.                                                               *)
LEMMA TailProper ==
  ASSUME NEW tn \in [Tunnels -> States], NEW x \in Int,
         NEW ev, Proper(ev, tn, x, {}), ev # <<>>
  PROVE  /\ Head(ev).func # "hello" => Proper(Tail(ev), tn, x, {})
         /\ Head(ev).func = "hello" =>
              Proper(Tail(ev), tn, x, {Head(ev).data})
<1> DEFINE r == Tail(ev)
           e == Head(ev)
<1>1. /\ ev \in Seq(Entry) /\ InOrder(ev) /\ Len(ev) \in Nat \ {0}
      /\ r \in Seq(Entry) /\ Len(r) = Len(ev) - 1 /\ e = ev[1]
      /\ \A i \in 1 .. Len(r) : i + 1 \in 1 .. Len(ev) /\ r[i] = ev[i + 1]
  BY DEF Proper
<1> HIDE DEF r, e
<1>2. InOrder(r)
  <2>1. ASSUME NEW i \in 1 .. Len(r), NEW j \in 1 .. Len(r), i <= j
        PROVE  Value(r[i].tv) <= Value(r[j].tv)
    <3>1. i + 1 \in 1 .. Len(ev) /\ j + 1 \in 1 .. Len(ev) /\ i + 1 <= j + 1
      BY <1>1, <2>1
    <3>2. Value(ev[i + 1].tv) <= Value(ev[j + 1].tv)
      BY <3>1, <1>1 DEF InOrder
    <3> QED
      BY <3>2, <1>1
  <2> QED
    BY <2>1 DEF InOrder
<1>3. \A i \in 1 .. Len(r) :
        Alive(r[i], tn) /\ OnTime(r[i]) /\ x <= Value(r[i].tv)
  BY Zenon, <1>1 DEF Proper
<1>4. ASSUME NEW t \in Tunnels, tn[t] \in Greeted, ~IsHello(e, t)
      PROVE  One(r, t)
  <2>1. One(ev, t)
    BY <1>4 DEF Proper
  <2>2. PICK i \in 1 .. Len(ev) :
          {j \in 1 .. Len(ev) : IsHello(ev[j], t)} = {i}
    BY <2>1 DEF One
  <2>3. i # 1 /\ IsHello(ev[i], t)
    BY <2>2, <1>1, <1>4
  <2>4. i - 1 \in 1 .. Len(r) /\ r[i - 1] = ev[i]
    BY <2>3, <1>1
  <2>5. ASSUME NEW j \in 1 .. Len(r), IsHello(r[j], t)
        PROVE  j = i - 1
    <3>1. j + 1 \in 1 .. Len(ev) /\ IsHello(ev[j + 1], t)
      BY <2>5, <1>1
    <3>2. j + 1 = i
      BY <3>1, <2>2
    <3> QED
      BY <3>2
  <2>6. {j \in 1 .. Len(r) : IsHello(r[j], t)} = {i - 1}
    BY <2>3, <2>4, <2>5
  <2> QED
    BY <2>4, <2>6 DEF One
<1>5. ASSUME NEW t \in Tunnels, IsHello(e, t)
      PROVE  None(r, t)
  <2>1. tn[t] \in Greeted
    BY <1>1, <1>5 DEF Proper, Alive, IsHello
  <2>2. One(ev, t)
    BY <2>1 DEF Proper
  <2>3. PICK i \in 1 .. Len(ev) :
          {j \in 1 .. Len(ev) : IsHello(ev[j], t)} = {i}
    BY <2>2 DEF One
  <2>4. i = 1
    BY <2>3, <1>1, <1>5
  <2>5. ASSUME NEW j \in 1 .. Len(r), IsHello(r[j], t)
        PROVE  FALSE
    <3>1. j + 1 \in 1 .. Len(ev) /\ IsHello(ev[j + 1], t)
      BY <2>5, <1>1
    <3>2. j + 1 = 1
      BY <3>1, <2>3, <2>4
    <3> QED
      BY <3>2
  <2> QED
    BY <2>5 DEF None
<1>6. ASSUME e.func # "hello"
      PROVE  Proper(r, tn, x, {})
  BY <1>1, <1>2, <1>3, <1>4, <1>6 DEF Proper, IsHello
<1>7. ASSUME e.func = "hello"
      PROVE  Proper(r, tn, x, {e.data})
  BY <1>1, <1>2, <1>3, <1>4, <1>5, <1>7 DEF Proper, IsHello
<1> QED
  BY <1>6, <1>7 DEF r, e

(* The delay is a power of two, as long as it grows.                       *)
LEMMA BackoffIs ==
  ASSUME NEW n \in Nat \ {0}
  PROVE  Backoff(n) \in Nat /\ (n <= 32 => Backoff(n) = 2 ^ (n - 1))
<1> DEFINE S == {n - 1, 31}
<1>1. /\ Min(S) \in 0 .. 31
      /\ n <= 32 => Min(S) = n - 1
  BY DEF Min
<1>2. Backoff(n) = 2 ^ Min(S)
  BY DEF Backoff
<1> HIDE DEF S
<1>3. PICK k \in 1 .. 32 : Min(S) = k - 1
  <2>1. Min(S) + 1 \in 1 .. 32 /\ Min(S) = (Min(S) + 1) - 1
    BY <1>1
  <2> QED
    BY <2>1
<1>4. 2 ^ (k - 1) \in Nat
  BY Zenon, Doubling
<1> QED
  BY <1>1, <1>2, <1>3, <1>4

(* control_xmit schedules a buffer of a tunnel that exists.                *)
LEMMA ResendProper ==
  ASSUME now \in Nat, NEW tn, NEW x \in Int, x <= now, NEW m,
         NEW ev, Proper(ev, tn, x, m),
         NEW b \in Buffers, tn[b.tunnel] # "free",
         b.retries <= 32 =>
           LET due == b.first + (2 ^ b.retries - 1) * USec
           IN  now + 2 ^ (b.retries - 1) * USec
                 \in due .. due + (b.retries - 1) * Late
  PROVE  Proper(Resend(ev, b), tn, x, m)
<1> DEFINE s == Backoff(b.retries)
           E(tv) == [tv |-> tv, func |-> "control_xmit", data |-> b]
<1>1. b.retries \in Nat \ {0}
  BY DEF Buffers
<1>2. s \in Nat /\ (b.retries <= 32 => s = 2 ^ (b.retries - 1))
  BY <1>1, BackoffIs
<1> HIDE DEF s
<1>3. ASSUME NEW tv \in Times, Value(tv) = now + s * USec
      PROVE  OnTime(E(tv))
  BY <1>2, <1>3 DEF OnTime
<1>4. ASSUME NEW tv \in Times
      PROVE  E(tv) \in Entry /\ Alive(E(tv), tn)
  BY DEF Entry, Alive
<1>5. Proper(Schedule(ev, Tv(s, 0), "control_xmit", b), tn, x, m)
  BY <1>2, <1>3, <1>4, ScheduleProper
<1> QED
  BY <1>5 DEF Resend, s

LEMMA NewMessageProper ==
  ASSUME now \in Nat, NEW tn, NEW x \in Int, x <= now, NEW m,
         NEW ev, Proper(ev, tn, x, m), NEW t \in Tunnels, tn[t] # "free"
  PROVE  Proper(NewMessage(ev, t), tn, x, m)
<1> DEFINE b == [tunnel |-> t, retries |-> 1, first |-> now, acked |-> FALSE]
<1>1. /\ b \in Buffers /\ b.tunnel = t /\ b.retries = 1 /\ b.first = now
  BY DEF Buffers
<1> HIDE DEF b
<1>2. 2 ^ 1 = 2 /\ 2 ^ (1 - 1) = 1
  OBVIOUS
<1>3. LET due == b.first + (2 ^ b.retries - 1) * USec
      IN  now + 2 ^ (b.retries - 1) * USec
            \in due .. due + (b.retries - 1) * Late
  BY <1>1, <1>2, SchedulerAssumption
<1>4. Proper(Resend(ev, b), tn, x, m)
  BY Zenon, <1>1, <1>3, ResendProper
<1> QED
  BY <1>4 DEF NewMessage, b

(* destroy_tunnel and destroy_call may schedule a redial.                  *)
LEMMA RedialProper ==
  ASSUME now \in Nat, NEW tn, NEW x \in Int, x <= now, NEW m,
         NEW ev, Proper(ev, tn, x, m), NEW t \in Tunnels,
         NEW r \in MayRedial(ev, t)
  PROVE  Proper(r, tn, x, m)
<1> DEFINE E(tv) == [tv |-> tv, func |-> "magic_lac_dial", data |-> t]
<1>1. CASE r = ev
  BY <1>1
<1>2. CASE /\ t \in Dials
           /\ r = Schedule(ev, Tv(RTimeout, 0), "magic_lac_dial", t)
  <2>1. ASSUME NEW tv \in Times
        PROVE  E(tv) \in Entry /\ Alive(E(tv), tn) /\ OnTime(E(tv))
    BY <1>2 DEF Entry, Alive, OnTime
  <2>2. RTimeout \in Nat
    BY SchedulerAssumption
  <2> QED
    BY <1>2, <2>1, <2>2, ScheduleProper
<1> QED
  BY <1>1, <1>2 DEF MayRedial

(* A tunnel that is not established changes its state, or becomes          *)
(* established and lacks its Hello.                                        *)
LEMMA TunnelProper ==
  ASSUME NEW tn \in [Tunnels -> States], NEW x \in Int,
         NEW ev, Proper(ev, tn, x, {}), NEW t \in Tunnels, tn[t] \notin Greeted
  PROVE  /\ Proper(ev, [tn EXCEPT ![t] = "setup"], x, {})
         /\ \A st \in Greeted : Proper(ev, [tn EXCEPT ![t] = st], x, {t})
<1>1. ASSUME NEW st \in {"setup", "up", "risen"}
      PROVE  Proper(ev, [tn EXCEPT ![t] = st], x,
                    IF st \in Greeted THEN {t} ELSE {})
  <2> DEFINE tm == [tn EXCEPT ![t] = st]
  <2>1. tm[t] = st /\ \A u \in Tunnels : u # t => tm[u] = tn[u]
    OBVIOUS
  <2> HIDE DEF tm
  <2>2. ev \in Seq(Entry) /\ InOrder(ev)
    BY DEF Proper
  <2>3. ASSUME NEW i \in 1 .. Len(ev)
        PROVE  /\ Alive(ev[i], tm) /\ OnTime(ev[i]) /\ x <= Value(ev[i].tv)
               /\ ~IsHello(ev[i], t)
    <3>1. ev[i] \in Entry /\ Alive(ev[i], tn) /\ OnTime(ev[i])
                         /\ x <= Value(ev[i].tv)
      BY <2>2 DEF Proper
    <3>2. ev[i].func = "control_xmit" => ev[i].data.tunnel \in Tunnels
      BY <3>1 DEF Entry, Buffers
    <3>3. ev[i].func = "hello" => ev[i].data \in Tunnels \ {t}
      BY <3>1 DEF Entry, Alive
    <3> QED
      BY <3>1, <3>2, <3>3, <2>1 DEF Alive, IsHello
  <2>4. ASSUME NEW u \in Tunnels
        PROVE  IF u \in (IF st \in Greeted THEN {t} ELSE {}) THEN None(ev, u)
               ELSE tm[u] \in Greeted => One(ev, u)
    <3>1. CASE u = t
      BY <3>1, <2>1, <2>3 DEF None
    <3>2. CASE u # t
      BY <3>2, <2>1 DEF Proper
    <3> QED
      BY <3>1, <3>2
  <2>5. Proper(ev, tm, x, IF st \in Greeted THEN {t} ELSE {})
    BY <2>2, <2>3, <2>4 DEF Proper
  <2> QED
    BY <2>5 DEF tm
<1> QED
  BY <1>1 DEF Greeted

(* A resend that is late by at most one round of handlers.                 *)
LEMMA NextDue ==
  ASSUME NEW n \in 1 .. 31, NEW first \in Nat, NEW v \in Int, now \in Nat,
         v <= now, now - Late <= v,
         LET due == first + (2 ^ n - 1) * USec
         IN  v \in due .. due + (n - 1) * Late
  PROVE  LET due == first + (2 ^ (n + 1) - 1) * USec
         IN  now + 2 ^ n * USec \in due .. due + n * Late
<1>1. USec \in Nat /\ Late \in Nat
  BY SchedulerAssumption
<1>2. /\ 2 ^ n \in Nat /\ 2 ^ (n + 1) = 2 * 2 ^ n
  <2>1. n + 1 \in 1 .. 32 /\ (n + 1) - 1 = n
    OBVIOUS
  <2> QED
    BY Zenon, <2>1, Doubling
<1>3. PICK p \in Nat, q \in Nat : p = 2 ^ n /\ q = 2 ^ (n + 1) /\ q = 2 * p
  BY <1>2
<1>4. PICK a \in Int, b \in Int, c \in Int, k \in Int, l \in Int :
        /\ a = (p - 1) * USec /\ b = p * USec /\ c = (q - 1) * USec
        /\ k = (n - 1) * Late /\ l = n * Late
        /\ c = a + b /\ l = k + Late
  <2>1. \A u, d \in Int : /\ (p - 1) * u + p * u = (2 * p - 1) * u
                          /\ (n - 1) * d + d = n * d
    OBVIOUS
  <2> QED
    BY <1>1, <1>3, <2>1
<1>5. v \in (first + a) .. (first + a) + k
  BY <1>3, <1>4
<1>6. now + b \in (first + c) .. (first + c) + l
  BY <1>1, <1>4, <1>5
<1> QED
  BY <1>3, <1>4, <1>6

(* call_close, whatever the state of the tunnel.                           *)
LEMMA CloseProper ==
  ASSUME now \in Nat, tun \in [Tunnels -> States],
         NEW x \in Int, x <= now, NEW t \in Tunnels,
         NEW ev, Proper(ev, tun, x, {}), CallClose(ev, t)
  PROVE  tun' \in [Tunnels -> States] /\ Proper(events', tun', x, {})
<1>1. CASE tun[t] \in Closing
  <2>1. /\ tun' = [tun EXCEPT ![t] = "free"]
        /\ events' \in MayRedial(Purge(ev, t), t)
    BY <1>1 DEF CallClose
  <2>0. "free" \in States \ Greeted
    BY DEF States, Greeted
  <2>2. Proper(Purge(ev, t), tun', x, {})
    BY Zenon, <2>0, <2>1, PurgeProper
  <2>3. Proper(events', tun', x, {})
    BY <2>1, <2>2, RedialProper
  <2> QED
    BY <2>1, <2>3 DEF States
<1>2. CASE tun[t] \notin Closing
  <2> DEFINE st == IF tun[t] = "up" THEN "closing" ELSE "dropped"
  <2>0. st \in States \ Greeted /\ st # "free"
    BY DEF States, Greeted
  <2>1. /\ tun' = [tun EXCEPT ![t] = st]
        /\ events' \in MayRedial(NewMessage(Purge(ev, t), t), t)
    BY <1>2 DEF CallClose
  <2> HIDE DEF st
  <2>2. Proper(Purge(ev, t), tun', x, {})
    BY Zenon, <2>0, <2>1, PurgeProper
  <2>3. tun'[t] # "free"
    BY <2>0, <2>1
  <2>4. Proper(NewMessage(Purge(ev, t), t), tun', x, {})
    BY <2>2, <2>3, NewMessageProper
  <2>5. Proper(events', tun', x, {})
    BY <2>1, <2>4, RedialProper
  <2> QED
    BY <2>0, <2>1, <2>5
<1> QED
  BY <1>1, <1>2

(* magic_lac_dial, from the list or from a command.                        *)
LEMMA DialProper ==
  ASSUME now \in Nat, tun \in [Tunnels -> States],
         NEW x \in Int, x <= now, NEW t \in Tunnels,
         NEW ev, Proper(ev, tun, x, {}), MagicLacDial(ev, t)
  PROVE  tun' \in [Tunnels -> States] /\ Proper(events', tun', x, {})
<1>1. CASE /\ events' = NewMessage(ev, t)
           /\ tun' = [tun EXCEPT ![t] = IF @ = "free" THEN "setup" ELSE @]
  <2>1. Proper(ev, tun', x, {}) /\ tun' \in [Tunnels -> States]
    <3>1. CASE tun[t] = "free"
      <4>1. tun' = [tun EXCEPT ![t] = "setup"] /\ tun[t] \notin Greeted
        BY <1>1, <3>1 DEF Greeted
      <4> QED
        BY Zenon, <3>1, <4>1, TunnelProper DEF States
    <3>2. CASE tun[t] # "free"
      <4>1. tun' = tun
        BY <1>1, <3>2
      <4> QED
        BY <4>1
    <3> QED
      BY <3>1, <3>2
  <2>2. tun'[t] # "free"
    BY <1>1
  <2> QED
    BY Zenon, <1>1, <2>1, <2>2, NewMessageProper
<1>2. CASE /\ events' \in IF tun[t] = "free" THEN MayRedial(ev, t) ELSE {ev}
           /\ UNCHANGED tun
  BY <1>2, RedialProper
<1> QED
  BY <1>1, <1>2 DEF MagicLacDial

(* The peer acknowledges: nothing but the mark on the buffers changes.     *)
LEMMA AckProper ==
  ASSUME NEW tn, NEW x \in Int, NEW t, Proper(events, tn, x, {}),
         Acknowledge(t)
  PROVE  Proper(events', tn, x, {})
<1> DEFINE Acked(e) == [e EXCEPT !.data.acked = TRUE]
<1>1. events \in Seq(Entry) /\ InOrder(events) /\ Len(events) \in Nat
  BY DEF Proper
<1>2. events' = [i \in 1 .. Len(events) |->
        IF events[i].func = "control_xmit" /\ events[i].data.tunnel = t
        THEN Acked(events[i]) ELSE events[i]]
  BY DEF Acknowledge
<1>3. ASSUME NEW e \in Entry, e.func = "control_xmit"
      PROVE  /\ Acked(e) \in Entry /\ Acked(e).tv = e.tv
             /\ Acked(e).func = "control_xmit"
             /\ Acked(e).data.tunnel = e.data.tunnel
             /\ Acked(e).data.retries = e.data.retries
             /\ Acked(e).data.first = e.data.first
  <2>1. e \in [tv : Times, func : {"control_xmit"}, data : Buffers]
    BY <1>3 DEF Entry
  <2>2. e.data \in Buffers
    BY <2>1
  <2> DEFINE d == [e.data EXCEPT !.acked = TRUE]
  <2>3. /\ d \in Buffers /\ d.tunnel = e.data.tunnel
        /\ d.retries = e.data.retries /\ d.first = e.data.first
    BY Zenon, <2>2 DEF Buffers
  <2>4. Acked(e) = [e EXCEPT !.data = d]
    OBVIOUS
  <2> HIDE DEF d
  <2>5. /\ [e EXCEPT !.data = d] \in [tv : Times, func : {"control_xmit"},
                                      data : Buffers]
        /\ [e EXCEPT !.data = d].tv = e.tv /\ [e EXCEPT !.data = d].data = d
    BY <2>1, <2>3
  <2> QED
    BY Zenon, <2>3, <2>4, <2>5 DEF Entry
<1>4. ASSUME NEW i \in 1 .. Len(events)
      PROVE  /\ events'[i] \in Entry /\ events'[i].tv = events[i].tv
             /\ \A u : IsHello(events'[i], u) <=> IsHello(events[i], u)
             /\ Alive(events[i], tn) => Alive(events'[i], tn)
             /\ OnTime(events[i]) => OnTime(events'[i])
  <2>1. events[i] \in Entry
    BY <1>1
  <2>2. CASE events'[i] = events[i]
    BY <2>1, <2>2
  <2>3. CASE /\ events[i].func = "control_xmit"
             /\ events'[i] = Acked(events[i])
    <3> DEFINE a == Acked(events[i])
    <3>1. /\ a \in Entry /\ a.tv = events[i].tv /\ a.func = "control_xmit"
          /\ a.data.tunnel = events[i].data.tunnel
          /\ a.data.retries = events[i].data.retries
          /\ a.data.first = events[i].data.first
      BY Zenon, <1>3, <2>1, <2>3
    <3>2. events'[i] = a
      BY <2>3
    <3> HIDE DEF a
    <3> QED
      BY Zenon, <2>3, <3>1, <3>2 DEF IsHello, Alive, OnTime
  <2> QED
    BY Zenon, <1>2, <2>2, <2>3
<1>5. events' \in Seq(Entry) /\ Len(events') = Len(events)
  <2>1. events' \in [1 .. Len(events) -> Entry]
    BY <1>2, <1>4
  <2> QED
    BY <2>1, <1>1
<1>6. InOrder(events')
  <2> SUFFICES ASSUME NEW i \in 1 .. Len(events), NEW j \in 1 .. Len(events), i <= j
               PROVE  Value(events'[i].tv) <= Value(events'[j].tv)
    BY Zenon, <1>5 DEF InOrder
  <2>1. Value(events[i].tv) <= Value(events[j].tv)
    BY Zenon, <1>1 DEF InOrder, Proper
  <2> QED
    BY Zenon, <1>4, <2>1
<1>7. ASSUME NEW u \in Tunnels, tn[u] \in Greeted
      PROVE  One(events', u)
  <2>1. One(events, u)
    BY <1>7 DEF Proper
  <2>2. {j \in 1 .. Len(events') : IsHello(events'[j], u)}
          = {j \in 1 .. Len(events) : IsHello(events[j], u)}
    BY Zenon, <1>4, <1>5
  <2> QED
    BY <2>1, <2>2, <1>5 DEF One
<1>8. \A i \in 1 .. Len(events') : /\ Alive(events'[i], tn) /\ OnTime(events'[i])
                                   /\ x <= Value(events'[i].tv)
  BY <1>4, <1>5 DEF Proper
<1> QED
  BY <1>5, <1>6, <1>7, <1>8 DEF Proper

(* A list that holds nothing due before x holds nothing due before y.      *)
LEMMA EarlierProper ==
  ASSUME NEW ev, NEW tn, NEW m, NEW x \in Int, NEW y \in Int,
         Proper(ev, tn, x, m), y <= x
  PROVE  Proper(ev, tn, y, m)
<1>1. ASSUME NEW i \in 1 .. Len(ev)
      PROVE  y <= Value(ev[i].tv)
  <2>1. ev[i].tv \in Times /\ x <= Value(ev[i].tv)
    BY DEF Proper, Entry
  <2>2. Value(ev[i].tv) \in Nat
    BY <2>1, Compares
  <2> QED
    BY <2>1, <2>2
<1> QED
  BY <1>1 DEF Proper

(* The time that process_schedule returns.                                 *)
LEMMA TimeLeftIs ==
  ASSUME now \in Nat, NEW tv \in Times, now < Value(tv)
  PROVE  TimeLeft(tv) \in Times /\ Value(TimeLeft(tv)) = Value(tv) - now
<1> DEFINE g == gettimeofday
<1>1. g \in Times /\ Value(g) = now
  BY ClockReads
<1>2. TVLESS(g, tv)
  BY <1>1, Compares
<1>3. PICK a \in Nat, u \in 0 .. USec - 1, b \in Nat, w \in 0 .. USec - 1 :
        /\ tv.sec = a /\ tv.usec = u /\ g.sec = b /\ g.usec = w
        /\ IF b = a THEN w < u ELSE b < a
  BY <1>1, <1>2 DEF Times, TVLESS
<1>4. USec \in Nat \ {0}
  BY SchedulerAssumption
<1> DEFINE then == IF u - w < 0 THEN Tv(a - b - 1, u - w + USec)
                   ELSE Tv(a - b, u - w)
<1>5. TimeLeft(tv) = IF then.sec <= 0 /\ then.usec <= 0 THEN Tv(1, 0) ELSE then
  BY <1>3 DEF TimeLeft, Tv
<1>6. PICK A \in Int, B \in Int, C \in Int, D \in Int :
        /\ A = a * USec /\ B = b * USec
        /\ C = (a - b) * USec /\ D = (a - b - 1) * USec
        /\ C = A - B /\ D = A - B - USec
  <2>1. \A c \in Int : /\ (a - b) * c = a * c - b * c
                       /\ (a - b - 1) * c = a * c - b * c - c
    OBVIOUS
  <2> QED
    BY <2>1, <1>4
<1>7. Value(tv) = A + u /\ Value(g) = B + w
  BY <1>3, <1>6 DEF Value
<1>8. CASE u - w < 0
  <2>1. then = Tv(a - b - 1, u - w + USec)
    BY <1>8
  <2>2. a - b - 1 \in Nat /\ u - w + USec \in 1 .. USec - 1
    BY <1>3, <1>4, <1>8
  <2>3. TimeLeft(tv) = Tv(a - b - 1, u - w + USec)
    BY <1>5, <2>1, <2>2 DEF Tv
  <2>4. Value(TimeLeft(tv)) = D + (u - w + USec)
    BY <2>3, <1>6 DEF Value, Tv
  <2> QED
    BY <1>1, <1>4, <1>6, <1>7, <2>2, <2>3, <2>4 DEF Times, Tv
<1>9. CASE ~(u - w < 0)
  <2>1. then = Tv(a - b, u - w)
    BY <1>9
  <2>2. a - b \in Nat /\ u - w \in 0 .. USec - 1 /\ (a - b > 0 \/ u - w > 0)
    BY <1>3, <1>4, <1>9
  <2>3. TimeLeft(tv) = Tv(a - b, u - w)
    BY <1>5, <2>1, <2>2 DEF Tv
  <2>4. Value(TimeLeft(tv)) = C + (u - w)
    BY <2>3, <1>6 DEF Value, Tv
  <2> QED
    BY <1>1, <1>4, <1>6, <1>7, <2>2, <2>3, <2>4 DEF Times, Tv
<1> QED
  BY <1>8, <1>9
-----------------------------------------------------------------------------
(* The steps of network_thread.                                            *)

LEMMA InitHolds ==
  Init => IInv
<1> SUFFICES ASSUME Init
             PROVE  IInv
  OBVIOUS
<1>1. TypeOK /\ Slept
  BY DEF Init, TypeOK, Slept, States
<1>2. events = <<>> /\ Len(<<>>) = 0 /\ 1 .. 0 = {} /\ <<>> \in Seq(Entry)
  BY DEF Init
<1>3. \A t \in Tunnels : tun[t] \notin Greeted
  BY DEF Init, Greeted
<1>4. Proper(events, tun, Earliest, {})
  BY <1>2, <1>3 DEF Proper, InOrder
<1> QED
  BY <1>1, <1>4 DEF IInv

LEMMA ExecuteKeeps ==
  ASSUME IInv, Execute
  PROVE  IInv'
<1> DEFINE p == Head(events)
           ev == Tail(events)
           x == now - Late
<1>1. /\ now \in Nat /\ tun \in [Tunnels -> States]
      /\ pc = "process" /\ pc' = pc /\ now' = now
      /\ events # <<>> /\ Proper(events, tun, x, {})
  BY DEF IInv, TypeOK, Execute, Earliest
<1>2. x \in Int /\ x <= now
  BY <1>1, SchedulerAssumption
<1> HIDE DEF x
<1>3. /\ p.func # "hello" => Proper(ev, tun, x, {})
      /\ p.func = "hello" => Proper(ev, tun, x, {p.data})
  BY <1>1, <1>2, TailProper
<1>4. p \in Entry /\ Alive(p, tun) /\ OnTime(p) /\ x <= Value(p.tv)
  <2>1. events \in Seq(Entry) /\ 1 \in 1 .. Len(events) /\ p = events[1]
    BY <1>1 DEF Proper
  <2> QED
    BY <2>1, <1>1 DEF Proper
<1>5. /\ TVLESSEQ(p.tv, gettimeofday)
      /\ \/ p.func = "control_xmit" /\ ControlXmit(ev, p.data)
         \/ p.func = "hello" /\ Hello(ev, p.data)
         \/ p.func = "magic_lac_dial" /\ MagicLacDial(ev, p.data)
  BY DEF Execute
<1>6. p.tv \in Times
  BY <1>4 DEF Entry
<1>7. Value(p.tv) \in Nat /\ Value(p.tv) <= now
  BY <1>1, <1>5, <1>6, ClockReads, Compares
<1> HIDE DEF p, ev
<1>8. ASSUME p.func = "control_xmit" /\ ControlXmit(ev, p.data)
      PROVE  tun' \in [Tunnels -> States] /\ Proper(events', tun', x, {})
  <2> DEFINE b == p.data
             c == [b EXCEPT !.retries = @ + 1]
  <2>1. b \in Buffers /\ tun[b.tunnel] # "free"
    BY <1>4, <1>8 DEF Entry, Alive
  <2>2. /\ c \in Buffers /\ c.tunnel = b.tunnel /\ c.first = b.first
        /\ c.retries = b.retries + 1 /\ b.retries \in Nat \ {0}
        /\ b.tunnel \in Tunnels /\ b.first \in Nat
    BY <2>1 DEF Buffers
  <2>3. Proper(ev, tun, x, {})
    BY <1>3, <1>8
  <2>4. CASE events' = ev /\ UNCHANGED tun
    BY <1>1, <2>3, <2>4
  <2>5. CASE CallClose(ev, b.tunnel)
    BY <1>1, <1>2, <2>2, <2>3, <2>5, CloseProper
  <2>6. CASE events' = Resend(ev, c) /\ UNCHANGED tun
    <3> HIDE DEF c
    <3> DEFINE Due == c.first + (2 ^ c.retries - 1) * USec
    <3>1. ASSUME c.retries <= 32
          PROVE  now + 2 ^ (c.retries - 1) * USec
                   \in Due .. Due + (c.retries - 1) * Late
      <4>1. PICK n \in 1 .. 31 : n = b.retries
        BY <2>2, <3>1
      <4>2. c.retries = n + 1 /\ c.retries - 1 = n
        BY <4>1, <2>2
      <4>3. PICK first \in Nat, v \in Int : first = b.first /\ v = Value(p.tv)
        BY <2>2, <1>7
      <4>4. LET due == first + (2 ^ n - 1) * USec
            IN  v \in due .. due + (n - 1) * Late
        <5>1. n <= 32
          BY <4>1
        <5> QED
          BY Zenon, <1>4, <1>8, <4>1, <4>3, <5>1 DEF OnTime
      <4>5. v <= now /\ now - Late <= v
        BY <1>4, <1>7, <4>3 DEF x
      <4>6. LET due == first + (2 ^ (n + 1) - 1) * USec
            IN  now + 2 ^ n * USec \in due .. due + n * Late
        BY Zenon, <1>1, <4>4, <4>5, NextDue
      <4> QED
        BY <4>2, <4>3, <4>6, <2>2
    <3>2. Proper(Resend(ev, c), tun, x, {})
      BY Zenon, <1>1, <1>2, <2>1, <2>2, <2>3, <3>1, ResendProper
    <3> QED
      BY <1>1, <2>6, <3>2
  <2>7. \/ events' = ev /\ UNCHANGED tun
        \/ CallClose(ev, b.tunnel)
        \/ events' = Resend(ev, c) /\ UNCHANGED tun
    BY <1>8 DEF ControlXmit
  <2> QED
    BY <2>4, <2>5, <2>6, <2>7
<1>9. ASSUME p.func = "hello" /\ Hello(ev, p.data)
      PROVE  tun' \in [Tunnels -> States] /\ Proper(events', tun', x, {})
  <2> DEFINE t == p.data
  <2>1. t \in Tunnels /\ tun[t] \in Greeted /\ tun[t] # "free"
    BY <1>4, <1>9 DEF Entry, Alive, Greeted
  <2>2. Proper(ev, tun, x, {t})
    BY <1>3, <1>9
  <2>3. /\ events' = Schedule(NewMessage(ev, t), Tv(HelloDelay, 0), "hello", t)
        /\ tun' = tun
    BY <1>9 DEF Hello
  <2> HIDE DEF t
  <2>4. Proper(NewMessage(ev, t), tun, x, {t})
    BY <1>1, <1>2, <2>1, <2>2, NewMessageProper
  <2>5. HelloDelay \in Nat
    BY SchedulerAssumption
  <2>6. Proper(events', tun, x, {})
    BY <1>1, <1>2, <2>1, <2>3, <2>4, <2>5, GreetProper
  <2> QED
    BY <1>1, <2>3, <2>6
<1>10. ASSUME p.func = "magic_lac_dial" /\ MagicLacDial(ev, p.data)
       PROVE  tun' \in [Tunnels -> States] /\ Proper(events', tun', x, {})
  <2>1. p.data \in Tunnels
    BY <1>4, <1>10, SchedulerAssumption DEF Entry
  <2>2. Proper(ev, tun, x, {})
    BY <1>3, <1>10
  <2> QED
    BY <1>1, <1>2, <1>10, <2>1, <2>2, DialProper
<1>11. tun' \in [Tunnels -> States] /\ Proper(events', tun', x, {})
  BY <1>5, <1>8, <1>9, <1>10
<1>12. Earliest' = x
  BY <1>1 DEF Earliest, x
<1> QED
  BY <1>1, <1>11, <1>12 DEF IInv, TypeOK, Slept

LEMMA SleepKeeps ==
  ASSUME IInv, Sleep
  PROVE  IInv'
<1>1. /\ now \in Nat /\ tun \in [Tunnels -> States]
      /\ pc' = "select" /\ now' = now /\ tun' = tun /\ events' = events
      /\ timeout' = IF events = <<>> THEN {} ELSE {TimeLeft(Head(events).tv)}
      /\ Proper(events, tun, now - Late, {})
  BY DEF IInv, TypeOK, Sleep, Earliest
<1>2. events \in Seq(Entry) /\ InOrder(events)
  BY <1>1 DEF Proper
<1>3. ASSUME NEW i \in 1 .. Len(events)
      PROVE  events[i].tv \in Times /\ Value(events[i].tv) \in Nat
  <2>1. events[i].tv \in Times
    BY <1>2 DEF Entry
  <2> QED
    BY <2>1, Compares
<1>4. CASE events = <<>>
  <2>1. \A i \in 1 .. Len(events) : FALSE
    BY <1>4
  <2>2. Proper(events, tun, now, {})
    BY Zenon, <1>1, <2>1 DEF Proper
  <2> QED
    BY <1>1, <1>4, <2>2 DEF IInv, TypeOK, Slept, Earliest
<1>5. CASE events # <<>>
  <2>1. 1 \in 1 .. Len(events) /\ Head(events) = events[1]
    BY <1>2, <1>5
  <2>2. now < Value(events[1].tv)
    <3>1. ~TVLESSEQ(events[1].tv, gettimeofday)
      BY <1>5, <2>1 DEF Sleep
    <3> QED
      BY <1>1, <1>3, <2>1, <3>1, ClockReads, Compares
  <2>3. ASSUME NEW i \in 1 .. Len(events)
        PROVE  now <= Value(events[i].tv)
    <3>1. Value(events[1].tv) <= Value(events[i].tv)
      BY <1>2, <2>1 DEF InOrder
    <3> QED
      BY <1>1, <1>3, <2>1, <2>2, <3>1
  <2>4. Proper(events, tun, now, {})
    BY <1>1, <2>3 DEF Proper
  <2> DEFINE tl == TimeLeft(events[1].tv)
  <2>5. tl \in Times /\ Value(tl) = Value(events[1].tv) - now
    BY <1>1, <1>3, <2>1, <2>2, TimeLeftIs
  <2>6. timeout' = {tl}
    BY <1>1, <1>5, <2>1
  <2> HIDE DEF tl
  <2>7. Value(tl) > 0 /\ now + Value(tl) = Value(events[1].tv)
    BY <1>1, <1>3, <2>1, <2>2, <2>5
  <2>8. Slept'
    BY Zenon, <1>1, <1>5, <2>5, <2>6, <2>7 DEF Slept, Value
  <2> QED
    BY <1>1, <2>4, <2>8 DEF IInv, TypeOK, Earliest
<1> QED
  BY <1>4, <1>5

LEMMA WakeKeeps ==
  ASSUME IInv, Wake
  PROVE  IInv'
<1>1. /\ now \in Nat /\ tun \in [Tunnels -> States] /\ pc = "select"
      /\ now' \in now .. MaxTime /\ tun' = tun /\ events' = events
      /\ \A tv \in timeout : now' <= now + Value(tv)
      /\ pc' \in {"handle", "process"}
      /\ Proper(events, tun, now, {})
  BY DEF IInv, TypeOK, Wake, Earliest
<1>2. now' \in Nat /\ Late \in Nat
  BY <1>1, SchedulerAssumption
<1>3. events \in Seq(Entry) /\ InOrder(events)
  BY <1>1 DEF Proper
<1>4. ASSUME NEW i \in 1 .. Len(events)
      PROVE  events[i].tv \in Times /\ Value(events[i].tv) \in Nat
  <2>1. events[i].tv \in Times
    BY <1>3 DEF Entry
  <2> QED
    BY <2>1, Compares
<1>5. ASSUME NEW i \in 1 .. Len(events)
      PROVE  now' <= Value(events[i].tv)
  <2>1. events # <<>> /\ 1 \in 1 .. Len(events)
    BY <1>3
  <2>2. PICK tv \in timeout : now + Value(tv) = Value(events[1].tv)
    BY <1>1, <2>1 DEF IInv, Slept
  <2>3. now' <= Value(events[1].tv)
    BY <1>1, <2>2
  <2>4. Value(events[1].tv) <= Value(events[i].tv)
    BY <1>3, <2>1 DEF InOrder
  <2> QED
    BY <1>2, <1>4, <2>1, <2>3, <2>4
<1>6. Proper(events, tun, now', {})
  BY <1>1, <1>5 DEF Proper
<1>7. Earliest' \in Int /\ Earliest' <= now'
  <2>1. Earliest' = IF pc' = "process" THEN now' - Late ELSE now'
    BY DEF Earliest
  <2>2. \A a, d \in Nat : a - d \in Int /\ a - d <= a /\ a \in Int /\ a <= a
    OBVIOUS
  <2>3. /\ now' - Late \in Int /\ now' - Late <= now'
        /\ now' \in Int /\ now' <= now'
    BY Zenon, <1>2, <2>2
  <2> QED
    BY Zenon, <2>1, <2>3
<1>8. Proper(events, tun, Earliest', {})
  BY <1>2, <1>6, <1>7, EarlierProper
<1>9. Proper(events, tun, Earliest, {})'
  BY <1>1, <1>8
<1> QED
  BY <1>1, <1>2, <1>9 DEF IInv, TypeOK, Slept

LEMMA HandleKeeps ==
  ASSUME IInv, Handle
  PROVE  IInv'
<1>1. /\ now \in Nat /\ tun \in [Tunnels -> States]
      /\ now' \in now .. now + Late /\ pc' = "process"
      /\ Proper(events, tun, now, {})
  BY DEF IInv, TypeOK, Handle, Earliest
<1>2. now' \in Nat /\ Late \in Nat /\ now \in Int /\ HelloDelay \in Nat
  BY <1>1, SchedulerAssumption
<1> DEFINE Good == tun' \in [Tunnels -> States] /\ Proper(events', tun', now, {})
<1>3. ASSUME NEW t \in Tunnels, Acknowledge(t)
      PROVE  Good
  BY <1>1, <1>2, <1>3, AckProper DEF Acknowledge
<1>4. ASSUME NEW t \in Tunnels, Gone(t)
      PROVE  Good
  <2>1. /\ tun' = [tun EXCEPT ![t] = "free"]
        /\ events' \in MayRedial(Purge(events, t), t)
    BY <1>4 DEF Gone
  <2>0. "free" \in States \ Greeted
    BY DEF States, Greeted
  <2>2. Proper(Purge(events, t), tun', now, {})
    BY Zenon, <1>1, <1>2, <2>0, <2>1, PurgeProper
  <2> QED
    BY <1>1, <1>2, <2>1, <2>2, RedialProper DEF States
<1>5. ASSUME NEW t \in Tunnels, Close(t)
      PROVE  Good
  BY <1>1, <1>2, <1>5, CloseProper DEF Close
<1>6. ASSUME NEW t \in Tunnels, Open(t)
      PROVE  Good
  <2>1. /\ tun[t] \notin Greeted /\ tun' = [tun EXCEPT ![t] = "setup"]
        /\ events' = NewMessage(events, t)
    BY <1>6 DEF Open, Greeted
  <2>2. Proper(events, tun', now, {}) /\ tun'[t] # "free"
    BY Zenon, <1>1, <1>2, <2>1, TunnelProper
  <2>3. Proper(NewMessage(events, t), tun', now, {})
    BY <1>1, <1>2, <2>2, NewMessageProper
  <2> QED
    BY <1>1, <2>1, <2>3 DEF States
<1>7. ASSUME NEW t \in Tunnels, Establish(t)
      PROVE  Good
  <2> DEFINE Greet(ev) == Schedule(ev, Tv(HelloDelay, 0), "hello", t)
             dialled == Greet(NewMessage(events, t))
             st == IF tun[t] = "setup" THEN "up" ELSE "risen"
  <2>0. tun[t] \notin Greeted /\ st \in Greeted /\ st \in States \ {"free"}
    BY <1>7 DEF Establish, Greeted, States
  <2>1. /\ tun' = [tun EXCEPT ![t] = st]
        /\ \/ events' = dialled
           \/ events' = NewMessage(dialled, t)
           \/ events' = Greet(events)
    BY <1>7 DEF Establish
  <2> HIDE DEF st
  <2>8. tun'[t] \in Greeted /\ tun'[t] # "free"
    BY <1>1, <2>0, <2>1
  <2>2. /\ Proper(events, tun', now, {t})
        /\ tun'[t] \in Greeted /\ tun'[t] # "free"
    BY Zenon, <1>1, <1>2, <2>0, <2>1, <2>8, TunnelProper
  <2>3. Proper(NewMessage(events, t), tun', now, {t})
    BY <1>1, <1>2, <2>2, NewMessageProper
  <2>4. Proper(Greet(events), tun', now, {})
    BY <1>1, <1>2, <2>2, GreetProper
  <2>5. Proper(dialled, tun', now, {})
    BY <1>1, <1>2, <2>2, <2>3, GreetProper
  <2> HIDE DEF dialled
  <2>6. Proper(NewMessage(dialled, t), tun', now, {})
    BY <1>1, <1>2, <2>2, <2>5, NewMessageProper
  <2>7. tun' \in [Tunnels -> States]
    BY <1>1, <2>0, <2>1
  <2> QED
    BY <2>1, <2>4, <2>5, <2>6, <2>7
<1>8. ASSUME NEW t \in Tunnels, Send(t)
      PROVE  Good
  <2>1. tun[t] # "free" /\ events' = NewMessage(events, t) /\ tun' = tun
    BY <1>8 DEF Send
  <2> QED
    BY <1>1, <1>2, <2>1, NewMessageProper
<1>9. ASSUME NEW t \in Dials, MagicLacDial(events, t)
      PROVE  Good
  <2>1. t \in Tunnels
    BY SchedulerAssumption
  <2> QED
    BY <1>1, <1>2, <1>9, <2>1, DialProper
<1>10. ASSUME UNCHANGED <<events, tun>>
       PROVE  Good
  BY <1>1, <1>10
<1>11. Good
  BY <1>3, <1>4, <1>5, <1>6, <1>7, <1>8, <1>9, <1>10 DEF Handle
<1>12. Earliest' \in Int /\ Earliest' <= now
  <2>1. Earliest' = now' - Late
    BY <1>1 DEF Earliest
  <2>2. \A n, a, d \in Nat :
          a \in n .. n + d => a - d \in Int /\ a - d <= n
    OBVIOUS
  <2>3. now' - Late \in Int /\ now' - Late <= now
    BY Zenon, <1>1, <1>2, <2>2
  <2> QED
    BY Zenon, <2>1, <2>3
<1>13. Proper(events', tun', Earliest', {})
  BY <1>2, <1>11, <1>12, EarlierProper
<1> QED
  BY <1>1, <1>2, <1>11, <1>13 DEF IInv, TypeOK, Slept

LEMMA StutterKeeps ==
  ASSUME IInv, UNCHANGED vars
  PROVE  IInv'
<1>1. /\ now' = now /\ events' = events /\ tun' = tun /\ pc' = pc
      /\ timeout' = timeout
  BY DEF vars
<1>2. TypeOK' /\ Slept' /\ Earliest' = Earliest
  BY <1>1 DEF IInv, TypeOK, Slept, Earliest
<1> QED
  BY <1>1, <1>2 DEF IInv
-----------------------------------------------------------------------------
(* The event list is in order, its entries have their tunnels, established *)
(* tunnels have their Hello, buffers are on time, and select was told to   *)
(* sleep until the first entry: in every reachable state, for any number   *)
(* of tunnels and events.                                                  *)
THEOREM Invariance == Spec => []IInv
<1>1. IInv /\ [Next]_vars => IInv'
  BY ExecuteKeeps, SleepKeeps, WakeKeeps, HandleKeeps, StutterKeeps DEF Next
<1> QED
  BY <1>1, InitHolds, PTL DEF Spec

(* The daemon wakes up at the time of the earliest event, and sleeps       *)
(* without a limit only if there is none.                                  *)
THEOREM WakesUp == Spec => []WakesInTime
<1>1. IInv => WakesInTime
  <2> SUFFICES ASSUME IInv, pc = "select"
               PROVE  /\ timeout = {} => events = <<>>
                      /\ \A tv \in timeout :
                           /\ Value(tv) > 0 /\ tv.sec >= 0
                           /\ tv.usec \in 0 .. USec - 1
                           /\ now + Value(tv)
                                = Min({Value(e.tv) : e \in Entries})
    BY DEF WakesInTime
  <2>1. events \in Seq(Entry) /\ InOrder(events) /\ now \in Nat
    BY DEF IInv, TypeOK, Proper
  <2>2. timeout = {} => events = <<>>
    BY DEF IInv, Slept
  <2>3. ASSUME NEW tv \in timeout
        PROVE  /\ Value(tv) > 0 /\ tv.sec >= 0 /\ tv.usec \in 0 .. USec - 1
               /\ now + Value(tv) = Min({Value(e.tv) : e \in Entries})
    <3>1. /\ tv \in Times /\ Value(tv) > 0 /\ events # <<>>
          /\ now + Value(tv) = Value(events[1].tv)
      BY <2>3 DEF IInv, Slept
    <3>2. 1 \in 1 .. Len(events)
      BY <3>1, <2>1
    <3> DEFINE V == {Value(e.tv) : e \in Entries}
               first == Value(events[1].tv)
    <3>3. first \in V
      BY <3>2 DEF Entries
    <3>4. \A v \in V : v \in Nat /\ first <= v
      <4>1. ASSUME NEW i \in 1 .. Len(events)
            PROVE  Value(events[i].tv) \in Nat /\ first <= Value(events[i].tv)
        <5>1. events[i].tv \in Times
          BY <2>1 DEF Entry
        <5> QED
          BY <5>1, <2>1, <3>2, Compares DEF InOrder
      <4> QED
        BY <4>1 DEF Entries
    <3> HIDE DEF V, first
    <3>5. Min(V) = first
      BY <3>3, <3>4 DEF Min
    <3> QED
      BY <3>1, <3>5 DEF Times, V, first
  <2> QED
    BY <2>2, <2>3
<1> QED
  BY <1>1, Invariance, PTL

(* No event outlives its tunnel.                                           *)
THEOREM NoneOutlives == Spec => []EventsHaveTunnel
<1>1. IInv => EventsHaveTunnel
  BY DEF IInv, Proper, EventsHaveTunnel, Entries, Alive, Greeted
<1> QED
  BY <1>1, Invariance, PTL

(* An established tunnel has exactly one Hello on the list.                *)
THEOREM HelloScheduled == Spec => []OneHello
<1>1. IInv => OneHello
  BY DEF IInv, Proper, OneHello, One
<1> QED
  BY <1>1, Invariance, PTL

(* The n-th retransmission of a message is due 2^n - 1 seconds after the   *)
(* first, and late by at most one round of handlers for each.              *)
THEOREM BackoffDoubles == Spec => []BackoffKept
<1>1. IInv => BackoffKept
  BY DEF IInv, Proper, BackoffKept, Entries, OnTime
<1> QED
  BY <1>1, Invariance, PTL
=============================================================================
