--------------------------- MODULE PayloadProofs ---------------------------
(* Proofs about Payload: the numbers of payload packets, for every width   *)
(* of the counters and every PAYLOAD_FUDGE; the framing code of            *)
(* read_packet and write_packet, for all frames, FCSs, buffer sizes and    *)
(* ways to cut the bytes of pppd into reads.                               *)
EXTENDS Payload, WellFoundedInduction, TLAPS

(* The number before n.                                                    *)
Before(n) == IF n = 0 THEN Modulus - 1 ELSE n - 1

(* While nothing is lost, data_rec_seq_num is the number of the next       *)
(* packet of the peer, or the one before it: expand_payload counts on only *)
(* when the number happens to be that of the next packet it sends.         *)
KeepsUp == numbered /\ ~lossy => rec \in {ns, Before(ns)}

NumbersInv ==
  /\ rec \in SeqNums /\ ns \in SeqNums
  /\ numbered \in BOOLEAN /\ lossy \in BOOLEAN /\ refused \in BOOLEAN
  /\ KeepsUp
  /\ NoneRefused
-----------------------------------------------------------------------------
(* The counters count on, and back, modulo 2^16.                           *)
LEMMA CountOn ==
  ASSUME NEW n \in SeqNums
  PROVE  /\ (n + 1) % Modulus = IF n = Modulus - 1 THEN 0 ELSE n + 1
         /\ (n + Modulus - 1) % Modulus = Before(n)
<1>1. Modulus \in Nat /\ Modulus > 1 /\ n \in Nat /\ n < Modulus
  BY PayloadAssumption DEF SeqNums
<1>2. \A x \in 0 .. Modulus - 1 : x % Modulus = x
  BY <1>1
<1>3. Modulus % Modulus = 0
  BY <1>1
<1>4. \A x \in 0 .. Modulus - 1 : (x + Modulus) % Modulus = x
  BY <1>1
<1>5. n = 0 => (n + Modulus - 1) % Modulus = Modulus - 1
  BY <1>1, <1>2
<1>6. n # 0 => n - 1 \in 0 .. Modulus - 1 /\ n + Modulus - 1 = (n - 1) + Modulus
  BY <1>1
<1>7. n # Modulus - 1 => n + 1 \in 0 .. Modulus - 1
  BY <1>1
<1> QED
  BY <1>1, <1>2, <1>3, <1>4, <1>5, <1>6, <1>7 DEF Before

(* Counting on undoes counting back, and both stay within the width.       *)
LEMMA Neighbours ==
  ASSUME NEW n \in SeqNums
  PROVE  /\ (n + 1) % Modulus \in SeqNums /\ Before((n + 1) % Modulus) = n
         /\ Before(n) \in SeqNums /\ (Before(n) + 1) % Modulus = n
<1>1. Modulus \in Nat /\ Modulus > 1 /\ n \in 0 .. Modulus - 1
  BY PayloadAssumption DEF SeqNums
<1>2. Before(n) \in SeqNums
  BY <1>1 DEF Before, SeqNums
<1>3. (Before(n) + 1) % Modulus = IF Before(n) = Modulus - 1 THEN 0 ELSE Before(n) + 1
  BY <1>2, CountOn
<1>4. (n + 1) % Modulus = IF n = Modulus - 1 THEN 0 ELSE n + 1
  BY CountOn
<1> QED
  BY <1>1, <1>2, <1>3, <1>4 DEF Before, SeqNums

(* expand_payload refuses neither the number that is expected nor the one  *)
(* after it.                                                               *)
LEMMA NextAccepted ==
  ASSUME rec \in SeqNums, NEW n \in SeqNums, rec \in {n, Before(n)}
  PROVE  ~Refused(n)
<1>1. /\ Modulus \in Nat /\ Modulus > 1 /\ Fudge \in Nat /\ Fudge > 0
      /\ n \in 0 .. Modulus - 1 /\ rec \in 0 .. Modulus - 1
  BY PayloadAssumption DEF SeqNums
<1>2. Modulus \div 2 \in Nat /\ Modulus \div 2 <= Modulus - 1
  BY <1>1
<1>3. ~AlreadySeen(n)
  BY <1>1, <1>2 DEF AlreadySeen, Before
<1>4. ~(n > rec + Fudge)
  BY <1>1 DEF Before
<1> QED
  BY <1>3, <1>4 DEF Refused

(* The number a packet is taken to have is not refused before a loss.      *)
LEMMA NumberAccepted ==
  ASSUME NumbersInv, Refused(Number)
  PROVE  numbered /\ lossy
<1>1. CASE ~numbered
  <2>1. Number = rec
    BY <1>1 DEF Number
  <2> QED
    BY <2>1, NextAccepted DEF NumbersInv
<1>2. CASE numbered /\ ~lossy
  <2>1. Number = ns /\ rec \in {ns, Before(ns)}
    BY <1>2 DEF Number, NumbersInv, KeepsUp
  <2> QED
    BY <2>1, NextAccepted DEF NumbersInv
<1> QED
  BY <1>1, <1>2 DEF NumbersInv

(* What expand_payload leaves in data_rec_seq_num keeps up with the peer.  *)
LEMMA ExpandedKeepsUp ==
  ASSUME NumbersInv
  PROVE  /\ Expanded(Number) \in SeqNums
         /\ numbered /\ ~lossy => Expanded(Number) \in {ns, (ns + 1) % Modulus}
<1>1. Number \in SeqNums
  BY DEF Number, NumbersInv
<1>2. Expanded(Number) \in SeqNums
  BY <1>1, Neighbours DEF Expanded, NumbersInv
<1>3. ASSUME numbered, ~lossy
      PROVE  Expanded(Number) \in {ns, (ns + 1) % Modulus}
  <2>1. rec \in {ns, Before(ns)} /\ Number = ns
    BY <1>3 DEF NumbersInv, KeepsUp, Number
  <2> QED
    BY <2>1, Neighbours DEF Expanded, NumbersInv
<1> QED
  BY <1>2, <1>3

(* Every step of the call keeps the counters in step.                      *)
LEMMA NextNumbersInv ==
  ASSUME NumbersInv, [Next]_vars
  PROVE  NumbersInv'
<1> USE DEF NumbersInv, KeepsUp, NoneRefused
<1>1. ASSUME UNCHANGED down PROVE NumbersInv'
  BY <1>1 DEF down, SeqNums, Before
<1>2. ASSUME NEW f \in Incoming, NEW c \in Fcs, Receive(f, c) PROVE NumbersInv'
  <2>1. /\ ns' = (ns + 1) % Modulus /\ numbered' = numbered /\ lossy' = lossy
        /\ \/ Refused(Number) /\ refused' = TRUE /\ rec' = rec
           \/ rec' = Expanded(Number) /\ refused' = refused
    BY <1>2 DEF Receive
  <2>2. ns' \in SeqNums /\ Before(ns') = ns
    BY <2>1, Neighbours
  <2>3. CASE Refused(Number) /\ refused' = TRUE /\ rec' = rec
    BY <2>1, <2>2, <2>3, NumberAccepted DEF SeqNums
  <2>4. CASE rec' = Expanded(Number) /\ refused' = refused
    BY <2>1, <2>2, <2>4, ExpandedKeepsUp DEF SeqNums, Before
  <2> QED
    BY Zenon, <2>1, <2>3, <2>4
<1>3. ASSUME ReceiveZlb PROVE NumbersInv'
  <2>1. /\ ns' = ns /\ numbered' = numbered /\ lossy' = lossy
        /\ \/ Refused(Number) /\ refused' = TRUE /\ rec' = rec
           \/ /\ rec' = (Expanded(Number) + Modulus - 1) % Modulus
              /\ refused' = refused
    BY <1>3 DEF ReceiveZlb
  <2>2. CASE Refused(Number) /\ refused' = TRUE /\ rec' = rec
    BY <2>1, <2>2, NumberAccepted DEF SeqNums
  <2>3. CASE rec' = (Expanded(Number) + Modulus - 1) % Modulus /\ refused' = refused
    <3>1. rec' = Before(Expanded(Number)) /\ rec' \in SeqNums
      BY <2>3, ExpandedKeepsUp, CountOn, Neighbours
    <3>2. numbered /\ ~lossy => rec' \in {ns, Before(ns)}
      BY <3>1, ExpandedKeepsUp, Neighbours
    <3> QED
      BY <2>1, <2>3, <3>1, <3>2 DEF SeqNums, Before
  <2> QED
    BY Zenon, <2>1, <2>2, <2>3
<1>4. ASSUME Lose PROVE NumbersInv'
  BY <1>4, Neighbours DEF Lose, SeqNums
<1>5. ASSUME \/ \E f \in Outgoing, c \in Fcs : PppdWrites(f, c)
             \/ \E n \in 1 .. Len(tty) : ReadPppd(n)
             \/ ReadFails \/ StartPppd \/ UNCHANGED vars
      PROVE  UNCHANGED down
  BY Zenon, <1>5 DEF PppdWrites, ReadPppd, ReadFails, StartPppd, vars
<1> QED
  BY <1>1, <1>2, <1>3, <1>4, <1>5 DEF Next

(* expand_payload refuses no packet of a peer before one was lost, and     *)
(* never one of a peer that does not number them, whatever is sent the     *)
(* other way meanwhile: for counters of any width, across their wrap.      *)
THEOREM PacketsAccepted == Spec => []NoneRefused
<1>1. Init => NumbersInv
  <2> SUFFICES ASSUME Init PROVE NumbersInv
    OBVIOUS
  <2>1. 0 \in SeqNums
    BY PayloadAssumption DEF SeqNums
  <2>2. /\ rec = 0 /\ ns = 0 /\ numbered \in BOOLEAN
        /\ lossy = FALSE /\ refused = FALSE
    BY DEF Init
  <2> QED
    BY <2>1, <2>2, Zenon DEF NumbersInv, KeepsUp, NoneRefused
<1>2. NumbersInv /\ [Next]_vars => NumbersInv'
  BY NextNumbersInv
<1>3. NumbersInv => NoneRefused
  BY DEF NumbersInv
<1> QED
  BY <1>1, <1>2, <1>3, PTL DEF Spec
-----------------------------------------------------------------------------
(* Induction over the natural numbers, for a set.                          *)
LEMMA SetInduction ==
  ASSUME NEW S, 0 \in S, \A n \in Nat : n \in S => n + 1 \in S
  PROVE  \A n \in Nat : n \in S
<1> DEFINE R == {ss \in Nat \X Nat : ss[1] < ss[2]}
           Bad == Nat \ S
<1> SUFFICES ASSUME Bad # {}
             PROVE  FALSE
  OBVIOUS
<1>1. IsWellFoundedOn(R, Nat)
  BY NatLessThanWellFounded DEF OpToRel
<1>2. Bad \in SUBSET Nat /\ Bad # {}
  OBVIOUS
<1>3. PICK x \in Bad : \A y \in Bad : ~ (<<y, x>> \in R)
  <2> HIDE DEF R, Bad
  <2> QED
    BY Zenon, <1>1, <1>2, WFMin
<1>4. x \in Nat /\ x \notin S /\ x # 0
  OBVIOUS
<1>5. x - 1 \in Nat /\ (x - 1) + 1 = x /\ x - 1 < x
  BY <1>4
<1>6. x - 1 \in Bad
  BY <1>4, <1>5
<1>7. <<x - 1, x>> \in R
  <2>1. /\ <<x - 1, x>> \in Nat \X Nat
        /\ <<x - 1, x>>[1] = x - 1 /\ <<x - 1, x>>[2] = x
    BY <1>4, <1>5
  <2> QED
    BY <2>1, <1>5
<1> QED
  BY <1>3, <1>6, <1>7

Bytes == 0 .. 255

(* The escaped form of a byte is neither a flag nor an escape, and stands  *)
(* for the byte.                                                           *)
LEMMA TransFacts ==
  ASSUME NEW ch \in Bytes, Special(ch)
  PROVE  /\ Trans(ch) \in Bytes /\ Trans(ch) # PPP_FLAG
         /\ Trans(ch) # PPP_ESCAPE /\ Trans(Trans(ch)) = ch
<1>1. CASE ch < 32
  <2>1. ch \div 32 = 0 /\ (ch + 32) \div 32 = 1 /\ 0 % 2 = 0 /\ 1 % 2 = 1
    BY <1>1 DEF Bytes
  <2>2. Trans(ch) = ch + 32
    BY <2>1 DEF Trans
  <2>3. Trans(ch + 32) = (ch + 32) - 32
    BY <2>1 DEF Trans
  <2> QED
    BY <1>1, <2>2, <2>3 DEF Bytes, PPP_FLAG, PPP_ESCAPE
<1>2. CASE ch = 125 \/ ch = 126
  <2>1. /\ 125 \div 32 = 3 /\ 126 \div 32 = 3 /\ 3 % 2 = 1
        /\ 93 \div 32 = 2 /\ 94 \div 32 = 2 /\ 2 % 2 = 0
    OBVIOUS
  <2>2. /\ Trans(125) = 93 /\ Trans(126) = 94
        /\ Trans(93) = 125 /\ Trans(94) = 126
    BY <2>1 DEF Trans
  <2> QED
    BY <1>2, <2>2 DEF Bytes, PPP_FLAG, PPP_ESCAPE
<1> QED
  BY <1>1, <1>2 DEF Special, PPP_FLAG, PPP_ESCAPE

(* f is the table of the loop of write_packet over the first n bytes of x. *)
Writes(x, n, f) ==
  f = [i \in 0 .. n |-> IF i = 0 THEN <<>> ELSE f[i - 1] \o Escaped(x[i])]

LEMMA WritesExists ==
  ASSUME NEW x, NEW n \in Nat
  PROVE  \E f : Writes(x, n, f)
<1> DEFINE S == {i \in Nat : \E f : Writes(x, i, f)}
<1>1. 0 \in S
  <2> DEFINE f == [i \in 0 .. 0 |-> <<>>]
  <2>1. Writes(x, 0, f)
    BY DEF Writes
  <2> QED
    BY <2>1
<1>2. ASSUME NEW m \in Nat, m \in S
      PROVE  m + 1 \in S
  <2>1. PICK f : Writes(x, m, f)
    BY <1>2
  <2> DEFINE g == [i \in 0 .. m + 1 |-> IF i = m + 1 THEN f[m] \o Escaped(x[i])
                                        ELSE f[i]]
  <2>2. \A i \in 0 .. m :
          f[i] = IF i = 0 THEN <<>> ELSE f[i - 1] \o Escaped(x[i])
    BY Zenon, <2>1 DEF Writes
  <2>3. ASSUME NEW i \in 0 .. m + 1
        PROVE  g[i] = IF i = 0 THEN <<>> ELSE g[i - 1] \o Escaped(x[i])
    <3>1. CASE i = m + 1
      <4>1. g[i] = f[m] \o Escaped(x[i]) /\ g[i - 1] = f[m] /\ i # 0
        BY <3>1
      <4> QED
        BY <4>1
    <3>2. CASE i # m + 1
      <4>1. i \in 0 .. m /\ g[i] = f[i]
        BY <3>2
      <4>2. i # 0 => g[i - 1] = f[i - 1]
        BY <4>1
      <4> QED
        BY <4>1, <4>2, <2>2
    <3> QED
      BY <3>1, <3>2
  <2>4. Writes(x, m + 1, g)
    <3>1. g = [i \in 0 .. m + 1 |-> g[i]]
      OBVIOUS
    <3> HIDE DEF g
    <3> QED
      BY Zenon, <3>1, <2>3 DEF Writes
  <2> HIDE DEF g
  <2> QED
    BY <2>4
<1> HIDE DEF S
<1>3. n \in S
  BY <1>1, <1>2, SetInduction
<1> QED
  BY <1>3 DEF S

LEMMA EscapeWrites ==
  ASSUME NEW x, Len(x) \in Nat
  PROVE  \E f : Writes(x, Len(x), f) /\ Escape(x) = f[Len(x)]
<1> DEFINE wbuf == CHOOSE f : f = [i \in 0 .. Len(x) |->
                       IF i = 0 THEN <<>> ELSE f[i - 1] \o Escaped(x[i])]
<1>1. Escape(x) = wbuf[Len(x)]
  BY Zenon DEF Escape
<1>2. PICK g : Writes(x, Len(x), g)
  BY WritesExists
<1>3. Writes(x, Len(x), wbuf)
  BY Zenon, <1>2 DEF Writes
<1> QED
  BY <1>1, <1>3

(* The buffer grows byte by byte: what one more byte adds is its escaped   *)
(* form.                                                                   *)
LEMMA EscapeGrows ==
  ASSUME NEW x \in Seq(Bytes), NEW n \in Nat, n < Len(x)
  PROVE  /\ Escape(SubSeq(x, 1, 0)) = <<>>
         /\ Escape(SubSeq(x, 1, n + 1))
              = Escape(SubSeq(x, 1, n)) \o Escaped(x[n + 1])
<1> DEFINE a == SubSeq(x, 1, n)
           b == SubSeq(x, 1, n + 1)
           z == SubSeq(x, 1, 0)
<1>1. /\ Len(a) = n /\ Len(b) = n + 1 /\ Len(z) = 0
      /\ \A i \in 1 .. n : a[i] = x[i] /\ b[i] = x[i]
      /\ b[n + 1] = x[n + 1]
  OBVIOUS
<1> HIDE DEF a, b, z
<1>2. PICK f : Writes(a, n, f) /\ Escape(a) = f[n]
  BY <1>1, EscapeWrites
<1>3. PICK g : Writes(b, n + 1, g) /\ Escape(b) = g[n + 1]
  BY <1>1, EscapeWrites
<1>4. PICK h : Writes(z, 0, h) /\ Escape(z) = h[0]
  BY <1>1, EscapeWrites
<1>5. \A i \in 0 .. n : f[i] = IF i = 0 THEN <<>> ELSE f[i - 1] \o Escaped(a[i])
  BY Zenon, <1>2 DEF Writes
<1>6. \A i \in 0 .. n + 1 :
        g[i] = IF i = 0 THEN <<>> ELSE g[i - 1] \o Escaped(b[i])
  BY Zenon, <1>3 DEF Writes
<1>7. h[0] = <<>>
  BY <1>4 DEF Writes
<1> DEFINE S == {i \in Nat : i <= n => f[i] = g[i]}
<1>8. 0 \in S
  BY <1>5, <1>6
<1>9. ASSUME NEW i \in Nat, i \in S
      PROVE  i + 1 \in S
  <2>1. CASE i + 1 <= n
    <3>1. i + 1 \in 0 .. n /\ i + 1 \in 0 .. n + 1 /\ i + 1 \in 1 .. n
          /\ (i + 1) - 1 = i /\ i + 1 # 0
      BY <2>1
    <3>2. f[i + 1] = f[i] \o Escaped(a[i + 1])
      BY <3>1, <1>5
    <3>3. g[i + 1] = g[i] \o Escaped(b[i + 1])
      BY <3>1, <1>6
    <3>4. f[i] = g[i] /\ a[i + 1] = b[i + 1]
      BY <2>1, <1>1, <1>9, <3>1
    <3>5. f[i + 1] = g[i + 1]
      BY Zenon, <3>2, <3>3, <3>4
    <3> QED
      BY <3>5
  <2> QED
    BY <2>1
<1> HIDE DEF S
<1>10. n \in S
  BY <1>8, <1>9, SetInduction
<1>11. f[n] = g[n]
  BY <1>10 DEF S
<1>12. g[n + 1] = g[n] \o Escaped(x[n + 1])
  <2>1. n + 1 \in 0 .. n + 1 /\ n + 1 # 0 /\ (n + 1) - 1 = n
    OBVIOUS
  <2> QED
    BY <2>1, <1>6, <1>1
<1> QED
  BY <1>2, <1>3, <1>4, <1>7, <1>11, <1>12 DEF a, b, z

(* f is the table of the reader over the first n bytes of one read.        *)
Reads(buf, s, n, f) ==
  f = [i \in 0 .. n |-> IF i = 0 THEN Reader(buf) ELSE ReadByte(f[i - 1], s[i])]

LEMMA ReadsExists ==
  ASSUME NEW buf, NEW s, NEW n \in Nat
  PROVE  \E f : Reads(buf, s, n, f)
<1> DEFINE S == {i \in Nat : \E f : Reads(buf, s, i, f)}
<1>1. 0 \in S
  <2> DEFINE f == [i \in 0 .. 0 |-> Reader(buf)]
  <2>1. f = [i \in 0 .. 0 |->
               IF i = 0 THEN Reader(buf) ELSE ReadByte(f[i - 1], s[i])]
    OBVIOUS
  <2>2. Reads(buf, s, 0, f)
    BY Zenon, <2>1 DEF Reads
  <2> HIDE DEF f
  <2> QED
    BY <2>2
<1>2. ASSUME NEW m \in Nat, m \in S
      PROVE  m + 1 \in S
  <2>1. PICK f : Reads(buf, s, m, f)
    BY <1>2
  <2> DEFINE g == [i \in 0 .. m + 1 |-> IF i = m + 1 THEN ReadByte(f[m], s[i])
                                        ELSE f[i]]
  <2>2. \A i \in 0 .. m :
          f[i] = IF i = 0 THEN Reader(buf) ELSE ReadByte(f[i - 1], s[i])
    BY Zenon, <2>1 DEF Reads
  <2>3. ASSUME NEW i \in 0 .. m + 1
        PROVE  g[i] = IF i = 0 THEN Reader(buf) ELSE ReadByte(g[i - 1], s[i])
    <3>1. CASE i = m + 1
      <4>1. g[i] = ReadByte(f[m], s[i]) /\ g[i - 1] = f[m] /\ i # 0
        BY <3>1
      <4> QED
        BY <4>1
    <3>2. CASE i # m + 1
      <4>1. i \in 0 .. m /\ g[i] = f[i]
        BY <3>2
      <4>2. i # 0 => g[i - 1] = f[i - 1]
        BY <4>1
      <4> QED
        BY <4>1, <4>2, <2>2
    <3> QED
      BY <3>1, <3>2
  <2>4. Reads(buf, s, m + 1, g)
    <3>1. g = [i \in 0 .. m + 1 |-> g[i]]
      OBVIOUS
    <3> HIDE DEF g
    <3> QED
      BY Zenon, <3>1, <2>3 DEF Reads
  <2> HIDE DEF g
  <2> QED
    BY <2>4
<1> HIDE DEF S
<1>3. n \in S
  BY <1>1, <1>2, SetInduction
<1> QED
  BY <1>3 DEF S

LEMMA ReadBytesReads ==
  ASSUME NEW buf, NEW s, Len(s) \in Nat
  PROVE  \E f : /\ f[0] = Reader(buf)
                /\ \A i \in 1 .. Len(s) : f[i] = ReadByte(f[i - 1], s[i])
                /\ ReadBytes(buf, s) = f[Len(s)]
<1> DEFINE after == CHOOSE f : f = [i \in 0 .. Len(s) |->
                      IF i = 0 THEN Reader(buf) ELSE ReadByte(f[i - 1], s[i])]
<1>1. ReadBytes(buf, s) = after[Len(s)]
  BY Zenon DEF ReadBytes
<1>2. PICK g : Reads(buf, s, Len(s), g)
  BY ReadsExists
<1>3. Reads(buf, s, Len(s), after)
  BY Zenon, <1>2 DEF Reads
<1> HIDE DEF after
<1>4. \A i \in 0 .. Len(s) :
        after[i] = IF i = 0 THEN Reader(buf) ELSE ReadByte(after[i - 1], s[i])
  BY Zenon, <1>3 DEF Reads
<1>5. after[0] = Reader(buf)
  BY <1>4
<1>6. \A i \in 1 .. Len(s) : i \in 0 .. Len(s) /\ i # 0
  OBVIOUS
<1>7. \A i \in 1 .. Len(s) : after[i] = ReadByte(after[i - 1], s[i])
  BY Zenon, <1>4, <1>6
<1> QED
  BY Zenon, <1>1, <1>5, <1>7
-----------------------------------------------------------------------------
(* Where a reader stands in the frames X: it has read p bytes of frame k,  *)
(* and e says that it has read the escape before the next one.             *)
Position == [k : Nat \ {0}, p : Nat, e : BOOLEAN]

At(k, p, e) == [k |-> k, p |-> p, e |-> e]

(* What the byte ch can be at q: a flag before the frame, the escape of a  *)
(* byte, a byte, or the flag after the frame; and where it leads.          *)
Opens(X, q, ch, q2) == q.p = 0 /\ ~q.e /\ ch = PPP_FLAG /\ q2 = q

Escapes(X, q, ch, q2) ==
  /\ q.p < Len(X[q.k]) /\ ~q.e /\ Special(X[q.k][q.p + 1])
  /\ ch = PPP_ESCAPE /\ q2 = At(q.k, q.p, TRUE)

Carries(X, q, ch, q2) ==
  /\ q.p < Len(X[q.k]) /\ Special(X[q.k][q.p + 1]) = q.e
  /\ ch = IF q.e THEN Trans(X[q.k][q.p + 1]) ELSE X[q.k][q.p + 1]
  /\ q2 = At(q.k, q.p + 1, FALSE)

Ends(X, q, ch, q2) ==
  q.p = Len(X[q.k]) /\ ~q.e /\ ch = PPP_FLAG /\ q2 = At(q.k + 1, 0, FALSE)

Moves(X, q, ch, q2) ==
  /\ q.k \in 1 .. Len(X)
  /\ \/ Opens(X, q, ch, q2)
     \/ Escapes(X, q, ch, q2)
     \/ Carries(X, q, ch, q2)
     \/ Ends(X, q, ch, q2)

(* The bytes s lead from f[0] to f[Len(s)].                                *)
Path(X, s, f) ==
  /\ \A i \in 0 .. Len(s) : f[i] \in Position
  /\ \A i \in 1 .. Len(s) : Moves(X, f[i - 1], s[i], f[i])

Reach(X, q, s, q2) == \E f : Path(X, s, f) /\ f[0] = q /\ f[Len(s)] = q2

(* Facts about sequences of bytes.                                         *)
LEMMA ConcatIs ==
  ASSUME NEW u \in Seq(Bytes), NEW v \in Seq(Bytes)
  PROVE  /\ u \o v \in Seq(Bytes) /\ Len(u) \in Nat /\ Len(v) \in Nat
         /\ Len(u \o v) = Len(u) + Len(v)
         /\ \A i \in 1 .. Len(u) : (u \o v)[i] = u[i]
         /\ \A i \in 1 .. Len(v) : (u \o v)[Len(u) + i] = v[i]
  OBVIOUS

LEMMA PairIs ==
  ASSUME NEW a \in Bytes, NEW b \in Bytes
  PROVE  <<a>> \o <<b>> = <<a, b>>
<1> DEFINE u == <<a>>
           v == <<b>>
           w == u \o v
           z == <<a, b>>
<1>1. /\ u \in Seq(Bytes) /\ Len(u) = 1 /\ u[1] = a
      /\ v \in Seq(Bytes) /\ Len(v) = 1 /\ v[1] = b
      /\ z \in Seq(Bytes) /\ Len(z) = 2 /\ z[1] = a /\ z[2] = b
  OBVIOUS
<1> HIDE DEF u, v, z
<1>2. /\ w \in Seq(Bytes) /\ Len(w) = Len(u) + Len(v)
      /\ \A i \in 1 .. Len(u) : w[i] = u[i]
      /\ \A i \in 1 .. Len(v) : w[Len(u) + i] = v[i]
  BY Zenon, <1>1, ConcatIs
<1> HIDE DEF w
<1>3. Len(w) = 2 /\ w[1] = a /\ w[2] = b
  BY <1>1, <1>2
<1>4. w = z
  BY <1>1, <1>2, <1>3
<1> QED
  BY <1>4 DEF w, u, v, z

LEMMA FlagsAround ==
  ASSUME NEW a \in Bytes, NEW y \in Seq(Bytes)
  PROVE  /\ <<a>> \in Seq(Bytes) /\ <<a>> \o y \in Seq(Bytes)
         /\ <<a>> \o y \o <<a>> \in Seq(Bytes) /\ y \o <<a>> \in Seq(Bytes)
         /\ Len(<<a>> \o y \o <<a>>) = Len(y) + 2
         /\ Tail(<<a>> \o y \o <<a>>) = y \o <<a>>
<1> DEFINE f == <<a>>
           z == f \o y \o f
           t == Tail(z)
<1>1. f \in Seq(Bytes) /\ Len(f) = 1 /\ f[1] = a
  OBVIOUS
<1> HIDE DEF f
<1>2. /\ f \o y \in Seq(Bytes) /\ z \in Seq(Bytes) /\ y \o f \in Seq(Bytes)
      /\ Len(z) = Len(y) + 2 /\ Len(y \o f) = Len(y) + 1 /\ z # <<>>
  <2>1. /\ f \o y \in Seq(Bytes) /\ Len(f \o y) = Len(y) + 1
        /\ y \o f \in Seq(Bytes) /\ Len(y \o f) = Len(y) + 1
        /\ Len(y) \in Nat
    <3>1. /\ f \o y \in Seq(Bytes) /\ Len(f \o y) = Len(f) + Len(y)
          /\ y \o f \in Seq(Bytes) /\ Len(y \o f) = Len(y) + Len(f)
          /\ Len(y) \in Nat
      BY Zenon, <1>1, ConcatIs
    <3>2. \A n \in Nat : 1 + n = n + 1
      OBVIOUS
    <3> QED
      BY Zenon, <1>1, <3>1, <3>2
  <2> DEFINE g == f \o y
  <2> HIDE DEF g
  <2>2. g \o f \in Seq(Bytes) /\ Len(g \o f) = Len(g) + 1
    BY <1>1, <2>1, ConcatIs DEF g
  <2>3. Len(z) = Len(y) + 2 /\ z \in Seq(Bytes)
    BY <2>1, <2>2 DEF g
  <2>4. z # <<>>
    <3> HIDE DEF z
    <3> QED
      BY <2>1, <2>3
  <2> QED
    BY <2>1, <2>3, <2>4
<1>3. t \in Seq(Bytes) /\ Len(t) = Len(y) + 1
  BY <1>2
<1>4. \A i \in 1 .. Len(y) + 1 : t[i] = (y \o f)[i]
  BY <1>1, <1>2
<1>5. t = y \o f
  <2> HIDE DEF t
  <2> QED
    BY <1>2, <1>3, <1>4
<1> QED
  BY <1>1, <1>2, <1>5 DEF f

LEMMA ReachNothing ==
  ASSUME NEW X, NEW q \in Position
  PROVE  Reach(X, q, <<>>, q)
<1> DEFINE f == [i \in {0} |-> q]
<1>1. Len(<<>>) = 0 /\ f[0] = q
  OBVIOUS
<1>2. Path(X, <<>>, f)
  BY <1>1 DEF Path
<1> HIDE DEF f
<1> QED
  BY Zenon, <1>1, <1>2 DEF Reach

LEMMA ReachConcat ==
  ASSUME NEW X, NEW s \in Seq(Bytes), NEW t \in Seq(Bytes), NEW q1, NEW q2, NEW q3,
         Reach(X, q1, s, q2), Reach(X, q2, t, q3)
  PROVE  Reach(X, q1, s \o t, q3)
<1>1. PICK f : Path(X, s, f) /\ f[0] = q1 /\ f[Len(s)] = q2
  BY Zenon DEF Reach
<1>2. PICK g : Path(X, t, g) /\ g[0] = q2 /\ g[Len(t)] = q3
  BY Zenon DEF Reach
<1> DEFINE m == Len(s)
           n == Len(t)
           h == [i \in 0 .. m + n |-> IF i <= m THEN f[i] ELSE g[i - m]]
<1>3. /\ Len(s \o t) = m + n /\ m \in Nat /\ n \in Nat
      /\ \A i \in 1 .. m + n : (s \o t)[i] = IF i <= m THEN s[i] ELSE t[i - m]
  OBVIOUS
<1>4. \A i \in 0 .. m + n : h[i] = IF i <= m THEN f[i] ELSE g[i - m]
  OBVIOUS
<1> HIDE DEF m, n, h
<1>5. /\ \A i \in 0 .. m : f[i] \in Position
      /\ \A i \in 1 .. m : Moves(X, f[i - 1], s[i], f[i])
      /\ f[m] = q2
  BY Zenon, <1>1 DEF Path, m
<1>6. /\ \A i \in 0 .. n : g[i] \in Position
      /\ \A i \in 1 .. n : Moves(X, g[i - 1], t[i], g[i])
      /\ g[n] = q3
  BY Zenon, <1>2 DEF Path, n
<1>7. ASSUME NEW i \in 0 .. m + n
      PROVE  h[i] \in Position
  <2>1. CASE i <= m
    <3>1. i \in 0 .. m /\ h[i] = f[i]
      BY <2>1, <1>3, <1>4
    <3> QED
      BY Zenon, <3>1, <1>5
  <2>2. CASE i > m
    <3>1. i - m \in 0 .. n /\ h[i] = g[i - m]
      BY <2>2, <1>3, <1>4
    <3> QED
      BY Zenon, <3>1, <1>6
  <2> QED
    BY <1>3, <2>1, <2>2
<1>8. ASSUME NEW i \in 1 .. m + n
      PROVE  Moves(X, h[i - 1], (s \o t)[i], h[i])
  <2>1. CASE i <= m
    <3>1. i \in 1 .. m /\ h[i] = f[i] /\ h[i - 1] = f[i - 1] /\ (s \o t)[i] = s[i]
      BY <2>1, <1>3, <1>4
    <3> QED
      BY Zenon, <3>1, <1>5
  <2>2. CASE i > m
    <3>1. i - m \in 1 .. n /\ h[i] = g[i - m] /\ (s \o t)[i] = t[i - m]
      BY <2>2, <1>3, <1>4
    <3>2. h[i - 1] = g[(i - m) - 1]
      <4>1. CASE i = m + 1
        <5>1. h[i - 1] = f[m] /\ (i - m) - 1 = 0
          BY <4>1, <1>3, <1>4
        <5> QED
          BY <5>1, <1>5, <1>2
      <4>2. CASE i # m + 1
        <5>1. h[i - 1] = g[(i - 1) - m] /\ (i - 1) - m = (i - m) - 1
          BY <4>2, <2>2, <1>3, <1>4
        <5> QED
          BY <5>1
      <4> QED
        BY <4>1, <4>2
    <3> QED
      BY Zenon, <3>1, <3>2, <1>6
  <2> QED
    BY <1>3, <2>1, <2>2
<1>9. h[0] = q1 /\ h[m + n] = q3
  <2>1. h[0] = q1
    BY <1>1, <1>3, <1>4
  <2>2. CASE n = 0
    <3>1. m + n = m /\ m \in 0 .. m + n /\ m <= m
      BY <2>2, <1>3
    <3>2. h[m + n] = f[m] /\ g[n] = g[0]
      BY <2>2, <3>1, <1>4
    <3> QED
      BY Zenon, <3>2, <2>1, <1>2, <1>5, <1>6
  <2>3. CASE n # 0
    <3>1. ~ (m + n <= m) /\ (m + n) - m = n /\ m + n \in 0 .. m + n
      BY <2>3, <1>3
    <3> QED
      BY <3>1, <1>4, <1>6, <2>1
  <2> QED
    BY <2>2, <2>3
<1>10. Path(X, s \o t, h)
  BY Zenon, <1>3, <1>7, <1>8 DEF Path
<1> QED
  BY Zenon, <1>3, <1>9, <1>10 DEF Reach

LEMMA ReachByte ==
  ASSUME NEW X, NEW ch, NEW q1 \in Position, NEW q2 \in Position, Moves(X, q1, ch, q2)
  PROVE  Reach(X, q1, <<ch>>, q2)
<1> DEFINE f == [i \in 0 .. 1 |-> IF i = 0 THEN q1 ELSE q2]
           s == <<ch>>
<1>1. Len(s) = 1 /\ s[1] = ch /\ f[0] = q1 /\ f[1] = q2
  OBVIOUS
<1> HIDE DEF f, s
<1>2. \A i \in 0 .. 1 : f[i] \in Position
  BY <1>1
<1>3. \A i \in 1 .. 1 : i = 1 /\ i - 1 = 0
  OBVIOUS
<1>4. \A i \in 1 .. 1 : Moves(X, f[i - 1], s[i], f[i])
  BY Zenon, <1>1, <1>3
<1>5. Path(X, s, f)
  BY Zenon, <1>1, <1>2, <1>4 DEF Path
<1> QED
  BY Zenon, <1>1, <1>5 DEF Reach, s

(* What remains of a path.                                                 *)
LEMMA PathRest ==
  ASSUME NEW X, NEW s \in Seq(Bytes), NEW f, Path(X, s, f), NEW n \in 0 .. Len(s)
  PROVE  Reach(X, f[n], SubSeq(s, n + 1, Len(s)), f[Len(s)])
<1> DEFINE t == SubSeq(s, n + 1, Len(s))
           m == Len(s) - n
           g == [i \in 0 .. m |-> f[n + i]]
<1>1. /\ Len(t) = m /\ m \in Nat /\ n \in Nat /\ n + m = Len(s)
      /\ \A i \in 1 .. m : t[i] = s[n + i]
      /\ \A i \in 0 .. m : g[i] = f[n + i]
  OBVIOUS
<1> HIDE DEF t, m, g
<1>2. ASSUME NEW i \in 0 .. m
      PROVE  g[i] \in Position
  <2>1. n + i \in 0 .. Len(s)
    BY <1>1
  <2> QED
    BY Zenon, <1>1, <2>1 DEF Path
<1>3. ASSUME NEW i \in 1 .. m
      PROVE  Moves(X, g[i - 1], t[i], g[i])
  <2>1. n + i \in 1 .. Len(s) /\ i - 1 \in 0 .. m /\ n + (i - 1) = (n + i) - 1
        /\ i \in 0 .. m
    BY <1>1
  <2>2. Moves(X, f[(n + i) - 1], s[n + i], f[n + i])
    BY Zenon, <2>1 DEF Path
  <2>3. g[i - 1] = f[(n + i) - 1] /\ t[i] = s[n + i] /\ g[i] = f[n + i]
    BY <1>1, <2>1
  <2> QED
    BY Zenon, <2>2, <2>3
<1>4. g[0] = f[n] /\ g[m] = f[Len(s)]
  BY <1>1
<1>5. Path(X, t, g)
  BY Zenon, <1>1, <1>2, <1>3 DEF Path
<1> QED
  BY Zenon, <1>1, <1>4, <1>5 DEF Reach, t

(* A frame that is added changes no path.                                  *)
LEMMA ReachLonger ==
  ASSUME NEW X \in Seq(Seq(Bytes)), NEW x \in Seq(Bytes), NEW s, NEW q1, NEW q2,
         Reach(X, q1, s, q2)
  PROVE  Reach(Append(X, x), q1, s, q2)
<1> DEFINE Y == Append(X, x)
<1>1. /\ \A k \in 1 .. Len(X) : Y[k] = X[k] /\ k \in 1 .. Len(Y)
  OBVIOUS
<1> HIDE DEF Y
<1>2. ASSUME NEW q, NEW ch, NEW r, Moves(X, q, ch, r)
      PROVE  Moves(Y, q, ch, r)
  <2>1. q.k \in 1 .. Len(X) /\ q.k \in 1 .. Len(Y) /\ Y[q.k] = X[q.k]
    BY Zenon, <1>1, <1>2 DEF Moves
  <2> QED
    BY Zenon, <1>2, <2>1 DEF Moves, Opens, Escapes, Carries, Ends
<1>3. PICK f : Path(X, s, f) /\ f[0] = q1 /\ f[Len(s)] = q2
  BY Zenon DEF Reach
<1>4. Path(Y, s, f)
  BY Zenon, <1>2, <1>3 DEF Path
<1> QED
  BY Zenon, <1>3, <1>4 DEF Reach, Y

(* One byte of a frame, as write_packet puts it.                           *)
LEMMA ReachEscaped ==
  ASSUME NEW X \in Seq(Seq(Bytes)), NEW k \in 1 .. Len(X), NEW p \in Nat,
         p < Len(X[k])
  PROVE  /\ Escaped(X[k][p + 1]) \in Seq(Bytes)
         /\ Len(Escaped(X[k][p + 1])) \in 1 .. 2
         /\ Reach(X, At(k, p, FALSE), Escaped(X[k][p + 1]), At(k, p + 1, FALSE))
<1> DEFINE b == X[k][p + 1]
           q1 == At(k, p, FALSE)
           q2 == At(k, p, TRUE)
           q3 == At(k, p + 1, FALSE)
<1>1. X[k] \in Seq(Bytes) /\ b \in Bytes
  <2>1. X[k] \in Seq(Bytes)
    OBVIOUS
  <2>2. p + 1 \in 1 .. Len(X[k])
    BY <2>1
  <2> QED
    BY <2>1, <2>2
<1>2. /\ q1 \in Position /\ q1.k = k /\ q1.p = p /\ q1.e = FALSE
      /\ q2 \in Position /\ q2.k = k /\ q2.p = p /\ q2.e = TRUE
      /\ q3 \in Position
  BY DEF At, Position
<1> HIDE DEF b, q1, q2, q3
<1> SUFFICES /\ Escaped(b) \in Seq(Bytes) /\ Len(Escaped(b)) \in 1 .. 2
             /\ Reach(X, q1, Escaped(b), q3)
  BY Zenon DEF b, q1, q3
<1>3. CASE Special(b)
  <2>1. PPP_ESCAPE \in Bytes /\ Trans(b) \in Bytes
    <3>1. PPP_ESCAPE \in Bytes
      BY DEF Bytes, PPP_ESCAPE
    <3> QED
      BY Zenon, <3>1, <1>1, <1>3, TransFacts
  <2>2. Escaped(b) = <<PPP_ESCAPE>> \o <<Trans(b)>>
    <3>1. <<PPP_ESCAPE>> \o <<Trans(b)>> = <<PPP_ESCAPE, Trans(b)>>
      BY Zenon, <2>1, PairIs
    <3> QED
      BY Zenon, <1>3, <3>1 DEF Escaped
  <2>3. Moves(X, q1, PPP_ESCAPE, q2)
    <3>1. Escapes(X, q1, PPP_ESCAPE, q2)
      BY Zenon, <1>2, <1>3 DEF Escapes, b, q2
    <3> QED
      BY Zenon, <1>2, <3>1 DEF Moves
  <2>4. Moves(X, q2, Trans(b), q3)
    <3>1. Special(b) = q2.e
      BY <1>2, <1>3 DEF Special
    <3>2. Carries(X, q2, Trans(b), q3)
      BY Zenon, <1>2, <3>1 DEF Carries, b, q3
    <3> QED
      BY Zenon, <1>2, <3>2 DEF Moves
  <2>5. Reach(X, q1, <<PPP_ESCAPE>>, q2) /\ Reach(X, q2, <<Trans(b)>>, q3)
    BY Zenon, <1>2, <2>3, <2>4, ReachByte
  <2>6. <<PPP_ESCAPE>> \in Seq(Bytes) /\ <<Trans(b)>> \in Seq(Bytes)
    BY <2>1
  <2>7. Reach(X, q1, <<PPP_ESCAPE>> \o <<Trans(b)>>, q3)
    BY Zenon, <2>5, <2>6, ReachConcat
  <2>8. /\ <<PPP_ESCAPE>> \o <<Trans(b)>> \in Seq(Bytes)
        /\ Len(<<PPP_ESCAPE>> \o <<Trans(b)>>) \in 1 .. 2
    BY <2>1
  <2> QED
    BY Zenon, <2>2, <2>7, <2>8
<1>4. CASE ~Special(b)
  <2>1. Escaped(b) = <<b>> /\ <<b>> \in Seq(Bytes) /\ Len(<<b>>) \in 1 .. 2
    BY <1>1, <1>4 DEF Escaped
  <2>2. Special(b) = q1.e
    BY <1>2, <1>4 DEF Special
  <2>3. Carries(X, q1, b, q3)
    BY Zenon, <1>2, <2>2 DEF Carries, b, q3
  <2>4. Moves(X, q1, b, q3)
    BY Zenon, <1>2, <2>3 DEF Moves
  <2>5. Reach(X, q1, <<b>>, q3)
    BY Zenon, <1>2, <2>4, ReachByte
  <2> QED
    BY Zenon, <2>1, <2>5
<1> QED
  BY <1>3, <1>4

(* All bytes of a frame.  Escaping makes it no shorter.                    *)
LEMMA ReachEscape ==
  ASSUME NEW X \in Seq(Seq(Bytes)), NEW k \in 1 .. Len(X), Len(X[k]) > 0
  PROVE  /\ Escape(X[k]) \in Seq(Bytes) /\ Len(Escape(X[k])) >= Len(X[k])
         /\ Len(Escape(X[k])) <= Len(Escape(Front(X[k]))) + 2
         /\ Len(Escape(Front(X[k]))) \in Nat
         /\ Reach(X, At(k, 0, FALSE), Escape(X[k]), At(k, Len(X[k]), FALSE))
<1> DEFINE x == X[k]
           E(i) == Escape(SubSeq(x, 1, i))
           P(i) == /\ E(i) \in Seq(Bytes) /\ Len(E(i)) >= i
                   /\ Reach(X, At(k, 0, FALSE), E(i), At(k, i, FALSE))
           S == {i \in Nat : i <= Len(x) => P(i)}
<1>1. x \in Seq(Bytes) /\ Len(x) \in Nat /\ Len(x) > 0
  OBVIOUS
<1>2. \A i \in Nat : i < Len(x) => /\ E(0) = <<>>
                                   /\ E(i + 1) = E(i) \o Escaped(x[i + 1])
  <2> HIDE DEF x
  <2> QED
    BY <1>1, EscapeGrows
<1>3. \A i \in Nat : i < Len(x) =>
        /\ Escaped(x[i + 1]) \in Seq(Bytes) /\ Len(Escaped(x[i + 1])) \in 1 .. 2
        /\ Reach(X, At(k, i, FALSE), Escaped(x[i + 1]), At(k, i + 1, FALSE))
  BY Zenon, ReachEscaped
<1> HIDE DEF x, E
<1>4. 0 \in S
  <2>1. E(0) = <<>>
    BY <1>1, <1>2
  <2>2. At(k, 0, FALSE) \in Position
    BY DEF At, Position
  <2>3. Reach(X, At(k, 0, FALSE), <<>>, At(k, 0, FALSE))
    BY Zenon, <2>2, ReachNothing
  <2>4. <<>> \in Seq(Bytes) /\ Len(<<>>) >= 0
    OBVIOUS
  <2>5. P(0)
    BY Zenon, <2>1, <2>3, <2>4
  <2> HIDE DEF P
  <2> QED
    BY <2>5
<1>5. ASSUME NEW i \in Nat, i \in S
      PROVE  i + 1 \in S
  <2>1. ASSUME i + 1 <= Len(x)
        PROVE  P(i + 1)
    <3>1. i < Len(x) /\ i <= Len(x)
      BY <1>1, <2>1
    <3>2. P(i)
      <4> HIDE DEF P
      <4> QED
        BY <1>5, <3>1
    <3>3. Escaped(x[i + 1]) \in Seq(Bytes) /\ Len(Escaped(x[i + 1])) \in 1 .. 2
      BY Zenon, <1>3, <3>1
    <3>4. E(i + 1) = E(i) \o Escaped(x[i + 1])
      BY <1>2, <3>1
    <3>5. Reach(X, At(k, 0, FALSE), E(i) \o Escaped(x[i + 1]), At(k, i + 1, FALSE))
      BY Zenon, <1>3, <3>1, <3>2, <3>3, ReachConcat
    <3>6. /\ E(i) \o Escaped(x[i + 1]) \in Seq(Bytes)
          /\ Len(E(i) \o Escaped(x[i + 1])) >= i + 1
      <4> DEFINE u == E(i)
                 v == Escaped(x[i + 1])
      <4>1. u \in Seq(Bytes) /\ v \in Seq(Bytes) /\ Len(u) >= i /\ Len(v) \in 1 .. 2
        BY <3>2, <3>3
      <4> HIDE DEF u, v
      <4>2. /\ u \o v \in Seq(Bytes) /\ Len(u) \in Nat /\ Len(v) \in Nat
            /\ Len(u \o v) = Len(u) + Len(v)
        BY Zenon, <4>1, ConcatIs
      <4>3. \A a, b, c \in Nat : a >= i /\ b \in 1 .. 2 /\ c = a + b => c >= i + 1
        OBVIOUS
      <4>4. Len(u \o v) \in Nat
        BY <4>2
      <4>5. Len(u \o v) >= i + 1
        BY Zenon, <4>1, <4>2, <4>3, <4>4
      <4> QED
        BY Zenon, <4>2, <4>5 DEF u, v
    <3> QED
      BY Zenon, <3>4, <3>5, <3>6
  <2> HIDE DEF P
  <2> QED
    BY <2>1
<1> HIDE DEF S
<1>6. Len(x) \in S /\ Len(x) - 1 \in S
  <2>1. \A i \in Nat : i \in S
    BY Zenon, <1>4, <1>5, SetInduction
  <2>2. Len(x) \in Nat /\ Len(x) - 1 \in Nat
    BY <1>1
  <2> QED
    BY Zenon, <2>1, <2>2
<1>7. P(Len(x)) /\ P(Len(x) - 1)
  <2> HIDE DEF P
  <2> QED
    BY <1>1, <1>6 DEF S
<1>8. E(Len(x)) = Escape(x) /\ E(Len(x) - 1) = Escape(Front(x))
  <2>1. SubSeq(x, 1, Len(x)) = x
    BY <1>1
  <2> QED
    BY <2>1 DEF E, Front
<1>9. Len(Escape(x)) <= Len(Escape(Front(x))) + 2
  <2> DEFINE u == E(Len(x) - 1)
             v == Escaped(x[Len(x)])
  <2>1. Len(x) - 1 \in Nat /\ Len(x) - 1 < Len(x) /\ (Len(x) - 1) + 1 = Len(x)
    BY <1>1
  <2>2. E(Len(x)) = u \o v /\ v \in Seq(Bytes) /\ Len(v) \in 1 .. 2
    BY <2>1, <1>2, <1>3
  <2>3. u \in Seq(Bytes)
    BY <1>7
  <2> HIDE DEF u, v
  <2>4. Len(u \o v) = Len(u) + Len(v) /\ Len(u) \in Nat /\ Len(v) \in Nat
    BY Zenon, <2>2, <2>3, ConcatIs
  <2>5. \A a, b : a \in Nat /\ b \in 1 .. 2 => a + b <= a + 2
    OBVIOUS
  <2>6. Len(u \o v) <= Len(u) + 2
    BY Zenon, <2>2, <2>4, <2>5
  <2> QED
    BY Zenon, <2>2, <2>6, <1>8 DEF u
<1>10. Len(Escape(Front(x))) \in Nat
  BY <1>7, <1>8
<1> QED
  BY Zenon, <1>7, <1>8, <1>9, <1>10 DEF x

(* The bytes of a frame, with or without the flag before it.               *)
LEMMA ReachAsync ==
  ASSUME NEW X \in Seq(Seq(Bytes)), NEW k \in 1 .. Len(X), Len(X[k]) > 0
  PROVE  /\ Async(X[k]) \in Seq(Bytes) /\ Tail(Async(X[k])) \in Seq(Bytes)
         /\ Len(Async(X[k])) = Len(Escape(X[k])) + 2
         /\ Reach(X, At(k, 0, FALSE), Async(X[k]), At(k + 1, 0, FALSE))
         /\ Reach(X, At(k, 0, FALSE), Tail(Async(X[k])), At(k + 1, 0, FALSE))
<1> DEFINE y == Escape(X[k])
           flag == <<PPP_FLAG>>
           q1 == At(k, 0, FALSE)
           q2 == At(k, Len(X[k]), FALSE)
           q3 == At(k + 1, 0, FALSE)
<1>1. y \in Seq(Bytes) /\ Reach(X, q1, y, q2)
  BY Zenon, ReachEscape
<1>2. flag \in Seq(Bytes) /\ Len(flag) = 1
  BY DEF PPP_FLAG, Bytes
<1>3. X[k] \in Seq(Bytes) /\ Len(X[k]) \in Nat
  OBVIOUS
<1>4. /\ q1 \in Position /\ q1.k = k /\ q1.p = 0 /\ q1.e = FALSE
      /\ q2 \in Position /\ q2.k = k /\ q2.p = Len(X[k]) /\ q2.e = FALSE
      /\ q3 \in Position
  BY <1>3 DEF At, Position
<1>5. Reach(X, q1, flag, q1)
  <2>1. Moves(X, q1, PPP_FLAG, q1)
    BY Zenon, <1>4 DEF Moves, Opens
  <2> QED
    BY Zenon, <1>4, <2>1, ReachByte
<1>6. Reach(X, q2, flag, q3)
  <2>1. Moves(X, q2, PPP_FLAG, q3)
    BY Zenon, <1>4 DEF Moves, Ends
  <2> QED
    BY Zenon, <1>4, <2>1, ReachByte
<1>7. Async(X[k]) = flag \o y \o flag
  BY DEF Async
<1> HIDE DEF y, flag, q1, q2, q3
<1>8. /\ flag \o y \in Seq(Bytes) /\ flag \o y \o flag \in Seq(Bytes)
      /\ y \o flag \in Seq(Bytes)
      /\ Len(flag \o y \o flag) = Len(y) + 2
      /\ Tail(flag \o y \o flag) = y \o flag
  <2>1. PPP_FLAG \in Bytes
    BY DEF PPP_FLAG, Bytes
  <2> QED
    BY Zenon, <1>1, <2>1, FlagsAround DEF flag
<1>9. Reach(X, q1, flag \o y, q2)
  BY Zenon, <1>1, <1>2, <1>5, ReachConcat
<1>10. Reach(X, q1, flag \o y \o flag, q3)
  BY Zenon, <1>2, <1>6, <1>8, <1>9, ReachConcat
<1>11. Reach(X, q1, y \o flag, q3)
  BY Zenon, <1>1, <1>2, <1>6, ReachConcat
<1> QED
  BY Zenon, <1>7, <1>8, <1>10, <1>11 DEF y, q1, q3
-----------------------------------------------------------------------------
(* Frames with their FCS, as pppd writes them.                             *)
Frames(X) ==
  /\ X \in Seq(Seq(Bytes))
  /\ \A k \in 1 .. Len(X) : X[k] \in Seq(Bytes) /\ Len(X[k]) \in Nat /\ Len(X[k]) >= 3

Readers ==
  [buf : Seq(Bytes), escape : BOOLEAN, got : Seq(Seq(Bytes)), left : {<<>>},
   run : {"go", "error"}]

(* What a read returns as its i-th frame is frame o + i of X without its   *)
(* FCS; of the first one after a split (sp) only the length is certain.    *)
Sent(X, o, sp, i, frame) ==
  /\ o + i \in 1 .. Len(X) /\ Len(frame) = Len(X[o + i]) - 2
  /\ (sp => i # 1) => \A j \in 1 .. Len(frame) : frame[j] = X[o + i][j]

(* The reader r stands at q, and ppp_buf holds what it has read of the     *)
(* frame.  Only after a split may it have missed an escape.                *)
Follows(X, o, sp, r, q) ==
  /\ q.k = o + Len(r.got) + 1 /\ q.p = Len(r.buf)
  /\ r.escape => q.e
  /\ (sp => Len(r.got) # 0) =>
       r.escape = q.e /\ \A j \in 1 .. q.p : r.buf[j] = X[q.k][j]

(* It gives up only when a frame does not fit ppp_buf.                     *)
Along(X, o, sp, r, q) ==
  /\ r \in Readers
  /\ \A i \in 1 .. Len(r.got) : Sent(X, o, sp, i, r.got[i])
  /\ r.run = "error" => \E k \in 1 .. Len(X) : Len(X[k]) > MaxRecv
  /\ r.run = "go" => Follows(X, o, sp, r, q)

LEMMA AppendIs ==
  ASSUME NEW T, NEW s \in Seq(T), NEW e \in T
  PROVE  /\ Append(s, e) \in Seq(T) /\ Len(s) \in Nat
         /\ Len(Append(s, e)) = Len(s) + 1
         /\ \A i \in 1 .. Len(s) : Append(s, e)[i] = s[i]
         /\ Append(s, e)[Len(s) + 1] = e
  OBVIOUS

LEMMA AlongCarries ==
  ASSUME NEW X, Frames(X), NEW o \in Nat, NEW sp \in BOOLEAN, NEW r, NEW ch,
         NEW q \in Position, NEW q2 \in Position, q.k \in 1 .. Len(X),
         Along(X, o, sp, r, q), r.run = "go", Carries(X, q, ch, q2)
  PROVE  Along(X, o, sp, ReadByte(r, ch), q2)
<1> DEFINE b == X[q.k][q.p + 1]
           d == IF r.escape THEN Trans(ch) ELSE ch
           r2 == ReadByte(r, ch)
<1>1. Follows(X, o, sp, r, q) /\ r \in Readers
  BY Zenon DEF Along
<1>2. /\ q.p \in Nat /\ q.p < Len(X[q.k]) /\ Len(X[q.k]) \in Nat
      /\ Special(b) = q.e /\ ch = (IF q.e THEN Trans(b) ELSE b)
      /\ q2 = At(q.k, q.p + 1, FALSE) /\ q.e \in BOOLEAN
  BY Zenon DEF Carries, Frames, Position
<1>3. b \in Bytes
  <2>1. X[q.k] \in Seq(Bytes)
    BY Zenon DEF Frames
  <2>2. q.p + 1 \in 1 .. Len(X[q.k])
    BY <1>2
  <2> DEFINE x == X[q.k]
  <2> HIDE DEF x
  <2>3. \A i \in 1 .. Len(x) : x[i] \in Bytes
    BY <2>1 DEF x
  <2> QED
    BY Zenon, <2>2, <2>3 DEF x
<1> HIDE DEF b
<1>4. /\ ch \in Bytes /\ ch # PPP_FLAG /\ ch # PPP_ESCAPE
      /\ q.e => Trans(ch) = b
  <2>1. CASE q.e
    <3>1. Special(b) /\ ch = Trans(b)
      BY <1>2, <2>1
    <3> QED
      BY Zenon, <3>1, <1>3, TransFacts
  <2>2. CASE ~q.e
    <3>1. ~Special(b) /\ ch = b
      BY <1>2, <2>2
    <3> QED
      BY <3>1, <1>3, <2>2 DEF Special
  <2> QED
    BY <2>1, <2>2
<1>5. /\ r.buf \in Seq(Bytes) /\ r.escape \in BOOLEAN /\ r.got \in Seq(Seq(Bytes))
      /\ r.left = <<>> /\ q.p = Len(r.buf)
      /\ r.escape => q.e
      /\ q.k = o + Len(r.got) + 1
  BY <1>1 DEF Readers, Follows
<1>6. d \in Bytes /\ (r.escape = q.e => d = b)
  BY <1>2, <1>3, <1>4, <1>5
<1>7. r2 = IF Len(r.buf) < MaxRecv
           THEN [r EXCEPT !.buf = Append(@, d), !.escape = FALSE]
           ELSE [r EXCEPT !.run = "error"]
  BY <1>4 DEF ReadByte
<1> HIDE DEF d, r2
<1> SUFFICES Along(X, o, sp, r2, q2)
  BY Zenon DEF r2
<1>8. CASE Len(r.buf) < MaxRecv
  <2> DEFINE y == Append(r.buf, d)
  <2>1. /\ y \in Seq(Bytes) /\ Len(y) = q.p + 1
        /\ \A i \in 1 .. q.p : y[i] = r.buf[i]
        /\ y[q.p + 1] = d
    <3> DEFINE z == r.buf
    <3>1. z \in Seq(Bytes) /\ Len(z) = q.p
      BY <1>5
    <3> HIDE DEF z
    <3>2. /\ Append(z, d) \in Seq(Bytes) /\ Len(Append(z, d)) = Len(z) + 1
          /\ \A i \in 1 .. Len(z) : Append(z, d)[i] = z[i]
          /\ Append(z, d)[Len(z) + 1] = d
      BY <3>1, <1>6
    <3> QED
      BY Zenon, <3>1, <3>2 DEF z
  <2>2. r2 = [r EXCEPT !.buf = y, !.escape = FALSE]
    BY <1>7, <1>8
  <2> HIDE DEF y
  <2>3. /\ r2 \in Readers /\ r2.buf = y /\ r2.escape = FALSE /\ r2.got = r.got
        /\ r2.run = "go"
    BY <1>1, <2>1, <2>2 DEF Readers
  <2>4. q2.k = q.k /\ q2.p = q.p + 1 /\ q2.e = FALSE
    BY <1>2 DEF At
  <2>5. ASSUME sp => Len(r.got) # 0
        PROVE  \A j \in 1 .. q2.p : y[j] = X[q.k][j]
    <3>1. r.escape = q.e /\ \A j \in 1 .. q.p : r.buf[j] = X[q.k][j]
      BY Zenon, <2>5, <1>1 DEF Follows
    <3>2. y[q.p + 1] = X[q.k][q.p + 1]
      BY Zenon, <3>1, <2>1, <1>6 DEF b
    <3>3. \A j \in 1 .. q.p + 1 : j \in 1 .. q.p \/ j = q.p + 1
      BY <1>2
    <3> QED
      BY Zenon, <3>1, <3>2, <3>3, <2>1, <2>4
  <2>6. Follows(X, o, sp, r2, q2)
    BY Zenon, <1>5, <2>1, <2>3, <2>4, <2>5 DEF Follows
  <2> QED
    BY Zenon, <2>3, <2>6 DEF Along
<1>9. CASE ~(Len(r.buf) < MaxRecv)
  <2>1. r2 = [r EXCEPT !.run = "error"]
    BY <1>7, <1>9
  <2>2. r2 \in Readers /\ r2.got = r.got /\ r2.run = "error"
    BY <1>1, <2>1 DEF Readers
  <2>3. Len(X[q.k]) > MaxRecv
    BY <1>2, <1>5, <1>9, PayloadAssumption
  <2>4. "error" # "go"
    OBVIOUS
  <2> QED
    BY Zenon, <2>2, <2>3, <2>4 DEF Along
<1> QED
  BY Zenon, <1>8, <1>9

LEMMA AlongEnds ==
  ASSUME NEW X, Frames(X), NEW o \in Nat, NEW sp \in BOOLEAN, NEW r, NEW ch,
         NEW q \in Position, NEW q2 \in Position, q.k \in 1 .. Len(X),
         Along(X, o, sp, r, q), r.run = "go", Ends(X, q, ch, q2)
  PROVE  Along(X, o, sp, ReadByte(r, ch), q2)
<1> DEFINE r2 == ReadByte(r, ch)
           n == Len(r.buf)
           frame == SubSeq(r.buf, 1, n - 2)
<1>1. Follows(X, o, sp, r, q) /\ r \in Readers
  BY Zenon DEF Along
<1>2. /\ n = Len(X[q.k]) /\ n \in Nat /\ n >= 3 /\ q.p = n
      /\ ~q.e /\ ch = PPP_FLAG /\ q2 = At(q.k + 1, 0, FALSE)
  BY Zenon, <1>1 DEF Ends, Frames, Follows
<1>3. /\ r.buf \in Seq(Bytes) /\ r.got \in Seq(Seq(Bytes)) /\ r.escape \in BOOLEAN
      /\ ~r.escape /\ q.k = o + Len(r.got) + 1
  BY <1>1, <1>2 DEF Readers, Follows
<1>4. /\ frame \in Seq(Bytes) /\ Len(frame) = n - 2 /\ frame # <<>>
      /\ \A j \in 1 .. n - 2 : frame[j] = r.buf[j]
  <2> DEFINE z == r.buf
  <2>1. z \in Seq(Bytes) /\ n = Len(z) /\ n \in Nat /\ n >= 3
    BY <1>2, <1>3
  <2> HIDE DEF z, n
  <2>2. /\ SubSeq(z, 1, n - 2) \in Seq(Bytes) /\ Len(SubSeq(z, 1, n - 2)) = n - 2
        /\ \A j \in 1 .. n - 2 : SubSeq(z, 1, n - 2)[j] = z[j]
    BY <2>1
  <2>3. n - 2 # 0 /\ Len(<<>>) = 0
    BY <2>1
  <2> QED
    BY Zenon, <2>2, <2>3 DEF z
<1>5. r2 = Return(r, frame)
  <2>1. Len(r.buf) >= 2 /\ Len(r.buf) # 1
    BY <1>2
  <2>2. r2 = EndOfFrame(r)
    BY <1>2, <1>3 DEF ReadByte, PPP_FLAG, PPP_ESCAPE
  <2> QED
    BY <2>1, <2>2 DEF EndOfFrame
<1> HIDE DEF n, frame, r2
<1> DEFINE g == Append(r.got, frame)
<1>6. r2 = [r EXCEPT !.got = g, !.buf = <<>>, !.run = "go"]
  BY <1>4, <1>5 DEF Return
<1>7. /\ g \in Seq(Seq(Bytes)) /\ Len(r.got) \in Nat /\ Len(g) = Len(r.got) + 1
      /\ \A i \in 1 .. Len(r.got) : g[i] = r.got[i]
      /\ g[Len(r.got) + 1] = frame
  <2> DEFINE z == r.got
             T == Seq(Bytes)
  <2>1. z \in Seq(T) /\ frame \in T
    BY <1>3, <1>4
  <2> HIDE DEF z, T
  <2>2. /\ Append(z, frame) \in Seq(T) /\ Len(z) \in Nat
        /\ Len(Append(z, frame)) = Len(z) + 1
        /\ \A i \in 1 .. Len(z) : Append(z, frame)[i] = z[i]
        /\ Append(z, frame)[Len(z) + 1] = frame
    BY <2>1
  <2> QED
    BY Zenon, <2>2 DEF z, T
<1> HIDE DEF g
<1>8. /\ r2 \in Readers /\ r2.got = g /\ r2.buf = <<>> /\ r2.escape = FALSE
      /\ r2.run = "go"
  <2>1. <<>> \in Seq(Bytes)
    OBVIOUS
  <2> QED
    BY <1>1, <1>3, <1>6, <1>7, <2>1 DEF Readers
<1>9. ASSUME NEW i \in 1 .. Len(g)
      PROVE  Sent(X, o, sp, i, g[i])
  <2>1. CASE i = Len(r.got) + 1
    <3>1. g[i] = frame /\ o + i = q.k
      BY <2>1, <1>3, <1>7
    <3>2. (sp => i # 1) => (sp => Len(r.got) # 0)
      BY <2>1, <1>7
    <3>3. (sp => i # 1) => \A j \in 1 .. n : r.buf[j] = X[q.k][j]
      BY Zenon, <3>2, <1>1, <1>2 DEF Follows
    <3>4. \A j \in 1 .. n - 2 : j \in 1 .. n
      BY <1>2
    <3> QED
      BY Zenon, <3>1, <3>3, <3>4, <1>2, <1>4 DEF Sent
  <2>2. CASE i # Len(r.got) + 1
    <3>1. i \in 1 .. Len(r.got)
      BY <2>2, <1>7
    <3> QED
      BY Zenon, <3>1, <1>7 DEF Along
  <2> QED
    BY <2>1, <2>2
<1>10. Follows(X, o, sp, r2, q2)
  <2>1. q2.k = q.k + 1 /\ q2.p = 0 /\ q2.e = FALSE
    BY <1>2 DEF At
  <2>2. q2.k = o + Len(g) + 1
    BY <2>1, <1>3, <1>7
  <2>3. \A j \in 1 .. 0 : FALSE
    OBVIOUS
  <2>4. Len(<<>>) = 0
    OBVIOUS
  <2> QED
    BY Zenon, <2>1, <2>2, <2>3, <2>4, <1>8 DEF Follows
<1>11. "error" # "go"
  OBVIOUS
<1>12. Along(X, o, sp, r2, q2)
  BY Zenon, <1>8, <1>9, <1>10, <1>11 DEF Along
<1> QED
  BY Zenon, <1>12 DEF r2

LEMMA AlongStep ==
  ASSUME NEW X, Frames(X), NEW o \in Nat, NEW sp \in BOOLEAN, NEW r, NEW ch,
         NEW q \in Position, NEW q2 \in Position,
         Along(X, o, sp, r, q), Moves(X, q, ch, q2)
  PROVE  Along(X, o, sp, ReadByte(r, ch), q2)
<1> DEFINE r2 == ReadByte(r, ch)
<1>1. r \in Readers /\ q.k \in 1 .. Len(X)
  BY Zenon DEF Along, Moves
<1>2. CASE r.run = "error"
  <2>1. r2 = r
    BY <1>2 DEF ReadByte
  <2>2. "error" # "go"
    OBVIOUS
  <2> QED
    BY Zenon, <1>2, <2>1, <2>2 DEF Along
<1>3. CASE r.run = "go"
  <2>1. Follows(X, o, sp, r, q)
    BY Zenon, <1>3 DEF Along
  <2>2. CASE Opens(X, q, ch, q2)
    <3>1. ~q.e /\ ch = PPP_FLAG /\ q2 = q /\ Len(r.buf) = 0
      BY Zenon, <2>1, <2>2 DEF Opens, Follows
    <3>2. ~r.escape /\ r.escape \in BOOLEAN
      BY <1>1, <2>1, <3>1 DEF Follows, Readers
    <3>3. r2 = EndOfFrame(r)
      BY <1>3, <3>1, <3>2 DEF ReadByte, PPP_FLAG, PPP_ESCAPE
    <3>4. EndOfFrame(r) = r
      BY <3>1 DEF EndOfFrame
    <3> QED
      BY Zenon, <3>1, <3>3, <3>4
  <2>3. CASE Escapes(X, q, ch, q2)
    <3>1. /\ ch = PPP_ESCAPE /\ q2 = At(q.k, q.p, TRUE) /\ PPP_ESCAPE # PPP_FLAG
      BY <2>3 DEF Escapes, PPP_ESCAPE, PPP_FLAG
    <3>2. r2 = [r EXCEPT !.escape = TRUE]
      BY <1>3, <3>1 DEF ReadByte
    <3> HIDE DEF r2
    <3>3. /\ r2 \in Readers /\ r2.buf = r.buf /\ r2.got = r.got /\ r2.escape = TRUE
          /\ r2.run = "go"
      BY <1>1, <1>3, <3>2 DEF Readers
    <3>4. q2.k = q.k /\ q2.p = q.p /\ q2.e = TRUE
      BY <3>1 DEF At
    <3>5. Follows(X, o, sp, r2, q2)
      BY Zenon, <2>1, <3>3, <3>4 DEF Follows
    <3>6. "error" # "go"
      OBVIOUS
    <3>7. Along(X, o, sp, r2, q2)
      BY Zenon, <3>3, <3>5, <3>6 DEF Along
    <3> QED
      BY Zenon, <3>7 DEF r2
  <2>4. CASE Carries(X, q, ch, q2)
    BY Zenon, <1>1, <1>3, <2>4, AlongCarries
  <2>5. CASE Ends(X, q, ch, q2)
    BY Zenon, <1>1, <1>3, <2>5, AlongEnds
  <2> QED
    BY Zenon, <2>2, <2>3, <2>4, <2>5 DEF Moves
<1>4. r.run \in {"go", "error"}
  BY <1>1 DEF Readers
<1> QED
  BY <1>2, <1>3, <1>4

(* A whole read.                                                           *)
LEMMA ReadAlong ==
  ASSUME NEW X, Frames(X), NEW o \in Nat, NEW sp \in BOOLEAN,
         NEW buf, NEW s \in Seq(Bytes), NEW f, NEW n \in 0 .. Len(s), Path(X, s, f),
         Along(X, o, sp, Reader(buf), f[0])
  PROVE  Along(X, o, sp, ReadBytes(buf, SubSeq(s, 1, n)), f[n])
<1> DEFINE t == SubSeq(s, 1, n)
<1>1. Len(t) = n /\ n \in Nat /\ \A i \in 1 .. n : t[i] = s[i]
  OBVIOUS
<1>2. \A i \in 1 .. n : i \in 0 .. Len(s) /\ i - 1 \in 0 .. Len(s) /\ i \in 1 .. Len(s)
  OBVIOUS
<1> HIDE DEF t
<1>3. PICK g : /\ g[0] = Reader(buf)
               /\ \A i \in 1 .. n : g[i] = ReadByte(g[i - 1], t[i])
               /\ ReadBytes(buf, t) = g[n]
  <2>1. Len(t) \in Nat
    BY <1>1
  <2> QED
    BY Zenon, <1>1, <2>1, ReadBytesReads
<1> DEFINE S == {i \in Nat : i <= n => Along(X, o, sp, g[i], f[i])}
<1>4. 0 \in S
  BY <1>3
<1>5. ASSUME NEW i \in Nat, i \in S
      PROVE  i + 1 \in S
  <2>1. ASSUME i + 1 <= n
        PROVE  Along(X, o, sp, g[i + 1], f[i + 1])
    <3>1. i <= n /\ i + 1 \in 1 .. n /\ (i + 1) - 1 = i
      BY <1>1, <2>1
    <3>2. Along(X, o, sp, g[i], f[i])
      BY <1>5, <3>1
    <3>3. g[i + 1] = ReadByte(g[i], s[i + 1])
      BY Zenon, <1>1, <1>3, <3>1
    <3>4. f[i] \in Position /\ f[i + 1] \in Position /\ Moves(X, f[i], s[i + 1], f[i + 1])
      BY Zenon, <1>2, <3>1 DEF Path
    <3> QED
      BY Zenon, <3>2, <3>3, <3>4, AlongStep
  <2> QED
    BY <2>1
<1> HIDE DEF S
<1>6. n \in S
  BY Zenon, <1>1, <1>4, <1>5, SetInduction
<1>7. Along(X, o, sp, g[n], f[n])
  BY <1>1, <1>6 DEF S
<1> QED
  BY Zenon, <1>3, <1>7 DEF t

(* What write_packet hands to pppd for a frame that is not too big fits    *)
(* its buffer, and is read as that one frame.                              *)
LEMMA OneReads ==
  ASSUME NEW m \in Incoming, NEW c \in Fcs, ~TooBig(m \o c)
  PROVE  LET bytes == Async(m \o c)
             r == ReadBytes(<<>>, bytes)
         IN  /\ Len(bytes) <= MaxRecv
             /\ r.run = "go" /\ r.got = <<m>> /\ r.buf = <<>>
<1> DEFINE x == m \o c
           X == <<x>>
           a == Async(x)
           q1 == At(1, 0, FALSE)
           q2 == At(2, 0, FALSE)
           r0 == Reader(<<>>)
           r == ReadBytes(<<>>, a)
<1>1. /\ m \in Seq(Bytes) /\ c \in Seq(Bytes) /\ m # <<>> /\ Len(c) = 2
      /\ MaxRecv \in Nat
  BY PayloadAssumption DEF Bytes
<1>2. /\ x \in Seq(Bytes) /\ Len(x) = Len(m) + 2 /\ Len(x) \in Nat /\ Len(x) >= 3
      /\ \A i \in 1 .. Len(m) : x[i] = m[i]
  <2>1. Len(m) \in Nat /\ Len(m) # 0
    BY <1>1
  <2>2. /\ x \in Seq(Bytes) /\ Len(x) = Len(m) + 2
        /\ \A i \in 1 .. Len(m) : x[i] = m[i]
    <3>1. /\ x \in Seq(Bytes) /\ Len(x) = Len(m) + Len(c)
          /\ \A i \in 1 .. Len(m) : x[i] = m[i]
      BY <1>1, ConcatIs
    <3> HIDE DEF x
    <3> QED BY Zenon, <1>1, <3>1
  <2>3. \A l \in Nat : l # 0 => l + 2 \in Nat /\ l + 2 >= 3
    OBVIOUS
  <2> QED
    BY Zenon, <2>1, <2>2, <2>3
<1> HIDE DEF x
<1>3. X \in Seq(Seq(Bytes)) /\ Len(X) = 1 /\ X[1] = x
  BY <1>2
<1> HIDE DEF X
<1>4. Frames(X)
  <2>1. \A k \in 1 .. 1 : k = 1
    OBVIOUS
  <2> QED
    BY Zenon, <1>2, <1>3, <2>1 DEF Frames
<1>5. 1 \in 1 .. Len(X) /\ Len(X[1]) > 0
  BY <1>2, <1>3
<1>6. /\ a \in Seq(Bytes) /\ Len(a) = Len(Escape(x)) + 2
      /\ Reach(X, q1, a, q2)
  <2>1. /\ Async(X[1]) \in Seq(Bytes) /\ Len(Async(X[1])) = Len(Escape(X[1])) + 2
        /\ Reach(X, q1, Async(X[1]), At(1 + 1, 0, FALSE))
    BY Zenon, <1>3, <1>5, ReachAsync
  <2>2. 1 + 1 = 2
    OBVIOUS
  <2> QED
    BY Zenon, <1>3, <2>1, <2>2
<1>7. Len(a) <= MaxRecv /\ Len(x) <= MaxRecv
  <2>1. /\ Escape(x) \in Seq(Bytes) /\ Len(Escape(x)) >= Len(x)
        /\ Len(Escape(x)) <= Len(Escape(Front(x))) + 2
        /\ Len(Escape(Front(x))) \in Nat
    BY Zenon, <1>3, <1>5, ReachEscape
  <2>2. ~(1 + Len(Escape(Front(x))) >= MaxRecv - 4)
    BY Zenon DEF TooBig, x
  <2>3. Len(Escape(x)) \in Nat
    BY <2>1
  <2>4. \A u, v, w, z \in Nat : /\ u >= w /\ u <= v + 2 /\ ~(1 + v >= MaxRecv - 4)
                                /\ z = u + 2
                                => z <= MaxRecv /\ w <= MaxRecv
    BY <1>1
  <2>5. Len(a) \in Nat
    BY <1>6
  <2> QED
    BY Zenon, <1>2, <1>6, <2>1, <2>2, <2>3, <2>4, <2>5
<1>8. PICK f : Path(X, a, f) /\ f[0] = q1 /\ f[Len(a)] = q2
  BY Zenon, <1>6 DEF Reach
<1>9. Along(X, 0, FALSE, r0, q1)
  <2>1. /\ r0 \in Readers /\ r0.got = <<>> /\ r0.buf = <<>> /\ r0.escape = FALSE
        /\ r0.run = "go"
    <3>1. <<>> \in Seq(Bytes) /\ <<>> \in Seq(Seq(Bytes))
      OBVIOUS
    <3> QED
      BY <3>1 DEF Reader, Readers
  <2>2. q1.k = 1 /\ q1.p = 0 /\ q1.e = FALSE /\ 0 + 0 + 1 = 1
    BY DEF At
  <2>3. /\ Len(<<>>) = 0 /\ \A i \in 1 .. 0 : FALSE
        /\ "error" # "go"
    OBVIOUS
  <2> HIDE DEF r0, q1
  <2>4. Follows(X, 0, FALSE, r0, q1)
    BY Zenon, <2>1, <2>2, <2>3 DEF Follows
  <2> QED
    BY Zenon, <2>1, <2>3, <2>4 DEF Along
<1>10. Along(X, 0, FALSE, r, q2)
  <2> HIDE DEF a, q1, q2
  <2>1. Len(a) \in 0 .. Len(a) /\ SubSeq(a, 1, Len(a)) = a
    BY <1>6
  <2>2. 0 \in Nat
    OBVIOUS
  <2>3. Along(X, 0, FALSE, ReadBytes(<<>>, SubSeq(a, 1, Len(a))), f[Len(a)])
    BY Zenon, <1>4, <1>6, <1>8, <1>9, <2>1, <2>2, ReadAlong
  <2> QED
    BY Zenon, <1>8, <2>1, <2>3
<1> HIDE DEF r, a
<1>11. r \in Readers /\ r.run = "go"
  <2>1. ~ \E k \in 1 .. Len(X) : Len(X[k]) > MaxRecv
    BY <1>1, <1>2, <1>3, <1>7
  <2> QED
    BY <1>10, <2>1 DEF Along, Readers
<1>12. /\ q2.k = 0 + Len(r.got) + 1 /\ q2.p = Len(r.buf)
       /\ q2.k = 2 /\ q2.p = 0
  BY Zenon, <1>10, <1>11 DEF Along, Follows, At
<1>13. r.buf = <<>> /\ Len(r.got) = 1 /\ r.got \in Seq(Seq(Bytes))
  <2>1. r.buf \in Seq(Bytes) /\ r.got \in Seq(Seq(Bytes))
    BY <1>11 DEF Readers
  <2>2. Len(r.buf) = 0 /\ 0 + Len(r.got) + 1 = 2
    BY Zenon, <1>12
  <2> DEFINE g == r.got
             b == r.buf
             T == Seq(Bytes)
  <2>3. g \in Seq(T) /\ 0 + Len(g) + 1 = 2 /\ b \in T /\ Len(b) = 0
    BY Zenon, <2>1, <2>2
  <2> HIDE DEF g, b
  <2>4. b = <<>>
    BY <2>3
  <2> HIDE DEF T
  <2>5. Len(g) = 1
    <3>1. Len(g) \in Nat
      BY <2>3
    <3>2. \A i \in Nat : 0 + i + 1 = 2 => i = 1
      OBVIOUS
    <3> QED
      BY Zenon, <2>3, <3>1, <3>2
  <2> QED
    BY Zenon, <2>1, <2>4, <2>5 DEF g, b
<1>14. r.got[1] = m
  <2>1. 1 \in 1 .. Len(r.got)
    BY <1>13
  <2>2. Sent(X, 0, FALSE, 1, r.got[1]) /\ r.got[1] \in Seq(Bytes)
    <3> DEFINE g == r.got
               T == Seq(Bytes)
    <3>1. g \in Seq(T) /\ Len(g) = 1
      BY Zenon, <1>13
    <3> HIDE DEF g, T
    <3>2. g[1] \in T
      BY <3>1
    <3>3. Sent(X, 0, FALSE, 1, r.got[1])
      BY Zenon, <1>10, <2>1 DEF Along
    <3> QED
      BY Zenon, <3>2, <3>3 DEF g, T
  <2>3. 0 + 1 = 1
    OBVIOUS
  <2> DEFINE y == r.got[1]
  <2>4. y \in Seq(Bytes) /\ Len(y) = Len(x) - 2 /\ \A j \in 1 .. Len(y) : y[j] = x[j]
    BY Zenon, <1>3, <2>2, <2>3 DEF Sent
  <2> HIDE DEF y
  <2>5. Len(y) = Len(m) /\ Len(m) \in Nat
    BY <1>1, <1>2, <2>4
  <2>6. \A j \in 1 .. Len(m) : y[j] = m[j]
    BY <1>2, <2>4, <2>5
  <2>7. y = m
    BY <1>1, <2>4, <2>5, <2>6
  <2> QED
    BY <2>7 DEF y
<1>15. r.got = <<m>>
  <2> DEFINE g == r.got
  <2>1. g \in Seq(Seq(Bytes)) /\ Len(g) = 1 /\ g[1] = m
    BY <1>13, <1>14
  <2> HIDE DEF g
  <2>2. g = <<m>>
    BY <2>1
  <2> QED
    BY <2>2 DEF g
<1> QED
  BY <1>7, <1>11, <1>13, <1>15 DEF r, a, x

(* What write_packet has written last is a frame that was not too big.     *)
WrittenInv ==
  \A w \in written :
    \E f \in Incoming, c \in Fcs :
      ~TooBig(f \o c) /\ w = [frame |-> f, bytes |-> Async(f \o c)]

(* The bytes that write_packet hands to pppd for a frame that is not too   *)
(* big fit its buffer, and a reader like read_packet finds exactly that    *)
(* frame in them.                                                          *)
THEOREM ReadsBack == Spec => []Readable
<1>1. Init => WrittenInv
  BY DEF Init, WrittenInv
<1>2. WrittenInv /\ [Next]_vars => WrittenInv'
  <2> SUFFICES ASSUME WrittenInv, [Next]_vars PROVE WrittenInv'
    OBVIOUS
  <2>1. ASSUME written' = written PROVE WrittenInv'
    BY Zenon, <2>1 DEF WrittenInv
  <2>2. ASSUME NEW f \in Incoming, NEW c \in Fcs, Receive(f, c) PROVE WrittenInv'
    <3>1. \/ written' = written
          \/ /\ ~TooBig(f \o c)
             /\ written' = {[frame |-> f, bytes |-> Async(f \o c)]}
      BY Zenon, <2>2 DEF Receive, WritePacket
    <3>2. CASE /\ ~TooBig(f \o c)
               /\ written' = {[frame |-> f, bytes |-> Async(f \o c)]}
      BY Zenon, <3>2 DEF WrittenInv
    <3> QED
      BY Zenon, <2>1, <3>1, <3>2
  <2>3. ASSUME \/ \E f \in Outgoing, c \in Fcs : PppdWrites(f, c)
               \/ \E n \in 1 .. Len(tty) : ReadPppd(n)
               \/ ReadFails \/ StartPppd \/ UNCHANGED vars
        PROVE  UNCHANGED down
    BY Zenon, <2>3 DEF PppdWrites, ReadPppd, ReadFails, StartPppd, vars
  <2>4. UNCHANGED down => written' = written
    BY Zenon DEF down
  <2>5. ASSUME ReceiveZlb \/ Lose PROVE written' = written
    BY Zenon, <2>5 DEF ReceiveZlb, Lose
  <2> QED
    BY Zenon, <2>1, <2>2, <2>3, <2>4, <2>5 DEF Next
<1>3. WrittenInv => Readable
  <2> SUFFICES ASSUME WrittenInv, NEW w \in written
               PROVE  LET r == ReadBytes(<<>>, w.bytes)
                      IN  /\ Len(w.bytes) <= MaxRecv
                          /\ r.run = "go" /\ r.got = <<w.frame>> /\ r.buf = <<>>
    BY Zenon DEF Readable
  <2>1. PICK f \in Incoming, c \in Fcs :
          ~TooBig(f \o c) /\ w = [frame |-> f, bytes |-> Async(f \o c)]
    BY Zenon DEF WrittenInv
  <2>2. w.frame = f /\ w.bytes = Async(f \o c)
    BY Zenon, <2>1
  <2> QED
    BY Zenon, <2>1, <2>2, OneReads
<1> QED
  BY <1>1, <1>2, <1>3, PTL DEF Spec
-----------------------------------------------------------------------------
(* The bytes s that are still to be read and the bytes b in ppp_buf hold   *)
(* the frames d: they are the last ones of X, without their FCS, and s     *)
(* leads from where the reader stands to the end of X.                     *)
Pending(X, o, s, d, b, sp) ==
  /\ Frames(X) /\ o \in Nat /\ Len(X) = o + Len(d)
  /\ \A i \in 1 .. Len(d) : /\ Len(X[o + i]) = Len(d[i]) + 2
                            /\ \A j \in 1 .. Len(d[i]) : X[o + i][j] = d[i][j]
  /\ \E q \in Position : /\ Reach(X, q, s, At(Len(X) + 1, 0, FALSE))
                         /\ Along(X, o, sp, Reader(b), q)

(* The inductive invariant of the way from pppd to the peer.               *)
UpInv ==
  /\ tty \in Seq(Bytes) /\ due \in Seq(Seq(Bytes)) /\ ppp_buf \in Seq(Bytes)
  /\ split \in BOOLEAN
  /\ FramesIntact
  /\ ~needclose => \E X, o : Pending(X, o, tty, due, ppp_buf, split)

LEMMA SeqFacts ==
  ASSUME NEW T, NEW s \in Seq(T)
  PROVE  /\ Len(s) \in Nat /\ DOMAIN s = 1 .. Len(s)
         /\ \A i \in 1 .. Len(s) : s[i] \in T
         /\ \A n \in 0 .. Len(s) :
              /\ SubSeq(s, n + 1, Len(s)) \in Seq(T)
              /\ Len(SubSeq(s, n + 1, Len(s))) = Len(s) - n
              /\ \A i \in 1 .. Len(s) - n : SubSeq(s, n + 1, Len(s))[i] = s[n + i]
         /\ Len(s) = 0 => s = <<>>
         /\ s = <<>> => Len(s) = 0
  OBVIOUS

LEMMA SameBytes ==
  ASSUME NEW u \in Seq(Bytes), NEW v \in Seq(Bytes), Len(u) = Len(v),
         \A i \in 1 .. Len(v) : u[i] = v[i]
  PROVE  u = v
  OBVIOUS

(* A reader with b in ppp_buf, before its first byte.                      *)
Starts(X, o, sp, b, q) ==
  /\ q.k = o + 0 + 1 /\ q.p = Len(b)
  /\ ~sp => FALSE = q.e /\ \A j \in 1 .. q.p : b[j] = X[q.k][j]

LEMMA ReaderAlong ==
  ASSUME NEW X, NEW o, NEW sp \in BOOLEAN, NEW b \in Seq(Bytes), NEW q
  PROVE  Along(X, o, sp, Reader(b), q) <=> Starts(X, o, sp, b, q)
<1> DEFINE r == Reader(b)
<1>1. /\ r \in Readers /\ r.got = <<>> /\ r.buf = b /\ r.escape = FALSE
      /\ r.run = "go"
  <2>1. <<>> \in Seq(Seq(Bytes))
    OBVIOUS
  <2> QED
    BY <2>1 DEF Reader, Readers
<1>2. Len(<<>>) = 0 /\ (\A i \in 1 .. 0 : FALSE) /\ "error" # "go"
  OBVIOUS
<1> HIDE DEF r
<1>3. Along(X, o, sp, r, q) <=> Follows(X, o, sp, r, q)
  BY Zenon, <1>1, <1>2 DEF Along
<1>4. Follows(X, o, sp, r, q) <=> Starts(X, o, sp, b, q)
  BY Zenon, <1>1, <1>2 DEF Follows, Starts
<1> QED
  BY Zenon, <1>3, <1>4 DEF r

(* The bytes that are left start in a frame, or nothing is left.           *)
LEMMA ReachInside ==
  ASSUME NEW X, NEW s \in Seq(Bytes), NEW q, NEW q2, Reach(X, q, s, q2)
  PROVE  q.k \in 1 .. Len(X) \/ q = q2
<1>1. PICK f : Path(X, s, f) /\ f[0] = q /\ f[Len(s)] = q2
  BY Zenon DEF Reach
<1>2. CASE Len(s) = 0
  BY <1>1, <1>2
<1>3. CASE Len(s) # 0
  <2>1. 1 \in 1 .. Len(s) /\ 1 - 1 = 0
    BY <1>3
  <2>2. Moves(X, f[1 - 1], s[1], f[1])
    BY Zenon, <1>1, <2>1 DEF Path
  <2> QED
    BY Zenon, <1>1, <2>1, <2>2 DEF Moves
<1> QED
  BY <1>2, <1>3

(* The bytes t of one more frame m with its FCS c.                         *)
Written(m, c, t) ==
  /\ m \in Seq(Bytes) /\ m # <<>> /\ c \in Seq(Bytes) /\ Len(c) = 2
  /\ t = Async(m \o c) \/ t = Tail(Async(m \o c))

(* pppd writes them.                                                       *)
LEMMA PendingWrite ==
  ASSUME NEW X, NEW o, NEW s \in Seq(Bytes), NEW d \in Seq(Seq(Bytes)),
         NEW b \in Seq(Bytes), NEW sp \in BOOLEAN, Pending(X, o, s, d, b, sp),
         NEW m, NEW c, NEW t, Written(m, c, t)
  PROVE  /\ s \o t \in Seq(Bytes)
         /\ Pending(Append(X, m \o c), o, s \o t, Append(d, m), b, sp)
<1> SUFFICES ASSUME m \in Seq(Bytes), m # <<>>, c \in Seq(Bytes), Len(c) = 2,
                    t = Async(m \o c) \/ t = Tail(Async(m \o c))
             PROVE  /\ s \o t \in Seq(Bytes)
                    /\ Pending(Append(X, m \o c), o, s \o t, Append(d, m), b, sp)
  BY Zenon DEF Written
<1> DEFINE x == m \o c
           Y == Append(X, x)
           e == Append(d, m)
           n == Len(X)
           k == n + 1
           T == Seq(Bytes)
<1>1. /\ x \in T /\ Len(x) = Len(m) + 2 /\ Len(m) \in Nat
      /\ \A i \in 1 .. Len(m) : x[i] = m[i]
  <2>1. /\ m \o c \in Seq(Bytes) /\ Len(m) \in Nat
        /\ Len(m \o c) = Len(m) + Len(c)
        /\ \A i \in 1 .. Len(m) : (m \o c)[i] = m[i]
    BY ConcatIs
  <2> QED
    BY Zenon, <2>1
<1>2. Len(m) # 0
  OBVIOUS
<1> HIDE DEF x
<1>3. Frames(X) /\ o \in Nat /\ n = o + Len(d) /\ X \in Seq(T) /\ d \in Seq(T)
  BY Zenon DEF Pending, Frames
<1>4. /\ Y \in Seq(T) /\ n \in Nat /\ Len(Y) = k /\ Y[k] = x
      /\ \A i \in 1 .. n : Y[i] = X[i]
  <2>1. X \in Seq(T) /\ x \in T
    BY Zenon, <1>1, <1>3
  <2> HIDE DEF T
  <2> QED
    BY <2>1
<1>5. /\ e \in Seq(T) /\ Len(d) \in Nat /\ Len(e) = Len(d) + 1 /\ e[Len(d) + 1] = m
      /\ \A i \in 1 .. Len(d) : e[i] = d[i]
  <2>1. m \in T
    OBVIOUS
  <2>2. d \in Seq(T)
    BY Zenon, <1>3
  <2> HIDE DEF T
  <2>3. /\ Append(d, m) \in Seq(T) /\ Len(d) \in Nat
        /\ Len(Append(d, m)) = Len(d) + 1
        /\ \A i \in 1 .. Len(d) : Append(d, m)[i] = d[i]
        /\ Append(d, m)[Len(d) + 1] = m
    BY <2>1, <2>2, AppendIs
  <2> QED
    BY Zenon, <2>3
<1> HIDE DEF Y, e, n, T
<1>6. \A i \in 1 .. k : i \in 1 .. n \/ i = k
  BY <1>4
<1>7. Frames(Y)
  <2>1. Len(x) \in Nat /\ Len(x) >= 3
    BY <1>1, <1>2
  <2> QED
    BY Zenon, <1>1, <1>3, <1>4, <1>6, <2>1 DEF Frames, n, T
<1>8. Len(Y) = o + Len(e)
  BY <1>3, <1>4, <1>5
<1>9. ASSUME NEW i \in 1 .. Len(e)
      PROVE  /\ Len(Y[o + i]) = Len(e[i]) + 2
             /\ \A j \in 1 .. Len(e[i]) : Y[o + i][j] = e[i][j]
  <2>1. CASE i = Len(d) + 1
    <3>1. o + i = k
      BY <1>3, <1>5, <2>1
    <3> QED
      BY Zenon, <2>1, <3>1, <1>1, <1>4, <1>5
  <2>2. CASE i # Len(d) + 1
    <3>1. i \in 1 .. Len(d) /\ o + i \in 1 .. n
      BY <1>3, <1>5, <2>2
    <3>2. /\ Len(X[o + i]) = Len(d[i]) + 2
          /\ \A j \in 1 .. Len(d[i]) : X[o + i][j] = d[i][j]
      BY Zenon, <3>1 DEF Pending
    <3>3. Y[o + i] = X[o + i] /\ e[i] = d[i]
      BY Zenon, <3>1, <1>4, <1>5
    <3> QED
      BY Zenon, <3>2, <3>3
  <2> QED
    BY <2>1, <2>2
<1>10. PICK q \in Position : /\ Reach(X, q, s, At(k, 0, FALSE))
                             /\ Along(X, o, sp, Reader(b), q)
  BY Zenon DEF Pending, n
<1>11. /\ t \in Seq(Bytes)
       /\ Reach(Y, At(k, 0, FALSE), t, At(k + 1, 0, FALSE))
  <2>1. k \in 1 .. Len(Y) /\ Len(Y[k]) > 0
    BY <1>1, <1>2, <1>4
  <2>2. t = Async(Y[k]) \/ t = Tail(Async(Y[k]))
    BY Zenon, <1>4 DEF x
  <2>3. Y \in Seq(Seq(Bytes))
    BY Zenon, <1>4 DEF T
  <2> HIDE DEF k
  <2> QED
    BY Zenon, <2>1, <2>2, <2>3, ReachAsync
<1>12. Reach(Y, q, s, At(k, 0, FALSE))
  BY Zenon, <1>1, <1>3, <1>10, ReachLonger DEF Y, T
<1>13. Reach(Y, q, s \o t, At(Len(Y) + 1, 0, FALSE))
  BY Zenon, <1>4, <1>11, <1>12, ReachConcat
<1>14. Along(Y, o, sp, Reader(b), q)
  <2>1. Starts(X, o, sp, b, q)
    BY Zenon, <1>10, ReaderAlong
  <2>2. ASSUME q.k \in 1 .. n
        PROVE  Starts(Y, o, sp, b, q)
    BY Zenon, <2>1, <2>2, <1>4 DEF Starts
  <2>3. ASSUME q = At(k, 0, FALSE)
        PROVE  Starts(Y, o, sp, b, q)
    <3>1. q.p = 0 /\ \A j \in 1 .. 0 : FALSE
      BY <2>3 DEF At
    <3> QED
      BY Zenon, <2>1, <3>1 DEF Starts
  <2>4. Starts(Y, o, sp, b, q)
    BY Zenon, <1>10, <2>2, <2>3, ReachInside DEF n
  <2> QED
    BY Zenon, <2>4, ReaderAlong
<1>15. s \o t \in Seq(Bytes)
  BY Zenon, <1>11, ConcatIs
<1>16. Pending(Y, o, s \o t, e, b, sp)
  BY Zenon, <1>3, <1>7, <1>8, <1>9, <1>13, <1>14 DEF Pending
<1> QED
  BY Zenon, <1>15, <1>16 DEF Y, e, x

(* n bytes are read.                                                       *)
LEMMA PendingRead ==
  ASSUME NEW X, NEW o, NEW s \in Seq(Bytes), NEW d \in Seq(Seq(Bytes)),
         NEW b \in Seq(Bytes), NEW sp \in BOOLEAN, Pending(X, o, s, d, b, sp),
         NEW n \in 0 .. Len(s), NEW r, r = ReadBytes(b, SubSeq(s, 1, n))
  PROVE  /\ r \in Readers /\ Len(r.got) \in 0 .. Len(d)
         /\ \A i \in 1 .. Len(r.got) : Sent(X, o, sp, i, r.got[i])
         /\ r.run = "go" =>
              Pending(X, o + Len(r.got), SubSeq(s, n + 1, Len(s)),
                      SubSeq(d, Len(r.got) + 1, Len(d)), r.buf,
                      r.escape \/ (sp /\ r.got = <<>>))
<1> DEFINE L == Len(r.got)
           T == Seq(Bytes)
           last == At(Len(X) + 1, 0, FALSE)
<1>1. Frames(X) /\ o \in Nat /\ Len(X) = o + Len(d)
  BY Zenon DEF Pending
<1>2. PICK q \in Position : Reach(X, q, s, last) /\ Along(X, o, sp, Reader(b), q)
  BY Zenon DEF Pending
<1>3. PICK f : Path(X, s, f) /\ f[0] = q /\ f[Len(s)] = last
  BY Zenon, <1>2 DEF Reach
<1>4. Along(X, o, sp, r, f[n])
  BY Zenon, <1>1, <1>2, <1>3, ReadAlong
<1>5. /\ r \in Readers /\ \A i \in 1 .. L : Sent(X, o, sp, i, r.got[i])
      /\ r.run = "go" => Follows(X, o, sp, r, f[n])
  BY Zenon, <1>4 DEF Along
<1>6. /\ r.got \in Seq(T) /\ r.buf \in T /\ r.escape \in BOOLEAN
  BY <1>5 DEF Readers
<1>7. L \in Nat /\ Len(d) \in Nat /\ (L = 0 <=> r.got = <<>>)
  <2> HIDE DEF T
  <2>1. Len(r.got) \in Nat /\ (Len(r.got) = 0 <=> r.got = <<>>)
    BY Zenon, <1>6, SeqFacts
  <2>2. Len(d) \in Nat
    BY Zenon, SeqFacts
  <2> QED
    BY Zenon, <2>1, <2>2
<1>8. L \in 0 .. Len(d)
  <2>1. CASE L = 0
    BY <2>1, <1>7
  <2>2. CASE L # 0
    <3>1. L \in 1 .. L
      BY <2>2, <1>7
    <3>2. o + L \in 1 .. Len(X)
      BY Zenon, <3>1, <1>5 DEF Sent
    <3> QED
      BY <3>2, <1>1, <1>7
  <2> QED
    BY <2>1, <2>2
<1>9. ASSUME r.run = "go"
      PROVE  Pending(X, o + L, SubSeq(s, n + 1, Len(s)), SubSeq(d, L + 1, Len(d)),
                     r.buf, r.escape \/ (sp /\ r.got = <<>>))
  <2> DEFINE d2 == SubSeq(d, L + 1, Len(d))
             s2 == SubSeq(s, n + 1, Len(s))
             sp2 == r.escape \/ (sp /\ r.got = <<>>)
             q2 == f[n]
  <2>1. /\ d2 \in Seq(T) /\ Len(d2) = Len(d) - L
        /\ \A i \in 1 .. Len(d) - L : d2[i] = d[L + i]
    <3>1. \A k \in 0 .. Len(d) :
            /\ SubSeq(d, k + 1, Len(d)) \in Seq(T)
            /\ Len(SubSeq(d, k + 1, Len(d))) = Len(d) - k
            /\ \A i \in 1 .. Len(d) - k : SubSeq(d, k + 1, Len(d))[i] = d[k + i]
      <4> HIDE DEF T
      <4>1. d \in Seq(T)
        BY DEF T
      <4> QED
        BY Zenon, <4>1, SeqFacts
    <3> QED
      BY Zenon, <1>8, <3>1
  <2>2. q2 \in Position /\ Reach(X, q2, s2, last)
    <3>1. q2 \in Position
      BY Zenon, <1>3 DEF Path
    <3>2. Reach(X, f[n], s2, f[Len(s)])
      BY Zenon, <1>3, PathRest
    <3> QED
      BY Zenon, <1>3, <3>1, <3>2
  <2> HIDE DEF L, d2, s2, q2
  <2>3. o + L \in Nat /\ Len(X) = (o + L) + Len(d2)
    BY <1>1, <1>7, <1>8, <2>1
  <2>4. ASSUME NEW i \in 1 .. Len(d2)
        PROVE  /\ Len(X[(o + L) + i]) = Len(d2[i]) + 2
               /\ \A j \in 1 .. Len(d2[i]) : X[(o + L) + i][j] = d2[i][j]
    <3>1. L + i \in 1 .. Len(d) /\ (o + L) + i = o + (L + i) /\ i \in 1 .. Len(d) - L
      BY <1>1, <1>7, <1>8, <2>1
    <3>2. d2[i] = d[L + i]
      BY Zenon, <2>1, <3>1
    <3>3. /\ Len(X[o + (L + i)]) = Len(d[L + i]) + 2
          /\ \A j \in 1 .. Len(d[L + i]) : X[o + (L + i)][j] = d[L + i][j]
      BY Zenon, <3>1 DEF Pending
    <3> QED
      BY Zenon, <3>1, <3>2, <3>3
  <2>5. /\ q2.k = o + L + 1 /\ q2.p = Len(r.buf)
        /\ (sp => L # 0) => r.escape = q2.e /\ \A j \in 1 .. q2.p : r.buf[j] = X[q2.k][j]
    BY Zenon, <1>5, <1>9 DEF Follows, L, q2
  <2>6. Starts(X, o + L, sp2, r.buf, q2)
    <3>1. q2.k = (o + L) + 0 + 1
      <4>1. \A i \in Nat : i + 0 + 1 = i + 1
        OBVIOUS
      <4> QED
        BY Zenon, <4>1, <2>3, <2>5
    <3>2. ~sp2 => (sp => L # 0) /\ ~r.escape
      BY Zenon, <1>7 DEF L
    <3>3. ~r.escape => r.escape = FALSE
      BY <1>6
    <3> HIDE DEF sp2
    <3>4. ~sp2 => FALSE = q2.e /\ \A j \in 1 .. q2.p : r.buf[j] = X[q2.k][j]
      BY Zenon, <2>5, <3>2, <3>3
    <3> QED
      BY Zenon, <2>5, <3>1, <3>4 DEF Starts
  <2>7. sp2 \in BOOLEAN
    BY <1>6
  <2> HIDE DEF sp2
  <2>8. Along(X, o + L, sp2, Reader(r.buf), q2)
    BY Zenon, <1>6, <2>6, <2>7, ReaderAlong
  <2>9. Pending(X, o + L, s2, d2, r.buf, sp2)
    BY Zenon, <1>1, <2>2, <2>3, <2>4, <2>8 DEF Pending
  <2> QED
    BY Zenon, <2>9 DEF L, s2, d2, sp2
<1> QED
  BY Zenon, <1>5, <1>8, <1>9

(* What is sent differs from what pppd wrote only after a split.           *)
LEMMA SentDiffers ==
  ASSUME due \in Seq(Seq(Bytes)), split \in BOOLEAN, NEW X, NEW o \in Nat,
         Pending(X, o, tty, due, ppp_buf, split),
         NEW i \in 1 .. Len(due), NEW frame \in Seq(Bytes), Sent(X, o, split, i, frame)
  PROVE  Differs(i, frame) \subseteq {"split"}
<1> DEFINE y == due[i]
           x == X[o + i]
<1>1. y \in Seq(Bytes) /\ i <= Len(due) /\ due # <<>> /\ i \in Nat
  <2> DEFINE T == Seq(Bytes)
  <2> HIDE DEF T
  <2>1. due \in Seq(T)
    BY DEF T
  <2>2. Len(due) \in Nat /\ due[i] \in T /\ (due = <<>> => Len(due) = 0)
    BY Zenon, <2>1, SeqFacts
  <2> QED
    BY <2>2 DEF T
<1>2. /\ Len(x) = Len(y) + 2 /\ \A j \in 1 .. Len(y) : x[j] = y[j]
      /\ Len(frame) = Len(x) - 2
      /\ (split => i # 1) => \A j \in 1 .. Len(frame) : frame[j] = x[j]
  BY Zenon DEF Pending, Sent
<1> HIDE DEF x, y
<1>3. Len(frame) = Len(y)
  <2>1. Len(y) \in Nat /\ Len(frame) \in Nat
    BY <1>1
  <2> QED
    BY <1>2, <2>1
<1>4. CASE split => i # 1
  <2>1. \A j \in 1 .. Len(y) : frame[j] = y[j]
    BY Zenon, <1>2, <1>3, <1>4
  <2>2. frame = y
    BY Zenon, <1>1, <1>3, <2>1, SameBytes
  <2> QED
    BY <1>1, <2>2 DEF Differs, y
<1>5. CASE split /\ i = 1
  <2>1. Len(frame) = Len(due[1])
    BY <1>3, <1>5 DEF y
  <2> QED
    BY <1>1, <1>5, <2>1 DEF Differs
<1> QED
  BY <1>4, <1>5

LEMMA UpInit ==
  ASSUME Init
  PROVE  UpInv
<1> DEFINE q == At(1, 0, FALSE)
<1>1. /\ tty = <<>> /\ due = <<>> /\ ppp_buf = <<>> /\ split = FALSE /\ wrong = {}
  BY DEF Init
<1>2. <<>> \in Seq(Bytes) /\ <<>> \in Seq(Seq(Bytes)) /\ Len(<<>>) = 0
  OBVIOUS
<1>3. q \in Position /\ q.k = 1 /\ q.p = 0 /\ q.e = FALSE
  BY DEF At, Position
<1>4. /\ 0 + 0 + 1 = 1 /\ 0 + 1 = 1 /\ 0 + 0 = 0 /\ 0 \in Nat
      /\ FALSE \in BOOLEAN /\ \A i \in 1 .. 0 : FALSE
  OBVIOUS
<1>5. Reach(<<>>, q, <<>>, At(Len(<<>>) + 1, 0, FALSE))
  BY Zenon, <1>2, <1>3, <1>4, ReachNothing
<1> HIDE DEF q
<1>6. Frames(<<>>)
  BY Zenon, <1>2, <1>4 DEF Frames
<1>7. Starts(<<>>, 0, FALSE, <<>>, q)
  BY Zenon, <1>2, <1>3, <1>4 DEF Starts
<1>8. Along(<<>>, 0, FALSE, Reader(<<>>), q)
  BY Zenon, <1>2, <1>4, <1>7, ReaderAlong
<1>9. Pending(<<>>, 0, <<>>, <<>>, <<>>, FALSE)
  BY Zenon, <1>2, <1>3, <1>4, <1>5, <1>6, <1>8 DEF Pending
<1> QED
  BY Zenon, <1>1, <1>2, <1>4, <1>9 DEF UpInv, FramesIntact

LEMMA UpWrites ==
  ASSUME UpInv, NEW m \in Outgoing, NEW c \in Fcs, PppdWrites(m, c)
  PROVE  UpInv'
<1>1. /\ m \in Seq(Bytes) /\ c \in Seq(Bytes) /\ m # <<>> /\ Len(c) = 2
  BY PayloadAssumption DEF Bytes
<1>2. PICK t : /\ t = Async(m \o c) \/ t = Tail(Async(m \o c))
               /\ tty' = tty \o t
  BY Zenon DEF PppdWrites
<1>3. /\ due' = Append(due, m) /\ ppp_buf' = ppp_buf /\ split' = split
      /\ wrong' = wrong /\ needclose' = needclose
  BY DEF PppdWrites
<1>4. /\ tty \in Seq(Bytes) /\ due \in Seq(Seq(Bytes)) /\ ppp_buf \in Seq(Bytes)
      /\ split \in BOOLEAN /\ wrong \subseteq {"split"}
  BY Zenon DEF UpInv, FramesIntact
<1>5. due' \in Seq(Seq(Bytes))
  <2> DEFINE T == Seq(Bytes)
             d == due
  <2>1. d \in Seq(T) /\ m \in T
    BY Zenon, <1>1, <1>4
  <2> HIDE DEF T, d
  <2>2. Append(d, m) \in Seq(T)
    BY <2>1
  <2> QED
    BY Zenon, <2>2, <1>3 DEF T, d
<1>6. t \in Seq(Bytes)
  <2> DEFINE x == m \o c
             X == <<x>>
  <2>1. x \in Seq(Bytes) /\ Len(x) > 0
    <3>1. x \in Seq(Bytes) /\ Len(m) \in Nat /\ Len(x) = Len(m) + Len(c)
      BY Zenon, <1>1, ConcatIs
    <3>2. \A i \in Nat : i + 2 > 0
      OBVIOUS
    <3> QED
      BY Zenon, <1>1, <3>1, <3>2
  <2> HIDE DEF x
  <2>2. X \in Seq(Seq(Bytes)) /\ 1 \in 1 .. Len(X) /\ X[1] = x
    BY <2>1
  <2> HIDE DEF X
  <2>3. Async(X[1]) \in Seq(Bytes) /\ Tail(Async(X[1])) \in Seq(Bytes)
    BY Zenon, <2>1, <2>2, ReachAsync
  <2> QED
    BY Zenon, <1>2, <2>2, <2>3 DEF x
<1>7. tty' \in Seq(Bytes)
  BY Zenon, <1>2, <1>4, <1>6, ConcatIs
<1>8. ASSUME ~needclose
      PROVE  \E X, o : Pending(X, o, tty', due', ppp_buf', split')
  <2>1. PICK X, o : Pending(X, o, tty, due, ppp_buf, split)
    BY Zenon, <1>8 DEF UpInv
  <2>2. Pending(Append(X, m \o c), o, tty \o t, Append(due, m), ppp_buf, split)
    <3>1. /\ tty \in Seq(Bytes) /\ due \in Seq(Seq(Bytes)) /\ ppp_buf \in Seq(Bytes)
          /\ split \in BOOLEAN
      BY <1>4
    <3>2. Written(m, c, t)
      BY Zenon, <1>1, <1>2 DEF Written
    <3> QED
      BY Zenon, <2>1, <3>1, <3>2, PendingWrite
  <2> QED
    BY Zenon, <1>2, <1>3, <2>2
<1> QED
  BY Zenon, <1>3, <1>4, <1>5, <1>7, <1>8 DEF UpInv, FramesIntact

LEMMA UpReads ==
  ASSUME UpInv, NEW n \in 1 .. Len(tty), ReadPppd(n)
  PROVE  UpInv'
<1> DEFINE r == ReadBytes(ppp_buf, SubSeq(tty, 1, n))
<1>1. /\ tty' = r.left \o SubSeq(tty, n + 1, Len(tty)) /\ ppp_buf' = r.buf
      /\ due' = SubSeq(due, Len(r.got) + 1, Len(due))
      /\ split' = (r.escape \/ (split /\ r.got = <<>>))
      /\ wrong' = wrong \cup UNION {Differs(i, r.got[i]) : i \in DOMAIN r.got}
      /\ needclose' = (r.run = "error") /\ ~needclose
  BY Zenon DEF ReadPppd
<1> HIDE DEF r
<1>2. /\ tty \in Seq(Bytes) /\ due \in Seq(Seq(Bytes)) /\ ppp_buf \in Seq(Bytes)
      /\ split \in BOOLEAN /\ wrong \subseteq {"split"}
  BY Zenon DEF UpInv, FramesIntact
<1>3. PICK X, o : Pending(X, o, tty, due, ppp_buf, split)
  BY Zenon, <1>1 DEF UpInv
<1>4. n \in 0 .. Len(tty) /\ Len(tty) \in Nat
  <2>1. Len(tty) \in Nat
    BY <1>2
  <2> QED
    BY <2>1
<1>5. /\ r \in Readers /\ Len(r.got) \in 0 .. Len(due)
      /\ \A i \in 1 .. Len(r.got) : Sent(X, o, split, i, r.got[i])
      /\ r.run = "go" =>
           Pending(X, o + Len(r.got), SubSeq(tty, n + 1, Len(tty)),
                   SubSeq(due, Len(r.got) + 1, Len(due)), r.buf,
                   r.escape \/ (split /\ r.got = <<>>))
  BY Zenon, <1>2, <1>3, <1>4, PendingRead DEF r
<1>6. /\ r.left = <<>> /\ r.buf \in Seq(Bytes) /\ r.escape \in BOOLEAN
      /\ r.got \in Seq(Seq(Bytes)) /\ r.run \in {"go", "error"}
  BY <1>5 DEF Readers
<1>7. tty' = SubSeq(tty, n + 1, Len(tty)) /\ tty' \in Seq(Bytes)
  <2>1. SubSeq(tty, n + 1, Len(tty)) \in Seq(Bytes)
    BY Zenon, <1>2, <1>4, SeqFacts
  <2> DEFINE z == SubSeq(tty, n + 1, Len(tty))
  <2> HIDE DEF z
  <2>2. <<>> \o z = z
    BY <2>1 DEF z
  <2> QED
    BY Zenon, <1>1, <1>6, <2>1, <2>2 DEF z
<1>8. due' \in Seq(Seq(Bytes))
  <2> DEFINE T == Seq(Bytes)
  <2> HIDE DEF T
  <2>1. due \in Seq(T)
    BY <1>2 DEF T
  <2>2. \A k \in 0 .. Len(due) : SubSeq(due, k + 1, Len(due)) \in Seq(T)
    BY Zenon, <2>1, SeqFacts
  <2> QED
    BY Zenon, <1>1, <1>5, <2>2 DEF T
<1>9. wrong' \subseteq {"split"}
  <2>1. ASSUME NEW i \in DOMAIN r.got
        PROVE  Differs(i, r.got[i]) \subseteq {"split"}
    <3> DEFINE T == Seq(Bytes)
    <3> HIDE DEF T
    <3>1. r.got \in Seq(T)
      BY <1>6 DEF T
    <3>2. /\ DOMAIN r.got = 1 .. Len(r.got) /\ Len(r.got) \in Nat
          /\ \A j \in 1 .. Len(r.got) : r.got[j] \in T
      BY Zenon, <3>1, SeqFacts
    <3>3. i \in 1 .. Len(r.got) /\ r.got[i] \in Seq(Bytes)
      BY Zenon, <3>2 DEF T
    <3>4. i \in 1 .. Len(due)
      <4>1. \A a, l, h \in Nat : a \in 1 .. l /\ l \in 0 .. h => a \in 1 .. h
        OBVIOUS
      <4>2. \A l \in Nat : \A a \in 1 .. l : a \in Nat
        OBVIOUS
      <4>3. i \in Nat
        BY Zenon, <3>2, <3>3, <4>2
      <4>4. Len(due) \in Nat
        BY Zenon, <1>2, SeqFacts
      <4> QED
        BY Zenon, <1>5, <3>2, <3>3, <4>1, <4>3, <4>4
    <3>5. o \in Nat
      BY Zenon, <1>3 DEF Pending
    <3> QED
      BY Zenon, <1>2, <1>3, <1>5, <3>3, <3>4, <3>5, SentDiffers
  <2> QED
    BY Zenon, <1>1, <1>2, <2>1
<1>10. split' \in BOOLEAN
  BY <1>1
<1>11. ASSUME ~needclose'
       PROVE  \E Y, k : Pending(Y, k, tty', due', ppp_buf', split')
  <2>1. r.run = "go"
    BY <1>1, <1>6, <1>11
  <2> QED
    BY Zenon, <1>1, <1>5, <1>7, <2>1
<1> QED
  BY Zenon, <1>1, <1>6, <1>7, <1>8, <1>9, <1>10, <1>11 DEF UpInv, FramesIntact

LEMMA UpStep ==
  ASSUME UpInv, [Next]_vars
  PROVE  UpInv'
<1>1. ASSUME UNCHANGED up, needclose => needclose'
      PROVE  UpInv'
  BY Zenon, <1>1 DEF UpInv, FramesIntact, up
<1>2. ASSUME NEW f \in Incoming, NEW c \in Fcs, Receive(f, c)
      PROVE  UNCHANGED up /\ (needclose => needclose')
  <2>1. needclose' = needclose \/ needclose' = TRUE
    BY Zenon, <1>2 DEF Receive, WritePacket
  <2>2. UNCHANGED up
    BY <1>2 DEF Receive, up
  <2>3. needclose => needclose'
    BY <2>1
  <2> QED
    BY <2>2, <2>3
<1>3. ASSUME ReceiveZlb \/ Lose \/ ReadFails \/ StartPppd \/ UNCHANGED vars
      PROVE  UNCHANGED up /\ (needclose => needclose')
  <2>1. UNCHANGED up
    BY <1>3 DEF ReceiveZlb, Lose, ReadFails, StartPppd, vars, up
  <2>2. needclose' = needclose \/ needclose' = TRUE
    BY <1>3 DEF ReceiveZlb, Lose, ReadFails, StartPppd, vars
  <2>3. needclose => needclose'
    BY <2>2
  <2> QED
    BY <2>1, <2>3
<1> QED
  BY Zenon, <1>1, <1>2, <1>3, UpWrites, UpReads DEF Next

(* However the bytes of pppd are cut into reads, and whatever frames and   *)
(* FCSs it writes, every frame that is sent to the peer is the next one    *)
(* pppd wrote, but for one that was cut after an escape, which keeps its   *)
(* length.  By UpInv: what is unread leads the reader from where it stands *)
(* through the frames that are due.                                        *)
THEOREM FramesStayIntact == Spec => []FramesIntact
<1>1. Init => UpInv
  BY UpInit
<1>2. UpInv /\ [Next]_vars => UpInv'
  BY UpStep
<1>3. UpInv => FramesIntact
  BY DEF UpInv
<1> QED
  BY <1>1, <1>2, <1>3, PTL DEF Spec
=============================================================================
