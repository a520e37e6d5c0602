------------------------------ MODULE Payload ------------------------------
(* The payload path of one call without kernel support.  Frames that pppd  *)
(* writes to its pty are read in pieces of any size by read_packet, undone *)
(* of their PPP framing, and sent; payload packets of the peer, numbered   *)
(* or not, are checked by expand_payload and framed again for pppd by      *)
(* write_packet.                                                           *)
(*                                                                         *)
(* Headers that check_payload rejects change nothing and are left out, and *)
(* so are offsets.  expand_payload always has room for the full header,    *)
(* because new_buf leaves PAYLOAD_BUF bytes before the packet.             *)
EXTENDS Integers, Sequences, FiniteSets

CONSTANTS
  Outgoing,     \* frames pppd writes: nonempty sequences of bytes
  Incoming,     \* frames the peer sends
  Fcs,          \* frame check sequences: pairs of bytes
  Modulus,      \* 2^16 in the code
  Fudge,        \* PAYLOAD_FUDGE
  MaxRecv,      \* MAX_RECV_SIZE
  MaxDue        \* bound: frames pppd has written that are not sent yet

ASSUME PayloadAssumption ==
  /\ Modulus \in Nat /\ Modulus > 1 /\ Fudge \in Nat \ {0}
  /\ \A f \in Outgoing \cup Incoming \cup Fcs : f \in Seq(0 .. 255)
  /\ <<>> \notin Outgoing \cup Incoming
  /\ \A c \in Fcs : Len(c) = 2
  /\ MaxRecv \in Nat

VARIABLES
  tty,          \* bytes from pppd that have not been read
  due,          \* frames in them, or in ppp_buf (history)
  ppp_buf,      \* c->ppp_buf: what is there of a frame
  split,        \* a read ended after an escape of that frame (history)
  wrong,        \* how frames that were sent differed from pppd's (history)
  fd,           \* c->fd is open
  needclose,    \* c->needclose
  seq,          \* c->data_seq_num
  rec,          \* c->data_rec_seq_num
  numbered,     \* the peer numbers its payload packets
  ns,           \* the number of its next one
  lossy,        \* one of them was lost (history)
  refused,      \* expand_payload refused one (history)
  written       \* the last frame written to pppd, and its bytes (history)

up == <<tty, due, ppp_buf, split, wrong>>
down == <<numbered, ns, lossy, refused, rec, written>>
vars == <<up, down, fd, needclose, seq>>

PPP_FLAG == 126
PPP_ESCAPE == 125

(* ch ^ PPP_TRANS *)
Trans(ch) == IF (ch \div 32) % 2 = 1 THEN ch - 32 ELSE ch + 32

Special(ch) == ch < 32 \/ ch = PPP_ESCAPE \/ ch = PPP_FLAG

Escaped(ch) == IF Special(ch) THEN <<PPP_ESCAPE, Trans(ch)>> ELSE <<ch>>

(* What write_packet has put into its buffer after each byte of x.         *)
Escape(x) ==
  LET wbuf[i \in 0 .. Len(x)] ==
        IF i = 0 THEN <<>> ELSE wbuf[i - 1] \o Escaped(x[i])
  IN  wbuf[Len(x)]

(* sync->async conversion of a frame with its FCS.                         *)
Async(x) == <<PPP_FLAG>> \o Escape(x) \o <<PPP_FLAG>>

Front(x) == SubSeq(x, 1, Len(x) - 1)

(* Mutant: no room is kept for the last byte and the flag.                 *)
TooBig_NoMargin(x) == 1 + Len(Escape(Front(x))) >= MaxRecv

(* The buffer of write_packet has four bytes or less left before the last  *)
(* byte of x.                                                              *)
TooBig(x) == 1 + Len(Escape(Front(x))) >= MaxRecv - 4
-----------------------------------------------------------------------------
(* Reader: the state of read_packet and of the loop in network_thread that *)
(* calls it, over the bytes of one read.  `got' is what it returned,       *)
(* `left' what remains in rbuf.                                            *)
Reader(buf) ==
  [buf |-> buf, escape |-> FALSE, got |-> <<>>, left |-> <<>>, run |-> "go"]

Return(r, frame) ==
  [r EXCEPT !.got = Append(@, frame), !.buf = <<>>,
            !.run = IF frame = <<>> THEN "stop" ELSE "go"]

(* Mutant: the FCS is not dropped when the frame is short.                 *)
EndOfFrame_Short(r) ==
  CASE Len(r.buf) >= 4 -> Return(r, SubSeq(r.buf, 1, Len(r.buf) - 2))
    [] Len(r.buf) \in 1 .. 3 -> Return(r, r.buf)
    [] OTHER -> r

(* A flag that ends a frame drops its FCS; one before a frame is skipped.  *)
EndOfFrame(r) ==
  CASE Len(r.buf) >= 2 -> Return(r, SubSeq(r.buf, 1, Len(r.buf) - 2))
    [] Len(r.buf) = 1 -> Return(r, r.buf)
    [] OTHER -> r

(* One turn of the loop in read_packet.  After an error rbuf is emptied;   *)
(* a frame of length zero ends the loop with the rest still in rbuf.       *)
ReadByte(r, ch) ==
  CASE r.run = "error" -> r
    [] r.run = "stop" -> [r EXCEPT !.left = Append(@, ch)]
    [] r.run = "go" /\ ch = PPP_FLAG ->
         IF r.escape THEN [r EXCEPT !.run = "error"] ELSE EndOfFrame(r)
    [] r.run = "go" /\ ch = PPP_ESCAPE -> [r EXCEPT !.escape = TRUE]
    [] OTHER ->
         IF Len(r.buf) < MaxRecv
         THEN [r EXCEPT !.buf = Append(@, IF r.escape THEN Trans(ch) ELSE ch),
                        !.escape = FALSE]
         ELSE [r EXCEPT !.run = "error"]

(* All its turns over the bytes of one read.                               *)
ReadBytes(buf, bytes) ==
  LET after[i \in 0 .. Len(bytes)] ==
        IF i = 0 THEN Reader(buf) ELSE ReadByte(after[i - 1], bytes[i])
  IN  after[Len(bytes)]

(* pppd writes a frame; the flag before it may be the one that ended the   *)
(* last.                                                                   *)
PppdWrites(frame, fcs) ==
  /\ Len(due) < MaxDue
  /\ \/ tty' = tty \o Async(frame \o fcs)
     \/ tty' = tty \o Tail(Async(frame \o fcs))
  /\ due' = Append(due, frame)
  /\ UNCHANGED <<ppp_buf, split, wrong, down, fd, needclose, seq>>

(* How the k-th frame of this read differs from what pppd wrote.           *)
Differs(k, frame) ==
  IF k <= Len(due) /\ frame = due[k] THEN {}
  ELSE IF k = 1 /\ split /\ due # <<>> /\ Len(frame) = Len(due[1])
  THEN {"split"} ELSE {"other"}

(* network_thread finds the pty readable: n bytes are there to read, and   *)
(* every frame they complete is sent with the next number.                 *)
ReadPppd(n) ==
  /\ fd /\ ~needclose
  /\ LET r == ReadBytes(ppp_buf, SubSeq(tty, 1, n))
         k == Cardinality({i \in DOMAIN r.got : r.got[i] # <<>>})
     IN  /\ tty' = r.left \o SubSeq(tty, n + 1, Len(tty))
         /\ ppp_buf' = r.buf
         /\ due' = SubSeq(due, Len(r.got) + 1, Len(due))
         /\ split' = (r.escape \/ (split /\ r.got = <<>>))
         /\ wrong' = wrong \cup UNION {Differs(i, r.got[i]) : i \in DOMAIN r.got}
         /\ seq' = (seq + k) % Modulus
         /\ needclose' = (r.run = "error")
  /\ UNCHANGED <<down, fd>>

(* read fails more than ten times: the call is closed.                     *)
ReadFails ==
  /\ fd /\ ~needclose
  /\ needclose' = TRUE
  /\ UNCHANGED <<up, down, fd, seq>>
-----------------------------------------------------------------------------
(* Mutant: the number that is expected counts as old.                      *)
AlreadySeen_OrEqual(n) == n <= rec /\ rec - n < Modulus \div 2

(* The test for old packets; C computes the differences as integers, so    *)
(* the second part is never true.                                          *)
AlreadySeen(n) ==
  \/ n < rec /\ rec - n < Modulus \div 2
  \/ n > rec /\ rec - n > Modulus \div 2

Refused(n) == n # seq /\ (AlreadySeen(n) \/ n > rec + Fudge)

(* data_rec_seq_num after expand_payload.                                  *)
Expanded(n) == IF n # seq THEN n ELSE (rec + 1) % Modulus

(* A packet without a number is given the one that is expected.            *)
Number == IF numbered THEN ns ELSE rec

(* write_packet: the pty is not open, the frame is too big, it is written, *)
(* or pppd is gone.                                                        *)
WritePacket(frame, fcs) ==
  LET x == frame \o fcs IN
  \/ /\ ~fd \/ TooBig(x)
     /\ UNCHANGED <<fd, needclose, written>>
  \/ /\ fd /\ ~TooBig(x)
     /\ \/ /\ written' = {[frame |-> frame, bytes |-> Async(x)]}
           /\ UNCHANGED <<fd, needclose>>
        \/ fd' = FALSE /\ needclose' = TRUE /\ UNCHANGED written

(* handle_packet for a payload packet that carries a frame.                *)
Receive(frame, fcs) ==
  /\ IF Refused(Number)
     THEN refused' = TRUE /\ UNCHANGED <<rec, fd, needclose, written>>
     ELSE /\ rec' = Expanded(Number) /\ UNCHANGED refused
          /\ WritePacket(frame, fcs)
  /\ ns' = (ns + 1) % Modulus
  /\ UNCHANGED <<up, numbered, lossy, seq>>

(* ... and for one without (ZLB), which uses up no number.                 *)
ReceiveZlb ==
  /\ IF Refused(Number)
     THEN refused' = TRUE /\ UNCHANGED rec
     ELSE /\ rec' = (Expanded(Number) + Modulus - 1) % Modulus
          /\ UNCHANGED refused
  /\ UNCHANGED <<up, numbered, ns, lossy, written, fd, needclose, seq>>

(* A packet of the peer is lost.                                           *)
Lose ==
  /\ ns' = (ns + 1) % Modulus /\ lossy' = TRUE
  /\ UNCHANGED <<up, numbered, refused, rec, written, fd, needclose, seq>>

(* start_pppd opens the pty.                                               *)
StartPppd ==
  /\ ~fd /\ ~needclose
  /\ fd' = TRUE
  /\ UNCHANGED <<up, down, needclose, seq>>

Init ==
  /\ tty = <<>> /\ due = <<>> /\ ppp_buf = <<>> /\ split = FALSE /\ wrong = {}
  /\ fd = FALSE /\ needclose = FALSE
  /\ seq = 0 /\ rec = 0
  /\ numbered \in BOOLEAN /\ ns = 0 /\ lossy = FALSE /\ refused = FALSE
  /\ written = {}

Next ==
  \/ fd /\ \E f \in Outgoing, c \in Fcs : PppdWrites(f, c)
  \/ \E n \in 1 .. Len(tty) : ReadPppd(n)
  \/ ReadFails
  \/ \E f \in Incoming, c \in Fcs : Receive(f, c)
  \/ ReceiveZlb
  \/ Lose
  \/ StartPppd

Spec == Init /\ [][Next]_vars
-----------------------------------------------------------------------------
SeqNums == 0 .. Modulus - 1

(* However the bytes of pppd are cut into reads, what is sent to the peer  *)
(* are the frames pppd wrote, all of them and in order -- except that a    *)
(* read that ends between an escape and its byte loses the escape, which   *)
(* is a local variable of read_packet: that frame has the wrong byte, and  *)
(* keeps its length.                                                       *)
FramesIntact == wrong \subseteq {"split"}

(* The bytes that write_packet hands to pppd fit its buffer, and are one   *)
(* frame, which reads back as the frame that was received.                 *)
Readable ==
  \A w \in written :
    LET r == ReadBytes(<<>>, w.bytes)
    IN  /\ Len(w.bytes) <= MaxRecv
        /\ r.run = "go" /\ r.got = <<w.frame>> /\ r.buf = <<>>

(* Before a packet of a peer that numbers them is lost, none is refused,   *)
(* whatever is sent meanwhile in the other direction and across the wrap   *)
(* of the numbers; of a peer that does not number them none ever is.       *)
(* After a loss no such thing holds: expand_payload compares the number    *)
(* with that of the packets it sends, and may fall behind until the wrap.  *)
NoneRefused == refused => numbered /\ lossy
=============================================================================
