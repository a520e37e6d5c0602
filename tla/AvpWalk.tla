------------------------------ MODULE AvpWalk ------------------------------
(***************************************************************************)
(* How a control message is read: handle_control and handle_avps walk over *)
(* the AVPs of the message, the handlers of avp.c store what they find in  *)
(* the tunnel, in the call the message is on or in the call at the head of *)
(* the tunnel's list, and control_finish acts on the message type.         *)
(*                                                                         *)
(* A message is read as it comes: every step of the walk picks the next    *)
(* AVP.  What an AVP holds is abstracted to its number or message type.    *)
(***************************************************************************)
EXTENDS Integers, Sequences

CONSTANTS
  MaxCalls,   \* bound: the calls of the tunnel at a time
  MsgLens,    \* the lengths of messages, without the header
  AvpLens,    \* the lengths that the headers of AVPs give
  Attrs,      \* the attributes in the messages
  Msgs,       \* the message types in the messages
  Ids,        \* numbers of tunnels and calls of the peer
  Odd,        \* the attributes that may be hidden or have reserved bits
  Lax         \* the message types that may come without the M bit

(* The table avps of avp.c; "unknown" stands for the attributes above      *)
(* AVP_MAX, and "no handler" for those without one.                        *)
Attributes ==
  {"message type", "random vector", "proxy authen", "sequencing required",
   "result code", "protocol version", "framing caps", "bearer caps",
   "firmware revision", "bearer type", "framing type", "host name",
   "dialing number", "dialed number", "sub address", "vendor name",
   "challenge", "challenge response", "assigned tunnel", "assigned call",
   "packet delay", "call serial number", "rx speed", "tx speed",
   "physical channel", "receive window size", "unknown", "no handler"}

ASSUME AvpAssumption ==
  /\ MaxCalls \in Nat
  /\ Attrs \subseteq Attributes /\ "none" \notin Msgs
  /\ MsgLens \subseteq Nat \ {0} /\ AvpLens \subseteq Nat
  /\ Ids \subseteq Nat \ {0}
  /\ Odd \subseteq Attrs /\ Lax \subseteq Msgs

Self == 0                 \* t->self
Nobody == MaxCalls + 1    \* no call
CallIds == 1 .. MaxCalls
HdrSize == 6              \* sizeof (struct avp_hdr)

VARIABLES
  tun,     \* the tunnel
  list,    \* t->call_head and its successors
  node,    \* t->self and the calls
  walk     \* the locals of handle_avps, with c->msgtype

vars == <<tun, list, node, walk>>

(* new_call.  cut: the message that made the call had bytes left over, or  *)
(* another Message Type AVP after the one that made it.                    *)
NewCall == [state |-> "none", cid |-> 0, qcid |-> -1, needclose |-> FALSE,
            closing |-> FALSE, result |-> FALSE, cut |-> FALSE]

(* c: the call of the message, or Nobody between messages; broken: the     *)
(* loop was left by its break.  made: the last call that the message made; *)
(* valid: message_type_avp accepted the type; optional: a Message Type AVP *)
(* of the message had no M bit; null: a pointer that is NULL was followed, *)
(* and the daemon is no more.                                              *)
Idle == [c |-> Nobody, len |-> 0, first |-> FALSE, broken |-> FALSE,
         msgtype |-> "none", valid |-> FALSE, optional |-> FALSE,
         made |-> Nobody, null |-> FALSE]

(* vector: chal_us.vector is set *)
NewTunnel == [state |-> "none", tid |-> 0, qtid |-> -1, vector |-> FALSE]

Init ==
  /\ tun = NewTunnel
  /\ list = <<>>
  /\ node = [x \in {Self} \cup CallIds |-> NewCall]
  /\ walk = Idle

Live == {list[i] : i \in DOMAIN list}

(* The next call to be made; which it is does not matter. *)
FreeId == CHOOSE x \in CallIds : x \notin Live

Linked_AtEnd(x) == list \o <<x>>

(* tmp->next = t->call_head; t->call_head = tmp *)
Linked(x) == <<x>> \o list

-----------------------------------------------------------------------------
(* The handlers: the messages an attribute is for, the lengths it may      *)
(* have, and where it is stored.  Most handlers look at the message type   *)
(* first and ignore an attribute that is not for it.                       *)

AnyLen == {n \in 0 .. 1023 : n >= HdrSize}

Handler(msgs, lens, to) ==
  [msgs |-> msgs, lens |-> lens, to |-> to, lenFirst |-> FALSE,
   other |-> "ignored", short |-> "wrong_length"]

SetUp == {"SCCRP", "SCCRQ"}

rand_vector_avp == Handler(Msgs \cup {"none"}, AnyLen, "tunnel")
ignore_avp == Handler({}, AnyLen, "tunnel")
seq_reqd_avp ==
  [Handler({"ICCN"}, {6}, "call") EXCEPT !.lenFirst = TRUE,
                                         !.other = "failed"]
result_code_avp ==
  [Handler({"CDN", "StopCCN"}, AnyLen \ {6, 7}, "call")
     EXCEPT !.lenFirst = TRUE]
protocol_version_avp ==
  [Handler(SetUp, {8}, "tunnel") EXCEPT !.lenFirst = TRUE]
framing_caps_avp == Handler(SetUp, {10}, "tunnel")
bearer_caps_avp == Handler(SetUp, {10}, "tunnel")
firmware_rev_avp == Handler(SetUp, {8}, "tunnel")
bearer_type_avp == Handler({"ICRQ", "OCRQ"}, {10}, "head")
frame_type_avp == Handler({"ICCN", "OCRQ", "OCCN"}, {10}, "call")
hostname_avp == Handler(SetUp, AnyLen, "tunnel")
dialing_number_avp == Handler({"ICRQ"}, AnyLen, "head")
dialed_number_avp == Handler({"OCRQ", "ICRQ"}, AnyLen, "head")
sub_address_avp == Handler({"OCRP", "ICRQ"}, AnyLen, "head")
vendor_avp == Handler(SetUp, AnyLen, "tunnel")
challenge_avp == Handler(SetUp, AnyLen, "tunnel")
chalresp_avp ==
  [Handler({"SCCRP", "SCCCN"}, {22}, "tunnel") EXCEPT !.short = "failed"]
assigned_tunnel_avp == Handler(SetUp \cup {"StopCCN"}, {8}, "tunnel")
assigned_call_avp(msgtype) ==
  Handler({"CDN", "ICRP", "ICRQ", "OCRP"}, {8},
          IF msgtype = "ICRQ" THEN "head" ELSE "call")
packet_delay_avp ==
  Handler({"ICRP", "OCRQ", "ICCN", "OCRP", "OCCN"}, {8}, "call")
call_serno_avp == Handler({"ICRQ", "OCRQ"}, AnyLen, "head")
rx_speed_avp == Handler({"ICCN", "OCCN", "OCRP"}, {10}, "call")
tx_speed_avp == Handler({"ICCN", "OCCN", "OCRP"}, {10}, "call")
call_physchan_avp == Handler({"ICRQ", "OCRQ", "OCRP", "OCCN"}, {10}, "head")
receive_window_size_avp ==
  Handler(SetUp \cup {"OCRP", "OCCN", "StopCCN"}, {8}, "tunnel")

(* What the table has for an attribute. *)
HandlerOf(attr, msgtype) ==
  CASE attr = "random vector" -> rand_vector_avp
    [] attr = "proxy authen" -> ignore_avp
    [] attr = "sequencing required" -> seq_reqd_avp
    [] attr = "result code" -> result_code_avp
    [] attr = "protocol version" -> protocol_version_avp
    [] attr = "framing caps" -> framing_caps_avp
    [] attr = "bearer caps" -> bearer_caps_avp
    [] attr = "firmware revision" -> firmware_rev_avp
    [] attr = "bearer type" -> bearer_type_avp
    [] attr = "framing type" -> frame_type_avp
    [] attr = "host name" -> hostname_avp
    [] attr = "dialing number" -> dialing_number_avp
    [] attr = "dialed number" -> dialed_number_avp
    [] attr = "sub address" -> sub_address_avp
    [] attr = "vendor name" -> vendor_avp
    [] attr = "challenge" -> challenge_avp
    [] attr = "challenge response" -> chalresp_avp
    [] attr = "assigned tunnel" -> assigned_tunnel_avp
    [] attr = "assigned call" -> assigned_call_avp(msgtype)
    [] attr = "packet delay" -> packet_delay_avp
    [] attr = "call serial number" -> call_serno_avp
    [] attr = "rx speed" -> rx_speed_avp
    [] attr = "tx speed" -> tx_speed_avp
    [] attr = "physical channel" -> call_physchan_avp
    [] attr = "receive window size" -> receive_window_size_avp

(* What a handler comes to, given the length it is called with. *)
Outcome(h, msgtype, len) ==
  LET checks == << IF len \in h.lens THEN "stored" ELSE h.short,
                   IF msgtype \in h.msgs THEN "stored" ELSE h.other >>
      first  == checks[IF h.lenFirst THEN 1 ELSE 2]
      second == checks[IF h.lenFirst THEN 2 ELSE 1]
  IN  IF first = "stored" THEN second ELSE first

-----------------------------------------------------------------------------
(* The walk *)

(* An AVP: m, h and z are the bits of its header, and inner is the length  *)
(* that a hidden one gives inside.                                         *)
Avp ==
  {a \in [attr : Attrs, m : BOOLEAN, h : BOOLEAN, z : BOOLEAN,
          len : AvpLens, inner : AvpLens] :
     /\ a.h \/ a.z => a.attr \in Odd
     /\ IF a.h THEN a.inner >= HdrSize ELSE a.inner = a.len}

(* What an AVP with attribute attr holds, as far as it matters. *)
Values(attr) ==
  CASE attr = "message type" -> Msgs
    [] attr \in {"assigned tunnel", "assigned call"} -> Ids
    [] attr = "result code" -> {"in range", "out of range"}
    [] OTHER -> {"any"}

(* set_error and wrong_length *)
SetError(c) ==
  [node EXCEPT ![c].needclose = TRUE, ![c].result = TRUE]

(* Between two messages of a tunnel build_fdset has looked at its calls. *)
Looped ==
  /\ walk.c = Nobody
  /\ \A x \in {Self} \cup Live : node[x].needclose = node[x].closing

(* network_thread and handle_control: a message that is in order. *)
Begin(c, len) ==
  /\ Looped /\ c \in {Self} \cup Live
  /\ walk' = [Idle EXCEPT !.c = c, !.len = len, !.first = TRUE]
  /\ tun' = [tun EXCEPT !.vector = FALSE]
  /\ UNCHANGED <<list, node>>

(* Mandatory or not, such an AVP ends the walk. *)
Malformed(a) ==
  /\ a.attr # "unknown"
  /\ \/ a.len > walk.len
     \/ walk.first /\ a.attr # "message type"
     \/ a.len < HdrSize

(* decrypt_avp *)
Undecipherable(a) ==
  a.h /\ (~tun.vector \/ a.inner > a.len - 2)

(* An AVP that ends the walk if it is mandatory, and else is passed over. *)
Unfit(a) ==
  \/ a.attr = "unknown"
  \/ a.z
  \/ Undecipherable(a)
  \/ a.attr = "no handler"

Advance_NoBreak(w, n) == [w EXCEPT !.len = @ - n, !.first = FALSE]

(* The label next.  A length of zero, which only an unknown attribute can  *)
(* have here, ends the loop.                                               *)
Advance(w, n) ==
  IF n = 0 THEN [w EXCEPT !.broken = TRUE]
  ELSE [w EXCEPT !.len = @ - n, !.first = FALSE]

Refuse_NoError(a) ==
  /\ Malformed(a) \/ (a.m /\ Unfit(a))
  /\ walk' = Idle
  /\ UNCHANGED <<tun, list, node>>

Refuse(a) ==
  /\ Malformed(a) \/ (a.m /\ Unfit(a))
  /\ node' = SetError(walk.c)
  /\ walk' = Idle
  /\ UNCHANGED <<tun, list>>

Skip(a) ==
  /\ ~Malformed(a) /\ ~a.m /\ Unfit(a)
  /\ walk' = Advance(walk, a.len)
  /\ UNCHANGED <<tun, list, node>>

HandlerFails_GoesOn(a, w, n) ==
  /\ node' = IF a.m THEN [n EXCEPT ![walk.c].needclose = TRUE] ELSE n
  /\ walk' = Advance(w, a.len)

(* A handler failed: a mandatory AVP ends the walk; n is what the handler  *)
(* itself did to the calls.                                                *)
HandlerFails(a, w, n) ==
  IF a.m
  THEN /\ node' = [n EXCEPT ![walk.c].needclose = TRUE]
       /\ walk' = Idle
  ELSE /\ node' = n
       /\ walk' = Advance(w, a.len)

Appropriate_NoICRPState(msgtype, c) ==
  /\ msgtype \in {"SCCRQ", "SCCRP", "SCCCN", "StopCCN"} => c = Self
  /\ \/ msgtype = "SCCRQ" /\ tun.state \in {"none", "SCCRQ"}
     \/ msgtype = "SCCRP" /\ tun.state = "SCCRQ"
     \/ msgtype = "SCCCN" /\ tun.state = "SCCRP"
     \/ msgtype = "ICRQ" /\ tun.state = "SCCCN" /\ c = Self
     \/ msgtype = "ICRP" /\ tun.state = "SCCCN"
     \/ msgtype = "ICCN" /\ node[c].state = "ICRP"
     \/ msgtype = "SLI" /\ node[c].state = "ICCN"
     \/ msgtype = "OCRP" /\ tun.state = "SCCCN" /\ node[c].state = "OCRQ"
     \/ msgtype = "OCCN" /\ node[c].state = "OCRQ"
     \/ msgtype \in {"StopCCN", "CDN", "Hello"}

Appropriate_NoOCRPState(msgtype, c) ==
  /\ msgtype \in {"SCCRQ", "SCCRP", "SCCCN", "StopCCN"} => c = Self
  /\ \/ msgtype = "SCCRQ" /\ tun.state \in {"none", "SCCRQ"}
     \/ msgtype = "SCCRP" /\ tun.state = "SCCRQ"
     \/ msgtype = "SCCCN" /\ tun.state = "SCCRP"
     \/ msgtype = "ICRQ" /\ tun.state = "SCCCN" /\ c = Self
     \/ msgtype = "ICRP" /\ tun.state = "SCCCN" /\ node[c].state = "ICRQ"
     \/ msgtype = "ICCN" /\ node[c].state = "ICRP"
     \/ msgtype = "SLI" /\ node[c].state = "ICCN"
     \/ msgtype = "OCRP" /\ tun.state = "SCCCN"
     \/ msgtype = "OCCN" /\ node[c].state = "OCRQ"
     \/ msgtype \in {"StopCCN", "CDN", "Hello"}

(* message_type_avp: which messages the state allows. *)
Appropriate(msgtype, c) ==
  /\ msgtype \in {"SCCRQ", "SCCRP", "SCCCN", "StopCCN"} => c = Self
  /\ \/ msgtype = "SCCRQ" /\ tun.state \in {"none", "SCCRQ"}
     \/ msgtype = "SCCRP" /\ tun.state = "SCCRQ"
     \/ msgtype = "SCCCN" /\ tun.state = "SCCRP"
     \/ msgtype = "ICRQ" /\ tun.state = "SCCCN" /\ c = Self
     \/ msgtype = "ICRP" /\ tun.state = "SCCCN" /\ node[c].state = "ICRQ"
     \/ msgtype = "ICCN" /\ node[c].state = "ICRP"
     \/ msgtype = "SLI" /\ node[c].state = "ICCN"
     \/ msgtype = "OCRP" /\ tun.state = "SCCCN" /\ node[c].state = "OCRQ"
     \/ msgtype = "OCCN" /\ node[c].state = "OCRQ"
     \/ msgtype \in {"StopCCN", "CDN", "Hello"}

(* The calls once another message type has come: of the one that was made  *)
(* for the type before, nothing will be heard any more.                    *)
Passed ==
  IF walk.made = Nobody THEN node ELSE [node EXCEPT ![walk.made].cut = TRUE]

(* message_type_avp; an ICRQ makes its call at once.  The type is kept     *)
(* also when it is refused.                                                *)
MessageType(a, msgtype) ==
  LET len == a.inner
      ok  == len = 8 /\ Appropriate(msgtype, walk.c)
      w   == [walk EXCEPT !.msgtype = msgtype, !.valid = ok,
                          !.optional = @ \/ ~a.m]
  IN  /\ UNCHANGED tun
      /\ \/ /\ ~ok /\ UNCHANGED list
            /\ HandlerFails(a, w, IF len = 8 THEN Passed
                                  ELSE [Passed EXCEPT ![walk.c].needclose = TRUE,
                                                      ![walk.c].result = TRUE])
         \/ /\ ok /\ msgtype = "ICRQ"
            /\ Live # CallIds
            /\ list' = Linked(FreeId)
            /\ walk' = Advance([w EXCEPT !.made = FreeId], a.len)
            /\ node' = Passed
         \/ /\ ok /\ msgtype # "ICRQ"
            /\ walk' = Advance(w, a.len)
            /\ node' = Passed
            /\ UNCHANGED list

(* A handler stores the value of an attribute at x. *)
Store(attr, x, v) ==
  /\ tun' = CASE attr = "assigned tunnel" /\ walk.msgtype = "StopCCN" ->
                   [tun EXCEPT !.qtid = v]
              [] attr = "assigned tunnel" /\ walk.msgtype # "StopCCN" ->
                   [tun EXCEPT !.tid = v]
              [] attr = "random vector" -> [tun EXCEPT !.vector = TRUE]
              [] OTHER -> tun
  /\ node' = CASE x # Nobody /\ attr = "assigned call" /\ walk.msgtype = "CDN" ->
                    [node EXCEPT ![x].qcid = v]
               [] x # Nobody /\ attr = "assigned call" /\ walk.msgtype # "CDN" ->
                    [node EXCEPT ![x].cid = v]
               [] x # Nobody /\ attr = "result code" /\ v = "in range" ->
                    [node EXCEPT ![x].result = TRUE]
               [] OTHER -> node

(* t->call_head *)
Head1 == IF list = <<>> THEN Nobody ELSE Head(list)

(* The other handlers. *)
Handle(a, v) ==
  LET h   == HandlerOf(a.attr, walk.msgtype)
      out == Outcome(h, walk.msgtype, a.inner)
      x   == CASE h.to = "call" -> walk.c
               [] h.to = "head" -> Head1
               [] h.to = "tunnel" -> Self
  IN  /\ UNCHANGED list
      /\ \/ /\ out = "stored"
            /\ Store(a.attr, x, v)
            /\ walk' = [Advance(walk, a.len) EXCEPT !.null = x = Nobody]
         \/ /\ out = "ignored"
            /\ walk' = Advance(walk, a.len)
            /\ UNCHANGED <<tun, node>>
         \/ /\ out \in {"wrong_length", "failed"}
            /\ HandlerFails(a, walk, IF out = "failed" THEN node
                                     ELSE SetError(walk.c))
            /\ UNCHANGED tun

(* One round of the loop of handle_avps. *)
Step ==
  /\ walk.c # Nobody /\ ~walk.null /\ walk.len > 0 /\ ~walk.broken
  /\ \E a \in Avp :
       \/ Refuse(a)
       \/ Skip(a)
       \/ /\ ~Malformed(a) /\ ~Unfit(a)
          /\ \E v \in Values(a.attr) :
               IF a.attr = "message type"
               THEN (a.m \/ v \in Lax) /\ MessageType(a, v)
               ELSE Handle(a, v)

-----------------------------------------------------------------------------
(* control_finish, as far as states and numbers are concerned.  Where its  *)
(* answer depends on what is left out here, both answers are possible.     *)

(* SCCRQ, SCCRP and SCCCN.  A SCCRQ may be for a tunnel that the peer has  *)
(* already, and its answer may fail for want of a secret.                  *)
FinishSetUp(c) ==
  \/ /\ walk.msgtype \in {"SCCRQ", "SCCRP"} => tun.tid # 0
     /\ tun' = [tun EXCEPT !.state = IF walk.msgtype = "SCCRQ" THEN "SCCRP"
                                     ELSE "SCCCN"]
     /\ \/ UNCHANGED node
        \/ walk.msgtype = "SCCRQ" /\ node' = SetError(c)
  \/ /\ walk.msgtype = "SCCRQ" /\ tun.tid # 0
     /\ node' = [node EXCEPT ![c].needclose = FALSE, ![c].closing = TRUE]
     /\ UNCHANGED tun
  \/ /\ node' = SetError(c)
     /\ UNCHANGED tun

(* StopCCN: it names the tunnel, and has a result code. *)
FinishStopCCN(c) ==
  IF tun.qtid = -1 \/ tun.tid \notin {0, tun.qtid} THEN UNCHANGED <<tun, node>>
  ELSE /\ tun' = [tun EXCEPT !.tid = tun.qtid]
       /\ node' = IF node[Self].result
                  THEN [node EXCEPT ![c].needclose = FALSE, ![c].closing = TRUE]
                  ELSE node

(* ICRQ: the call at the head, unless the peer asked for it before. *)
FinishICRQ ==
  LET p == Head(list)
      twice == \E z \in Live \ {p} : node[z].cid = node[p].cid
  IN  /\ list # <<>>
      /\ UNCHANGED tun
      /\ \/ /\ ~twice
            /\ node' = [node EXCEPT ![p].state = "ICRP"]
         \/ /\ ~twice    \* call_close (p)
            /\ node' = [SetError(p) EXCEPT ![p].closing = TRUE]
         \/ /\ twice
            /\ node' = [node EXCEPT ![p].needclose = FALSE,
                                    ![p].closing = TRUE]

(* ICRP and ICCN, which is not for the tunnel *)
FinishCall(c) ==
  /\ UNCHANGED tun
  /\ IF c = Self /\ walk.msgtype = "ICCN" THEN UNCHANGED node
     ELSE \/ node' = [node EXCEPT ![c].state = "ICCN"]
          \/ /\ walk.msgtype = "ICCN"    \* get_local_addr
             /\ node' = [SetError(c) EXCEPT ![c].state = "ICCN",
                                            ![c].closing = TRUE]

(* CDN: on the tunnel, some call has that number; on a call, it is its     *)
(* own, if that is known.  qcid is forgotten only when it was right.       *)
FinishCDN(c) ==
  LET named == IF c = Self THEN \E p \in Live : node[p].cid = node[c].qcid
               ELSE node[c].cid \in {0, node[c].qcid}
  IN  /\ UNCHANGED tun
      /\ IF node[c].qcid = -1 \/ ~named THEN UNCHANGED node
         ELSE node' = IF node[c].result
                      THEN [node EXCEPT ![c].qcid = -1, ![c].needclose = FALSE,
                                        ![c].closing = TRUE]
                      ELSE [node EXCEPT ![c].qcid = -1]

control_finish(c) ==
  CASE walk.msgtype \in {"SCCRQ", "SCCRP", "SCCCN"} -> FinishSetUp(c)
    [] walk.msgtype = "StopCCN" -> FinishStopCCN(c)
    [] walk.msgtype = "ICRQ" -> FinishICRQ
    [] walk.msgtype \in {"ICRP", "ICCN"} -> FinishCall(c)
    [] walk.msgtype = "CDN" -> FinishCDN(c)
    [] walk.msgtype \in {"none", "OCRP", "OCCN", "Hello", "SLI"} ->
         UNCHANGED <<tun, node>>
    [] OTHER -> node' = SetError(c) /\ UNCHANGED tun

(* control_finish on a type that was refused: it may need what the state   *)
(* would have set (t->call_head, c->lac, c->lns), and find NULL.           *)
Fatal ==
  /\ ~walk.valid /\ walk.msgtype \in {"SCCCN", "ICRQ", "ICRP", "ICCN"}
  /\ walk' = [walk EXCEPT !.null = TRUE]
  /\ UNCHANGED <<tun, node>>

(* The end of handle_avps and of handle_control. *)
End ==
  /\ walk.c # Nobody /\ ~walk.null /\ (walk.len <= 0 \/ walk.broken)
  /\ \/ walk.len = 0 /\ control_finish(walk.c) /\ walk' = Idle
     \/ walk.len = 0 /\ Fatal
     \/ walk.len # 0 /\ node' = Passed /\ walk' = Idle /\ UNCHANGED tun
  /\ UNCHANGED list

-----------------------------------------------------------------------------
(* What goes on between messages *)

(* l2tp_call: control_finish sends the SCCRQ. *)
Dial ==
  /\ walk.c = Nobody /\ tun.state = "none"
  /\ tun' = [tun EXCEPT !.state = "SCCRQ"]
  /\ UNCHANGED <<list, node, walk>>

(* lac_call, for an incoming (ICRQ) or an outgoing (OCRQ) call. *)
Place(state) ==
  /\ walk.c = Nobody /\ tun.state = "SCCCN"
  /\ Live # CallIds
  /\ list' = Linked(FreeId)
  /\ node' = [node EXCEPT ![FreeId].state = state]
  /\ UNCHANGED <<tun, walk>>

(* The list without its i-th call. *)
Unlinked(i) == SubSeq(list, 1, i - 1) \o SubSeq(list, i + 1, Len(list))

(* destroy_call *)
DestroyCall(p) ==
  /\ \E i \in DOMAIN list : list[i] = p /\ list' = Unlinked(i)
  /\ node' = [node EXCEPT ![p] = NewCall]

(* build_fdset and call_close: a call first sends its CDN, and goes once   *)
(* this is acknowledged or given up.                                       *)
CloseCall(p) ==
  /\ walk.c = Nobody /\ p \in Live
  /\ \/ /\ node[p].needclose /\ ~node[p].closing
        /\ node' = [node EXCEPT ![p].closing = TRUE, ![p].result = TRUE]
        /\ UNCHANGED list
     \/ node[p].closing /\ DestroyCall(p)
  /\ UNCHANGED <<tun, walk>>

(* The same for the tunnel, whose calls go at once.  The next tunnel is a  *)
(* new one.                                                                *)
CloseTunnel ==
  /\ walk.c = Nobody
  /\ \/ /\ node[Self].needclose /\ ~node[Self].closing
        /\ node' = [x \in DOMAIN node |->
                      IF x = Self THEN [node[x] EXCEPT !.closing = TRUE,
                                                       !.result = TRUE]
                      ELSE NewCall]
        /\ UNCHANGED tun
     \/ /\ node[Self].closing
        /\ node' = [x \in DOMAIN node |-> NewCall]
        /\ tun' = NewTunnel
  /\ list' = <<>>
  /\ UNCHANGED walk

Next ==
  \/ \E c \in {Self} \cup Live, len \in MsgLens : Begin(c, len)
  \/ Step
  \/ End
  \/ Dial
  \/ \E state \in {"ICRQ", "OCRQ"} : Place(state)
  \/ \E p \in Live : CloseCall(p)
  \/ CloseTunnel

Spec == Init /\ [][Next]_vars

-----------------------------------------------------------------------------
(* Properties *)

(* control_finish acts on a message only if message_type_avp accepted its  *)
(* type and the state still allows it, whatever AVPs and other types came  *)
(* in between: "It is critical that this procedure check for the validity  *)
(* of sending this kind of a message".  The M bit decides: of a type       *)
(* without it handle_avps takes no notice when it is refused, and such     *)
(* messages are excepted.                                                  *)
ActedOnlyIfValid ==
  walk.c # Nobody /\ walk.len = 0 /\ walk.msgtype # "none" /\ ~walk.optional
    => walk.valid /\ Appropriate(walk.msgtype, walk.c)

(* The handlers and control_finish follow t->call_head only where there is *)
(* a call, in a message whose types all have the M bit.                    *)
HeadExists == walk.null => walk.optional

(* The list of calls stays sound while a message is read: no call is in it *)
(* twice, the call of the message is never one that was freed, and the one *)
(* that message_type_avp made is at its head, where the handlers that      *)
(* follow look for it.  They find another one only after an ICRQ that was  *)
(* refused and had no M bit.                                               *)
ListSound ==
  /\ \A i, j \in DOMAIN list : list[i] = list[j] => i = j
  /\ walk.c \in {Self, Nobody} \cup Live
  /\ walk.made # Nobody => list # <<>> /\ Head(list) = walk.made
  /\ walk.msgtype = "ICRQ" /\ ~walk.optional => walk.made # Nobody

(* Once a tunnel or a call is up, the peer's number for it stays, unless a *)
(* Message Type AVP lacks the M bit.                                       *)
NumbersKept ==
  ~walk.optional =>
    /\ tun.state = "SCCCN" /\ tun'.state = "SCCCN" /\ tun.tid # 0 =>
         tun'.tid = tun.tid
    /\ \A p \in CallIds :
         node[p].state = "ICCN" /\ node'[p].state = "ICCN" =>
           node'[p].cid = node[p].cid

NumbersStable == [][NumbersKept]_vars

(* A call that an ICRQ made and that was not answered is on its way out,   *)
(* alone or with the tunnel.  Two paths of handle_avps are excepted: bytes *)
(* left over after the last AVP, and a Message Type AVP after the ICRQ's.  *)
NoCallForgotten ==
  walk.c = Nobody =>
    \A p \in Live :
      \/ node[p].state # "none" \/ node[p].cut \/ node[p].closing
      \/ node[Self].needclose \/ node[Self].closing

(* Every round of the loop ends it or leaves less of the message to read,  *)
(* whatever length an AVP gives, so that a message is read to an end.      *)
RoundShortens ==
  [][walk.c # Nobody /\ walk.len > 0 /\ ~walk.broken =>
       walk'.c = Nobody \/ walk'.broken \/ walk'.len < walk.len]_vars
=============================================================================
