# Verification of xl2tpd in TLA+

xl2tpd is an L2TP daemon: one single-threaded process that terminates L2TP
tunnels over UDP, multiplexes calls over them and connects each call to a pppd.
This directory holds TLA+ models of it, translated from the C sources, the TLC
configurations that check them, and TLAPS proofs of what matters most.

## The system and its parts

| part | state | operations | sources |
|------|-------|------------|---------|
| control channel | `control_seq_num`, `control_rec_seq_num`, `cLr`, scheduled buffers, Hello event | `add_control_hdr`, `control_xmit`, `control_zlb`, `check_control`, `handle_control`, `hello` | control.c, network.c |
| closing | `needclose`, `closing`, `closeSs` of a call and of `t->self` | `call_close`, `destroy_call`, `destroy_tunnel`, `build_fdset`, `lac_disconnect`, `death_handler` | call.c, xl2tpd.c, network.c |
| tunnel set-up | `t->state`, `tid`, `qtid`, challenge data | SCCRQ, SCCRP, SCCCN in `message_type_avp` and `control_finish`, `get_call`, `new_tunnel` | control.c, avp.c, call.c |
| call set-up | `c->state`, `cid`, `ourcid`, `addr` | ICRQ, ICRP, ICCN, OCRQ, OCRP, OCCN, CDN, `handle_special` | control.c, avp.c |
| LAC dialling | `lac->t`, `lac->c`, `rsched`, `rtries`, `active` | `lac_call`, `magic_lac_dial`, `magic_lac_tunnel`, connect, disconnect, remove | xl2tpd.c |
| scheduler | the list `events` | `schedule`, `process_schedule` | scheduler.c |
| address pool, access control | `uaddr[]`, ranges | `reserve_addr`, `unreserve_addr`, `get_addr`, `get_lns` | aaa.c |
| AVPs | one message | `handle_avps` and its handlers; avpsend.c writes them | avp.c, avpsend.c |
| payload | `data_seq_num`, `data_rec_seq_num`, read buffer | `read_packet`, `write_packet`, `check_payload`, `expand_payload` | call.c, control.c |
| pppd | child processes | `start_pppd`, `child_handler` | xl2tpd.c, pty.c |
| commands | control pipe, result pipe | `do_control` and its handlers, xl2tpd-control | xl2tpd.c, xl2tpd-control.c |
| configuration | lists of `lns` and `lac` | `parse_config` | file.c |

All parts run in the loop of `network_thread`: signals, then `build_fdset` (which
carries out pending closes), then due timer events, then at most one command and
the packets that `select` reported, then payload from the ptys. There are no
threads; what makes the program hard is the order in which timers, packets of an
unreliable network, commands, deaths of child processes and signals reach that
loop, with two such loops at the ends of a tunnel.

Hard behaviours and what correctness means for them:

* lost, repeated and reordered packets: in-order delivery, sound acknowledgement;
* retransmission and its limit: no message dropped silently, every one resolved;
* closing from both sides at once, by timeout, command or signal: one StopCCN,
  which stays scheduled until it is answered, eventual destruction;
* a peer that dies silently: eventually noticed;
* 16-bit counters: what happens at the wrap;
* redial timers that race with commands and with the end of the tunnel: an entry
  that should redial is not forgotten, one that was disconnected stays quiet;
* repeated and late set-up messages, restarts, missing and different secrets: a
  tunnel comes up once, first at the LAC, and only with a peer that passed;
* calls closed while their messages are in flight, from both ends at once: no end
  keeps a call the other has ended;
* a message that fails half-way through its AVPs: no half-made call is left, and
  the checks of one AVP bind the rest of the message;
* ranges that overlap and exclude each other, a full pool, calls that fail: no
  address is given twice or lost;
* an event list that handlers and events both change: nothing is slept past,
  nothing outlives its tunnel;
* frames that arrive in pieces, sequence numbers that wrap: frames stay intact.

## Modules

### ControlChannel

Two xl2tpd daemons, `"lac"` and `"lns"`, at the ends of one established tunnel
without calls. Its traffic is Hello and StopCCN.

| variable | in the code |
|----------|-------------|
| `ss`, `rr`, `cLr` | `t->control_seq_num`, `t->control_rec_seq_num`, `t->cLr` |
| `sched` | buffers with a scheduled `control_xmit` event, with their retry counts |
| `hello` | is the `hello` event scheduled? |
| `needclose`, `closing`, `closeSs` | fields of `t->self` |
| `alive` | is the tunnel in the list `tunnels`? |
| `net` | all packets ever sent |
| `sent`, `got` | history: messages numbered, messages handed to `control_finish` |

`net` only grows, and any packet in it may be received at any time: this covers
loss, repetition, delay and reordering. A packet carries, as history, the
unwrapped number of its message.

| action | in the code |
|--------|-------------|
| `Hello` | `hello`, with the first run of `control_xmit` |
| `Toss`, `Retransmit`, `GiveUp` | the three outcomes of `control_xmit` run by a timer |
| `RecvMessage` | `check_control` in sequence, `control_finish`, the ZLB of `network_thread` |
| `RecvZlb` | `check_control` in sequence, the ZLB branch of `handle_control` |
| `RecvDuplicate` | `check_control` out of sequence, answered with a ZLB |
| `BuildFdset` | `build_fdset` when exactly one of `needclose` and `closing` is set |
| `Disconnect` | `lac_disconnect` |
| `Die` | `death_handler`, or a crash |

A packet out of sequence that is not answered changes nothing and has no action.
Timers fire in any order: delays are not modelled, which allows more orders than
the code. `MaxRetries` is at least 1. `Ready` says that packets, timers and
commands find no close pending, because `build_fdset` runs before them in every
round of the loop; with kernel support one round may read both the tunnel's own
socket and the server socket, a second packet for the same tunnel in the same
round is not modelled.

### ReliableLink

What the channel promises, without packets: counters of messages sent, processed
and acknowledged. `ControlChannel!ReliableDelivery` states the refinement; the
mapping takes the number of processed messages from the history `got`.

### LacDial

One LAC entry of the configuration: dialling its tunnel, placing its call and
redialling. The entry is independent of the control channel of its tunnel, which
appears as environment: a tunnel in setup comes up or is closed, a closing tunnel
ends, a call is answered or ends.

| variable | in the code |
|----------|-------------|
| `active`, `rtries`, `rsched` | fields of `struct lac`; `rsched` is "not NULL" |
| `timers` | `magic_lac_dial` events for the entry in the list `events` |
| `tunnel`, `closing` | `lac->t` (none, or its `state`) and `lac->t->self->closing` |
| `calls`, `up`, `lacC` | calls on the tunnel, those answered, `lac->c` |
| `dials`, `noDial` | history: attempts begun since `rtries` was reset; did `magic_lac_dial` last find nothing to dial? |

`timers` and `rsched` are separate because the code separates them:
`magic_lac_dial` clears `rsched` when a command calls it while an event is
pending, and leaves it set when the event finds the entry inactive.

| action | in the code |
|--------|-------------|
| `Connect`, `Disconnect` | the commands, for an entry found by name |
| `TimerFires` | `magic_lac_dial` run by `process_schedule` |
| `TunnelUp` | the SCCRP case of `control_finish`, which calls `magic_lac_dial` |
| `CallUp` | the ICRP case of `control_finish` |
| `CallEnds` | `destroy_call` |
| `TunnelCloses`, `TunnelEnds` | `call_close` of `t->self`, `destroy_tunnel` |

`Dial` is `magic_lac_dial` with the functions it calls: refused, nothing to dial
(no LNS in the entry or the default, or no memory for a tunnel or call: it returns
and schedules nothing), name lookup failed, tunnel dialled, or call placed. A
chain of calls to `destroy_call` and `destroy_tunnel` tests `rsched` several
times; only the first test can schedule, so one `ScheduleRedial` stands for the
chain.

Only calls that `lac_call` places for the entry are modelled. Calls the peer opens
on the tunnel, calls placed by tunnel number, outgoing-call, add and remove are
not. Automatic dialling at start-up is the first `Connect`.

### TunnelSetup, Handshake and MCTunnelSetup

A LAC and an LNS that set up tunnels with SCCRQ, SCCRP and SCCCN. Each end makes
several tunnels in its time; either may be restarted and forgets them. As in
ControlChannel the network is the set of packets ever sent.

| variable | in the code |
|----------|-------------|
| `conf` | secrets, `challenge` options and what `get_lns` decides, chosen at the start |
| `tun` | the tunnels by number: `state`, `tid`, counters, `chal_them.state`, `closing` |
| `sent` | all packets ever sent, with their Challenge and Response AVPs |
| `up` | history: the pairs of tunnels joined, at which end |

| action | in the code |
|--------|-------------|
| `Dial` | `l2tp_call` and case 0 of `control_finish` |
| `RecvSCCRQ`, `RecvSCCRP`, `RecvSCCCN`, `RecvStopCCN` | `check_control`, the guard of `message_type_avp`, the case of `control_finish`, the ZLB of `network_thread`, and `call_close` where the case fails |
| `RecvZLB`, `RecvOld` | `handle_control` for a ZLB; `check_control` for a message received before |
| `GiveUp`, `Finish` | the retry limit or a disconnect; the end of the wait for the StopCCN's answer |
| `Restart` | `death_handler`, or a crash |

A response is the triple of message, secret and challenge, so MD5 is taken as
injective; challenges and tunnel numbers, which the code draws at random, are
taken as distinct. Handshake says what the set-up promises without messages:
tunnels are joined first at the LAC, then at most once at the LNS, and an end that
asked for authentication joins only a peer with its secret. MCTunnelSetup lists
the configurations.

### Calls

The calls of one established tunnel, between two daemons: ICRQ, ICRP and ICCN, CDN
on a call and on the tunnel, StopCCN, the ZLBs that end the wait of a closing call,
packets for calls that no longer exist, and the deaths of pppd. The network
delivers once and in order, so that what goes wrong is the daemons' own doing.

| variable | in the code |
|----------|-------------|
| `kernel` | `kernel_support`, which changes what `child_handler` does |
| `end[e]` | a tunnel: counters, `t->self`, the calls by `ourcid`, packets sent and not yet received; `ahead` is history: has `handle_special` counted a ZLB? |
| `looped` | has the end run `process_signal` and `build_fdset` since its last packet? |

`Receive` is one packet through `get_call`, `check_control`, `handle_control` or
`handle_special`, `handle_avps`, `control_finish` and the answering ZLB; the
operators `Handle...` are the cases, as sets of outcomes. `Loop` is one pass of
`process_signal` (`child_handler`) and `build_fdset`; both go over the list of calls,
the newest first, with `OverCalls`. A CDN on call 0 (`HandleTunnelCDN`) marks the
tunnel, as the code does. `Dial`, `Disconnect` and
`PppdDies` are `lac_call`, `lac_disconnect` and the end of a child. `GiveUp` stands
for the retransmissions that ControlChannel has. The constant `Faults` allows an
empty address pool, a pppd that cannot be started, and a LAC of another make that
hangs up before it was answered.

### AvpWalk

How one daemon reads a message: `handle_avps` with its break, jumps and early
returns, every handler of its table, and what `control_finish` then does to the
tunnel and its list of calls. Every step of the walk picks the next AVP, so all
messages up to a length are read. Of an AVP the model keeps attribute, length, the
M, H and reserved bits and, where it matters, the number or message type it holds;
of a handler it keeps which messages it accepts, which lengths, and what it writes
to: the tunnel, the call of the message, or `t->call_head`. A message may have any
number of Message Type AVPs, each of any type and with or without the M bit; the
constant `Lax` bounds the types that come without it.

| variable | in the code |
|----------|-------------|
| `tun` | `t->state`, `tid`, `qtid`, and whether `chal_us.vector` is set |
| `list` | `t->call_head` and its successors |
| `node` | `t->self` and the calls |
| `walk` | the locals of `handle_avps`, and `c->msgtype`; `made`, `valid` and `optional` are history: the call the message made, whether `message_type_avp` accepted its type, whether a type came without the M bit; `null`: a pointer that is NULL was followed |

`Begin` is the start of `handle_control`, `Step` one round of the loop, `End` its
end with `control_finish`; `Dial`, `Place`, `CloseCall` and `CloseTunnel` are what
else happens to the lists between messages. `message_type_avp` keeps a type that it
refuses, and where the AVP has no M bit `handle_avps` goes on with it. Handlers and
`control_finish` may then follow an empty `t->call_head`, or, in the cases SCCCN,
ICRQ, ICRP and ICCN, another pointer that the state would have set (`Fatal`): `null`
records it and the model stops there. Messages that xl2tpd itself sends have one
Message Type AVP, with the M bit. `cut` marks, as history, a call whose message had
bytes left over or went on to another message type.

### AddrPool

The configuration's ranges (`set_range` and its callers), the choice of an LNS
section (`get_lns`), and the addresses calls take and give back. An address is a
number and the table `uaddr` a set. `lnslist` has the named sections, the last one
read first, and `deflns` is kept apart; `Allow` and `Sense` are the two loops of
`get_lns` over sections and rules, with `allow` carried from one to the next.
While `running` is false the actions are the options of the configuration file in
any order; then calls come (`IncomingCall`, ICRQ), connect (`Connect`, ICCN) and
go (`DestroyCall`). The code does not compare 'local ip range' with 'ip range',
and nor does the model: both may name an address.

### Scheduler

The event list with times in seconds and microseconds, and the main loop as it
sees it: handlers, then `process_schedule`, then `select` for at most the time
that was returned. The events are the three the daemon schedules: `control_xmit`
with its doubling delay, `hello` and `magic_lac_dial`. `Execute` runs the first
event that is due, `Sleep` computes the timeout, `Wake` returns from `select`,
`Handle` is any of the handlers that change the list. A handler takes up to `Late`
microseconds; the events themselves take no time, `select` does not overshoot, and
the clock does not go back. A tunnel that was closed while it was set up
(`dropped`) may be established all the same (`risen`), since SCCRP and SCCCN do
not look at `closing`; its Hello is then scheduled on a closing tunnel.
Whether a redial is scheduled is left open here, as the tests for it are LacDial's
subject.

### Payload and MCPayload

The payload path of a call without kernel support. Upwards pppd writes frames in
PPP's byte framing, `read_packet` reads them in pieces of any size, and each frame
is sent with the next number. Downwards `expand_payload` checks the number of a
packet and `write_packet` frames it for pppd. `due`, `split`, `wrong`, `lossy`,
`refused` and `written` are history; `written` has the last frame that was written to
pppd, with its bytes. After an error a call is only marked; packets that arrive
before the closing pass still go through, and the model lets them.

### Proof modules

`ControlChannelProofs`, `LacDialProofs`, `TunnelSetupProofs`, `CallsProofs`,
`AddrPoolProofs`, `PayloadProofs`, `AvpWalkProofs` and `SchedulerProofs` hold the
theorems about the modules they extend. Modules with proofs write the loops of the
code as functions of the number of turns taken (`Purge`, `Escape`, `ReadBytes`,
`OverCalls`), which is the form their inductions need.

## Runs

| run | instance | checks | result |
|-----|----------|--------|--------|
| `channel` | SeqMod 16, MaxRetries 2, MaxSent 3 | `InOrderDelivery`, `NoSilentDrop`, `StopPending`, `StopObeyed`, `EarlierAcked`, refinement of ReliableLink, `CloseTerminates`, `MessageResolved`, `DeadPeerDetected` | holds, 52,261 states |
| `sequence_wrap` | SeqMod 8, MaxSent 9, start at 6 | `NoSilentDrop` | violated |
| `lac_redial` | 3 calls, max redials 0, 1 and 3 | `NeverIdle`, `GivesUpLate`, `NoDialPastMax`, `KeepsDialling`, `DisconnectCompletes` | holds, 21,862 states |
| `setup` | 1 LAC tunnel, 3 LNS tunnels, 6 configurations | refinement of Handshake, `OneTunnelPerRequest`, `LnsResolved` | holds, 106,034 states |
| `calls` | 2 calls, 1 disconnect per end, all faults | `CallsPaired`, `NoneLeftBehind` | holds, 1,106,374 states |
| `calls_live` | 2 calls, no disconnect, all faults | `CloseCompletes`, `RequestAnswered` | holds, 203,045 states |
| `calls_closed_zlb` | 2 calls, no faults | `StillExpected` | violated |
| `avp_handlers` | 1 call, all attributes and messages, up to 3 AVPs, ICRQ and OCRQ also without the M bit | `ActedOnlyIfValid`, `HeadExists` | holds, 354,690 states |
| `avp_calls` | 2 calls, 2 numbers, lengths 0 and 8, SCCRP and ICRP also without the M bit | `ListSound`, `NoCallForgotten`, `NumbersStable`, `RoundShortens` | holds, 1,405,672 states |
| `pool` | a named section and the default, 2 calls, 2 peers, 3 ranges, local and remote addresses that overlap | `RemoteUnique`, `RemoteReserved`, `FromRange`, `AccessRespected`, `RefusedOnlyIfFull` | holds, 1,806,026 states |
| `scheduler` | 2 tunnels (one dialled), 7 seconds | `WakesInTime`, `EventsHaveTunnel`, `OneHello`, `BackoffKept` | holds, 1,672,034 states |
| `payload` | frames that need escapes, counters of width 6 | `FramesIntact`, `Readable`, `NoneRefused` | holds, 444,584 states |

The type invariants of ControlChannel, LacDial, TunnelSetup and AddrPool and a few
auxiliary invariants (`AckSound`, `OneStopCCN`, `ScheduledIsPending`,
`InactiveHasNoCall`) have no run of their own: they are proved below.
Configuration values that the code only reads (secrets, limits, kernel support,
access control) are variables chosen in `Init`, so that one run covers all of
them.

Deadlock. The control channel, set-up and calls may stop: their tunnels end. The
scheduler stops at the bound on its clock, the pool when its bound on ranges is
used up and no call may come, and the reading of messages where a NULL pointer is
followed. The others check for deadlock.

Bounds. `MaxSent` = 3 lets the LAC send one Hello and the LNS two before each
sends a StopCCN; that is enough for old ZLBs to overtake new ones, for a Hello to
be outstanding at both ends while both close, and for a gap before a StopCCN.
The safety properties hold with `MaxSent` = 4 too (4.5 million states).
`MaxRetries` = 2 gives a first transmission, one retransmission and the limit.
`MCControlChannel` gives `Start`, the numbers of messages exchanged before the
model starts: 2 and 1 after set-up, or just below the wrap.
In LacDial three names for calls allow the second call that the code can place and
another after it; `MaxTimers` = 3 lets connect commands come while events are
pending, so that stray events exist next to a scheduled one; `MaxTries` only has to
be above the limits, since `rtries` is only compared with them.
In TunnelSetup three LNS tunnels are one for a request, one for its repetition and
one after a restart.
In Calls two calls show what their messages, which share one sequence, do to each
other, for the liveness properties too. These have no disconnect command, which
would make the behaviour graph too large to search for cycles; the loss of the
tunnel still happens, by a CDN on call 0 (fault `"early"`).
In AvpWalk three AVPs are a message type and two more, each an attribute or another
message type; length 0 takes the loop's break. Two types in each run may come without
the M bit: those that make calls and those that store numbers.
In AddrPool three ranges are two that overlap and an exception, or one for the
section, one for the peer and one local. Address 2 is one that both kinds of
range may name, address 1 one that only an 'ip range' does.
In Scheduler a second has two microseconds, which is enough for a borrow; seven
seconds hold two rounds of Hellos and the retry limit. `MaxEvents` only limits what
handlers add.
In Payload a frame of one escaped byte, with an FCS that holds another, has every
way a read can be cut; width 6 leaves numbers beyond `PAYLOAD_FUDGE` on both sides
of the wrap, and the second incoming frame is too big for the buffer.

Fairness. ControlChannel assumes weak fairness of the timers of an end, of
`build_fdset` and of `hello`: the loop of a live daemon keeps running and every
scheduled event comes due. Nothing is assumed of the network, of commands, of
signals or of the reception of packets. `DeadPeerDetected` is restricted to ends
that the bound `MaxSent` has left a Hello to send. In LacDial redial events come
due and a closing tunnel ends (`CloseTerminates` of the control channel); nothing
is assumed of a tunnel in setup, of name lookup, of commands, or that a call ends.
In TunnelSetup a message that is not acknowledged runs out of retries, and a
closing tunnel ends; no packet need ever arrive. In Calls the loops run and
packets arrive, which ControlChannel shows for daemons that live. The fairness of
`Loop` is weak fairness with its enabling condition written out (`ToDo`: a packet
was read since the last pass, or a call or the tunnel is marked, or a pppd has
died), which TLC evaluates far faster than ENABLED.

### What the violations show

* `sequence_wrap`. `control_xmit` compares Ns with `cLr` as integers. After the
  wrap a new message has a small Ns and `cLr` is large, so the message is tossed
  before it is sent, under the comment "Okay, it's been received." `check_control`
  does allow for the wrap, so the two halves of the channel disagree.
* `calls_closed_zlb`. `handle_special` says of a ZLB for a closed call "we ignore
  it", but `check_control` has already counted it. `handle_control` takes the count
  back, `handle_special` does not: the next message of the peer is below the number
  expected, is acknowledged as a repetition and never handled.

### What the properties leave out, and why

Where the code does not do what one would state first, the property says what it
does do, and its comment names the exception:

* `EarlierAcked`. `closeSs` is the Ns of the StopCCN, and its acknowledgement is
  Nr = `closeSs` + 1, but `handle_control` accepts Nr >= `closeSs`. The ZLB for the
  message before the StopCCN so ends the wait, and a lost StopCCN is not sent again.
* `NoDialPastMax` is an upper bound. One attempt runs `magic_lac_dial` twice, for
  the tunnel and for the call, and each counts as a try: with `max redials = 1` the
  call is refused as soon as the first tunnel is up. `GivesUpLate` is what can be
  said from below: the tries last for at least half of `max redials` attempts.
* `NeverIdle` leaves out an entry for which there was nothing to dial: without an LNS
  in the entry or the default, or without memory, `magic_lac_tunnel` and
  `magic_lac_dial` return and schedule nothing.
* `KeepsDialling` allows an entry to wait for ever for one SCCRP: once the SCCRQ is
  acknowledged, no timer of the LAC ends the wait.
* LacDial has several calls per entry because `connect` answers "already active"
  only when `lac->c` is set. While the tunnel is in setup it is not, and a second
  connect places a second call.
* `LnsResolved` is about the LNS. A repeated SCCRQ is dropped but acknowledged, so
  a LAC whose SCCRP is lost for good has nothing left to time out. It also leaves
  out a LAC that refuses the SCCRP, whose acknowledgement may be all that arrives.
* The option `exclusive` is read into `lns->exclusive` and never looked at.
* `CloseCompletes` leaves out a call the LNS refuses: the LAC has not learned its
  number and acknowledges the CDN on call 0, where nobody waits. It also leaves out
  daemons without kernel support, where a pppd that dies between a CDN and the
  closing pass sets `needclose` next to `closing`, which means "waiting".
* `CloseCompletes` and `RequestAnswered` leave out tunnels on which an end has counted
  a ZLB (`ahead`), because the message it then drops may be the one waited for.
* `NoneLeftBehind` is about an end that is not `ahead`: once `handle_special` has
  counted a ZLB the next message is dropped (`calls_closed_zlb`), and when that is a
  CDN its call is left behind.
* No property says that a CDN ends one call only. On call 0 the code finds the call
  as `p` and marks `c`, the tunnel, which goes with all its calls.
* A call whose pppd could not be started stays up: `start_pppd`'s result is not
  looked at.
* `ActedOnlyIfValid`, `HeadExists` and `NumbersStable` are about messages whose
  Message Type AVPs all have the M bit, and `ListSound` finds the call of an ICRQ at
  the head only in these. `handle_avps` goes on after a handler that failed on an AVP
  without the M bit, and the type that `message_type_avp` refused is the one
  `control_finish` acts on.
* `NoCallForgotten` leaves out a message with bytes left over after its last AVP, and
  one with another Message Type AVP behind that of the ICRQ: the call it made stays in
  the list without a state, and nothing closes it.
* A Hello may be scheduled on a closing tunnel: SCCRP and SCCCN are obeyed after the
  tunnel has sent its StopCCN. `EventsHaveTunnel` shows that it goes with the tunnel.
* Sub-Address and Physical Channel of an OCRP are stored in the newest call, which
  need not be the call of the message.
* A local address is kept in the LNS section: the end of one call may give back
  the one another call has, or an address that was since given out as a remote one.
  `RemoteUnique` and `RemoteReserved` are about the remote addresses that no 'local ip
  range' names.
* `FramesIntact` allows one wrong byte after a read that ends between an escape and
  its byte: `escape` is a local variable of `read_packet`.
* `NoneRefused` is about streams without loss. `expand_payload` compares the number
  of a packet with `data_seq_num`, that of the packets it sends itself; after losses
  it can fall behind and refuse packets until the numbers have wrapped.
* A comment in `control_xmit` says that the delay grows "unless it's capped by
  configuration", and `set_capbackoff` stores the option, but nothing reads it: the
  delays double whatever it says, so `BackoffKept` has no cap.

## Proofs

`ControlChannelProofs` proves, for every `SeqMod`, `MaxRetries`, `MaxSent` and
`Start`, under the assumption `NoWrap` (no end numbers `SeqMod` messages):

* `TypeCorrect`, `DeliveryCorrect`, `NothingDropped`, `ClosingCorrect` and
  `StopIsObeyed`: the invariants of run `channel`, with types, `AckSound` (`cLr`
  acknowledges only what was processed) and `OneStopCCN` (a tunnel numbers at most
  one StopCCN);
* `EarlierProcessed`: its action property `EarlierAcked`;
* `ChannelImplementsLink`: the refinement of ReliableLink.

`NoWrap` is necessary: `sequence_wrap` is a counterexample without it.

The inductive invariant `IInv` adds to these invariants

* `Numbering`: `ss` and `rr` are the counts of messages sent and processed, and
  an end that has not begun to close has a number left for its StopCCN;
* `NetOK`: a packet's Nr is at most what its sender has processed and its Ns at
  most what its sender has sent, strictly less for a message; a StopCCN in the
  network means that its sender is closing;
* `SchedOK`: scheduled buffers are messages in the network;
* `UniqueIds`: a number stands for one message, so a StopCCN accepted in sequence
  is the StopCCN that `StopObeyed` speaks of;
* `StopUnanswered`: while an end waits for the answer to its StopCCN, neither
  `cLr` nor any Hello of the peer acknowledges it. This is why `control_xmit`
  cannot toss the waiting StopCCN: only a ZLB can acknowledge it, and that ZLB
  ends the wait. It holds because a peer that has processed the StopCCN is
  closing and sends no Hello (`StopObeyed`).

Each action has a lemma. Actions that send a new message share `SendCommon`; the
ones that end in `call_close` share `CloseStep`, which is a StopCCN sent
(`StopStep`) or a tunnel gone (`VanishStep`). The liveness properties are only
model-checked: they are outside the prover's reach.

`LacDialProofs` proves `LacTypeCorrect`, `NeverForgotten`,
`TimerAndCallsConsistent`, `LimitRespected` and `HalfTheAttempts` for every set of
calls, every limit and both values of `redial`. The invariants are inductive
together and not alone. `magic_lac_dial` can leave `rsched` set with no event when
the entry is inactive; the next connect repairs it only if `lac->c` is NULL, which
is `InactiveHasNoCall`. From that follows `ScheduledIsPending`, and from it that a
redial left out because `rsched` is set is not lost, which is `NeverIdle`.
`LimitRespected` needs `dials <= rtries`: no attempt goes uncounted.
`HalfTheAttempts` needs `TriesPerAttempt`: there are at most `2 * dials + 1`
tries, and `2 * dials` while a tunnel is in setup, whose second try is still to
come.

`TunnelSetupProofs` proves `SetupTyped`, `OneTunnel` and `SetupRefines` for every
set of tunnels, secrets and configurations. `IInv` says of each packet ever sent
what its receiver may conclude: an SCCRP comes from a tunnel of the LNS made for the
tunnel it goes to, by an LNS that allows the peer and can check a response; an SCCCN
comes from a tunnel of the LAC that is joined to the one it goes to; a response that
is present was made with the sender's secret. Since packets stay for ever these facts
must survive restarts, which is why they speak of `tid` and `chal` of tunnels that
may be gone. `Sides`, `LacJoined` and their like tie the history `up` to the states.

`CallsProofs` proves `PairedAlways` and `NoneLeftBehindAlways` for any number of
calls and disconnects and any faults. What may be concluded from a call, or from a
packet on its way, depends on the call at the other end it belongs to, and the
daemons forget that call when it is closed. So the invariant speaks of a history
that they do not keep: `CallsInv` says that there is a function `mate`, from all
calls the LNS has made to calls of the LAC, one-to-one, with `Inv(end["lac"],
end["lns"], mate)`. `Inv` says

* of calls and packets, which numbers they may carry: a call that knows its peer's
  number knows its mate's, an ICRP or CDN of the LNS names the mate, an ICRQ on its way
  has no mate yet (`LacCallsOK`, `LnsCallsOK`, `LacSays`, `LnsSays`); with `mate`
  one-to-one this gives `CallsPaired`;
* of the queue of an end, that its numbers run from the one the reader expects to the
  next one to be given out, unless the reader is `ahead` (`Numbered`), and that a
  request is sent once, before every CDN for its call (`Ordered`);
* of a call that is closing, that its end may drop it: the mate is closed or gone, or a
  CDN or StopCCN is on its way to it (`ClosingMayGo`). The closing pass drops calls on
  the strength of it;
* of a call that is up, or for which the message that brings it up is on its way, that
  the other end still has its mate or has sent the message that ends it (`LacCovered`,
  `LnsCovered`). With the numbers in order this is `NoneLeftBehind`. The packets must
  be included: an ICCN that arrives after the LAC has hung up brings a call up that has
  a CDN behind it. `IccnKnows` shows that this CDN names the call: a LAC that has sent
  an ICCN knows the number of the LNS.

A handler is a composition of a few kinds of change to one tunnel: calls are
closed or go, a packet is sent, a packet is read, a call comes up, a call is made.
For each kind and each end a lemma says when it keeps `Inv`. The passes of the
main loop keep it by induction over the calls visited. `CallsInv` has an
existential quantifier over functions, which a run can only check for small
numbers of calls; for two calls TLC has checked it on all 1,106,374 states.

`AddrPoolProofs` proves `OneCallPerAddress`, `NoAddressLost`, `RulesObeyed`,
`AccessObeyed` and `RefusalJustified` for any sections, ranges, calls and peers.
Uniqueness and exact reservation are inductive only together: a call that ends
gives back its address for everybody, which is right only if no other call has it.
What a call gives back besides is in a local range of its section, which is why
the addresses of local ranges are excepted and no others. `FirstFreeFacts` and
`FullFacts` relate the search of `get_addr` to the reference `Assignable`, in
which the last rule about an address decides. `AccessObeyed` relates the two loops
of `get_lns` to it, by induction over their rounds: `allow` is still false when
the next section is looked at, so what carries over from one to the next changes
nothing.

`AvpWalkProofs` proves all properties of runs `avp_handlers` and `avp_calls`, for any
number of calls, any lengths and any messages of any length: `ActedIfValid`,
`HeadThere`, `ListStaysSound`, `NoneForgotten`, and the action properties
`NumbersStay` and `RoundsShorten`. `IInv` has three parts besides the types. `Listed`:
calls that are not in the list are as `new_call` leaves them, and each call is in it
once. `Reading`: unless a type came without the M bit, what `message_type_avp` found
of the message being read is still true, and the call an ICRQ made is at the head; a
handler that changed a state on the way would break it. `Accounted`: every call but
the one being made is answered, cut or on its way out, so that each early return of
`handle_avps` has to account for one call only. There is a
lemma for each family of handlers and for each case of `control_finish`.

`SchedulerProofs` proves all properties of run `scheduler` for any tunnels, delays
and length of the list: `WakesUp`, `NoneOutlives`, `HelloScheduled`,
`BackoffDoubles`. The invariant is `Proper`, a predicate on a list that says that
it is in order, holds nothing overdue, that its entries have their tunnels and
times and that established tunnels, those established while closing included, have
their Hello. Each operation a handler is made of (`schedule`, the walk of
`call_close`, the removal of the head) keeps `Proper`, and the actions are
combinations of these. `Proper` takes as a parameter the tunnels whose Hello was
taken off the list to run, or is yet to be scheduled for the first time.
`Earliest` says how late the daemon may be in each phase of its loop, and `Slept`
what `select` was told. What the walk of `call_close` leaves is shown by induction
over its turns, from the fact that a set of numbers has a least element.
`BackoffKept` ends at the 32nd retransmission, where the shift is cut off at 31.

`PayloadProofs` proves three theorems, for all frames of all lengths.

* `PacketsAccepted` (`NoneRefused`), for counters of any width and any
  `PAYLOAD_FUDGE` from 1. The strengthening is `KeepsUp`: before a loss,
  `data_rec_seq_num` is the peer's next number or the one before it.
  `expand_payload` counts on only when the packet's number happens to be that of the
  next packet it sends, which is why the two cases are needed.
* `ReadsBack` (`Readable`), for every size of the buffer. `WrittenInv` says that what
  was written is a frame that was not too big; for these, by induction over the bytes
  of a frame, the reader that has read what `write_packet` wrote for the first i bytes
  holds these i bytes; and a frame that passes the test `pos >= sizeof(wbuf) - 4`
  before its last byte fits with its last byte and flag.
* `FramesStayIntact` (`FramesIntact`), for every way to cut pppd's bytes into reads.
  `Position` is a place in the frames pppd has written and not yet seen sent, and
  `Reach` says that a run of bytes leads from one position to another. The invariant
  `UpInv` says that, until the call is to be closed, the unread bytes lead from where
  the reader stands to the end of the frames due, and what it holds is the part of the
  frame before that position (`Along`), but for bytes after a cut escape. A read takes
  the reader along this path byte by byte, again by induction. `UpInv` quantifies over
  all sequences of frames, which TLC cannot enumerate; TLC checks `FramesIntact`.

Inductions are made with two lemmas, `SetInduction` and `LeastNat`, on sets of
numbers defined from what is to be shown; a recursive function is then characterised
by a table of its values.

Only model-checked are the liveness properties (`CloseTerminates`, `MessageResolved`,
`DeadPeerDetected`, `KeepsDialling`, `DisconnectCompletes`, `LnsResolved`,
`CloseCompletes`, `RequestAnswered`), which need fairness and ENABLED. Every safety
property and action property of the passing runs is proved.

## Not modelled

* avpsend.c, md5.c, the cipher of hidden AVPs, logging and buffers: bytes and text
  without protocol state. The packets' byte layout is left out for the same reason.
* The configuration file apart from ranges and access control: each option stores
  one value before the daemon starts.
* pty.c, the arguments of pppd, the control pipe's reading, xl2tpd-control and the
  pppol2tp sockets: calls into the operating system.
* The commands add, remove and outgoing-call, and so a LAC entry that is removed
  while a redial event for it is pending.
* Outgoing calls between two ends; their messages are read in AvpWalk.
* `check_payload`, which accepts or rejects a header by its length, and the ToS
  handling of `network_thread`.
* `aschedule`, which nothing calls, and `deschedule`, which is called only on
  `zlb_xmit`, which is never set.
* With kernel support, a second packet for the same tunnel in one round of the loop.

PROJECT.json lists every part with its status.
