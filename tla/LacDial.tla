------------------------------ MODULE LacDial ------------------------------
(***************************************************************************)
(* Dialling and redialling of one LAC entry of the configuration: the      *)
(* connect and disconnect commands, magic_lac_dial with its retry limit,   *)
(* the redial timer, and what the death of a call or of the tunnel does    *)
(* to the entry (xl2tpd.c, call.c, control.c).                             *)
(*                                                                         *)
(* The entry owns at most one tunnel, lac->t.  What the peer, pppd and the *)
(* control channel do to the tunnel and its calls is the environment: a    *)
(* tunnel being set up comes up or is closed, a call is answered or ends.  *)
(* The calls are those lac_call places for the entry; a "call" is placed   *)
(* with ICRQ.  The timer of 'redial timeout' may fire at any time.         *)
(***************************************************************************)
EXTENDS Integers, FiniteSets

CONSTANTS
  Calls,        \* names of call structures; bound: calls alive at one time
  Redial,       \* lac->redial, with lac->rtimeout > 0
  Rmaxes,       \* values of 'max redials', 0 for no limit
  MaxTries,     \* bound: rtries and dials saturate here, above Rmaxes
  MaxTimers,    \* bound: no connect command with this many events pending
  NoCall        \* lac->c = NULL

ASSUME DialAssumption ==
  /\ Redial \in BOOLEAN
  /\ MaxTries \in Nat \ {0} /\ Rmaxes \subseteq 0 .. MaxTries - 1
  /\ MaxTimers \in Nat
  /\ NoCall \notin Calls

VARIABLES
  rmax,         \* lac->rmax
  active,       \* lac->active
  rtries,       \* lac->rtries
  rsched,       \* is lac->rsched non-NULL?
  timers,       \* magic_lac_dial events for the entry in the event list
  tunnel,       \* "none" if lac->t is NULL, else the state of lac->t
  closing,      \* lac->t->self->closing
  calls,        \* calls on the list of lac->t
  up,           \* those answered, with pppd started
  lacC,         \* lac->c
  dials,        \* history: attempts begun since rtries was last reset
  noDial        \* history: did magic_lac_dial last find nothing to dial?

vars == <<rmax, active, rtries, rsched, timers, tunnel, closing, calls, up,
          lacC, dials, noDial>>

Init ==
  /\ rmax \in Rmaxes
  /\ active = FALSE
  /\ rtries = 0
  /\ rsched = FALSE
  /\ timers = 0
  /\ tunnel = "none"
  /\ closing = FALSE
  /\ calls = {}
  /\ up = {}
  /\ lacC = NoCall
  /\ dials = 0
  /\ noDial = FALSE

Bump_Twice(n) == IF n + 2 < MaxTries THEN n + 2 ELSE MaxTries

(* lac->rtries++ *)
Bump(n) == IF n < MaxTries THEN n + 1 ELSE n

(* The test before every schedule (tv, magic_lac_dial, lac), with the      *)
(* entry active or not (a), rsched set or not (rs) and ev events pending.  *)
ScheduleRedial(a, rs, ev) ==
  LET new == Redial /\ ~rs /\ a
  IN  /\ rsched' = (rs \/ new)
      /\ timers' = IF new THEN ev + 1 ELSE ev

Exceeded_OffByOne(rt) == rmax # 0 /\ rt > rmax + 1

(* The limit of 'max redials' on the tries made. *)
Exceeded(rt) == rmax # 0 /\ rt > rmax

(* magic_lac_dial: with rt tries made and ev events left, for an active    *)
(* entry.  The tunnel's next state is next when it exists.                 *)
Dial(rt, ev, next) ==
  /\ rtries' = Bump(rt)
  /\ \/ (* maximum retries exceeded *)
        /\ Exceeded(rtries')
        /\ rsched' = FALSE /\ timers' = ev
        /\ tunnel' = next /\ noDial' = FALSE
        /\ UNCHANGED <<closing, calls, up, lacC>>
     \/ (* magic_lac_tunnel finds no LNS in the entry or in the default, or *)
        (* get_call or lac_call can make no tunnel or call: nothing is      *)
        (* scheduled                                                        *)
        /\ ~Exceeded(rtries')
        /\ rsched' = FALSE /\ timers' = ev
        /\ tunnel' = next /\ noDial' = TRUE
        /\ UNCHANGED <<closing, calls, up, lacC>>
     \/ (* l2tp_call, name lookup fails *)
        /\ ~Exceeded(rtries')
        /\ tunnel = "none"
        /\ ScheduleRedial(TRUE, FALSE, ev)
        /\ noDial' = FALSE
        /\ UNCHANGED <<tunnel, closing, calls, up, lacC>>
     \/ (* l2tp_call, tunnel dialled *)
        /\ ~Exceeded(rtries')
        /\ tunnel = "none"
        /\ rsched' = FALSE /\ timers' = ev
        /\ tunnel' = "SCCRQ" /\ closing' = FALSE /\ noDial' = FALSE
        /\ UNCHANGED <<calls, up, lacC>>
     \/ (* lac_call *)
        /\ ~Exceeded(rtries')
        /\ tunnel # "none"
        /\ rsched' = FALSE /\ timers' = ev
        /\ tunnel' = next /\ noDial' = FALSE
        /\ \E c \in Calls \ calls : calls' = calls \cup {c} /\ lacC' = c
        /\ UNCHANGED <<closing, up>>

(* control_handle_lac_connect for a named entry. *)
Connect ==
  /\ timers < MaxTimers
  /\ active' = TRUE
  /\ UNCHANGED rmax
  /\ IF lacC = NoCall
     THEN Dial(0, timers, tunnel) /\ dials' = 1
     ELSE /\ rtries' = 0 /\ dials' = 0
          /\ UNCHANGED <<rsched, timers, tunnel, closing, calls, up, lacC, noDial>>

(* The redial event: process_schedule runs magic_lac_dial, which returns   *)
(* before touching rsched when the entry is not active.                    *)
TimerFires ==
  /\ timers > 0
  /\ UNCHANGED <<rmax, active>>
  /\ IF active
     THEN Dial(rtries, timers - 1, tunnel) /\ dials' = Bump(dials)
     ELSE /\ timers' = timers - 1
          /\ UNCHANGED <<rtries, rsched, tunnel, closing, calls, up, lacC, dials,
                         noDial>>

TunnelUp_Waits ==
  /\ tunnel = "SCCRQ"
  /\ tunnel' = "SCCCN"
  /\ UNCHANGED <<rmax, active, rtries, rsched, timers, closing, calls, up,
                 lacC, dials, noDial>>

(* SCCRP: the tunnel is up, and control_finish calls magic_lac_dial. *)
TunnelUp ==
  /\ tunnel = "SCCRQ"
  /\ UNCHANGED <<rmax, active, dials>>
  /\ IF active
     THEN Dial(rtries, timers, "SCCCN")
     ELSE /\ tunnel' = "SCCCN"
          /\ UNCHANGED <<rtries, rsched, timers, closing, calls, up, lacC, noDial>>

(* ICRP: pppd is started and the count of tries begins again. *)
CallUp(c) ==
  /\ tunnel = "SCCCN"
  /\ c \in calls \ up
  /\ up' = up \cup {c}
  /\ rtries' = 0
  /\ dials' = 0
  /\ UNCHANGED <<rmax, active, rsched, timers, tunnel, closing, calls, lacC,
                 noDial>>

CallEnds_NoRedial(c) ==
  /\ c \in calls
  /\ calls' = calls \ {c}
  /\ up' = up \ {c}
  /\ lacC' = NoCall
  /\ UNCHANGED <<rmax, active, rtries, rsched, timers, tunnel, closing, dials,
                 noDial>>

(* destroy_call of a call whose CDN came or was acknowledged. *)
CallEnds(c) ==
  /\ c \in calls
  /\ calls' = calls \ {c}
  /\ up' = up \ {c}
  /\ lacC' = NoCall
  /\ ScheduleRedial(active, rsched, timers)
  /\ UNCHANGED <<rmax, active, rtries, tunnel, closing, dials, noDial>>

(* call_close of an open tunnel: StopCCN goes out and every call of the    *)
(* tunnel is destroyed; a is the entry's activity.                         *)
CallCloseTunnel(a) ==
  /\ closing' = TRUE
  /\ calls' = {}
  /\ up' = {}
  /\ IF calls = {}
     THEN UNCHANGED <<lacC, rsched, timers>>
     ELSE lacC' = NoCall /\ ScheduleRedial(a, rsched, timers)
  /\ UNCHANGED tunnel

(* destroy_tunnel: its calls, the link from the entry, and self. *)
DestroyTunnel(a) ==
  /\ tunnel' = "none"
  /\ closing' = FALSE
  /\ calls' = {}
  /\ up' = {}
  /\ lacC' = NoCall
  /\ ScheduleRedial(a, rsched, timers)

(* The control channel gives the tunnel up, or the setup fails. *)
TunnelCloses ==
  /\ tunnel # "none" /\ ~closing
  /\ CallCloseTunnel(active)
  /\ UNCHANGED <<rmax, active, rtries, dials, noDial>>

(* The peer's StopCCN, or the end of the wait for the one sent. *)
TunnelEnds ==
  /\ tunnel # "none"
  /\ DestroyTunnel(active)
  /\ UNCHANGED <<rmax, active, rtries, dials, noDial>>

Disconnect_LeavesTunnel ==
  /\ active' = FALSE
  /\ rtries' = 0
  /\ dials' = 0
  /\ UNCHANGED <<rmax, noDial>>
  /\ UNCHANGED <<rsched, timers, tunnel, closing, calls, up, lacC>>

(* control_handle_lac_disconnect for a named entry. *)
Disconnect ==
  /\ active' = FALSE
  /\ rtries' = 0
  /\ dials' = 0
  /\ UNCHANGED <<rmax, noDial>>
  /\ \/ /\ tunnel = "none"
        /\ UNCHANGED <<rsched, timers, tunnel, closing, calls, up, lacC>>
     \/ tunnel # "none" /\ ~closing /\ CallCloseTunnel(FALSE)
     \/ tunnel # "none" /\ closing /\ DestroyTunnel(FALSE)

Next ==
  \/ Connect
  \/ Disconnect
  \/ TimerFires
  \/ TunnelUp
  \/ TunnelCloses
  \/ TunnelEnds
  \/ \E c \in Calls : CallUp(c) \/ CallEnds(c)

(* Timers fire, and a closing tunnel ends: the retransmission limit of the *)
(* control channel.  Nothing is assumed of a tunnel being set up: a peer   *)
(* that acknowledges the SCCRQ and never answers it leaves nothing that    *)
(* could time out.                                                         *)
Fairness ==
  /\ WF_vars(TimerFires)
  /\ WF_vars(closing /\ TunnelEnds)

Spec == Init /\ [][Next]_vars

FairSpec == Spec /\ Fairness

(* The fields of the entry have their types; lac->c is a call that exists, *)
(* and calls and the close of a tunnel need a tunnel.                      *)
TypeOK ==
  /\ rmax \in Rmaxes
  /\ active \in BOOLEAN /\ rsched \in BOOLEAN /\ closing \in BOOLEAN
  /\ rtries \in 0 .. MaxTries /\ dials \in 0 .. MaxTries
  /\ timers \in Nat /\ noDial \in BOOLEAN
  /\ tunnel \in {"none", "SCCRQ", "SCCCN"}
  /\ calls \subseteq Calls /\ up \subseteq calls
  /\ lacC \in calls \cup {NoCall}
  /\ tunnel = "none" => calls = {} /\ ~closing

(* An active entry with 'redial = yes' is never forgotten: a call, a       *)
(* tunnel being set up or closed, or a pending redial event is there,      *)
(* unless the limit on tries was reached.  Excepted is an entry for which  *)
(* magic_lac_dial found nothing to dial, no LNS or no memory: it returns   *)
(* without scheduling a redial.                                            *)
NeverIdle ==
  active /\ Redial =>
    \/ calls # {} \/ timers > 0
    \/ tunnel = "SCCRQ" \/ closing
    \/ Exceeded(rtries) \/ noDial

(* The limit is not reached before half of 'max redials' attempts: one     *)
(* attempt runs magic_lac_dial twice, for the tunnel and when it is up for *)
(* the call, and each run counts as a try.                                 *)
GivesUpLate == Exceeded(rtries) => 2 * dials >= rmax

(* rsched of an active entry stands for an event really in the list: a     *)
(* redial is never left out because of an event that already ran.          *)
ScheduledIsPending == active /\ rsched => timers > 0

(* Once disconnected, an entry has no call until the next connect. *)
InactiveHasNoCall == ~active => calls = {}

(* An active entry without a limit keeps dialling: again and again its     *)
(* redial event fires, or it has a call, or it is disconnected or found    *)
(* nothing to dial; or it waits for ever for the SCCRP of one tunnel,      *)
(* which no timer of the daemon ends once the SCCRQ is acknowledged.       *)
KeepsDialling ==
  rmax = 0 =>
    \/ []<>(~active \/ calls # {} \/ noDial)
    \/ []<><<TimerFires>>_vars
    \/ <>[](tunnel = "SCCRQ" /\ ~closing)

(* A disconnected entry loses its tunnel unless it is connected again. *)
DisconnectCompletes == ~active ~> (tunnel = "none" \/ active)

DialWithinMax ==
  /\ rmax # 0
  /\ \/ tunnel = "none" /\ tunnel' # "none"
     \/ calls' \ calls # {}
  => dials' <= rmax

(* 'max redials' is an upper bound: a tunnel or a call is dialled only in  *)
(* the first rmax attempts since a command or an answered call.            *)
NoDialPastMax == [][DialWithinMax]_vars
=============================================================================
