----------------------------- MODULE Scheduler -----------------------------
(* The event list of scheduler.c and the three functions the daemon puts   *)
(* on it: control_xmit with its exponential backoff, hello, and            *)
(* magic_lac_dial.  The main loop (network_thread) alternates between the  *)
(* handlers of packets and commands, process_schedule, and a select that   *)
(* sleeps until the next event.  Times are pairs of seconds and            *)
(* microseconds, as in the code, with USec microseconds to the second.     *)
EXTENDS Integers, Sequences, FiniteSetsExt

CONSTANTS
  USec,         \* microseconds in a second (1000000 in the code)
  Tunnels,      \* tunnel structures
  Dials,        \* those that belong to a LAC entry, and are redialled
  MaxRetries,   \* gconfig.max_retries
  HelloDelay,   \* HELLO_DELAY, in seconds
  RTimeout,     \* lac->rtimeout, in seconds
  Late,         \* bound: microseconds a handler may take
  MaxEvents,    \* bound: scheduled events
  MaxTime       \* bound: the clock, in microseconds

ASSUME SchedulerAssumption ==
  /\ USec \in Nat \ {0} /\ Dials \subseteq Tunnels
  /\ MaxRetries \in Nat \ {0} /\ HelloDelay \in Nat \ {0}
  /\ RTimeout \in Nat \ {0} /\ Late \in Nat /\ MaxTime \in Nat

VARIABLES
  now,          \* the clock, in microseconds
  events,       \* the list of schedule entries
  tun,          \* state of every tunnel
  pc,           \* where network_thread is: "handle", "process", "select"
  timeout       \* what process_schedule returned: {}, for NULL, or {tv}

vars == <<now, events, tun, pc, timeout>>

Tv(s, u) == [sec |-> s, usec |-> u]

Value(tv) == tv.sec * USec + tv.usec

gettimeofday == Tv(now \div USec, now % USec)

(* Mutant: the microseconds are not compared.                              *)
TVLESS_Seconds(a, b) == a.sec < b.sec

TVLESS(a, b) ==
  IF a.sec = b.sec THEN a.usec < b.usec ELSE a.sec < b.sec

TVLESSEQ(a, b) ==
  IF a.sec = b.sec THEN a.usec <= b.usec ELSE a.sec <= b.sec

(* The list with one more entry, at place i.                               *)
Inserted(ev, i, e) == SubSeq(ev, 1, i - 1) \o <<e>> \o SubSeq(ev, i, Len(ev))

(* schedule: func(data) is to run after the delay; the entry goes before   *)
(* the first that is strictly later.                                       *)
Schedule(ev, delay, func, data) ==
  LET sum == Tv(gettimeofday.sec + delay.sec, gettimeofday.usec + delay.usec)
      tv == IF sum.usec > USec THEN Tv(sum.sec + 1, sum.usec - USec) ELSE sum
      later == {i \in 1 .. Len(ev) : TVLESS(tv, ev[i].tv)}
      here == IF later = {} THEN Len(ev) + 1 ELSE Min(later)
  IN  Inserted(ev, here, [tv |-> tv, func |-> func, data |-> data])

(* Mutant: the shift is not one less than the retries.                     *)
Backoff_OffByOne(retries) == 2 ^ Min({retries, 31})

(* The other branch of control_xmit: the buffer waits for its next         *)
(* transmission, after a delay that doubles.                               *)
Backoff(retries) == 2 ^ Min({retries - 1, 31})

Resend(ev, b) ==
  Schedule(ev, Tv(Backoff(b.retries), 0), "control_xmit", b)

(* control_xmit of a new message: `first' and `acked' record when it was   *)
(* sent and whether cLr has passed it.                                     *)
NewMessage(ev, t) ==
  Resend(ev, [tunnel |-> t, retries |-> 1, first |-> now, acked |-> FALSE])

IsHello(e, t) == e.func = "hello" /\ e.data = t

(* Mutant: call_close looks for buffers only.                              *)
Mine_Buffers(e, t) == e.func = "control_xmit" /\ e.data.tunnel = t

(* An entry that call_close takes off the list: a buffer of the tunnel, or *)
(* the tunnel itself.                                                      *)
Mine(e, t) ==
  \/ e.func = "control_xmit" /\ e.data.tunnel = t
  \/ IsHello(e, t)

(* The walk over the list with which call_close begins: what is left of    *)
(* the first i entries.                                                    *)
Purge(ev, t) ==
  LET left[i \in 0 .. Len(ev)] ==
        IF i = 0 THEN <<>>
        ELSE IF Mine(ev[i], t) THEN left[i - 1]
        ELSE Append(left[i - 1], ev[i])
  IN  left[Len(ev)]

(* What is left of the list when a call or tunnel of a LAC entry is        *)
(* destroyed: a redial is scheduled or not, by tests on the entry (redial, *)
(* rsched, active) that are the subject of LacDial.                        *)
MayRedial(ev, t) ==
  {ev} \cup IF t \in Dials /\ Len(ev) < MaxEvents
           THEN {Schedule(ev, Tv(RTimeout, 0), "magic_lac_dial", t)} ELSE {}

(* A tunnel is free, being set up ("setup"), or established ("up"); closed *)
(* in set-up ("dropped"), closed when established ("closing"), or closed   *)
(* in set-up and established all the same ("risen").                       *)
Closing == {"dropped", "closing", "risen"}

(* call_close on the tunnel: a first time it sends StopCCN and destroys    *)
(* the calls, a second time it destroys the tunnel.                        *)
CallClose(ev, t) ==
  IF tun[t] \in Closing
  THEN /\ tun' = [tun EXCEPT ![t] = "free"]
       /\ events' \in MayRedial(Purge(ev, t), t)
  ELSE /\ tun' = [tun EXCEPT ![t] = IF @ = "up" THEN "closing" ELSE "dropped"]
       /\ events' \in MayRedial(NewMessage(Purge(ev, t), t), t)
-----------------------------------------------------------------------------
(* control_xmit, run for a scheduled buffer.                               *)
ControlXmit(ev, b) ==
  LET c == [b EXCEPT !.retries = @ + 1] IN
  IF b.acked THEN events' = ev /\ UNCHANGED tun
  ELSE IF c.retries > MaxRetries THEN CallClose(ev, b.tunnel)
  ELSE events' = Resend(ev, c) /\ UNCHANGED tun

(* Mutant: hello does not schedule itself.                                 *)
Hello_Once(ev, t) == events' = NewMessage(ev, t) /\ UNCHANGED tun

(* hello sends a message and schedules itself.                             *)
Hello(ev, t) ==
  /\ events' = Schedule(NewMessage(ev, t), Tv(HelloDelay, 0), "hello", t)
  /\ UNCHANGED tun

(* magic_lac_dial does nothing for an entry that is not active or has used *)
(* up its tries.  Without a tunnel it opens one (SCCRQ), or the host name  *)
(* cannot be resolved and it may wait again; with a tunnel it places a     *)
(* call (ICRQ).                                                            *)
MagicLacDial(ev, t) ==
  \/ /\ events' = NewMessage(ev, t)
     /\ tun' = [tun EXCEPT ![t] = IF @ = "free" THEN "setup" ELSE @]
  \/ /\ events' \in IF tun[t] = "free" THEN MayRedial(ev, t) ELSE {ev}
     /\ UNCHANGED tun

(* process_schedule takes the first entry off the list if it has expired,  *)
(* and runs it.                                                            *)
Execute ==
  /\ pc = "process" /\ events # <<>>
  /\ LET p == Head(events) IN
     /\ TVLESSEQ(p.tv, gettimeofday)
     /\ \/ p.func = "control_xmit" /\ ControlXmit(Tail(events), p.data)
        \/ p.func = "hello" /\ Hello(Tail(events), p.data)
        \/ p.func = "magic_lac_dial" /\ MagicLacDial(Tail(events), p.data)
  /\ UNCHANGED <<now, pc, timeout>>

(* How long select may sleep, from the first entry that is left.           *)
TimeLeft(tv) ==
  LET diff == Tv(tv.sec - gettimeofday.sec, tv.usec - gettimeofday.usec)
      then == IF diff.usec < 0 THEN Tv(diff.sec - 1, diff.usec + USec) ELSE diff
  IN  IF then.sec <= 0 /\ then.usec <= 0 THEN Tv(1, 0) ELSE then

Sleep ==
  /\ pc = "process"
  /\ events # <<>> => ~TVLESSEQ(Head(events).tv, gettimeofday)
  /\ timeout' = IF events = <<>> THEN {} ELSE {TimeLeft(Head(events).tv)}
  /\ pc' = "select"
  /\ UNCHANGED <<now, events, tun>>

(* select returns when the time is up, or earlier because there is input.  *)
Wake ==
  /\ pc = "select"
  /\ now' \in now .. MaxTime
  /\ \A tv \in timeout : now' <= now + Value(tv)
  /\ \/ pc' = "handle"
     \/ pc' = "process" /\ \E tv \in timeout : now' = now + Value(tv)
  /\ timeout' = {}
  /\ UNCHANGED <<events, tun>>
-----------------------------------------------------------------------------
(* What the handlers of packets and commands do to tunnels and events.     *)

(* An incoming SCCRQ opens a tunnel, and is answered.                      *)
Open(t) ==
  /\ tun[t] = "free" /\ t \notin Dials
  /\ tun' = [tun EXCEPT ![t] = "setup"]
  /\ events' = NewMessage(events, t)

(* SCCCN establishes it.  SCCRP establishes one that was dialled: SCCCN is *)
(* sent, and then magic_lac_dial may place a call.  Both schedule the      *)
(* first Hello.  Neither asks whether the tunnel was closed meanwhile.     *)
Establish(t) ==
  LET Greet(ev) == Schedule(ev, Tv(HelloDelay, 0), "hello", t)
      dialled == Greet(NewMessage(events, t))
  IN  /\ tun[t] \in {"setup", "dropped"}
      /\ tun' = [tun EXCEPT ![t] = IF @ = "setup" THEN "up" ELSE "risen"]
      /\ events' \in IF t \in Dials THEN {dialled, NewMessage(dialled, t)}
                     ELSE {Greet(events)}

(* A message about a call of the tunnel is sent.                           *)
Send(t) ==
  /\ tun[t] \in {"up", "closing", "risen"}
  /\ events' = NewMessage(events, t) /\ UNCHANGED tun

(* The peer acknowledges what was sent so far: control_xmit will toss it   *)
(* when it is due.                                                         *)
Acknowledge(t) ==
  /\ tun[t] # "free"
  /\ events' = [i \in 1 .. Len(events) |->
                  IF events[i].func = "control_xmit" /\ events[i].data.tunnel = t
                  THEN [events[i] EXCEPT !.data.acked = TRUE] ELSE events[i]]
  /\ UNCHANGED tun

(* The StopCCN of the peer destroys the tunnel, and so does the answer to  *)
(* its own.                                                                *)
Gone(t) ==
  /\ tun[t] # "free"
  /\ tun' = [tun EXCEPT ![t] = "free"]
  /\ events' \in MayRedial(Purge(events, t), t)

(* The command `disconnect', or a message that cannot be accepted.         *)
Close(t) == tun[t] # "free" /\ CallClose(events, t)

(* One round of handlers; the commands connect and autodial run            *)
(* magic_lac_dial.                                                         *)
Handle ==
  /\ pc = "handle"
  /\ \/ \E t \in Tunnels : Acknowledge(t) \/ Gone(t) \/ Close(t)
     \/ Len(events) < MaxEvents
        /\ \/ \E t \in Tunnels : Open(t) \/ Establish(t) \/ Send(t)
           \/ \E t \in Dials : MagicLacDial(events, t)
     \/ UNCHANGED <<events, tun>>
  /\ now' \in now .. now + Late
  /\ now' <= MaxTime
  /\ pc' = "process"
  /\ UNCHANGED timeout

Init ==
  /\ now = 0
  /\ events = <<>>
  /\ tun = [t \in Tunnels |-> "free"]
  /\ pc = "handle"
  /\ timeout = {}

Next == Execute \/ Sleep \/ Wake \/ Handle

Spec == Init /\ [][Next]_vars
-----------------------------------------------------------------------------
Entries == {events[i] : i \in 1 .. Len(events)}

(* While the daemon sleeps in select it will wake up at the very time of   *)
(* the earliest event, wherever it is in the list; it sleeps without a     *)
(* limit only if there is none.  So schedule keeps the list in order,      *)
(* process_schedule leaves nothing behind that is due, and its branch      *)
(* "Scheduling for <=0 time???" is never taken.                            *)
WakesInTime ==
  pc = "select" =>
    /\ timeout = {} => events = <<>>
    /\ \A tv \in timeout :
         /\ Value(tv) > 0 /\ tv.sec >= 0 /\ tv.usec \in 0 .. USec - 1
         /\ now + Value(tv) = Min({Value(e.tv) : e \in Entries})

(* No event outlives its tunnel: call_close takes every Hello and every    *)
(* buffer of the tunnel off the list before destroy_tunnel frees it, also  *)
(* when it is itself called from an event, and also when the Hello was     *)
(* scheduled on a tunnel that was closing already.                         *)
EventsHaveTunnel ==
  \A e \in Entries :
    /\ e.func = "control_xmit" => tun[e.data.tunnel] # "free"
    /\ e.func = "hello" => tun[e.data] # "free"

(* The states of a tunnel that was established and not closed since.       *)
Greeted == {"up", "risen"}

(* An established tunnel always has exactly one Hello on the list: the one *)
(* event that lets the daemon notice that the peer has gone.               *)
OneHello ==
  \A t \in Tunnels :
    tun[t] \in Greeted =>
      \E i \in 1 .. Len(events) :
        {j \in 1 .. Len(events) : IsHello(events[j], t)} = {i}

(* The backoff of control_xmit: the n-th retransmission of a message is    *)
(* due 2^n - 1 seconds after it was first sent, never earlier, and later   *)
(* only by what the handlers that ran meanwhile took.  From the 33rd on    *)
(* the delay no longer grows.  No configured cap shortens it, as nothing   *)
(* reads gconfig.cap_backoff.                                              *)
BackoffKept ==
  \A e \in Entries :
    e.func = "control_xmit" /\ e.data.retries <= 32 =>
      LET due == e.data.first + (2 ^ e.data.retries - 1) * USec
      IN  Value(e.tv) \in due .. due + (e.data.retries - 1) * Late
=============================================================================
