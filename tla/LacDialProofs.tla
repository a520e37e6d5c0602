--------------------------- MODULE LacDialProofs ---------------------------
(***************************************************************************)
(* What holds of a LAC entry for every retry limit, with or without        *)
(* redialling, and for any number of calls.  The three invariants need     *)
(* each other: a connect command leaves a stale rsched alone only when     *)
(* lac->c is set, which InactiveHasNoCall excludes for an inactive entry,  *)
(* so ScheduledIsPending survives; with it, every redial that is left out  *)
(* because rsched is set has an event to stand for it, so NeverIdle does.  *)
(***************************************************************************)
EXTENDS LacDial, TLAPS

(* The inductive invariant. *)
IInv == TypeOK /\ NeverIdle /\ ScheduledIsPending /\ InactiveHasNoCall

(* A fresh LAC entry satisfies the invariant. *)
LEMMA InitIInv == Init => IInv
  <1> SUFFICES ASSUME Init PROVE IInv
    OBVIOUS
  <1>1. /\ active \in BOOLEAN /\ rsched \in BOOLEAN /\ closing \in BOOLEAN
        /\ noDial \in BOOLEAN
    BY Zenon DEF Init
  <1>2. TypeOK
    BY <1>1, DialAssumption DEF Init, TypeOK
  <1>3. NeverIdle /\ ScheduledIsPending /\ InactiveHasNoCall
    BY DEF Init, NeverIdle, ScheduledIsPending, InactiveHasNoCall
  <1> QED BY <1>2, <1>3 DEF IInv

(* What the test before schedule() leaves behind: when the entry was       *)
(* consistent, an active one that redials has an event pending.            *)
LEMMA ScheduleFacts ==
  ASSUME TypeOK, ScheduledIsPending, NEW a \in BOOLEAN, a => active,
         ScheduleRedial(a, rsched, timers)
  PROVE  /\ rsched' \in BOOLEAN
         /\ timers' \in Nat
         /\ a /\ rsched' => timers' > 0
         /\ a /\ Redial => timers' > 0
  <1>1. rsched \in BOOLEAN /\ timers \in Nat
    BY DEF TypeOK
  <1>2. CASE Redial /\ ~rsched /\ a
    BY <1>1, <1>2 DEF ScheduleRedial
  <1>3. CASE ~(Redial /\ ~rsched /\ a)
    <2>1. timers' = timers /\ rsched' = rsched
      BY <1>1, <1>3, Zenon DEF ScheduleRedial
    <2> QED BY <1>1, <1>3, <2>1, DialAssumption DEF ScheduledIsPending
  <1> QED BY <1>2, <1>3

(* The counters of tries stay in their bounds, and a try counts. *)
LEMMA BumpFacts ==
  ASSUME NEW n \in 0 .. MaxTries
  PROVE  Bump(n) \in 0 .. MaxTries
  BY DialAssumption DEF Bump

(* magic_lac_dial of an entry that is or becomes active leaves it with a   *)
(* call, a tunnel in setup or a pending event, or its tries are used up or *)
(* there was nothing to dial.                                              *)
LEMMA DialStep ==
  ASSUME TypeOK, rmax' = rmax, active' = TRUE, dials' \in 0 .. MaxTries,
         NEW rt \in 0 .. MaxTries, NEW ev \in Nat,
         NEW next \in {"none", "SCCRQ", "SCCCN"},
         tunnel = "none" <=> next = "none",
         Dial(rt, ev, next)
  PROVE  IInv'
  <1>1. rtries' \in 0 .. MaxTries
    BY BumpFacts DEF Dial
  <1>6. noDial' \in BOOLEAN
    BY Zenon DEF Dial
  <1>2. CASE /\ Exceeded(rtries') \/ noDial'
             /\ rsched' = FALSE /\ timers' = ev
             /\ tunnel' = next /\ UNCHANGED <<closing, calls, up, lacC>>
    BY Zenon, <1>1, <1>2, <1>6 DEF IInv, TypeOK, NeverIdle, ScheduledIsPending, InactiveHasNoCall, Exceeded
  <1>3. CASE /\ tunnel = "none" /\ ScheduleRedial(TRUE, FALSE, ev)
             /\ UNCHANGED <<tunnel, closing, calls, up, lacC>>
    BY <1>1, <1>3, <1>6, DialAssumption
    DEF IInv, TypeOK, NeverIdle, ScheduledIsPending, InactiveHasNoCall, ScheduleRedial
  <1>4. CASE /\ tunnel = "none" /\ rsched' = FALSE /\ timers' = ev
             /\ tunnel' = "SCCRQ" /\ closing' = FALSE /\ UNCHANGED <<calls, up, lacC>>
    BY Zenon, <1>1, <1>4, <1>6 DEF IInv, TypeOK, NeverIdle, ScheduledIsPending, InactiveHasNoCall
  <1>5. CASE /\ tunnel # "none" /\ rsched' = FALSE /\ timers' = ev
             /\ tunnel' = next
             /\ \E c \in Calls \ calls : calls' = calls \cup {c} /\ lacC' = c
             /\ UNCHANGED <<closing, up>>
    BY Zenon, <1>1, <1>5, <1>6 DEF IInv, TypeOK, NeverIdle, ScheduledIsPending, InactiveHasNoCall
  <1> QED BY Zenon, <1>2, <1>3, <1>4, <1>5 DEF Dial

(* Closing the tunnel, at whatever activity the step leaves the entry. *)
LEMMA CloseStep ==
  ASSUME IInv, rmax' = rmax, active' \in BOOLEAN, active' => active,
         rtries' \in 0 .. MaxTries, dials' \in 0 .. MaxTries, noDial' = noDial,
         tunnel # "none", CallCloseTunnel(active')
  PROVE  IInv'
  <1>1. CASE calls = {}
    BY <1>1 DEF IInv, TypeOK, NeverIdle, ScheduledIsPending, InactiveHasNoCall, CallCloseTunnel
  <1>2. CASE calls # {}
    <2>1. /\ rsched' \in BOOLEAN /\ timers' \in Nat
          /\ active' /\ rsched' => timers' > 0
      BY <1>2, ScheduleFacts DEF IInv, CallCloseTunnel
    <2> QED BY <1>2, <2>1
      DEF IInv, TypeOK, NeverIdle, ScheduledIsPending, InactiveHasNoCall, CallCloseTunnel
  <1> QED BY <1>1, <1>2

(* Destroying the tunnel schedules a redial unless one is pending. *)
LEMMA DestroyStep ==
  ASSUME IInv, rmax' = rmax, active' \in BOOLEAN, active' => active,
         rtries' \in 0 .. MaxTries, dials' \in 0 .. MaxTries, noDial' = noDial,
         DestroyTunnel(active')
  PROVE  IInv'
  <1>1. /\ rsched' \in BOOLEAN /\ timers' \in Nat
        /\ active' /\ rsched' => timers' > 0
        /\ active' /\ Redial => timers' > 0
    BY ScheduleFacts DEF IInv, DestroyTunnel
  <1>2. TypeOK'
    BY Zenon, <1>1 DEF IInv, TypeOK, DestroyTunnel
  <1>3. NeverIdle' /\ ScheduledIsPending' /\ InactiveHasNoCall'
    BY <1>1 DEF NeverIdle, ScheduledIsPending, InactiveHasNoCall, DestroyTunnel
  <1> QED BY <1>2, <1>3 DEF IInv

(* Every step of a LAC entry preserves the invariant. *)
LEMMA NextIInv == IInv /\ [Next]_vars => IInv'
  <1> SUFFICES ASSUME IInv, [Next]_vars PROVE IInv'
    OBVIOUS
  <1>0. /\ TypeOK
        /\ rtries \in 0 .. MaxTries /\ dials \in 0 .. MaxTries /\ timers \in Nat
        /\ 0 \in 0 .. MaxTries /\ 1 \in 0 .. MaxTries
        /\ tunnel \in {"none", "SCCRQ", "SCCCN"} /\ active \in BOOLEAN
    BY DialAssumption DEF IInv, TypeOK
  <1>1. CASE Connect
    <2>1. CASE lacC = NoCall
      BY <1>0, <1>1, <2>1, DialStep DEF Connect
    <2>2. CASE lacC # NoCall
      BY <1>0, <1>1, <2>2
      DEF Connect, IInv, TypeOK, NeverIdle, ScheduledIsPending, InactiveHasNoCall
    <2> QED BY <2>1, <2>2
  <1>2. CASE Disconnect
    <2>1. CASE tunnel = "none" /\ UNCHANGED <<rsched, timers, tunnel, closing, calls, up, lacC>>
      BY Zenon, <1>0, <1>2, <2>1
      DEF Disconnect, IInv, TypeOK, NeverIdle, ScheduledIsPending, InactiveHasNoCall
    <2>2. CASE tunnel # "none" /\ CallCloseTunnel(FALSE)
      BY Zenon, <1>0, <1>2, <2>2, CloseStep DEF Disconnect
    <2>3. CASE DestroyTunnel(FALSE)
      BY Zenon, <1>0, <1>2, <2>3, DestroyStep DEF Disconnect
    <2> QED BY Zenon, <1>2, <2>1, <2>2, <2>3 DEF Disconnect
  <1>3. CASE TimerFires
    <2>1. CASE active
      <3>1. timers - 1 \in Nat /\ dials' \in 0 .. MaxTries /\ active' = TRUE
        BY <1>0, <1>3, <2>1, BumpFacts DEF TimerFires
      <3> QED BY <1>0, <1>3, <2>1, <3>1, DialStep DEF TimerFires
    <2>2. CASE ~active
      BY <1>0, <1>3, <2>2
      DEF TimerFires, IInv, TypeOK, NeverIdle, ScheduledIsPending, InactiveHasNoCall
    <2> QED BY <2>1, <2>2
  <1>4. CASE TunnelUp
    <2>1. CASE active
      BY <1>0, <1>4, <2>1, DialStep DEF TunnelUp
    <2>2. CASE ~active
      BY <1>0, <1>4, <2>2
      DEF TunnelUp, IInv, TypeOK, NeverIdle, ScheduledIsPending, InactiveHasNoCall
    <2> QED BY <2>1, <2>2
  <1>5. CASE TunnelCloses
    BY <1>0, <1>5, CloseStep DEF TunnelCloses
  <1>6. CASE TunnelEnds
    BY <1>0, <1>6, DestroyStep DEF TunnelEnds
  <1>7. ASSUME NEW c \in Calls, CallUp(c) PROVE IInv'
    BY <1>0, <1>7
    DEF CallUp, IInv, TypeOK, NeverIdle, ScheduledIsPending, InactiveHasNoCall
  <1>8. ASSUME NEW c \in Calls, CallEnds(c) PROVE IInv'
    <2>1. /\ rsched' \in BOOLEAN /\ timers' \in Nat
          /\ active' = active
          /\ active' /\ rsched' => timers' > 0
          /\ active' /\ Redial => timers' > 0
      BY <1>0, <1>8, ScheduleFacts DEF CallEnds, IInv
    <2>2. TypeOK'
      BY <1>0, <1>8, <2>1 DEF CallEnds, TypeOK
    <2>3. NeverIdle' /\ ScheduledIsPending' /\ InactiveHasNoCall'
      BY <1>8, <2>1
      DEF CallEnds, IInv, NeverIdle, ScheduledIsPending, InactiveHasNoCall
    <2> QED BY <2>1, <2>2, <2>3 DEF IInv
  <1>9. CASE UNCHANGED vars
    BY <1>0, <1>9
    DEF vars, IInv, TypeOK, NeverIdle, ScheduledIsPending, InactiveHasNoCall, Exceeded
  <1> QED BY <1>1, <1>2, <1>3, <1>4, <1>5, <1>6, <1>7, <1>8, <1>9 DEF Next

(* The type invariant of the LAC entry. *)
THEOREM LacTypeCorrect == Spec => []TypeOK
  BY InitIInv, NextIInv, PTL DEF Spec, IInv

(* An active LAC entry that redials is never forgotten: it has a call, a   *)
(* tunnel in setup or closing, a pending event, or has used up its tries,  *)
(* unless magic_lac_dial found nothing to dial.                            *)
THEOREM NeverForgotten == Spec => []NeverIdle
  BY InitIInv, NextIInv, PTL DEF Spec, IInv

(* lac->rsched of an active entry is backed by an event in the list, and a *)
(* disconnected entry has no call.                                         *)
THEOREM TimerAndCallsConsistent == Spec => [](ScheduledIsPending /\ InactiveHasNoCall)
  BY InitIInv, NextIInv, PTL DEF Spec, IInv

(* Every attempt begun is counted as a try: the count that magic_lac_dial  *)
(* compares with the limit is never behind.                                *)
DialsCounted == TypeOK /\ dials <= rtries

(* Every step keeps the attempts counted, and dials within the limit. *)
LEMMA NextCounted ==
  ASSUME IInv, DialsCounted, [Next]_vars
  PROVE  /\ (dials <= rtries)'
         /\ [DialWithinMax]_vars
  <1>0. /\ rtries \in 0 .. MaxTries /\ dials \in 0 .. MaxTries /\ dials <= rtries
        /\ MaxTries \in Nat /\ rmax \in Nat /\ MaxTries > rmax
    BY DialAssumption DEF DialsCounted, TypeOK
  <1>1. ASSUME NEW rt, NEW ev, NEW next, Dial(rt, ev, next), dials' <= rtries',
               dials' \in Nat, rtries' \in Nat, next = "none" <=> tunnel = "none"
        PROVE  DialWithinMax
    BY <1>0, <1>1 DEF Dial, DialWithinMax, Exceeded, ScheduleRedial
  <1>2. CASE Connect
    <2>1. CASE lacC = NoCall
      <3>1. rtries' = 1 /\ dials' = 1
        BY <1>0, <1>2, <2>1 DEF Connect, Dial, Bump
      <3> QED BY <1>1, <1>2, <2>1, <3>1 DEF Connect
    <2>2. CASE lacC # NoCall
      BY <1>2, <2>2 DEF Connect, DialWithinMax
    <2> QED BY <2>1, <2>2
  <1>3. CASE TimerFires
    <2>1. CASE active
      <3>1. /\ rtries' = Bump(rtries) /\ dials' = Bump(dials)
            /\ Dial(rtries, timers - 1, tunnel)
        BY Zenon, <1>3, <2>1 DEF TimerFires, Dial
      <3>2. rtries' \in Nat /\ dials' \in Nat /\ dials' <= rtries'
        BY <1>0, <3>1 DEF Bump
      <3> QED BY <1>1, <3>1, <3>2
    <2>2. CASE ~active
      BY <1>0, <1>3, <2>2 DEF TimerFires, DialWithinMax
    <2> QED BY <2>1, <2>2
  <1>4. CASE TunnelUp
    <2>1. CASE active
      <3>1. rtries' = Bump(rtries) /\ dials' = dials /\ Dial(rtries, timers, "SCCCN")
        BY <1>4, <2>1 DEF TunnelUp, Dial
      <3>2. rtries' \in Nat /\ dials' \in Nat /\ dials' <= rtries'
        BY <1>0, <3>1 DEF Bump
      <3> QED BY <1>1, <1>4, <3>1, <3>2 DEF TunnelUp
    <2>2. CASE ~active
      BY <1>0, <1>4, <2>2 DEF TunnelUp, DialWithinMax
    <2> QED BY <2>1, <2>2
  <1>5. CASE Disconnect
    <2>1. rtries' = 0 /\ dials' = 0
      BY <1>5 DEF Disconnect
    <2>2. DialWithinMax
      BY <1>0, <2>1 DEF DialWithinMax
    <2> QED BY <2>1, <2>2
  <1>6. CASE TunnelCloses \/ TunnelEnds
    BY <1>0, <1>6
    DEF TunnelCloses, TunnelEnds, DialWithinMax, CallCloseTunnel, DestroyTunnel
  <1>7. ASSUME NEW c \in Calls, CallUp(c) \/ CallEnds(c)
        PROVE  (dials <= rtries)' /\ DialWithinMax
    BY <1>0, <1>7 DEF CallUp, CallEnds, DialWithinMax
  <1>8. CASE UNCHANGED vars
    BY <1>0, <1>8 DEF vars
  <1> QED BY <1>2, <1>3, <1>4, <1>5, <1>6, <1>7, <1>8 DEF Next

(* 'max redials' bounds the attempts: nothing is dialled past the limit. *)
THEOREM LimitRespected == Spec => NoDialPastMax
  <1>1. Init => dials <= rtries
    BY DEF Init
  <1>2. IInv /\ dials <= rtries /\ [Next]_vars
          => (dials <= rtries)' /\ [DialWithinMax]_vars
    BY NextCounted DEF DialsCounted, IInv
  <1> QED BY <1>1, <1>2, InitIInv, NextIInv, PTL DEF Spec, NoDialPastMax

(* An attempt makes at most two tries, one for the tunnel and one when it  *)
(* is up; a tunnel in setup has the second still to come, also when the    *)
(* counts were reset in between.                                           *)
TriesPerAttempt ==
  rtries <= 2 * dials + 1 /\ (tunnel = "SCCRQ" => rtries <= 2 * dials)

(* Every step keeps the tries within two for an attempt. *)
LEMMA NextTries ==
  ASSUME TypeOK, TypeOK', TriesPerAttempt, [Next]_vars
  PROVE  TriesPerAttempt'
  <1>0. /\ rtries \in 0 .. MaxTries /\ dials \in 0 .. MaxTries
        /\ rtries' \in 0 .. MaxTries /\ dials' \in 0 .. MaxTries
        /\ MaxTries \in Nat
        /\ rtries <= 2 * dials + 1
        /\ tunnel = "SCCRQ" => rtries <= 2 * dials
    BY DialAssumption DEF TypeOK, TriesPerAttempt
  <1>1. CASE rtries' = 0
    <2>1. \A d \in 0 .. MaxTries : 0 <= 2 * d /\ 0 <= 2 * d + 1
      BY <1>0
    <2> QED BY Zenon, <1>0, <1>1, <2>1 DEF TriesPerAttempt
  <1>2. CASE rtries' = 1 /\ dials' = 1
    BY <1>0, <1>2 DEF TriesPerAttempt
  <1>3. CASE rtries' = Bump(rtries) /\ dials' = Bump(dials)
    BY <1>0, <1>3 DEF Bump, TriesPerAttempt
  <1>4. CASE /\ tunnel = "SCCRQ" /\ tunnel' = "SCCCN"
             /\ rtries' \in {rtries, Bump(rtries)} /\ dials' = dials
    BY <1>0, <1>4 DEF Bump, TriesPerAttempt
  <1>5. CASE /\ rtries' = rtries /\ dials' = dials
             /\ tunnel' \in {tunnel, "none"}
    BY <1>0, <1>5 DEF TriesPerAttempt
  <1>6. ASSUME Connect PROVE TriesPerAttempt'
    <2>1. CASE lacC = NoCall
      <3>1. rtries' = Bump(0) /\ dials' = 1
        BY Zenon, <1>6, <2>1 DEF Connect, Dial
      <3>2. Bump(0) = 1
        BY DialAssumption DEF Bump
      <3> QED BY Zenon, <1>2, <3>1, <3>2
    <2>2. CASE lacC # NoCall
      BY Zenon, <1>1, <1>6, <2>2 DEF Connect
    <2> QED BY <2>1, <2>2
  <1>7. ASSUME TimerFires PROVE TriesPerAttempt'
    <2>1. CASE active
      BY Zenon, <1>3, <1>7, <2>1 DEF TimerFires, Dial
    <2>2. CASE ~active
      <3>1. rtries' = rtries /\ dials' = dials /\ tunnel' = tunnel
        BY Zenon, <1>7, <2>2 DEF TimerFires
      <3> QED BY <1>5, <3>1
    <2> QED BY <2>1, <2>2
  <1>8. ASSUME TunnelUp PROVE TriesPerAttempt'
    <2>1. tunnel = "SCCRQ" /\ dials' = dials
      BY Zenon, <1>8 DEF TunnelUp
    <2>2. CASE active
      <3>1. rtries' = Bump(rtries) /\ Dial(rtries, timers, "SCCCN")
        BY Zenon, <1>8, <2>2 DEF TunnelUp, Dial
      <3>2. tunnel # "none"
        BY <2>1
      <3>3. tunnel' = "SCCCN"
        BY <3>1, <3>2 DEF Dial
      <3> QED BY Zenon, <1>4, <2>1, <3>1, <3>3
    <2>3. CASE ~active
      BY Zenon, <1>4, <1>8, <2>1, <2>3 DEF TunnelUp
    <2> QED BY <2>2, <2>3
  <1>9. ASSUME Disconnect PROVE TriesPerAttempt'
    BY Zenon, <1>1, <1>9 DEF Disconnect
  <1>10. ASSUME TunnelCloses \/ TunnelEnds PROVE TriesPerAttempt'
    BY Zenon, <1>5, <1>10
    DEF TunnelCloses, TunnelEnds, CallCloseTunnel, DestroyTunnel
  <1>11. ASSUME NEW c \in Calls, CallUp(c) \/ CallEnds(c)
         PROVE  TriesPerAttempt'
    BY Zenon, <1>1, <1>5, <1>11 DEF CallUp, CallEnds
  <1>12. ASSUME UNCHANGED vars PROVE TriesPerAttempt'
    BY Zenon, <1>5, <1>12 DEF vars
  <1> QED
    BY Zenon, <1>6, <1>7, <1>8, <1>9, <1>10, <1>11, <1>12 DEF Next

(* However the limit, it is not reached in fewer than half as many         *)
(* attempts (magic_lac_dial runs, and counts, twice for one attempt).      *)
THEOREM HalfTheAttempts == Spec => []GivesUpLate
  <1>1. Init => TriesPerAttempt
    BY DEF Init, TriesPerAttempt
  <1>2. IInv /\ IInv' /\ TriesPerAttempt /\ [Next]_vars => TriesPerAttempt'
    BY Zenon, NextTries DEF IInv
  <1>3. IInv /\ TriesPerAttempt => GivesUpLate
    BY DialAssumption DEF IInv, TypeOK, TriesPerAttempt, GivesUpLate, Exceeded
  <1> QED BY <1>1, <1>2, <1>3, InitIInv, NextIInv, PTL DEF Spec
=============================================================================
