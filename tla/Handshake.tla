----------------------------- MODULE Handshake -----------------------------
(***************************************************************************)
(* What setting up tunnels promises, without messages: a tunnel of the LAC *)
(* is joined to one tunnel of the LNS, first at the LAC and then, at most  *)
(* once, at the LNS; an end that asks for authentication joins only if     *)
(* both ends have the same secret.                                         *)
(***************************************************************************)
CONSTANTS
  LacTids, LnsTids      \* the tunnels the LAC and the LNS can make

VARIABLES
  lacTrusts, lnsTrusts, \* may the LAC, and the LNS, join at all?
  up                    \* the triples <<end, LAC tunnel, LNS tunnel>> joined

vars == <<lacTrusts, lnsTrusts, up>>

Init ==
  /\ lacTrusts \in BOOLEAN /\ lnsTrusts \in BOOLEAN
  /\ up = {}

JoinLac(l, t) ==
  /\ lacTrusts
  /\ \A u \in LnsTids : <<"lac", l, u>> \notin up
  /\ up' = up \cup {<<"lac", l, t>>}
  /\ UNCHANGED <<lacTrusts, lnsTrusts>>

JoinLns(l, t) ==
  /\ lnsTrusts
  /\ <<"lac", l, t>> \in up
  /\ \A k \in LacTids : <<"lns", k, t>> \notin up
  /\ \A u \in LnsTids : <<"lns", l, u>> \notin up
  /\ up' = up \cup {<<"lns", l, t>>}
  /\ UNCHANGED <<lacTrusts, lnsTrusts>>

Next == \E l \in LacTids, t \in LnsTids : JoinLac(l, t) \/ JoinLns(l, t)

Spec == Init /\ [][Next]_vars
=============================================================================
