--------------------------- MODULE MCTunnelSetup ---------------------------
(* The configurations TLC looks at, one for each way a set-up can end. *)
EXTENDS TunnelSetup

Conf(lacSecret, lnsSecret, lacChallenge, lnsChallenge, allowed) ==
  [lacSecret |-> lacSecret, lnsSecret |-> lnsSecret,
   lacChallenge |-> lacChallenge, lnsChallenge |-> lnsChallenge,
   allowed |-> allowed]

(* The two ends authenticate each other. *)
Same == Conf("s", "s", TRUE, TRUE, TRUE)

MCConfs ==
  {Same,
   Conf("s", "other", TRUE, TRUE, TRUE),       \* the LAC refuses the LNS
   Conf("s", "other", FALSE, TRUE, TRUE),      \* the LNS refuses the LAC
   Conf(NoSecret, "s", FALSE, TRUE, TRUE),     \* the LAC cannot answer
   Conf("s", NoSecret, FALSE, TRUE, TRUE),     \* the LNS cannot ask
   Conf("s", "s", TRUE, TRUE, FALSE)}          \* get_lns finds no LNS
=============================================================================
