-------------------------- MODULE MCControlChannel --------------------------
(***************************************************************************)
(* Small instances of ControlChannel.                                      *)
(***************************************************************************)
EXTENDS ControlChannel

(* The numbers of a tunnel just set up: SCCRQ and SCCCN from the LAC,      *)
(* SCCRP from the LNS.                                                     *)
AfterSetup == [e \in Ends |-> IF e = "lac" THEN 2 ELSE 1]

(* A tunnel two messages before its numbers wrap.                          *)
BeforeWrap == [e \in Ends |-> SeqMod - 2]
=============================================================================
