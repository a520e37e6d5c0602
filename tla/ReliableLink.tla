---------------------------- MODULE ReliableLink ----------------------------
(***************************************************************************)
(* What a control channel promises its two ends, as long as its sequence   *)
(* numbers do not wrap: messages are numbered and processed in order, each *)
(* once; an acknowledgement only covers processed messages; an end that    *)
(* has gone away does nothing more.                                        *)
(***************************************************************************)
EXTENDS Integers

CONSTANTS
  Ends,         \* the two ends of the link
  Peer(_),      \* the other end
  Start         \* messages each end has sent before the start

VARIABLES
  sent,         \* messages an end has sent
  rcvd,         \* messages of its peer an end has processed
  acked,        \* how many of its messages an end knows to be processed
  up            \* has the end not gone away?

linkVars == <<sent, rcvd, acked, up>>

LinkInit ==
  /\ sent = Start
  /\ rcvd = [e \in Ends |-> Start[Peer(e)]]
  /\ acked = Start
  /\ up = [e \in Ends |-> TRUE]

Send(e) ==
  /\ up[e]
  /\ sent' = [sent EXCEPT ![e] = @ + 1]
  /\ UNCHANGED <<rcvd, acked, up>>

(* What a packet tells about acknowledgements may be out of date.          *)
LearnAck(e) == \E a \in 0 .. rcvd[Peer(e)] : acked' = [acked EXCEPT ![e] = a]

Process(e) ==
  /\ up[e]
  /\ rcvd[e] < sent[Peer(e)]
  /\ rcvd' = [rcvd EXCEPT ![e] = @ + 1]
  /\ LearnAck(e)
  /\ UNCHANGED <<sent, up>>

Acknowledge(e) ==
  /\ up[e]
  /\ LearnAck(e)
  /\ UNCHANGED <<sent, rcvd, up>>

(* An end goes away, perhaps after a last message.                         *)
GoAway(e) ==
  /\ up[e]
  /\ up' = [up EXCEPT ![e] = FALSE]
  /\ sent' = sent \/ sent' = [sent EXCEPT ![e] = @ + 1]
  /\ UNCHANGED <<rcvd, acked>>

LinkNext == \E e \in Ends : Send(e) \/ Process(e) \/ Acknowledge(e) \/ GoAway(e)

LinkSpec == LinkInit /\ [][LinkNext]_linkVars
=============================================================================
