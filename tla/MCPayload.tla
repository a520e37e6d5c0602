----------------------------- MODULE MCPayload -----------------------------
(* Values for the constants of Payload: frames of bytes that have to be    *)
(* escaped and of bytes that have not; the second that comes in is too big *)
(* for the buffer of write_packet.                                         *)
EXTENDS Payload

MCOutgoing == {<<126>>}

MCIncoming == {<<125, 94>>, <<1, 126, 125, 126>>}

MCFcs == {<<66, 1>>}
=============================================================================
