--------------------------- MODULE MCPing360Session ---------------------------
(***************************************************************************)
(* The links and firmwares for which Ping360Session is checked.            *)
(***************************************************************************)
EXTENDS Ping360Session

MCSetups == {"serial", "udp"} \X {"legacy", "async"}
MCUdp    == {<<"udp", "async">>}
=============================================================================
