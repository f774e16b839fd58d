--------------------------- MODULE MCWebSocketFanout ---------------------------
(***************************************************************************)
(* Instances of WebSocketFanout for TLC: three connections, so that one    *)
(* can leave and one join while a broadcast awaits the send to another.    *)
(***************************************************************************)
EXTENDS WebSocketFanout

CONSTANTS c1, c2, c3, HPG, FPT

ThreeSockets == {c1, c2, c3}
================================================================================
