---------------------------- MODULE MCDappClient ----------------------------
(* Two starts, one listener, two URLs, and two lost sockets.                 *)
EXTENDS DappClient

CONSTANTS u, v
TwoUrls == <<u, v>>
=============================================================================
