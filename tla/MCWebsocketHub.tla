---------------------------- MODULE MCWebsocketHub ----------------------------
(***************************************************************************)
(* A finite instance of WebsocketHub for TLC.                              *)
(***************************************************************************)
EXTENDS WebsocketHub

CONSTANT c1

MCConns == {c1}

MCPolicies == {"oldest", "newest", "disconnect"}
=============================================================================
