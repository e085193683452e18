--------------------------- MODULE MCUpstreamFlow ---------------------------
(***************************************************************************)
(* Three requests, the first an initialize: without it nothing else gets   *)
(* past the server.  Requests of one method are alike, so their order is   *)
(* fixed.                                                                  *)
(***************************************************************************)
EXTENDS UpstreamFlow, TLC

CONSTANTS q1, q2, q3

Program(m2, m3) == q1 :> "initialize" @@ q2 :> m2 @@ q3 :> m3

MCPrograms ==
  { Program("initialize", "tools/call"),
    Program("tools/list", "tools/call"),
    Program("tools/call", "tools/call") }

MCEnvironments ==
  { {"overlap", "crash"}, {"restart", "crash"}, {"overlap", "restart"},
    {"overlap", "error", "badRequest"}, {"error", "rpcError", "restart"} }

TwoCalls == { Program("tools/call", "tools/call") }

Overlap == {{"overlap", "restart"}}

OneList == { q1 :> "initialize" @@ q2 :> "tools/list" }

Errors == {{"rpcError"}}
=============================================================================
