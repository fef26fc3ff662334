----------------------------- MODULE MCMcpServer -----------------------------
(***************************************************************************)
(* A small instance of McpServer: a module named twice among the paths,    *)
(* a plugin for each hook and one for both, two calls.                     *)
(***************************************************************************)
EXTENDS McpServer

CONSTANTS p1, p2, p3, c1, c2

MCPlugins == {p1, p2, p3}
MCPaths == <<p1, p2, p1, p3>>
MCHooksOf ==
    (p1 :> {"afterPublish"}) @@ (p2 :> HookName) @@ (p3 :> {"beforePublish"})
MCCalls == {c1, c2}
===============================================================================
