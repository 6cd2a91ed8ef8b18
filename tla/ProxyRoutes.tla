---------------------------- MODULE ProxyRoutes ----------------------------
(***************************************************************************)
(* Which of opencode's routes a viewer's request may take: the relay's     *)
(* table (relay/src/proxy/adapter.ts, 34-184) with the paths its own       *)
(* handlers build, and the bridge's (bridge/src/relay.ts, 303-620), which  *)
(* is derived anew on the owner's machine.  They ship separately.          *)
(*                                                                         *)
(* A route is a method and a path without the prefix /api: the relay       *)
(* mounts, and the bridge lets through, each path with and without it.     *)
(***************************************************************************)

Gets(paths)  == {"GET"} \X paths
Posts(paths) == {"POST"} \X paths

SessionGets == {"/session/:id", "/session/:id/message", "/session/:id/message/:messageID",
                "/session/:id/todo", "/session/:id/children", "/session/:id/diff"}
SessionPosts == {"/session/:id/message", "/session/:id/prompt_async", "/session/:id/abort",
                 "/session/:id/command", "/session/:id/shell", "/session/:id/summarize",
                 "/session/:id/revert", "/session/:id/unrevert",
                 "/session/:id/permissions/:permissionID"}

PromptRoute     == <<"POST", "/session/:id/prompt_async">>
DetailRoute     == <<"GET", "/session/:id">>
PermissionRoute == <<"POST", "/session/:id/permissions/:permissionID">>
QuestionRoutes  == Posts({"/question/:requestID/reply", "/question/:requestID/reject"})

---------------------------------------------------------------------------
(* The relay *)

RelayAllowedRoutes ==
  Gets(SessionGets) \cup Posts(SessionPosts) \cup QuestionRoutes \cup Posts({"/log"})
  \cup Gets({"/agent", "/command", "/config", "/config/providers", "/provider", "/provider/auth",
             "/project/current", "/path", "/vcs", "/vcs/diff", "/mcp", "/lsp", "/formatter",
             "/experimental/tool", "/experimental/tool/ids", "/file", "/file/content", "/file/status",
             "/find", "/find/file", "/find/symbol", "/global/config", "/experimental/resource",
             "/experimental/capabilities", "/experimental/workspace", "/reference", "/skill"})

RelaySubagentRoutes ==
  {"/session/:id", "/session/:id/message", "/session/:id/message/:messageID", "/session/:id/todo",
   "/session/:id/diff", "/session/:id/permissions/:permissionID"}

\* What the handlers ask for that filter or wrap the answer.
RelayHandlerRoutes == Gets({"/project", "/project/current", "/permission", "/question", "/session/status"})
\* The walk up to the share, the look for a prompt that may have landed, and what
\* is read when a bridge comes back.
RelayOwnRoutes == Gets({"/session/:id", "/session/:id/message", "/session/:id/message/:messageID"})

Forwarded == RelayAllowedRoutes \cup RelayHandlerRoutes \cup RelayOwnRoutes

\* readableSessionId, of an id that is the share's: the id that goes into the path.
Target(route, id, bound) == IF route[2] \in RelaySubagentRoutes THEN id ELSE bound

---------------------------------------------------------------------------
(* The bridge *)

BridgeProxyRoutes ==
  Gets(SessionGets) \cup Posts(SessionPosts) \cup QuestionRoutes \cup Posts({"/log"})
  \cup Gets({"/agent", "/command", "/config", "/config/providers", "/provider", "/provider/auth",
             "/project", "/project/current", "/path", "/vcs", "/vcs/diff", "/mcp", "/lsp", "/formatter",
             "/experimental/tool", "/experimental/tool/ids", "/file", "/file/content", "/file/status",
             "/find", "/find/file", "/find/symbol", "/global/health", "/global/config", "/question",
             "/experimental/resource", "/experimental/capabilities", "/experimental/workspace",
             "/reference", "/skill", "/permission", "/session/status"})

BridgeSubagentRoutes ==
  {"/session/:id", "/session/:id/message", "/session/:id/message/:messageID", "/session/:id/todo",
   "/session/:id/diff", "/session/:id/permissions/:permissionID"}

TakesSession(route) == route[2] \in SessionGets \cup SessionPosts

IsAllowedSessionSegment(route, id, bound) == id = bound \/ route[2] \in BridgeSubagentRoutes

MatchProxyRoute(route, id, bound) ==
  /\ route \in BridgeProxyRoutes
  /\ TakesSession(route) => IsAllowedSessionSegment(route, id, bound)

---------------------------------------------------------------------------
(* What the relay sends for a session of the share, the bridge lets through: *)
(* its table is a superset of the relay's, template for template.            *)
BridgeTakesWhatRelaySends(sessions, bound) ==
  \A route \in Forwarded, id \in sessions \cup {bound} :
    MatchProxyRoute(route, Target(route, id, bound), bound)
=============================================================================
