-------------------------- MODULE MCBridgeRequests --------------------------
(* The shared session, a subagent, a subagent of that and a session that has *)
(* nothing to do with them; a message of each kind, and a prompt.            *)
EXTENDS BridgeRequests

CONSTANTS child, grandchild, other, childsMessage, othersMessage, othersPart, childsPrompt, othersPrompt

MCParentOf == child :> Bound @@ grandchild :> child @@ other :> None

MCOwnerOf ==
  childsMessage :> child @@ othersMessage :> other @@ othersPart :> other @@ childsPrompt :> grandchild @@ othersPrompt :> other

MCHellos == {[gzip |-> TRUE, cap |-> 5], [gzip |-> TRUE, cap |-> 2], [gzip |-> FALSE, cap |-> None]}

Ask(route, at, names) == [route |-> route, at |-> at, names |-> names]

\* Details are read and prompts sent all over the place, a permission and a
\* question are answered; /pty is nobody's route.
MCAsked ==
  {Ask(DetailRoute, s, None) : s \in {grandchild, other}}
  \cup {Ask(PromptRoute, child, None)}
  \cup {Ask(PromptRoute, Bound, o) : o \in {childsMessage, othersMessage, othersPart}}
  \cup {Ask(PermissionRoute, s, childsPrompt) : s \in {child, other}}
  \cup {Ask(<<"POST", "/question/:requestID/reply">>, None, othersPrompt)}
  \cup {Ask(r, None, None) : r \in Gets({"/agent", "/pty"})}

\* What the relay sends for these sessions is let through, route for route.
ASSUME TablesAgree == BridgeTakesWhatRelaySends({child, grandchild}, Bound)

RequestSymmetry == Permutations(Requests)
=============================================================================
