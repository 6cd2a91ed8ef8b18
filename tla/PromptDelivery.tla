--------------------------- MODULE PromptDelivery ---------------------------
(***************************************************************************)
(* A viewer's prompt, and the look-up that follows when its answer is lost *)
(* (relay/src/proxy/adapter.ts, proxyPrompt and promptLanded), over the    *)
(* hub that carries both.                                                  *)
(*                                                                         *)
(* What runs in the turn of the event that failed the prompt, or brought   *)
(* the bridge back, is a step of its own here that no other precedes.      *)
(***************************************************************************)
EXTENDS BridgeHub

CONSTANTS
  Prompt,   \* a POST of kind "checked"
  Look      \* the GET that looks it up; where there is no prompt, any viewer's GET

ASSUME PromptIsLookedUp ==
  /\ {Prompt, Look} \subseteq Requests
  /\ KindOf[Prompt] = "checked" /\ KindOf[Look] = "get"

VARIABLES
  lookup,   \* "off", "due", "waiting" for the bridge, "asking", "landed" or "missing"
  found,    \* whether the message was there when the bridge ran an attempt of the look-up
  ranFirst  \* history: the prompt had run when it was looked up

lookupVars == <<lookup, found, ranFirst>>
promptVars == <<vars, lookupVars>>

Attempts == {1, 2}

LookupTypeOK ==
  /\ lookup \in {"off", "due", "waiting", "asking", "landed", "missing"}
  /\ found \in [Attempts -> BOOLEAN] /\ ranFirst \in BOOLEAN

PromptInit ==
  /\ Init
  /\ lookup = "off" /\ found = [a \in Attempts |-> FALSE] /\ ranFirst = FALSE

Asked(r) == req[r].phase # "idle"

\* Bound: a prompt is the only request beside its look-up, and its 204 is not
\* compressed.
PromptIsAlone ==
  Asked(Prompt) => /\ \A r \in Requests \ {Prompt, Look} : ~Asked(r)
                   /\ Asked(Look) => lookup \in {"asking", "landed", "missing"}
                   /\ req[Prompt].phase # "inflating"

\* LOST_ANSWER_ERRORS: the prompt failed after it was sent.  One that found no bridge
\* never left the relay, and a share that ended is not asked.
AnswerIsLost ==
  /\ Pending(Prompt)
  /\ req'[Prompt].phase = "done" /\ req'[Prompt].outcome \in {"lost", "timeout"}

Verdict(q) == IF q.outcome = "answered" /\ found[q.attempt] THEN "landed" ELSE "missing"

\* What the hub's step makes of the look-up: a disconnect wakes the wait for nothing.
Follow ==
  CASE AnswerIsLost -> "due"
    [] lookup = "waiting" /\ IsConnected' -> "due"
    [] lookup = "waiting" /\ (Replace \/ Stop) -> "missing"
    [] lookup = "asking" /\ req'[Look].phase = "done" -> Verdict(req'[Look])
    [] OTHER -> lookup

\* The bridge runs an attempt of the look-up; that of another registration may answer
\* anything.
Finds ==
  LET looked == {m \in sent \ sent' : m.r = Look} IN
  \E there \in BOOLEAN :
    /\ \A m \in looked : m.reg = req[Prompt].reg => there = (runs[Prompt] > 0)
    /\ found' = [a \in Attempts |->
                   CASE lookup' # "asking" -> FALSE
                     [] lookup' = "asking" /\ \E m \in looked : m.attempt = a -> there
                     [] OTHER -> found[a]]

HubStep ==
  /\ lookup # "due"
  /\ Next
  /\ lookup' = Follow
  /\ PromptIsAlone'
  /\ Finds
  /\ UNCHANGED ranFirst

\* Mutant: whoever holds the id by now is asked.
AnyBridge(q) == TRUE

SameBridge(q) == SameRegistration(q)

\* promptLanded, up to its request.
LookUp ==
  /\ lookup = "due"
  /\ IF IsConnected /\ SameBridge(req[Prompt])
     THEN Ask(Look) /\ lookup' = "asking" /\ ranFirst' = (runs[Prompt] > 0)
     ELSE /\ lookup' = IF IsConnected THEN "missing" ELSE "waiting"
          /\ UNCHANGED <<vars, ranFirst>>
  /\ UNCHANGED found

LookTimesOut ==
  /\ lookup = "waiting"
  /\ lookup' = "missing"
  /\ UNCHANGED <<vars, found, ranFirst>>

PromptNext == HubStep \/ LookUp \/ LookTimesOut

\* The hub's fairness, and the turn is run to its end.
PromptSpec ==
  /\ PromptInit /\ [][PromptNext]_promptVars
  /\ WF_promptVars(LookUp)
  /\ \A s \in Sockets : WF_vars(CloseEvent(s))
  /\ \A r \in Requests : WF_vars(WaitTimesOut(r)) /\ WF_vars(Inflated(r))

---------------------------------------------------------------------------
(* Properties *)

(* A prompt whose answer was lost is reported as sent only if the share's     *)
(* bridge ran it, and as not sent, against the bridge's own answer, never if  *)
(* it had run by then (adapter.ts:1122-1129, 1161-1168).                      *)
PromptIsToldTheTruth ==
  [][/\ lookup' = "landed" => runs'[Prompt] > 0
     /\ (lookup' = "missing" /\ ranFirst') => req'[Look].outcome # "answered"]_promptVars

(* The hub's promises hold with the look-up's requests among the others: no  *)
(* prompt runs twice, and what its viewer is told is true.                   *)
CallersAreTold == CallersAreServed /\ []LookupTypeOK /\ PromptIsToldTheTruth
=============================================================================
