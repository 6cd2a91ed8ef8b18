-------------------------- MODULE TranscriptReplay --------------------------
(***************************************************************************)
(* How an open viewer is caught up after its bridge lost the link          *)
(* (relay/src/proxy/adapter.ts, resyncViewers, replayEvents,               *)
(* isStreamingPart): the latest messages are fetched and sent like live    *)
(* events, over what the viewer's page has built up by then.               *)
(*                                                                         *)
(* A text grows by one delta at a time, and its length stands for it; a    *)
(* record (a message's info, a tool's state) is stored and sent with every *)
(* change, and its version stands for it.  What the page shows of a part   *)
(* it knows follows the deltas, and is replaced by a part sent whole.      *)
(***************************************************************************)
EXTENDS Naturals

CONSTANTS
  Texts,      \* text and reasoning parts of the shared session
  Records,    \* what else its messages hold
  Unknown,    \* of a part that the page was not told of
  MaxLength   \* bound: deltas of a text, changes of a record

VARIABLES
  stage,  \* of each part, in opencode: "absent", "open", "ended"
  value,  \* its text or version there
  old,    \* an opencode that stores a text with every delta, and sends that copy
  linked,   \* the bridge's
  resync,   \* a resync: "off", "asked", "read": opencode has answered, or "replaying"
  onceMore,  \* the link came back meanwhile
  todo,   \* the parts a replay has yet to send
  copy,   \* what it answered: each part's phase and value
  shown   \* of each part, what the page shows

replayVars == <<stage, value, old, linked, resync, onceMore, todo, copy, shown>>
\* What opencode's events leave alone.
resyncVars == <<linked, resync, onceMore, todo, copy>>

Parts == Texts \cup Records

\* What the theorem assumes of the constants.
PartsDiffer == Texts \cap Records = {} /\ MaxLength \in Nat /\ Unknown \notin Nat

ReplayTypeOK ==
  /\ stage \in [Parts -> {"absent", "open", "ended"}] /\ value \in [Parts -> Nat]
  /\ old \in BOOLEAN /\ linked \in BOOLEAN /\ onceMore \in BOOLEAN
  /\ resync \in {"off", "asked", "read", "replaying"} /\ todo \subseteq Parts
  /\ copy \in [Parts -> [stage : {"absent", "open", "ended"}, value : Nat]]
  /\ shown \in [Parts -> Nat \cup {Unknown}]

Snapshot == [p \in Parts |-> [stage |-> stage[p], value |-> value[p]]]

ReplayInit ==
  /\ stage = [p \in Parts |-> "absent"] /\ value = [p \in Parts |-> 0]
  /\ old \in BOOLEAN /\ linked = TRUE
  /\ resync = "off" /\ onceMore = FALSE /\ todo = {} /\ copy = Snapshot
  /\ shown = [p \in Parts |-> Unknown]

---------------------------------------------------------------------------
(* opencode's events: those of an outage reach nobody *)

Sends(p, v) == shown' = IF linked THEN [shown EXCEPT ![p] = v] ELSE shown

Starts(p) ==
  /\ stage[p] = "absent"
  /\ stage' = [stage EXCEPT ![p] = "open"]
  /\ Sends(p, 0)
  /\ UNCHANGED <<value, old, resyncVars>>

\* A page appends a delta to what it has, holes or not.
Delta(p) ==
  /\ p \in Texts /\ stage[p] = "open" /\ value[p] < MaxLength
  /\ value' = [value EXCEPT ![p] = @ + 1]
  /\ IF old THEN Sends(p, value'[p])
     ELSE IF shown[p] = Unknown THEN UNCHANGED shown
     ELSE Sends(p, shown[p] + 1)
  /\ UNCHANGED <<stage, old, resyncVars>>

Changes(p) ==
  /\ p \in Records /\ stage[p] = "open" /\ value[p] < MaxLength
  /\ value' = [value EXCEPT ![p] = @ + 1]
  /\ Sends(p, value'[p])
  /\ UNCHANGED <<stage, old, resyncVars>>

Ends(p) ==
  /\ stage[p] = "open"
  /\ stage' = [stage EXCEPT ![p] = "ended"]
  /\ Sends(p, value[p])
  /\ UNCHANGED <<value, old, resyncVars>>

---------------------------------------------------------------------------
(* The link and the resync *)

Feed == <<stage, value, old>>

\* A request under way fails, a replay goes on.
LinkDrops ==
  /\ linked
  /\ linked' = FALSE
  /\ resync' = IF resync = "replaying" THEN resync ELSE "off"
  /\ UNCHANGED <<Feed, onceMore, todo, copy, shown>>

LinkIsBack ==
  /\ ~linked
  /\ linked' = TRUE
  /\ IF resync = "replaying" THEN onceMore' = TRUE /\ UNCHANGED resync ELSE resync' = "asked" /\ UNCHANGED onceMore
  /\ UNCHANGED <<Feed, todo, copy, shown>>

\* opencode answers the bridge; events overtake the answer on its way to the relay.
TranscriptIsRead ==
  /\ resync = "asked"
  /\ resync' = "read" /\ copy' = Snapshot
  /\ UNCHANGED <<Feed, linked, onceMore, todo, shown>>

\* isStreamingPart
IsStreaming(p, c) == p \in Texts /\ c.stage = "open"

\* replayEvents
ReplayBegins ==
  /\ resync = "read"
  /\ resync' = "replaying"
  /\ todo' = {p \in Parts : copy[p].stage # "absent" /\ ~IsStreaming(p, copy[p])}
  /\ UNCHANGED <<Feed, linked, onceMore, copy, shown>>

\* One event, when the stream has drained: live ones go out in between.
ReplayPart(p) ==
  /\ p \in todo
  /\ todo' = todo \ {p}
  /\ shown' = [shown EXCEPT ![p] = copy[p].value]
  /\ UNCHANGED <<Feed, linked, resync, onceMore, copy>>

\* A dial that came meanwhile is one more pass; its request fails without a link.
ReplayEnds ==
  /\ resync = "replaying" /\ todo = {}
  /\ resync' = IF onceMore /\ linked THEN "asked" ELSE "off"
  /\ onceMore' = FALSE
  /\ UNCHANGED <<Feed, linked, todo, copy, shown>>

ReplayNext ==
  \/ \E p \in Parts : Starts(p) \/ Delta(p) \/ Changes(p) \/ Ends(p) \/ ReplayPart(p)
  \/ LinkDrops \/ LinkIsBack \/ TranscriptIsRead \/ ReplayBegins \/ ReplayEnds

ReplaySpec == ReplayInit /\ [][ReplayNext]_replayVars

---------------------------------------------------------------------------
(* Properties *)

\* Nothing a viewer has read of an answer is taken back by a replay, whatever
\* was written while the transcript was on its way (adapter.ts:2416-2425).
ReadTextStays == [][\A p \in Texts : shown[p] # Unknown => shown'[p] # Unknown /\ shown'[p] >= shown[p]]_replayVars

\* "Whole at that point" (adapter.ts:2133-2134): once a replay is through, a text that
\* had ended when it was read is shown as it is.
EndedTextIsWhole ==
  (resync = "replaying" /\ todo = {}) => \A p \in Texts : copy[p].stage = "ended" => shown[p] = value[p]

\* The same for a record: one that changes while the transcript is on its way is put
\* back to what it was.
ShownRecordsStay == [][\A p \in Records : shown[p] # Unknown => shown'[p] # Unknown /\ shown'[p] >= shown[p]]_replayVars
=============================================================================
