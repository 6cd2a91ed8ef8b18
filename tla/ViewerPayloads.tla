--------------------------- MODULE ViewerPayloads ---------------------------
(***************************************************************************)
(* Which of opencode's events a share's viewers are sent                   *)
(* (relay/src/proxy/adapter.ts, eventBelongsToSession), the subagents the   *)
(* events teach the relay, and the count of what was left out               *)
(* (relay/src/proxy/event-drops.ts).                                        *)
(*                                                                         *)
(* Events are those of a truthful opencode: one that names a session's     *)
(* parent names the one it has.  They arrive in any order, some never.      *)
(***************************************************************************)
EXTENDS Naturals, FiniteSets

CONSTANTS
  Sessions,      \* the sessions of the owner's opencode
  Own,           \* the shared one
  NoParent,      \* no session
  Kinds,         \* event types
  SessionKinds,  \* those that begin with "session."
  FamilyKinds,   \* session.created and session.updated
  GlobalKinds,   \* GLOBAL_EVENT_KINDS
  Other,         \* OVERFLOW_KEY
  MaxKinds,      \* MAX_KINDS
  MaxDrops       \* bound: events of a kind that are dropped

\* What the source makes of the constants; the theorems assume it.
KindsAreSet ==
  /\ Own \in Sessions /\ NoParent \notin Sessions
  /\ FamilyKinds \subseteq SessionKinds /\ SessionKinds \subseteq Kinds /\ GlobalKinds \subseteq Kinds
  /\ IsFiniteSet(Kinds) /\ Other \in Kinds
  /\ MaxKinds \in Nat /\ MaxKinds > 1 /\ MaxDrops \in Nat

VARIABLES
  parent,     \* of each session, in opencode
  subagents,  \* the registration's SubagentIndex
  heard,      \* the sessions its viewers have been sent events of
  dropped,    \* of each kind, how many drops are counted under it; 0: it is not in the map
  missed      \* ghost: of each kind, the events dropped without a session

payloadVars == <<parent, subagents, heard, dropped, missed>>

PayloadTypeOK ==
  /\ parent \in [Sessions -> Sessions \cup {NoParent}]
  /\ subagents \subseteq Sessions /\ heard \subseteq Sessions
  /\ dropped \in [Kinds -> Nat] /\ missed \in [Kinds -> Nat]

PayloadInit ==
  /\ parent \in [Sessions -> Sessions \cup {NoParent}]
  /\ subagents = {} /\ heard = {}
  /\ dropped = [k \in Kinds |-> 0] /\ missed = [k \in Kinds |-> 0]

\* An event: its type, the sessions it names under a session key within reach of the
\* scan, those it names as an id of its own, and the session whose record it carries.
Events == [kind : Kinds, mentions : SUBSET Sessions, ids : SUBSET Sessions, info : Sessions \cup {NoParent}]

\* collectSessionIds, and an id where the type says that it is a session's.
Mentioned(e) ==
  IF e.kind \in SessionKinds THEN e.mentions \cup e.ids \cup ({e.info} \ {NoParent}) ELSE e.mentions

\* The sessions known after e, which need not be sent to anyone.
Taught(e) ==
  IF /\ e.kind \in FamilyKinds
     /\ e.info \in Sessions \ {Own}
     /\ parent[e.info] \in subagents \cup {Own}
  THEN subagents \cup {e.info}
  ELSE subagents

\* Kinds past the cap share a slot, the last.
Named == {k \in Kinds : dropped[k] > 0}
CountedAs(k) == IF k \notin Named /\ Cardinality(Named) >= MaxKinds - 1 THEN Other ELSE k

NoteDropped(k) ==
  /\ missed[k] < MaxDrops
  /\ dropped' = [dropped EXCEPT ![CountedAs(k)] = @ + 1]
  /\ missed' = [missed EXCEPT ![k] = @ + 1]

EventArrives(e) ==
  /\ subagents' = Taught(e)
  /\ IF Mentioned(e) = {} /\ e.kind \notin GlobalKinds
     THEN NoteDropped(e.kind)
     ELSE UNCHANGED <<dropped, missed>>
  /\ heard' = IF Mentioned(e) \subseteq subagents' \cup {Own} THEN heard \cup Mentioned(e) ELSE heard
  /\ UNCHANGED parent

\* The next registration starts with an index and viewers of its own.
RegistrationEnds ==
  /\ subagents' = {} /\ heard' = {}
  /\ UNCHANGED <<parent, dropped, missed>>

PayloadNext == (\E e \in Events : EventArrives(e)) \/ RegistrationEnds

PayloadSpec == PayloadInit /\ [][PayloadNext]_payloadVars

---------------------------------------------------------------------------
(* Properties *)

IsFamily(F) == Own \in F /\ \A s \in Sessions : parent[s] \in F => s \in F

\* Viewers are sent nothing of a session outside the shared one's tree, whatever order
\* its subagents are announced in (adapter.ts:2518-2534).
OnlyTheFamilyIsHeard == \A F \in SUBSET Sessions : IsFamily(F) => heard \subseteq F

\* Each kind that was dropped is told of, by its name and exactly, or among the
\* others; and the map is as small as it claims (event-drops.ts:15-31).
DropsAreTold ==
  /\ Cardinality(Named) <= MaxKinds
  /\ \A k \in Kinds \ {Other} :
       /\ dropped[k] \in {0, missed[k]}
       /\ missed[k] > dropped[k] => dropped[Other] > 0

PayloadsAreSound == PayloadTypeOK /\ OnlyTheFamilyIsHeard /\ DropsAreTold
=============================================================================
