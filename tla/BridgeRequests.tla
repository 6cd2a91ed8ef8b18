--------------------------- MODULE BridgeRequests ---------------------------
(***************************************************************************)
(* What the bridge does with the relay's requests                          *)
(* (bridge/src/relay.ts, RelayWSClient.onMessage and its guards): it       *)
(* refuses what leaves the share's tree of sessions, runs the rest against *)
(* the owner's opencode, a bounded number at a time, and puts each answer  *)
(* on the link there is by then, in a form its relay accepts.              *)
(*                                                                         *)
(* Every await is a step of its own: other requests, events and links come *)
(* in between.  Lengths are in units.                                      *)
(***************************************************************************)
EXTENDS Naturals, Sequences, FiniteSets, SequencesExt, ProxyRoutes

CONSTANTS
  Requests, None,
  Bound,        \* boundSessionId
  Others,       \* opencode's other sessions
  ParentOf,     \* of each of them, None for a root
  Objects,      \* messages and parts of sessions that are not Bound
  Prompts,      \* permission requests and questions
  OwnerOf,      \* the session of each of both
  Asked,        \* what relays ask for: a route, the session in its path and what it names
  Hellos,       \* what relays say of themselves: [gzip, cap], the cap None if they say none
  DefaultCap,   \* GZIP_MAX_OUTPUT_BYTES
  Lengths,      \* of opencode's answers
  GzipMin,      \* GZIP_MIN_BYTES
  GzipRatio,    \* GZIP_MAX_RATIO
  MaxInflight,  \* maxInflightProxyRequests()
  MaxDepth,     \* MAX_SUBAGENT_DEPTH
  MaxProven,    \* MAX_PROVEN_DESCENDANTS
  MaxForeign,   \* MAX_FOREIGN_OBJECTS
  MaxEvents     \* bound: events read that name a message or part

ASSUME RequestsAreFinite == IsFiniteSet(Requests)
ASSUME SessionsAreTrees == ParentOf \in [Others -> Others \cup {Bound, None}]
ASSUME EveryObjectHasAnOwner ==
  OwnerOf \in [Objects \cup Prompts -> Others \cup {Bound}] /\ Objects \cap Prompts = {}
ASSUME RequestsTakeRoutes ==
  \A a \in Asked :
    /\ a.at \in Others \cup {Bound, None} /\ a.names \in Objects \cup Prompts \cup {None}
    /\ TakesSession(a.route) <=> a.at # None
    /\ a.names \in Prompts <=> a.route \in QuestionRoutes \cup {PermissionRoute}
ASSUME RelaysTakeAnAnswer ==
  \A h \in Hellos : h.gzip \in BOOLEAN /\ (h.cap = None \/ h.cap \in Nat \ {0})
ASSUME LimitsArePositive ==
  /\ {DefaultCap, GzipMin, GzipRatio, MaxInflight, MaxDepth, MaxProven, MaxForeign} \subseteq Nat \ {0}
  /\ Lengths \subseteq Nat
ASSUME NoneIsNothing ==
  /\ None \notin Others \cup {Bound} \cup Hellos
  /\ None \notin [to : Requests, bytes : Nat, zip : BOOLEAN]

VARIABLES
  relay,    \* what the relay of the open socket is, None without one
  told,     \* its hello has arrived
  gzip,     \* relayAcceptsGzip
  cap,      \* relayMaxFrameBytes
  req,      \* onMessage calls in progress
  inflight, \* inflightProxy
  proven,   \* provenDescendants, the oldest first
  foreign,  \* foreignObjects, the oldest first
  events,   \* ghost: objects of other sessions, as events named them
  out       \* the frame this step put on the socket, None for none

linkVars == <<relay, told, gzip, cap>>
treeVars == <<proven, foreign, events>>
requestsVars == <<linkVars, req, inflight, treeVars, out>>

\* "walking": the parent of the chain's last is asked for, on the way up from the
\* session in the path; "listing": the pending prompts are; "proving": as walking,
\* from the prompt's session; "calling": the request is with opencode; "zipping".
Idle == [phase |-> "idle", asks |-> None, chain |-> <<>>, len |-> 0]

Busy(r) == req[r].phase # "idle"
Proven == ToSet(proven)

RequestsTypeOK ==
  /\ relay \in Hellos \cup {None}
  /\ told \in BOOLEAN /\ gzip \in BOOLEAN /\ cap \in 1..DefaultCap
  /\ req \in [Requests -> [phase : {"idle", "walking", "listing", "proving", "calling", "zipping"},
                           asks : Asked \cup {None},
                           chain : Seq(Others), len : Nat]]
  /\ inflight \in 0..MaxInflight
  /\ proven \in Seq(Others) /\ foreign \in Seq(Objects)
  /\ Len(proven) <= MaxProven /\ Len(foreign) <= MaxForeign
  /\ events \in Seq(Objects)
  /\ out \in {None} \cup [to : Requests, bytes : Nat, zip : BOOLEAN]

RequestsInit ==
  /\ relay = None /\ told = FALSE /\ gzip = FALSE /\ cap = DefaultCap
  /\ req = [r \in Requests |-> Idle] /\ inflight = 0
  /\ proven = <<>> /\ foreign = <<>> /\ events = <<>>
  /\ out = None

---------------------------------------------------------------------------
(* The link *)

\* dial, and its 'open': the new relay has said nothing yet.
Open(h) ==
  /\ relay = None
  /\ relay' = h /\ told' = FALSE /\ gzip' = FALSE /\ cap' = DefaultCap
  /\ out' = None
  /\ UNCHANGED <<req, inflight, treeVars>>

\* A relay may narrow the cap, never widen it.
AnnouncedCap(h) == IF h.cap = None \/ h.cap > DefaultCap THEN DefaultCap ELSE h.cap

Hello ==
  /\ relay # None /\ ~told
  /\ told' = TRUE /\ gzip' = relay.gzip /\ cap' = AnnouncedCap(relay)
  /\ out' = None
  /\ UNCHANGED <<relay, req, inflight, treeVars>>

Lost ==
  /\ relay # None
  /\ relay' = None
  /\ out' = None
  /\ UNCHANGED <<told, gzip, cap, req, inflight, treeVars>>

---------------------------------------------------------------------------
(* Answers *)

Frame(r, bytes, zip) == [to |-> r, bytes |-> bytes, zip |-> zip]

\* send(), of a frame whose length is not in question.
Say(r) == IF relay = None THEN None ELSE Frame(r, 1, FALSE)

\* Mutant: an answer that does not fit is dropped.
Unanswered(r, len) ==
  IF relay = None \/ len > cap THEN None ELSE Frame(r, len, FALSE)

\* send(), or a 413 in its place.
Plain(r, len) ==
  IF relay # None /\ len <= cap THEN Frame(r, len, FALSE) ELSE Say(r)

\* Mutant: a refused request keeps its place.
KeepsPlace(r) == IF req[r].phase \in {"walking", "proving"} THEN inflight ELSE inflight - 1

\* finally.
GivesPlace(r) == inflight - 1

\* A request is over, with this frame for an answer.
Ends(r, frame) ==
  /\ req' = [req EXCEPT ![r] = Idle]
  /\ inflight' = GivesPlace(r)
  /\ out' = frame

---------------------------------------------------------------------------
(* Which sessions, messages and prompts are the share's *)

\* rememberBounded: what is there goes to the newest end, the oldest makes room.
Remembered(seq, x, max) ==
  LET others == RemoveFirst(seq, x)
      room == IF x \in ToSet(seq) \/ Len(seq) < max THEN others ELSE Tail(seq) IN
  Append(room, x)

\* Each of these in turn.
AllRemembered(seq, ids, max) == FoldLeft(LAMBDA s, id : Remembered(s, id, max), seq, ids)

\* Mutant: the ids on the way to a foreign root count as proven too.
LearnsAll(verdict) == TRUE

Learns(verdict) == verdict = "true"

\* The end of sharesTree, and of guardSessionId after it: the session the request
\* is at is remembered last.
Learn(r, verdict) ==
  LET q == req[r]
      ids == IF q.phase = "walking" THEN Append(q.chain, q.asks.at) ELSE q.chain IN
  proven' = IF Learns(verdict)
            THEN AllRemembered(proven, ids, MaxProven)
            ELSE proven

Noted(seq, o) == Remembered(seq, o, MaxForeign)

\* noteForeignObjects, as an event is read and before it is forwarded.
Note(o) ==
  /\ Len(events) < MaxEvents
  /\ events' = Append(events, o)
  /\ foreign' = IF OwnerOf[o] \in {Bound} \cup Proven THEN foreign ELSE Noted(foreign, o)
  /\ out' = None
  /\ UNCHANGED <<linkVars, req, inflight, proven>>

---------------------------------------------------------------------------
(* A request *)

\* guardBodyIds refuses an object of a session that is not known to be the share's.
RefusedObject(o) == o \in ToSet(foreign) /\ OwnerOf[o] \notin Proven

\* It has a place, and waits for this.
Waits(r, a, phase, chain) ==
  /\ req' = [req EXCEPT ![r] = [phase |-> phase, asks |-> a, chain |-> chain, len |-> 0]]
  /\ inflight' = IF Busy(r) THEN inflight ELSE inflight + 1
  /\ out' = None

\* It has none, or no longer: a refusal in the turn it came in leaves no trace.
Refuse(r) == IF Busy(r) THEN Ends(r, Say(r)) ELSE out' = Say(r) /\ UNCHANGED <<req, inflight>>

\* The rest of guardRequest, after guardSessionId.
GuardObjects(r, a) ==
  IF a.names \in Objects /\ RefusedObject(a.names)
  THEN Refuse(r)
  ELSE Waits(r, a, IF a.names \in Prompts THEN "listing" ELSE "calling", <<>>)

\* onMessage up to its first await: the allowlist, the place, guardSessionId.
Take(r, a) ==
  /\ relay # None /\ ~Busy(r)
  /\ IF ~MatchProxyRoute(a.route, a.at, Bound) \/ inflight >= MaxInflight
     THEN Refuse(r)
     ELSE IF a.at \in {None, Bound} \cup Proven
          THEN GuardObjects(r, a)
          ELSE Waits(r, a, "walking", <<a.at>>)
  /\ UNCHANGED <<linkVars, treeVars>>

\* The answer about the last of the chain: sharesTree says "true", "false" or
\* "undefined", or asks on.
Walked(r) ==
  LET q == req[r]
      parent == ParentOf[Last(q.chain)]
      Verdict(v) == /\ Learn(r, v)
                    /\ \/ v # "true" /\ Refuse(r)
                       \/ v = "true" /\ q.phase = "walking" /\ GuardObjects(r, q.asks)
                       \/ v = "true" /\ q.phase = "proving" /\ Waits(r, q.asks, "calling", <<>>) IN
  /\ q.phase \in {"walking", "proving"}
  /\ \/ Verdict("undefined")
     \/ parent \in {Bound} \cup Proven /\ Verdict("true")
     \/ /\ parent \notin {Bound} \cup Proven
        /\ IF parent = None \/ parent \in ToSet(q.chain) \/ Len(q.chain) = MaxDepth
           THEN Verdict("false")
           ELSE Waits(r, q.asks, q.phase, Append(q.chain, parent)) /\ UNCHANGED proven
  /\ UNCHANGED <<linkVars, foreign, events>>

\* The list of pending prompts: without this one, or with it and its session.
Listed(r) ==
  LET a == req[r].asks
      owner == OwnerOf[a.names] IN
  /\ req[r].phase = "listing"
  /\ \/ Refuse(r)
     \/ owner \in {Bound} \cup Proven /\ Waits(r, a, "calling", <<>>)
     \/ owner \notin {Bound} \cup Proven /\ Waits(r, a, "proving", <<owner>>)
  /\ UNCHANGED <<linkVars, treeVars>>

\* opencode's answer goes out, or is compressed first.
Called(r, len) ==
  /\ req[r].phase = "calling"
  /\ IF gzip /\ len >= GzipMin
     THEN /\ req' = [req EXCEPT ![r] = [phase |-> "zipping", asks |-> None, chain |-> <<>>, len |-> len]]
          /\ out' = None
          /\ UNCHANGED inflight
     ELSE Ends(r, Plain(r, len))
  /\ UNCHANGED <<linkVars, treeVars>>

\* opencode did not answer, in 30 s.
Unreachable(r) ==
  /\ req[r].phase = "calling"
  /\ Ends(r, Say(r))
  /\ UNCHANGED <<linkVars, treeVars>>

\* Mutant: the relay that announced gzip is taken to be there still.
AcceptedGzip == relay # None

AcceptsGzip == gzip /\ relay # None

\* gzip is done; what it made is worth sending if it is smaller and the relay will
\* inflate it.
Zipped(r, small) ==
  LET len == req[r].len IN
  /\ req[r].phase = "zipping"
  /\ IF /\ small < len /\ len <= small * GzipRatio /\ len <= cap
        /\ AcceptsGzip
        /\ small <= cap
     THEN Ends(r, Frame(r, small, TRUE))
     ELSE Ends(r, Plain(r, len))
  /\ UNCHANGED <<linkVars, treeVars>>

---------------------------------------------------------------------------
RequestsNext ==
  \/ Hello \/ Lost \/ \E h \in Hellos : Open(h)
  \/ \E o \in Objects : Note(o)
  \/ \E r \in Requests :
       \/ Walked(r) \/ Listed(r) \/ Unreachable(r)
       \/ \E a \in Asked : Take(r, a)
       \/ \E len \in Lengths : Called(r, len) \/ (len <= req[r].len /\ Zipped(r, len))

RequestsSpec == RequestsInit /\ [][RequestsNext]_requestsVars

---------------------------------------------------------------------------
(* Properties *)

\* The share's tree, by opencode's word and to any depth: the least set with the
\* shared session that has the children of its own.
Families ==
  {T \in SUBSET (Others \cup {Bound}) :
     Bound \in T /\ \A s \in Others : ParentOf[s] \in T => s \in T}
Tree == {s \in Others \cup {Bound} : \A T \in Families : s \in T}

InItsTree(a) ==
  /\ a.at \in Tree \cup {None}
  /\ a.at \in {Bound, None} \/ a.route[2] \in BridgeSubagentRoutes
  /\ a.names \in Prompts => OwnerOf[a.names] \in Tree

(* Only the share's own sessions and prompts are reached: whatever else was  *)
(* walked at the same time, and however much of it was forgotten, what is    *)
(* with opencode is about the shared session or one under it, and what runs  *)
(* something is about the shared session alone.                              *)
OnlyItsTreeIsReached ==
  [][\A r \in Requests : req'[r].phase = "calling" => InItsTree(req'[r].asks)]_requestsVars

\* The last MaxForeign objects that events named.
Recent ==
  {events[i] : i \in {i \in DOMAIN events :
     Cardinality({events[j] : j \in i..Len(events)}) <= MaxForeign}}

(* A write that names a message of a session outside the share is refused    *)
(* from the moment the bridge has read of it: the relay learns the id from   *)
(* the same event, and not before.                                           *)
ForeignWritesAreRefused ==
  [][\A r \in Requests :
       ~Busy(r) /\ req'[r].phase = "calling" =>
         LET o == req'[r].asks.names IN
         o \in Objects /\ o \in Recent => OwnerOf[o] \in Tree]_requestsVars

(* Neither by a request nor by a write is anything outside the share touched *)
(* that the bridge had a way to know of.                                     *)
OnlyTheShareIsTouched == OnlyItsTreeIsReached /\ ForeignWritesAreRefused

(* A frame is in the form the relay at the other end of it announced: no     *)
(* larger than it accepts, compressed only if it inflates, whichever relay   *)
(* the request came from and whatever was announced as it was compressed.    *)
FramesSuitTheLink ==
  out # None =>
    /\ out.zip => told /\ relay.gzip
    /\ told /\ relay.cap # None => out.bytes <= relay.cap

(* The places taken are those of requests in progress, however they end: a   *)
(* place that a refusal kept would leave a share that is busy for good.      *)
PlacesAreExact ==
  /\ RequestsTypeOK
  /\ inflight = Cardinality({r \in Requests : Busy(r)})
  /\ inflight <= MaxInflight

(* No request ends in silence while there is a link: one whose answer suits  *)
(* no frame of this relay is told so.                                        *)
AnsweredWhileLinked ==
  [][\A r \in Requests :
       Busy(r) /\ req'[r].phase = "idle" /\ relay # None => out' # None /\ out'.to = r]_requestsVars
=============================================================================
