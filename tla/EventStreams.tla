---------------------------- MODULE EventStreams ----------------------------
(***************************************************************************)
(* Viewers' event streams of one session id: the slots they take, how the  *)
(* end of a share, of a token or of the relay ends them, and the resync    *)
(* that catches them up after the bridge dialled again                     *)
(* (relay/src/proxy/adapter.ts, 1804-2305; their sources in store.ts,      *)
(* ws/bridge.ts, api/leave.ts and server.ts).                              *)
(*                                                                         *)
(* The streams are fed by session id, while shares of that id come and go; *)
(* a resume continues a share.  A stream's set in viewerStreams and in     *)
(* eventListeners is created, filled and dropped alike, so one set stands  *)
(* for both.  A stream that closed for good may be opened again.           *)
(***************************************************************************)
EXTENDS Naturals, FiniteSets

CONSTANTS Streams, MaxShares, MaxTokens,
          Slots,      \* MAX_STREAMS_PER_SESSION
          None

ASSUME LimitsArePositive == {MaxShares, MaxTokens, Slots} \subseteq Nat \ {0}
ASSUME StreamsAreFinite == IsFiniteSet(Streams) /\ None \notin Streams

Shares == 1..MaxShares
Tokens == [share : Shares, n : 1..MaxTokens]
NoToken == [share |-> 0, n |-> 0]

VARIABLES
  share,      \* the share that holds the id, 0 for none
  lastShare,  \* shares so far
  link,       \* "up", or "lost" (droppedAt), or neither: "never", "resumed"
  valid,      \* viewer tokens in the store
  issued,     \* tokens minted so far
  phase,      \* of a stream: "unused", "open", "ended" (end() called), "cut" (destroyed
              \* or hung up, two 'close' events to come), "closing" (one to come), or
              \* "dead" (no event to come)
  token,      \* the token a stream was opened with
  tracked,    \* streams in their set
  home,       \* a stream's set
  current,    \* the id's set in the maps, None if it has no entry
  holds,      \* streams whose slot is not released
  slots,      \* streamCount
  pass,       \* the resync: "off", "fetching", "inflating", "replaying"
  passOf,     \* the share whose transcript the pass gets
  again,      \* resyncing.again
  waiting,    \* streams whose replay waits for their backlog
  stopped,    \* shutdown() was called
  hole,       \* of an open stream: "none", or an event was lost to it ("owed") or was
              \* lost around a resume it lived through ("kept", then "resumed"), and no
              \* pass tried to make up for it
  covers,     \* no event was lost since the pass got its transcript
  misheard    \* a stream was sent an event of a later share than its own

storeVars  == <<share, lastShare, valid, issued>>
setVars    == <<tracked, home, current>>
slotVars   == <<holds, slots>>
streamVars == <<phase, token, slotVars>>
passVars   == <<pass, passOf, again, waiting>>
ghostVars  == <<hole, covers, misheard>>
vars == <<storeVars, link, streamVars, setVars, passVars, stopped, ghostVars>>

Open == {s \in Streams : phase[s] = "open"}

Fed == {s \in tracked : home[s] = current}

TypeOK ==
  /\ share \in 0..MaxShares /\ lastShare \in 0..MaxShares
  /\ link \in {"never", "lost", "up", "resumed"}
  /\ valid \subseteq Tokens /\ issued \in 0..MaxTokens
  /\ phase \in [Streams -> {"unused", "open", "ended", "cut", "closing", "dead"}]
  /\ token \in [Streams -> Tokens \cup {NoToken}]
  /\ {tracked, holds, waiting} \subseteq SUBSET Streams
  /\ home \in [Streams -> Streams \cup {None}] /\ current \in Streams \cup {None}
  /\ slots \in 0..Cardinality(Streams)
  /\ pass \in {"off", "fetching", "inflating", "replaying"} /\ passOf \in 0..MaxShares
  /\ {again, stopped, covers, misheard} \subseteq BOOLEAN
  /\ hole \in [Streams -> {"none", "owed", "kept", "resumed"}]

Init ==
  /\ share = 0 /\ lastShare = 0 /\ link = "never"
  /\ valid = {} /\ issued = 0
  /\ phase = [s \in Streams |-> "unused"] /\ token = [s \in Streams |-> NoToken]
  /\ tracked = {} /\ home = [s \in Streams |-> None] /\ current = None
  /\ holds = {} /\ slots = 0
  /\ pass = "off" /\ passOf = 0 /\ again = FALSE /\ waiting = {}
  /\ stopped = FALSE
  /\ hole = [s \in Streams |-> "none"] /\ covers = FALSE /\ misheard = FALSE

---------------------------------------------------------------------------
(* What happens to streams *)

\* Mutant: the maps' entry is dropped whichever set became empty.
LeavesAnySet(gone) ==
  \E s \in gone : home[s] # None /\ {t \in tracked \ gone : home[t] = home[s]} = {}

\* The set is empty, and it is the one the maps still hold.
LeavesTheSet(gone) ==
  /\ \E s \in gone : home[s] = current
  /\ {t \in tracked \ gone : home[t] = current} = {}

\* unsubscribe() of the streams in gone.
Untrack(gone) ==
  /\ tracked' = tracked \ gone
  /\ current' = IF LeavesTheSet(gone) THEN None ELSE current
  /\ UNCHANGED home

\* Ghost: what open streams have missed; the rest are owed nothing.
Holes(h) == hole' = [s \in Streams |-> IF phase'[s] = "open" THEN h[s] ELSE "none"]

\* endStream() of some streams, and send() to others, of which the cap on their
\* backlog destroys those in full.
EndAndSend(ends, full) ==
  /\ phase' = [s \in Streams |-> CASE s \in ends /\ phase[s] = "open" -> "ended"
                                   [] s \in full -> "cut"
                                   [] OTHER -> phase[s]]
  /\ Untrack(ends \cup full)
  /\ UNCHANGED <<token, slotVars>>

\* The streams a listener of the session id or the resync writes to.
Writable == Fed \cap Open

SendTo(to) == \E full \in SUBSET to : EndAndSend({}, full)

End(ends) == EndAndSend(ends, {}) /\ Holes(hole)

\* Ghost: share n's event goes to these streams.
Hearing(to, n) == misheard' = (misheard \/ \E s \in to : n > token[s].share)

\* Ghost: the pass fails, after which nothing more is promised.
Gone(h) == [s \in Streams |-> IF h[s] = "owed" THEN "none" ELSE h[s]]

Verified(s) == token[s] \in valid

\* resyncViewers() up to its request: a new handshake for each stream whose
\* token still verifies.
StartPass ==
  LET revoked == {s \in Writable : ~Verified(s)} IN
  /\ \E full \in SUBSET (Writable \ revoked) : EndAndSend(revoked, full)
  /\ pass' = "fetching" /\ passOf' = share /\ again' = FALSE
  /\ covers' = FALSE
  /\ Holes(hole)
  /\ UNCHANGED <<waiting, misheard>>

---------------------------------------------------------------------------
(* A viewer opens and closes streams *)

\* Mutant: a connection that closed before the handler ran is not looked for.
MissesTheDead(gone) == FALSE

\* openEventStream's check for a request that closed before its handler ran:
\* no further 'close' event of it will come.
AlreadyClosed(gone) == gone

\* A set that no stream is or was in.
NewSet == CHOOSE h \in Streams : \A t \in Streams : home[t] # h

\* GET /event: requireViewer, the slot, and sseEvents.
OpenStream(s, t, gone) ==
  /\ ~stopped
  /\ phase[s] = "unused"
  /\ t \in valid
  /\ slots < Slots
  /\ IF AlreadyClosed(gone)
     THEN UNCHANGED <<phase, token, slotVars, setVars>>
     ELSE /\ phase' = [phase EXCEPT ![s] = IF gone THEN "dead" ELSE "open"]
          /\ token' = [token EXCEPT ![s] = t]
          /\ holds' = holds \cup {s}
          /\ slots' = slots + 1
          /\ tracked' = tracked \cup {s}
          /\ home' = [home EXCEPT ![s] = IF current = None THEN NewSet ELSE current]
          /\ current' = home'[s]
  /\ UNCHANGED <<storeVars, link, passVars, stopped, ghostVars>>

\* The viewer hangs up or its socket fails; an ended stream's final chunk goes
\* out, or SSE_END_GRACE_MS cuts it.
Cut(s) ==
  /\ phase' = [phase EXCEPT ![s] = "cut"]
  /\ Holes(hole)
  /\ UNCHANGED <<storeVars, link, token, slotVars, setVars, passVars, stopped, covers, misheard>>

HangUp(s) == phase[s] = "open" /\ Cut(s)
Finish(s) == phase[s] = "ended" /\ Cut(s)

Releases(s) == s \in holds

\* 'close' of the request or of the response: release and unsubscribe.
CloseEvent(s) ==
  /\ phase[s] \in {"cut", "closing"}
  /\ slots' = IF Releases(s) THEN slots - 1 ELSE slots
  /\ holds' = holds \ {s}
  /\ tracked' = tracked \ {s}
  /\ current' = IF LeavesTheSet({s}) THEN None ELSE current
  /\ IF phase[s] = "cut"
     THEN phase' = [phase EXCEPT ![s] = "closing"] /\ UNCHANGED <<token, home>>
     ELSE /\ phase' = [phase EXCEPT ![s] = "unused"]
          /\ token' = [token EXCEPT ![s] = NoToken]
          /\ home' = [home EXCEPT ![s] = None]
  /\ UNCHANGED <<storeVars, link, passVars, stopped, ghostVars>>

\* The heartbeat: an end for a token that no longer verifies, a cut for a
\* stream that took nothing since the last beat, another frame for the rest.
Heartbeat(s) ==
  /\ phase[s] = "open"
  /\ IF Verified(s) THEN SendTo({s}) ELSE EndAndSend({s}, {})
  /\ Holes(hole)
  /\ UNCHANGED <<storeVars, link, passVars, stopped, covers, misheard>>

---------------------------------------------------------------------------
(* Shares and tokens *)

Mint ==
  /\ share # 0 /\ issued < MaxTokens
  /\ issued' = issued + 1
  /\ valid' = valid \cup {[share |-> share, n |-> issued']}
  /\ UNCHANGED <<share, lastShare, link, streamVars, setVars, passVars, stopped, ghostVars>>

\* The idle TTL or another viewer's need of the seat drops a token.
Expire(t) ==
  /\ t \in valid
  /\ valid' = valid \ {t}
  /\ UNCHANGED <<share, lastShare, issued, link, streamVars, setVars, passVars, stopped, ghostVars>>

\* POST /api/leave: revokeViewer, and endViewerStreams of exactly that token.
Leave(t) ==
  /\ t \in valid
  /\ valid' = valid \ {t}
  /\ End({s \in Fed : token[s] = t})
  /\ UNCHANGED <<share, lastShare, issued, link, passVars, stopped, covers, misheard>>

\* Mutant: only a deleted share ends its streams.
EndedByStop(n) == IF n = 0 THEN Fed ELSE {}

\* registrationEnded's listener, before the id's share is n.
EndedStreams(n) == Fed

\* The share ends, whether n takes its place or nothing (0).
EndsFor(n) ==
  /\ share' = n
  /\ valid' = {}
  /\ EndAndSend(EndedStreams(n), {})

\* disconnect(): the socket is closed, the mark of a lost link goes, and the
\* resync's request fails; h is what streams are owed besides.
Disconnect(to, h) ==
  /\ link' = to
  /\ IF pass = "fetching"
     THEN pass' = "replaying" /\ waiting' = {} /\ Holes(Gone(h))
     ELSE UNCHANGED <<pass, waiting>> /\ Holes(h)
  /\ UNCHANGED <<passOf, again>>

\* A new share of the id, over a live one (a replacement) or not.
Register ==
  /\ lastShare < MaxShares
  /\ lastShare' = lastShare + 1
  /\ IF share # 0
     THEN EndsFor(lastShare') /\ Disconnect("never", hole)
     ELSE share' = lastShare' /\ UNCHANGED <<valid, link, streamVars, setVars, passVars, hole>>
  /\ UNCHANGED <<issued, stopped, covers, misheard>>

\* The owner's new bridge continues the share: its viewers and their streams
\* stay, the old socket goes.
Resume ==
  /\ share # 0
  /\ UNCHANGED <<storeVars, streamVars, setVars, stopped, covers, misheard>>
  /\ Disconnect("resumed", [s \in Streams |->
                              CASE hole[s] = "owed" -> "resumed"
                                [] hole[s] = "none" /\ link \in {"up", "lost"} -> "kept"
                                [] OTHER -> hole[s]])

\* DELETE or the reaper; a share ended to make room (forRoom) has no bridge, and
\* the hub is not told.
EndShare(forRoom) ==
  /\ share # 0
  /\ EndsFor(0)
  /\ IF forRoom
     THEN link # "up" /\ Holes(hole) /\ UNCHANGED <<link, passVars>>
     ELSE Disconnect("never", hole)
  /\ UNCHANGED <<lastShare, issued, stopped, covers, misheard>>

\* shutdown(): endEventStreams.
Shutdown ==
  /\ stopped' = TRUE
  /\ End(Fed)
  /\ UNCHANGED <<storeVars, link, passVars, covers, misheard>>

---------------------------------------------------------------------------
(* The bridge's link *)

\* Mutant: a re-dial during a pass is left to that pass.
ForgetsRedial == FALSE

RunsAgain == TRUE

\* The bridge dials; onReconnect's listener runs if it had lost its link.
Dial ==
  /\ share # 0
  /\ link' = "up"
  /\ IF link \in {"up", "lost"} /\ current # None
     THEN IF pass = "off"
          THEN StartPass
          ELSE /\ again' = RunsAgain
               /\ UNCHANGED <<streamVars, setVars, pass, passOf, waiting, ghostVars>>
     ELSE /\ UNCHANGED <<streamVars, setVars, passVars, covers, misheard>>
          /\ Holes([s \in Streams |-> IF hole[s] = "kept" THEN "none" ELSE hole[s]])
  /\ UNCHANGED <<storeVars, stopped>>

Drop ==
  /\ link = "up"
  /\ link' = "lost"
  /\ UNCHANGED <<storeVars, streamVars, setVars, passVars, stopped, ghostVars>>

\* opencode emits while the link is down: the streams that were open then miss it.
EventLost ==
  /\ share # 0
  /\ link \in {"lost", "resumed"}
  /\ covers' = FALSE
  /\ UNCHANGED <<storeVars, link, streamVars, setVars, passVars, stopped, misheard>>
  /\ Holes([s \in Streams |-> CASE link = "lost" /\ hole[s] = "none" -> "owed"
                                [] hole[s] = "kept" -> "resumed"
                                [] OTHER -> hole[s]])

\* An event of the share's bridge.
Event ==
  /\ share # 0 /\ link = "up"
  /\ SendTo(Writable) /\ Holes(hole)
  /\ Hearing(Writable, share)
  /\ UNCHANGED <<storeVars, link, passVars, stopped, covers>>

---------------------------------------------------------------------------
(* A pass of the resync *)

\* The hub claims the answer, which may still have to be inflated.
Fetched ==
  /\ pass = "fetching"
  /\ share = passOf /\ link = "up"
  /\ pass' = "inflating"
  /\ covers' = TRUE
  /\ UNCHANGED <<storeVars, link, streamVars, setVars, passOf, again, waiting, stopped, hole, misheard>>

\* The request fails, is refused by opencode or cannot be inflated.
FetchFails ==
  /\ pass \in {"fetching", "inflating"}
  /\ pass' = "replaying" /\ waiting' = {}
  /\ UNCHANGED <<storeVars, link, streamVars, setVars, passOf, again, stopped, covers, misheard>>
  /\ Holes(Gone(hole))

\* Ghost: the streams in done have been sent all of the transcript.
CaughtUp(done) ==
  Holes([s \in Streams |-> IF covers /\ s \in done THEN "none" ELSE hole[s]])

\* The replay goes to every stream there is now; one whose backlog is over half
\* its cap waits for it to drain before the rest.
Replay ==
  /\ pass = "inflating"
  /\ pass' = "replaying"
  /\ SendTo(Writable)
  /\ \E behind \in SUBSET (Writable \cap {s \in Streams : phase'[s] = "open"}) :
       waiting' = behind /\ CaughtUp(Writable \ behind)
  /\ Hearing(Writable, passOf)
  /\ UNCHANGED <<storeVars, link, passOf, again, stopped, covers>>

\* A waiting replay: the stream has drained and takes the rest, unless it is gone,
\* or the wait's deadline passes.
ReplayOn(s) ==
  /\ s \in waiting
  /\ waiting' = waiting \ {s}
  /\ UNCHANGED <<storeVars, link, streamVars, setVars, pass, passOf, again, stopped, covers>>
  /\ \/ CaughtUp({s}) /\ Hearing({s} \cap Open, passOf)
     \/ Holes([hole EXCEPT ![s] = IF @ = "owed" THEN "none" ELSE @]) /\ UNCHANGED misheard

\* The loop's next turn: another pass if a re-dial asked for one and streams are
\* left, else the end of the resync.
PassEnds ==
  /\ pass = "replaying" /\ waiting = {}
  /\ IF again /\ current # None /\ share # 0
     THEN StartPass
     ELSE /\ pass' = "off" /\ passOf' = 0 /\ again' = FALSE
          /\ covers' = FALSE
          /\ UNCHANGED <<waiting, streamVars, setVars, hole, misheard>>
  /\ UNCHANGED <<storeVars, link, stopped>>

---------------------------------------------------------------------------
ViewerSteps ==
  \E s \in Streams :
    \/ \E t \in valid, gone \in BOOLEAN : OpenStream(s, t, gone)
    \/ HangUp(s)

StreamSteps == \E s \in Streams : Finish(s) \/ CloseEvent(s) \/ Heartbeat(s)

ShareSteps ==
  \/ Register \/ Resume \/ Mint \/ Shutdown
  \/ \E forRoom \in BOOLEAN : EndShare(forRoom)
  \/ \E t \in valid : Expire(t) \/ Leave(t)

LinkSteps == Dial \/ Drop \/ EventLost \/ Event

PassSteps == Fetched \/ FetchFails \/ Replay \/ PassEnds \/ \E s \in Streams : ReplayOn(s)

\* A relay that stops hears of no more shares or events.
Next ==
  \/ ViewerSteps \/ StreamSteps \/ PassSteps
  \/ ~stopped /\ (ShareSteps \/ LinkSteps)

\* The relay's own timers, the library's 'close' events, and a resync's request,
\* which is answered or times out.
Fairness ==
  \A s \in Streams : WF_vars(Finish(s)) /\ WF_vars(CloseEvent(s)) /\ WF_vars(Heartbeat(s))

Spec == Init /\ [][Next]_vars /\ Fairness

---------------------------------------------------------------------------
(* Properties *)

(* Every open stream is in the set that the maps hold: what ends a share, a *)
(* token or the relay finds it, however often sets were emptied, dropped    *)
(* and made again while earlier streams' 'close' events ran late.           *)
OpenStreamsAreFound == Open \subseteq Fed

(* No stream is sent an event, live or replayed, of a later share than the  *)
(* one its token was minted for ("streamed its live events to the revoked   *)
(* viewers").                                                               *)
NoLaterShareIsHeard == ~misheard

(* Slots are counted exactly: one for each stream that has not released it, *)
(* every open or ending one among them, never more than the limit.          *)
SlotsAreExact ==
  /\ slots = Cardinality(holds) /\ slots <= Slots
  /\ \A s \in Streams : phase[s] \in {"open", "ended"} => s \in holds

(* What the relay counts and finds is what viewers hold.                     *)
StreamsAreAccounted == TypeOK /\ OpenStreamsAreFound /\ SlotsAreExact

CatchUpIsComing(s) ==
  \/ again
  \/ pass = "fetching"
  \/ pass = "inflating" /\ covers
  \/ pass = "replaying" /\ covers /\ s \in waiting

(* Once the bridge is back, whatever an open stream missed is on its way: a *)
(* pass that started since, or one more after the running pass; unless that *)
(* pass failed or the viewer did not take it in time.                       *)
HolesAreNoticed ==
  \A s \in Open : hole[s] = "owed" /\ link = "up" /\ ~stopped => CatchUpIsComing(s)

(* The same for a share that is resumed: resyncViewers is there to "catch   *)
(* open viewers up after the session's bridge re-dialled", and a resume     *)
(* keeps them open.                                                         *)
ResumedStreamsAreCaughtUp ==
  \A s \in Open :
    hole[s] \in {"owed", "resumed"} /\ link = "up" /\ ~stopped => CatchUpIsComing(s)

(* A stream that ended, or whose token expired, leaves its slot although its *)
(* viewer reads nothing; none is held by a connection that was already       *)
(* closed as its handler ran.                                                *)
SlotsComeBack ==
  \A s \in Streams :
    s \in holds /\ (phase[s] # "open" \/ ~Verified(s)) ~> s \notin holds
=============================================================================
