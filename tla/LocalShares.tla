----------------------------- MODULE LocalShares -----------------------------
(***************************************************************************)
(* The shares of one session that one machine starts and stops             *)
(* (bridge/src/index.ts: startBridge, registerShare, settleEarlierShare,   *)
(* stopBridge; bridge/src/state.ts).  Every command is a process; what     *)
(* they have in common is the session's state file, which names the share  *)
(* the machine runs, and the relay's registration of the session.          *)
(*                                                                         *)
(* Any process may be killed between two steps, and commands may overlap.  *)
(* A share is named after the start that registered it: its bridge_token,  *)
(* its pid, the access code minted for it and the server spawned for it.   *)
(***************************************************************************)
EXTENDS Naturals, TLC

CONSTANTS
  Starts,    \* the `bridge start` commands
  Old,       \* a share an older version registered: its state has no code
  None,
  MaxKills,  \* bound: processes killed
  MaxStops   \* bound: `bridge stop` commands

ASSUME OldIsNoStart == Old \notin Starts /\ None \notin Starts \cup {Old}
ASSUME BoundsAreNumbers == MaxKills \in Nat /\ MaxStops \in Nat

VARIABLES
  file,    \* <session id>.json: a record, or None
  relay,   \* the relay's registration: its token and code, or None
  start,   \* the start commands
  stop,    \* the stop command under way
  servers, \* `opencode serve` processes started for a share, by that share
  kills, stops,
  overlapped, \* ghost: a command began while another was at work
  overtaken,  \* ghost: a start wrote its record over that of a later registration
  cutShort,   \* ghost: a stop removed another record than the one it read
  orphaned,   \* ghost: servers whose start was killed before it recorded them
  served,     \* ghost: codes of shares whose bridge was up
  ended       \* ghost: codes of shares ended by their bridge or by a stop

ghosts == <<overlapped, overtaken, cutShort, orphaned, served, ended>>
budgets == <<kills, stops>>
vars == <<file, relay, start, stop, servers, budgets, ghosts>>

Shares == Starts \cup {Old}
Record(s, code, server) == [token |-> s, code |-> code, gone |-> FALSE, server |-> server]
Records == [token : Shares, code : Starts \cup {None}, gone : BOOLEAN, server : Shares \cup {None}]

ASSUME NoneIsNoRecord == None \notin Records \cup [token : Shares, code : Shares]

\* "settling": the DELETE of the earlier share is out; "ready"; "asked": the POST is
\* out; "answered" by the relay; "linking": the state is saved, the socket dialled;
\* "undoing": the DELETE of its own registration; "serving"; "closing": stop()'s
\* DELETE; "lingering": it failed, in a process that lives on; "gone".
Working == {"settling", "ready", "asked", "answered", "linking", "undoing"}
Phases == Working \cup {"idle", "serving", "closing", "lingering", "gone"}

Outside(phase) == [at |-> phase, earlier |-> None, kept |-> None, given |-> None, code |-> None]

TypeOK ==
  /\ file \in Records \cup {None}
  /\ relay \in [token : Shares, code : Shares] \cup {None}
  /\ start \in [Starts -> [at : Phases, earlier : Records \cup {None}, kept : Records \cup {None},
                           given : Starts \cup {None}, code : Starts \cup {None}]]
  /\ stop \in [at : {"idle", "asked", "told"}, rec : Records \cup {None}]
  /\ servers \subseteq Shares /\ orphaned \subseteq Shares
  /\ kills \in 0..MaxKills /\ stops \in 0..MaxStops

Init ==
  /\ \/ file = None /\ relay = None /\ servers = {}
     \/ \E runs \in BOOLEAN :
          /\ file = Record(Old, None, IF runs THEN Old ELSE None)
          /\ relay \in {None, [token |-> Old, code |-> Old]}
          /\ servers = IF runs THEN {Old} ELSE {}
  /\ start = [s \in Starts |-> Outside("idle")]
  /\ stop = [at |-> "idle", rec |-> None]
  /\ kills = 0 /\ stops = 0
  /\ overlapped = FALSE /\ overtaken = FALSE /\ cutShort = FALSE
  /\ orphaned = {} /\ served = {} /\ ended = {}

---------------------------------------------------------------------------
(* The state file and the processes it names *)

ClearByName(f, token) == None
ClearOwn(f, token) == IF f # None /\ f.token = token THEN None ELSE f

Unmarked(f, token) == f
MarkOwnGone(f, token) ==
  IF f # None /\ f.token = token THEN [f EXCEPT !.gone = TRUE] ELSE f

Alive(s) == s # Old /\ start[s].at \notin {"idle", "gone"}

BridgeRuns(r) == ~r.gone /\ Alive(r.token)

CodeUnlessGone(f) == IF f = None \/ f.gone THEN None ELSE f.code
ResumableCode(f) == IF f = None THEN None ELSE f.code

Deleted(token) == IF relay # None /\ relay.token = token THEN None ELSE relay

\* The server the start ends with its share: its own, and one it took over.
Held(s) == {s} \cup IF start[s].kept = None THEN {} ELSE {start[s].kept.server}

Busy == stop.at # "idle" \/ \E s \in Starts : start[s].at \in Working

---------------------------------------------------------------------------
(* A start *)

\* The earlier share's server is ended, unless it may be the one this start was
\* told to run on; then it is kept, with the record that names it.
ServerSettled(s, r, next) ==
  \/ /\ servers' = servers \ {r.server}
     /\ start' = [start EXCEPT ![s] = next]
  \/ /\ r.server \in servers
     /\ start' = [start EXCEPT ![s] = [next EXCEPT !.kept = r]]
     /\ UNCHANGED servers

\* The record of a kept server goes back, unless there is one by now.
PutBack(s, f) == IF f = None /\ start[s].kept # None THEN start[s].kept ELSE f

\* A throw of startBridge, once the step has left `f` on disk.
Fail(s, f) ==
  /\ file' = PutBack(s, f)
  /\ servers' = servers \ {s}
  /\ \E end \in {"gone", "lingering"} : start' = [start EXCEPT ![s] = Outside(end)]

Begin(s) ==
  /\ start[s].at = "idle"
  /\ IF file = None
     THEN start' = [start EXCEPT ![s].at = "ready"] /\ UNCHANGED servers
     ELSE IF BridgeRuns(file)
     THEN start' = [start EXCEPT ![s] = Outside("gone")] /\ UNCHANGED servers
     ELSE IF ResumableCode(file) # None
     THEN ServerSettled(s, file, [start[s] EXCEPT !.at = "ready"])
     ELSE /\ start' = [start EXCEPT ![s].at = "settling", ![s].earlier = file]
          /\ UNCHANGED servers
  /\ overlapped' = (overlapped \/ Busy)
  /\ UNCHANGED <<file, relay, stop, budgets, overtaken, cutShort, orphaned, served, ended>>

\* The DELETE of the earlier share, answered 204 or 404, or not at all.
Settled(s) ==
  /\ start[s].at = "settling"
  /\ \/ /\ relay' = Deleted(start[s].earlier.token)
        /\ file' = ClearOwn(file, start[s].earlier.token)
        /\ ServerSettled(s, start[s].earlier, [start[s] EXCEPT !.at = "ready", !.earlier = None])
     \/ Fail(s, file) /\ UNCHANGED relay
  /\ UNCHANGED <<stop, budgets, ghosts>>

\* A start that kept a server runs on one it was told to; another may spawn its own.
Ask(s) ==
  /\ start[s].at = "ready"
  /\ \/ /\ start' = [start EXCEPT ![s].at = "asked", ![s].given = ResumableCode(file)]
        /\ \/ UNCHANGED servers
           \/ start[s].kept = None /\ servers' = servers \cup {s}
        /\ UNCHANGED file
     \/ Fail(s, file)
  /\ UNCHANGED <<relay, stop, budgets, ghosts>>

\* POST /api/sessions with the machine's owner_key: it replaces what is registered,
\* or continues it for whoever knows its code.
Continues(s) == relay # None /\ relay.code = start[s].given

Register(s) ==
  /\ start[s].at = "asked"
  /\ \/ \E code \in {IF Continues(s) THEN relay.code ELSE s} :
          /\ relay' = [token |-> s, code |-> code]
          /\ start' = [start EXCEPT ![s].at = "answered", ![s].code = code]
          /\ UNCHANGED <<file, servers>>
     \/ Fail(s, file) /\ UNCHANGED relay
  /\ UNCHANGED <<stop, budgets, ghosts>>

Resumed(s) == start[s].given # None /\ start[s].code = start[s].given

\* The relay's present registration is another start's, and has its record already.
Overtakes(s) == file # None /\ relay # None /\ relay.token # s /\ file.token = relay.token

\* The answer arrives, or is lost with the registration made.
Answered(s) ==
  /\ start[s].at = "answered"
  /\ \/ /\ file' = Record(s, start[s].code,
                     IF s \in servers THEN s
                     ELSE IF start[s].kept # None THEN start[s].kept.server ELSE None)
        /\ start' = [start EXCEPT ![s].at = "linking"]
        /\ overtaken' = (overtaken \/ Overtakes(s))
        /\ UNCHANGED servers
     \/ Fail(s, file) /\ UNCHANGED overtaken
  /\ UNCHANGED <<relay, stop, budgets, overlapped, cutShort, orphaned, served, ended>>

Linked(s) ==
  /\ start[s].at = "linking"
  /\ relay # None /\ relay.token = s
  /\ start' = [start EXCEPT ![s].at = "serving", ![s].given = None]
  /\ served' = served \cup {start[s].code}
  /\ UNCHANGED <<file, relay, stop, servers, budgets, overlapped, overtaken, cutShort, orphaned, ended>>

\* A failed dial leaves a share it took back to the next start, and undoes its own.
LinkFails(s) ==
  /\ start[s].at = "linking"
  /\ IF Resumed(s)
     THEN Fail(s, MarkOwnGone(file, s))
     ELSE start' = [start EXCEPT ![s].at = "undoing"] /\ UNCHANGED <<file, servers>>
  /\ UNCHANGED <<relay, stop, budgets, ghosts>>

Undone(s) ==
  /\ start[s].at = "undoing"
  /\ relay' \in {relay, Deleted(s)}
  /\ Fail(s, ClearOwn(file, s))
  /\ UNCHANGED <<stop, budgets, ghosts>>

---------------------------------------------------------------------------
(* The end of a bridge *)

Closing(s) ==
  /\ servers' = servers \ Held(s)
  /\ start' = [start EXCEPT ![s].at = "closing", ![s].kept = None]

\* stop(): a signal, its owner or its opencode gone, or the relay's 4001.
Close(s) ==
  /\ start[s].at = "serving"
  /\ Closing(s)
  /\ UNCHANGED <<file, relay, stop, budgets, ghosts>>

Closed(s) ==
  /\ start[s].at = "closing"
  /\ relay' \in {relay, Deleted(s)}
  /\ file' = ClearOwn(file, s)
  /\ start' = [start EXCEPT ![s] = Outside("gone")]
  /\ ended' = ended \cup {start[s].code}
  /\ UNCHANGED <<stop, servers, budgets, overlapped, overtaken, cutShort, orphaned, served>>

\* A SIGKILL, at any point.
Kill(s) ==
  /\ Alive(s) /\ kills < MaxKills
  /\ kills' = kills + 1
  /\ start' = [start EXCEPT ![s] = Outside("gone")]
  /\ orphaned' = IF start[s].at \in {"ready", "asked", "answered"} THEN orphaned \cup Held(s) ELSE orphaned
  /\ UNCHANGED <<file, relay, stop, servers, stops, overlapped, overtaken, cutShort, served, ended>>

\* The relay lets the share go: nobody came for it, or it idled too long.
RelayDrops ==
  /\ relay # None
  /\ relay' = None
  /\ UNCHANGED <<file, start, stop, servers, budgets, ghosts>>

---------------------------------------------------------------------------
(* stopBridge *)

StopBegins ==
  /\ stop.at = "idle" /\ stops < MaxStops /\ file # None
  /\ stop' = [at |-> "asked", rec |-> file]
  /\ stops' = stops + 1
  /\ overlapped' = (overlapped \/ Busy)
  /\ UNCHANGED <<file, relay, start, servers, kills, overtaken, cutShort, orphaned, served, ended>>

\* Its DELETE reaches the relay, or does not.
StopTold ==
  /\ stop.at = "asked"
  /\ relay' \in {relay, Deleted(stop.rec.token)}
  /\ stop' = [stop EXCEPT !.at = "told"]
  /\ UNCHANGED <<file, start, servers, budgets, ghosts>>

\* SIGTERM: a bridge that is up closes; one still starting has no handler.
Terminated(s) ==
  IF start[s].at \in {"serving", "closing"}
  THEN [start[s] EXCEPT !.at = "closing", !.kept = None]
  ELSE Outside("gone")

StopEnds ==
  /\ stop.at = "told"
  /\ file' = None
  /\ LET r == stop.rec IN
     IF Alive(r.token)
     THEN /\ start' = [start EXCEPT ![r.token] = Terminated(r.token)]
          /\ servers' = servers \ ({r.server} \cup IF start[r.token].at = "serving" THEN Held(r.token) ELSE {})
     ELSE servers' = servers \ {r.server} /\ UNCHANGED start
  /\ cutShort' = (cutShort \/ (file # None /\ file.token # stop.rec.token))
  /\ ended' = IF stop.rec.code = None THEN ended ELSE ended \cup {stop.rec.code}
  /\ stop' = [at |-> "idle", rec |-> None]
  /\ UNCHANGED <<relay, budgets, overlapped, overtaken, orphaned, served>>

---------------------------------------------------------------------------
Next ==
  \/ \E s \in Starts :
       \/ Begin(s) \/ Settled(s) \/ Ask(s) \/ Register(s) \/ Answered(s)
       \/ Linked(s) \/ LinkFails(s) \/ Undone(s) \/ Close(s) \/ Closed(s) \/ Kill(s)
  \/ RelayDrops \/ StopBegins \/ StopTold \/ StopEnds

Spec == Init /\ [][Next]_vars

Alike == Permutations(Starts)

---------------------------------------------------------------------------
(* Properties *)

ServedBy(s) == start[s].at = "serving" /\ relay # None /\ relay.token = s
Recorded(s) == file # None /\ file.token = s /\ ~file.gone

\* The share a bridge is serving can be stopped: the file holds its token, whatever
\* earlier start tears down or fails meanwhile (state.ts:116-127, 139-141).
ServedShareHasItsRecord == \A s \in Starts : ServedBy(s) => Recorded(s)

\* That much is so as long as no start writes its record after that of a later
\* registration, and no stop removes a record it has not read.
RecordOutlivesEarlierStarts == overtaken \/ cutShort \/ ServedShareHasItsRecord

\* What state.ts:116-127 says of a teardown holds of a stop: it leaves a share that was
\* recorded after it began its record.
StopSparesLaterShares == overtaken \/ ServedShareHasItsRecord

\* A start is refused as already shared only while a bridge is up, coming up or
\* closing: no process that failed earlier stands in the way (state.ts:46-57).
RefusedOnlyByALiveBridge ==
  [][\A s \in Starts :
       (start[s].at = "idle" /\ start'[s].at = "gone")
         => \E t \in Starts : start[t].at \in {"linking", "undoing", "serving", "closing"}]_vars

\* Whatever starts are killed or fail, as long as commands take turns: no start takes
\* from the viewers a code they have used, unless its bridge or a stop ended the share
\* (state.ts:28-38).
UsedCodeIsTakenBack ==
  [][\A s \in Starts :
       (/\ ~overlapped' /\ relay # None /\ relay.code \in served \ ended
        /\ start[s].at \in Working /\ start'[s].at # start[s].at)
         => relay' # None /\ relay'.code = relay.code]_vars

\* Whatever starts are killed or fail, as long as commands take turns: an `opencode
\* serve` that runs for a share is named by the file or held by a live process
\* (index.ts:110-121), but for those of a start killed before it could write.
ServersAreKnown ==
  overlapped \/
  \A v \in servers \ orphaned :
    \/ file # None /\ file.server = v
    \/ \E s \in Starts : start[s].at \notin {"idle", "lingering", "gone"} /\ v \in Held(s)

\* The record and the processes are what they can be, and belong together.
RecordsAreSound == TypeOK /\ RecordOutlivesEarlierStarts /\ ServersAreKnown
=============================================================================
