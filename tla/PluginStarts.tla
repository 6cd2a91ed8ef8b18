---------------------------- MODULE PluginStarts ----------------------------
(***************************************************************************)
(* The opencode plugin's start and stop (plugin/bridge-runner.js): it      *)
(* spawns a detached bridge, reads from that bridge's log whether it came  *)
(* up, cancels one that takes too long, and keeps in bridge.log the URL    *)
(* and the code of the share that came up last.                            *)
(*                                                                         *)
(* Plugin, bridges and `bridge stop` are processes of their own.  What     *)
(* starts of one session do to each other is LocalShares'; here a bridge   *)
(* checks for an earlier share and writes its own state in one step.       *)
(***************************************************************************)
EXTENDS Naturals, TLC

CONSTANTS
  Launches, Sessions,
  SessionOf,  \* the session a start shares
  Hosts,      \* the OpenCode processes the plugin runs in
  HostOf,     \* the one a start was typed in
  Nil,
  MaxTurns    \* bound: bridges killed with -9, and /remote-control/stop typed

ASSUME StartsAreTyped == SessionOf \in [Launches -> Sessions] /\ HostOf \in [Launches -> Hosts]
ASSUME NilIsNoStart == Nil \notin Launches \cup Sessions
ASSUME BoundIsANumber == MaxTurns \in Nat

VARIABLES
  plug,    \* startBridge's promise, and what it is doing
  bridge,  \* the bridge it spawned
  codeOf,  \* that bridge's access code
  out,     \* what the start's log has of it: its code, or that it failed
  signal,  \* SIGTERM is on its way to the bridge
  files,   \* <session>.json: the bridge's pid and code
  log,     \* the code bridge.log holds
  hosts,   \* the OpenCode processes that run
  stopping, \* the stop command under way, and the code it read in bridge.log
  turns,
  lastUp,   \* ghost: the code of the share that came up last, as the plugin saw it
  lostLog \* ghost: the code that a stop removed with bridge.log, having read another

bridgeVars == <<bridge, codeOf, out, signal, files>>
logGhosts == <<lastUp, lostLog>>
startsVars == <<plug, bridgeVars, log, hosts, stopping, turns, logGhosts>>

\* "coming": no state written yet; "saved": connecting; "up": its code is in its log,
\* and it handles SIGTERM; "closing": stop()'s DELETE is out.
BridgePhases == {"none", "coming", "saved", "up", "closing", "dead"}
Promises == {"idle", "waiting", "cancelling", "exiting", "ending", "ready", "failed", "cancelled", "gone"}

Stops == [at : {"asked", "clearing", "removing"}, session : Sessions, host : Hosts, read : Launches \cup {Nil}]

StartsTypeOK ==
  /\ plug \in [Launches -> Promises] /\ bridge \in [Launches -> BridgePhases]
  /\ codeOf \in [Launches -> Launches \cup {Nil}]
  /\ out \in [Launches -> {"nothing", "code", "failure"}] /\ signal \in [Launches -> BOOLEAN]
  /\ files \in [Sessions -> {Nil} \cup [pid : Launches, code : Launches]]
  /\ log \in Launches \cup {Nil} /\ lastUp \in Launches \cup {Nil} /\ lostLog \in Launches \cup {Nil}
  /\ hosts \subseteq Hosts
  /\ stopping \in {Nil} \cup Stops

StartsInit ==
  /\ plug = [s \in Launches |-> "idle"] /\ bridge = [s \in Launches |-> "none"]
  /\ codeOf = [s \in Launches |-> Nil]
  /\ out = [s \in Launches |-> "nothing"] /\ signal = [s \in Launches |-> FALSE]
  /\ files = [x \in Sessions |-> Nil]
  /\ log = Nil /\ lastUp = Nil /\ lostLog = Nil
  /\ hosts = Hosts /\ stopping = Nil /\ turns = 0

HostUp(s) == HostOf[s] \in hosts

---------------------------------------------------------------------------
(* State files *)

File(s) == files[SessionOf[s]]
IsOwn(s) == File(s) # Nil /\ File(s).pid = s
Set(s, f) == [files EXCEPT ![SessionOf[s]] = f]
Cleared(s) == IF IsOwn(s) THEN Set(s, Nil) ELSE files
IsRecorded(c) == \E x \in Sessions : files[x] # Nil /\ files[x].code = c

BridgeLives(s) == bridge[s] \notin {"none", "dead"}

---------------------------------------------------------------------------
(* The bridge *)

BridgeIs(s, phase) == bridge' = [bridge EXCEPT ![s] = phase]

\* It exits, or is killed: no signal finds it any more.
GoesDown(s) == BridgeIs(s, "dead") /\ signal' = [signal EXCEPT ![s] = FALSE]

\* It refuses a session that is shared, takes back a share whose bridge died, and
\* registers one of its own otherwise.
Registers(s) ==
  /\ bridge[s] = "coming"
  /\ IF File(s) # Nil /\ BridgeLives(File(s).pid)
     THEN /\ GoesDown(s) /\ out' = [out EXCEPT ![s] = "failure"]
          /\ UNCHANGED <<codeOf, files>>
     ELSE \E c \in {IF File(s) = Nil THEN s ELSE File(s).code} :
            /\ BridgeIs(s, "saved")
            /\ codeOf' = [codeOf EXCEPT ![s] = c]
            /\ files' = Set(s, [pid |-> s, code |-> c])
            /\ UNCHANGED <<out, signal>>
  /\ UNCHANGED <<plug, log, hosts, stopping, turns, logGhosts>>

\* No server, no relay, no link: it says so and exits.  A share it took back stays.
Fails(s) ==
  /\ bridge[s] \in {"coming", "saved"}
  /\ GoesDown(s) /\ out' = [out EXCEPT ![s] = "failure"]
  /\ files' = IF bridge[s] = "saved" /\ codeOf[s] = s THEN Cleared(s) ELSE files
  /\ UNCHANGED <<plug, codeOf, log, hosts, stopping, turns, logGhosts>>

ComesUp(s) ==
  /\ bridge[s] = "saved"
  /\ BridgeIs(s, "up") /\ out' = [out EXCEPT ![s] = "code"]
  /\ UNCHANGED <<plug, codeOf, signal, files, log, hosts, stopping, turns, logGhosts>>

\* A SIGTERM ends a bridge that is not up; one that is, it closes.
Signalled(s) ==
  /\ signal[s] /\ BridgeLives(s)
  /\ signal' = [signal EXCEPT ![s] = FALSE]
  /\ BridgeIs(s, IF bridge[s] \in {"up", "closing"} THEN "closing" ELSE "dead")
  /\ UNCHANGED <<plug, codeOf, out, files, log, hosts, stopping, turns, logGhosts>>

WatchesNobody(s) == FALSE
OwnerGone(s) == ~HostUp(s)

\* The watchdog's tick.
Watchdog(s) ==
  /\ bridge[s] = "up" /\ OwnerGone(s)
  /\ BridgeIs(s, "closing")
  /\ UNCHANGED <<plug, codeOf, out, signal, files, log, hosts, stopping, turns, logGhosts>>

\* The relay ended the share, or opencode stopped answering.
Ends(s) ==
  /\ bridge[s] = "up"
  /\ BridgeIs(s, "closing")
  /\ UNCHANGED <<plug, codeOf, out, signal, files, log, hosts, stopping, turns, logGhosts>>

Closes(s) ==
  /\ bridge[s] = "closing"
  /\ GoesDown(s) /\ files' = Cleared(s)
  /\ UNCHANGED <<plug, codeOf, out, log, hosts, stopping, turns, logGhosts>>

Killed(s) ==
  /\ BridgeLives(s) /\ turns < MaxTurns
  /\ GoesDown(s) /\ turns' = turns + 1
  /\ UNCHANGED <<plug, codeOf, out, files, log, hosts, stopping, logGhosts>>

\* OpenCode exits, and with it the plugin's timers and what a stop has left to do; not
\* the `bridge stop` it ran.
HostExits(h) ==
  /\ h \in hosts
  /\ hosts' = hosts \ {h}
  /\ plug' = [s \in Launches |-> IF HostOf[s] = h THEN "gone" ELSE plug[s]]
  /\ stopping' = IF stopping # Nil /\ stopping.host = h /\ stopping.at # "asked" THEN Nil ELSE stopping
  /\ UNCHANGED <<bridgeVars, log, turns, logGhosts>>

---------------------------------------------------------------------------
(* /remote-control/start *)

Becomes(s, promise) == plug' = [plug EXCEPT ![s] = promise]

Start(s) ==
  /\ plug[s] = "idle" /\ HostUp(s)
  /\ Becomes(s, "waiting") /\ BridgeIs(s, "coming")
  /\ UNCHANGED <<codeOf, out, signal, files, log, hosts, stopping, turns, logGhosts>>

\* Clearing the log is one call: no timer of its OpenCode fires between its steps.
Clears(h) == stopping # Nil /\ stopping.at = "removing" /\ stopping.host = h

\* check(): a code makes the start's log bridge.log; a failure is kept beside it.
Check(s) ==
  /\ plug[s] = "waiting" /\ ~Clears(HostOf[s])
  /\ \/ /\ out[s] = "code" /\ Becomes(s, "ready")
        /\ log' = codeOf[s] /\ lastUp' = codeOf[s] /\ lostLog' = Nil
     \/ out[s] = "failure" /\ Becomes(s, "failed") /\ UNCHANGED <<log, logGhosts>>
  /\ UNCHANGED <<bridgeVars, hosts, stopping, turns>>

\* The timer, with nothing in the log yet.
Timeout(s) ==
  /\ plug[s] = "waiting"
  /\ out[s] = "nothing"
  /\ Becomes(s, "cancelling")
  /\ UNCHANGED <<bridgeVars, log, hosts, stopping, turns, logGhosts>>

\* cancelStart: the process group is signalled,
Cancel(s) ==
  /\ plug[s] = "cancelling"
  /\ Becomes(s, "exiting")
  /\ signal' = [signal EXCEPT ![s] = BridgeLives(s)]
  /\ UNCHANGED <<bridge, codeOf, out, files, log, hosts, stopping, turns, logGhosts>>

\* and its state file looked for once it is gone.  CANCEL_EXIT_WAIT_MS is long
\* enough but for a bridge that waits for the relay.
AtOnce(s) == TRUE
HasExited(s) == bridge[s] \in {"closing", "dead"}

\* registeredShare
Exited(s) ==
  /\ plug[s] = "exiting"
  /\ HasExited(s)
  /\ Becomes(s, IF IsOwn(s) THEN "ending" ELSE "cancelled")
  /\ UNCHANGED <<bridgeVars, log, hosts, stopping, turns, logGhosts>>

\* `bridge stop`, by the session: the file goes, and whatever bridge it named.
Stopped(x) ==
  /\ files' = [files EXCEPT ![x] = Nil]
  /\ signal' = IF files[x] # Nil /\ BridgeLives(files[x].pid) THEN [signal EXCEPT ![files[x].pid] = TRUE] ELSE signal

\* A stop that fails is reported, with the share as it was.
EndCancelled(s) ==
  /\ plug[s] = "ending"
  /\ \/ Stopped(SessionOf[s]) /\ Becomes(s, "cancelled")
     \/ Becomes(s, "failed") /\ UNCHANGED <<files, signal>>
  /\ UNCHANGED <<bridge, codeOf, out, log, hosts, stopping, turns, logGhosts>>

---------------------------------------------------------------------------
(* /remote-control/stop *)

StopShare(x, h) ==
  /\ stopping = Nil /\ turns < MaxTurns /\ h \in hosts
  /\ stopping' = [at |-> "asked", session |-> x, host |-> h, read |-> Nil] /\ turns' = turns + 1
  /\ UNCHANGED <<plug, bridgeVars, log, hosts, logGhosts>>

BridgeStop ==
  /\ stopping # Nil /\ stopping.at = "asked"
  /\ Stopped(stopping.session)
  /\ stopping' = IF stopping.host \in hosts THEN [stopping EXCEPT !.at = "clearing"] ELSE Nil
  /\ UNCHANGED <<plug, bridge, codeOf, out, log, hosts, turns, logGhosts>>

\* clearSpentLog reads the code in the log, looks for it in the state files and removes
\* the log that is there by then.  A code once no share's is never one again, so the
\* look and the removal are one step.
ReadLog ==
  /\ stopping # Nil /\ stopping.at = "clearing"
  /\ stopping' = [stopping EXCEPT !.at = "removing", !.read = log]
  /\ UNCHANGED <<plug, bridgeVars, log, hosts, turns, logGhosts>>

Spent(c) == IF IsRecorded(c) THEN log ELSE Nil

ClearSpentLog ==
  /\ stopping # Nil /\ stopping.at = "removing"
  /\ log' = Spent(stopping.read)
  /\ lostLog' = IF log' # log /\ log # stopping.read THEN log ELSE lostLog
  /\ stopping' = Nil
  /\ UNCHANGED <<plug, bridgeVars, hosts, turns, lastUp>>

---------------------------------------------------------------------------
BridgeSteps(s) ==
  \/ Registers(s) \/ Fails(s) \/ ComesUp(s) \/ Signalled(s) \/ Watchdog(s) \/ Closes(s)

StartsNext ==
  \/ \E s \in Launches :
       \/ BridgeSteps(s) \/ Ends(s) \/ Killed(s)
       \/ Start(s) \/ Check(s) \/ Timeout(s) \/ Cancel(s) \/ Exited(s) \/ EndCancelled(s)
  \/ \E h \in Hosts : HostExits(h)
  \/ \E x \in Sessions, h \in Hosts : StopShare(x, h)
  \/ BridgeStop \/ ReadLog \/ ClearSpentLog

\* Only bridges are sure to go on: each step awaits an answer with a timeout, and the
\* watchdog is an interval timer.  A bridge takes few steps, so none is overlooked
\* for good while some bridge goes on.
Fairness == WF_startsVars(\E s \in Launches : BridgeSteps(s))

StartsSpec == StartsInit /\ [][StartsNext]_startsVars /\ Fairness

---------------------------------------------------------------------------
(* Properties *)

\* A start the plugin reports as cancelled has left no bridge that comes up later and no
\* state file of its own (bridge-runner.js:288-306, 317-318).
CancelledStartLeavesNothing ==
  \A s \in Launches : plug[s] = "cancelled" => bridge[s] \in {"closing", "dead"} /\ ~IsOwn(s)

OneOpenCode == \A g, h \in Hosts : g = h

\* As long as the share that came up last is recorded, bridge.log has its code, whatever
\* starts fail or are cancelled and whatever other share is stopped
\* (bridge-runner.js:112-130, 157-166), unless a stop in another OpenCode had read the
\* log before that share came up and removed it after.
LogNamesTheLastShare ==
  IsRecorded(lastUp) => log = lastUp \/ (~OneOpenCode /\ lostLog = lastUp)

\* What those comments say of any number of OpenCodes, and the code does not keep.
LogIsNeverLost == IsRecorded(lastUp) => log = lastUp

\* Starts, cancelled ones too, and the log are what they can be.
StartsAreSound == StartsTypeOK /\ CancelledStartLeavesNothing /\ LogNamesTheLastShare

\* A share does not outlive the OpenCode it was started in, even one whose bridge was
\* still coming up when that exited (bridge-runner.js:340-345).
ShareEndsWithItsOpenCode == \A s \in Launches : (HostOf[s] \notin hosts) ~> ~BridgeLives(s)
=============================================================================
