----------------------------- MODULE BridgeLink -----------------------------
(***************************************************************************)
(* The bridge's end of a share: startBridge from its first dial on         *)
(* (src/bridge/src/index.ts) and RelayWSClient (src/bridge/src/relay.ts),  *)
(* which keeps one socket to the relay and one subscription to opencode's  *)
(* event stream alive.                                                     *)
(*                                                                         *)
(* An event handler and the promise callbacks it settles run before the    *)
(* next event, so they are one action.  The relay is the environment: it   *)
(* holds the share's registration until it ends it.  What links and        *)
(* streams carry, and how long a back-off lasts, is left out.              *)
(***************************************************************************)
EXTENDS Naturals, FiniteSets

CONSTANTS
  Strikes,         \* KEEPALIVE_STRIKES
  MaxFaults,       \* bound: links and dials that break, freeze or stay silent for
                   \* a round of keep-alive, subscriptions that fail or end
  MaxSubscriptions \* bound: subscriptions that exist at the same time

ASSUME BoundsArePositive == {Strikes, MaxFaults, MaxSubscriptions} \subseteq Nat \ {0}

VARIABLES
  phase,       \* of startBridge: "connecting", "subscribing" (startEventForwarding
               \* is awaited), "serving" (onFatal is set), "failed" or "stopped"
  share,       \* "held" by the relay, or "gone"
  stopped,     \* RelayWSClient.stopped
  fatal,       \* RelayWSClient.fatal
  sock,        \* RelayWSClient.ws: "none", "dialling", "open", or no longer open with
               \* its 'close' event to come, "lost" or "ended" (code 4001)
  frozen,      \* the open socket is half-open: nothing arrives on it any more
  heard,       \* pongSinceTick or inboundSinceTick
  strikes,     \* startKeepAlive: strikes
  timer,       \* reconnectTimer is armed
  subs,        \* subscriptions: "none", "first" (awaited by startBridge),
               \* "fetching" or "reading"
  aborts,      \* the subscription that eventAbortController ends, 0 for none
  forwarding,  \* forwardingEvents
  restarts,    \* timers of scheduleEventRestart
  faults       \* faults so far

link == <<sock, frozen, heard, strikes, timer>>
feed == <<subs, aborts, forwarding, restarts>>
vars == <<phase, share, stopped, fatal, link, feed, faults>>

Subs == 1..MaxSubscriptions

TypeOK ==
  /\ phase \in {"connecting", "subscribing", "serving", "failed", "stopped"}
  /\ share \in {"held", "gone"}
  /\ {stopped, fatal, frozen, heard, timer, forwarding} \subseteq BOOLEAN
  /\ sock \in {"none", "dialling", "open", "lost", "ended"}
  /\ strikes \in 0..Strikes
  /\ subs \in [Subs -> {"none", "first", "fetching", "reading"}]
  /\ aborts \in Subs \cup {0}
  /\ restarts \in Nat
  /\ faults \in 0..MaxFaults

\* startBridge has registered the share and calls connect().
Init ==
  /\ phase = "connecting"
  /\ share = "held"
  /\ sock = "dialling"
  /\ strikes = 0
  /\ subs = [s \in Subs |-> "none"]
  /\ aborts = 0
  /\ restarts = 0
  /\ faults = 0
  /\ stopped = FALSE /\ fatal = FALSE
  /\ frozen = FALSE /\ heard = FALSE
  /\ timer = FALSE /\ forwarding = FALSE

Fault == faults < MaxFaults /\ faults' = faults + 1

---------------------------------------------------------------------------
(* Helpers of several handlers *)

\* close(), on the socket and the subscription the client knows of.
Close(s) ==
  /\ stopped' = TRUE
  /\ timer' = FALSE
  /\ sock' = CASE s = "open" -> "lost" [] s = "dialling" -> "none" [] OTHER -> s
  /\ subs' = [x \in Subs |-> IF x = aborts THEN "none" ELSE subs[x]]
  /\ forwarding' = (forwarding /\ (aborts = 0 \/ subs[aborts] # "reading"))
  /\ aborts' = 0
  /\ UNCHANGED restarts

\* stop(), and what startBridge does when its connect or its first
\* subscription fails: a share of its own is deleted at the relay, a resumed
\* one stays, and the DELETE may not get through.
EndShare(how, s) ==
  /\ phase' = how
  /\ Close(s)
  /\ share' \in {share, "gone"}

\* onFatal, which startBridge sets once it serves.
OnFatal(s) ==
  /\ fatal' = TRUE
  /\ IF phase = "serving"
     THEN EndShare("stopped", s)
     ELSE sock' = s /\ UNCHANGED <<phase, share, stopped, timer, feed>>

\* Mutant: a re-dial that fails is the last one.
RedialsOnce == FALSE

\* scheduleReconnect's guard; the timer itself is never armed twice.
Redials == ~stopped /\ ~fatal

\* startEventForwarding, up to its wait for opencode.
Subscribe(first) ==
  /\ \E s \in Subs :
       /\ subs[s] = "none"
       /\ \A x \in 1..(s - 1) : subs[x] # "none"
       /\ subs' = [subs EXCEPT ![s] = IF first THEN "first" ELSE "fetching"]
       /\ aborts' = s
  /\ UNCHANGED forwarding

\* Mutant: a subscription that could not be made is not retried.
NeverResubscribes == restarts

\* scheduleEventRestart.
Resubscribes == IF stopped THEN restarts ELSE restarts + 1

---------------------------------------------------------------------------
(* The socket *)

StrikesAtOpen == 0

\* 'open': keep-alive starts, and whoever awaited the dial goes on.
DialOpens ==
  /\ sock = "dialling"
  /\ share = "held"
  /\ sock' = "open"
  /\ frozen' = FALSE
  /\ heard' = FALSE
  /\ strikes' = StrikesAtOpen
  /\ phase' = IF phase = "connecting" THEN "subscribing" ELSE phase
  /\ IF phase = "connecting" \/ ~forwarding
     THEN Subscribe(phase = "connecting") /\ UNCHANGED restarts
     ELSE UNCHANGED feed
  /\ UNCHANGED <<share, stopped, fatal, timer, faults>>

\* A transport error, the handshake timeout or an HTTP status that passes.
DialFails ==
  /\ sock = "dialling"
  /\ Fault
  /\ IF phase = "connecting"
     THEN EndShare("failed", "none")
     ELSE /\ sock' = "none"
          /\ timer' = Redials
          /\ UNCHANGED <<phase, share, stopped, feed>>
  /\ UNCHANGED <<fatal, frozen, heard, strikes>>

Refused(s) ==
  IF phase = "connecting" THEN EndShare("failed", s) /\ fatal' = TRUE ELSE OnFatal(s)

\* 'unexpected-response' with 401: the relay knows no such registration.
DialRefused ==
  /\ sock = "dialling"
  /\ share = "gone"
  /\ Refused("none")
  /\ UNCHANGED <<frozen, heard, strikes, faults>>

RedialTimer ==
  /\ timer
  /\ timer' = FALSE
  /\ sock' = IF stopped \/ fatal THEN sock ELSE "dialling"
  /\ UNCHANGED <<phase, share, stopped, fatal, frozen, heard, strikes, feed, faults>>

\* The 'close' event of the current socket.
Closed ==
  /\ sock \in {"lost", "ended"}
  /\ heard' = FALSE
  /\ IF sock = "ended"
     THEN OnFatal("none")
     ELSE /\ sock' = "none"
          /\ timer' = (~stopped /\ ~fatal)
          /\ UNCHANGED <<phase, share, stopped, fatal, feed>>
  /\ UNCHANGED <<frozen, strikes, faults>>

LinkBreaks ==
  /\ sock = "open"
  /\ Fault
  /\ sock' = "lost"
  /\ UNCHANGED <<phase, share, stopped, fatal, frozen, heard, strikes, timer, feed>>

LinkFreezes ==
  /\ sock = "open"
  /\ ~frozen
  /\ Fault
  /\ frozen' = TRUE
  /\ UNCHANGED <<phase, share, stopped, fatal, sock, heard, strikes, timer, feed>>

\* A pong, a ping or any byte of the relay's.
Hears ==
  /\ sock = "open"
  /\ ~frozen
  /\ ~heard
  /\ heard' = TRUE
  /\ UNCHANGED <<phase, share, stopped, fatal, sock, frozen, strikes, timer, feed, faults>>

\* linkMadeProgress, with nothing queued on the bridge's side.
Progress == heard

\* One round of keep-alive.  A working link that brought nothing since the last
\* one (a congested way) counts as a fault.
Tick ==
  /\ sock = "open"
  /\ ~stopped
  /\ heard' = FALSE
  /\ strikes' = IF Progress THEN 0 ELSE strikes + 1
  /\ sock' = IF ~Progress /\ strikes + 1 >= Strikes THEN "lost" ELSE "open"
  /\ IF frozen \/ heard THEN UNCHANGED faults ELSE Fault
  /\ UNCHANGED <<phase, share, stopped, fatal, frozen, timer, feed>>

---------------------------------------------------------------------------
(* The subscription to opencode's events *)

Fetched(s) ==
  /\ subs[s] \in {"first", "fetching"}
  /\ subs' = [subs EXCEPT ![s] = "reading"]
  /\ forwarding' = TRUE
  /\ phase' = IF subs[s] = "first" THEN "serving" ELSE phase
  /\ UNCHANGED <<share, stopped, fatal, link, aborts, restarts, faults>>

FetchFails(s) ==
  /\ subs[s] \in {"first", "fetching"}
  /\ Fault
  /\ IF subs[s] = "first"
     THEN EndShare("failed", sock)
     ELSE /\ subs' = [subs EXCEPT ![s] = "none"]
          /\ restarts' = Resubscribes
          /\ UNCHANGED <<phase, share, stopped, sock, timer, aborts, forwarding>>
  /\ UNCHANGED <<fatal, frozen, heard, strikes>>

\* readSseStream's finally.
StreamEnds(s) ==
  /\ subs[s] = "reading"
  /\ Fault
  /\ subs' = [subs EXCEPT ![s] = "none"]
  /\ forwarding' = FALSE
  /\ restarts' = IF stopped THEN restarts ELSE restarts + 1
  /\ UNCHANGED <<phase, share, stopped, fatal, link, aborts>>

RestartTimer ==
  /\ restarts > 0
  /\ restarts' = restarts - 1
  /\ IF stopped \/ forwarding THEN UNCHANGED <<subs, aborts, forwarding>> ELSE Subscribe(FALSE)
  /\ UNCHANGED <<phase, share, stopped, fatal, link, faults>>

---------------------------------------------------------------------------
(* The share's end *)

\* `stop`, the watchdog or the owner's exit.
Stop ==
  /\ phase = "serving"
  /\ EndShare("stopped", sock)
  /\ UNCHANGED <<fatal, frozen, heard, strikes, faults>>

\* A stop elsewhere, a replacement or the reaper closes the socket with 4001; a
\* relay that lost its state only drops it.
RelayEnds ==
  /\ share = "held"
  /\ share' = "gone"
  /\ \E s \in {"ended", "lost"} : sock' = IF sock = "open" /\ ~frozen THEN s ELSE sock
  /\ UNCHANGED <<phase, stopped, fatal, frozen, heard, strikes, timer, feed, faults>>

---------------------------------------------------------------------------
Next ==
  \/ DialOpens
  \/ DialFails
  \/ DialRefused
  \/ RedialTimer
  \/ Closed
  \/ LinkBreaks
  \/ LinkFreezes
  \/ Hears
  \/ Tick
  \/ \E s \in Subs : Fetched(s)
  \/ \E s \in Subs : FetchFails(s)
  \/ \E s \in Subs : StreamEnds(s)
  \/ RestartTimer
  \/ Stop
  \/ RelayEnds

Spec == Init /\ [][Next]_vars

\* A dial ends (wsHandshakeTimeoutMs), timers fire, a socket that is not OPEN
\* has its 'close' event, and opencode answers what no fault befalls.
FairSpec ==
  /\ Spec
  /\ WF_vars(DialOpens) /\ WF_vars(DialRefused)
  /\ WF_vars(RedialTimer) /\ WF_vars(Closed) /\ WF_vars(Tick)
  /\ \A s \in Subs : WF_vars(Fetched(s))
  /\ WF_vars(RestartTimer)

---------------------------------------------------------------------------
(* Properties *)

Serving == sock = "open" /\ ~frozen

(* While the share is up there is exactly one way to a link: a socket, or a *)
(* timer that dials one.  A second would leave two sockets dialled, none    *)
(* the share without a link for good.                                       *)
OneWayBack ==
  ~stopped /\ ~fatal => timer # (sock # "none")

(* The bridge's timers, counters and flags have values of their kind, and    *)
(* the way back is one.                                                      *)
LinkIsSound == TypeOK /\ OneWayBack

(* Unless the share ends, the bridge gets back to a working link once the   *)
(* faults stop, whatever they broke or froze, and keeps it; and events flow *)
(* on it: opencode's stream is read again after it ended, or could not be   *)
(* had when the link came back.                                             *)
EventsFlowAgain ==
  <>[]((Serving /\ \E s \in Subs : subs[s] = "reading") \/ share = "gone" \/ stopped)

(* A bridge that serves a share learns that the relay ended it, also when   *)
(* the socket that would have said so was frozen or down.                   *)
EndIsNoticed == []((phase = "serving" /\ share = "held") => [](share = "gone" => <>stopped))

(* Once the faults stop, the bridge is back in service or shut down.         *)
LinkSettles == EventsFlowAgain /\ EndIsNoticed

(* When the relay ended the share, the bridge that served it shuts down     *)
(* instead of going on without a link.                                      *)
FatalEndsTheShare == phase = "serving" => ~fatal

=============================================================================
