-------------------------- MODULE BridgeLinkProofs --------------------------
(* The bridge has one way back to its share's link, for any number of        *)
(* strikes, faults and subscriptions; the counters that its keep-alive, and  *)
(* a viewer's heartbeat, judge a link by tell a peer that reads from one     *)
(* that does not; and the bridge reaches nothing outside its share, counts   *)
(* its places and answers in the form of the link there is.                  *)
EXTENDS BridgeLink, SocketProgress, BridgeRequests, FiniteSetTheorems, SequenceTheorems,
        WellFoundedInduction, TLAPS

\* An open socket has strikes left.
StrikesAreLeft == sock = "open" => strikes < Strikes

IInv == TypeOK /\ OneWayBack /\ StrikesAreLeft

LEMMA Bounds == Strikes \in Nat /\ Strikes > 0 /\ MaxFaults \in Nat /\ MaxSubscriptions \in Nat
<1>1. Strikes \in Nat \ {0} /\ MaxFaults \in Nat \ {0} /\ MaxSubscriptions \in Nat \ {0}
  BY BoundsArePositive
<1> QED BY SMT, <1>1

Feed == /\ subs \in [Subs -> {"none", "first", "fetching", "reading"}]
        /\ aborts \in Subs \cup {0}
        /\ forwarding \in BOOLEAN
        /\ restarts \in Nat

(* The parts of the type, one flag at a time.                                *)
LEMMA Flags ==
  TypeOK <=>
    /\ phase \in {"connecting", "subscribing", "serving", "failed", "stopped"}
    /\ share \in {"held", "gone"}
    /\ stopped \in BOOLEAN /\ fatal \in BOOLEAN /\ frozen \in BOOLEAN
    /\ heard \in BOOLEAN /\ timer \in BOOLEAN
    /\ sock \in {"none", "dialling", "open", "lost", "ended"}
    /\ strikes \in 0..Strikes
    /\ Feed
    /\ faults \in 0..MaxFaults
<1>1. {stopped, fatal, frozen, heard, timer, forwarding} \subseteq BOOLEAN <=>
        /\ stopped \in BOOLEAN /\ fatal \in BOOLEAN /\ frozen \in BOOLEAN
        /\ heard \in BOOLEAN /\ timer \in BOOLEAN /\ forwarding \in BOOLEAN
  BY Zenon
<1> QED BY Zenon, <1>1 DEF TypeOK, Feed

LEMMA FlagsAgain ==
  TypeOK' <=>
    /\ phase' \in {"connecting", "subscribing", "serving", "failed", "stopped"}
    /\ share' \in {"held", "gone"}
    /\ stopped' \in BOOLEAN /\ fatal' \in BOOLEAN /\ frozen' \in BOOLEAN
    /\ heard' \in BOOLEAN /\ timer' \in BOOLEAN
    /\ sock' \in {"none", "dialling", "open", "lost", "ended"}
    /\ strikes' \in 0..Strikes
    /\ Feed'
    /\ faults' \in 0..MaxFaults
<1>1. {stopped', fatal', frozen', heard', timer', forwarding'} \subseteq BOOLEAN <=>
        /\ stopped' \in BOOLEAN /\ fatal' \in BOOLEAN /\ frozen' \in BOOLEAN
        /\ heard' \in BOOLEAN /\ timer' \in BOOLEAN /\ forwarding' \in BOOLEAN
  BY Zenon
<1> QED BY Zenon, <1>1 DEF TypeOK, Feed

LEMMA CloseIsSound ==
  ASSUME TypeOK, NEW s \in {"none", "dialling", "open", "lost", "ended"}, Close(s)
  PROVE  /\ stopped' = TRUE /\ timer' = FALSE
         /\ sock' \in {"none", "lost", "ended"}
         /\ Feed'
<1>1. Feed
  BY Flags
<1>2. sock' \in {"none", "lost", "ended"}
  BY SMT DEF Close
<1>3. Feed'
  BY SMT, <1>1 DEF Close, Feed
<1> QED BY <1>2, <1>3 DEF Close

LEMMA EndShareIsSound ==
  ASSUME TypeOK, NEW s \in {"none", "dialling", "open", "lost", "ended"},
         NEW how \in {"failed", "stopped"}, EndShare(how, s)
  PROVE  /\ stopped' = TRUE /\ timer' = FALSE
         /\ sock' \in {"none", "lost", "ended"}
         /\ phase' \in {"failed", "stopped"}
         /\ share' \in {"held", "gone"}
         /\ Feed'
<1>1. Close(s)
  BY DEF EndShare
<1>2. share \in {"held", "gone"}
  BY Flags
<1>3. phase' \in {"failed", "stopped"} /\ share' \in {"held", "gone"}
  BY SMT, <1>2 DEF EndShare
<1> QED BY <1>1, <1>3, CloseIsSound

LEMMA OnFatalIsSound ==
  ASSUME TypeOK, NEW s \in {"none", "dialling", "open", "lost", "ended"}, s # "open", OnFatal(s)
  PROVE  /\ fatal' = TRUE /\ timer' \in BOOLEAN /\ stopped' \in BOOLEAN
         /\ sock' \in {"none", "dialling", "lost", "ended"}
         /\ phase' \in {"connecting", "subscribing", "serving", "failed", "stopped"}
         /\ share' \in {"held", "gone"}
         /\ Feed'
<1>1. CASE phase = "serving"
  <2>1. EndShare("stopped", s) /\ fatal' = TRUE
    BY <1>1 DEF OnFatal
  <2>2. /\ stopped' = TRUE /\ timer' = FALSE
        /\ sock' \in {"none", "lost", "ended"}
        /\ phase' \in {"failed", "stopped"}
        /\ share' \in {"held", "gone"}
        /\ Feed'
    BY <2>1, EndShareIsSound
  <2> QED BY Zenon, <2>1, <2>2
<1>2. CASE phase # "serving"
  <2>1. fatal' = TRUE /\ sock' = s /\ UNCHANGED <<phase, share, stopped, timer, feed>>
    BY <1>2 DEF OnFatal
  <2>2. Feed'
    BY SMT, <2>1, Flags DEF Feed, feed
  <2> QED BY SMT, <2>1, <2>2, Flags
<1> QED BY <1>1, <1>2

LEMMA SubscribeIsSound ==
  ASSUME TypeOK, NEW first \in BOOLEAN, Subscribe(first), restarts' \in Nat
  PROVE  Feed'
<1>1. Feed
  BY Flags
<1> QED BY SMT, <1>1 DEF Subscribe, Feed

LEMMA FaultIsCounted ==
  ASSUME TypeOK, Fault
  PROVE  faults' \in 0..MaxFaults
BY SMT, Bounds DEF TypeOK, Fault

(* A step after which the bridge is stopped, or will not dial again.         *)
LEMMA ShutKeeps ==
  ASSUME TypeOK,
         fatal' \in BOOLEAN, frozen' = frozen, heard' \in BOOLEAN, timer' \in BOOLEAN, stopped' \in BOOLEAN,
         stopped' \/ fatal',
         sock' \in {"none", "dialling", "lost", "ended"},
         phase' \in {"connecting", "subscribing", "serving", "failed", "stopped"},
         share' \in {"held", "gone"}, strikes' = strikes, faults' \in 0..MaxFaults, Feed'
  PROVE  IInv'
<1>1. sock' \in {"none", "dialling", "open", "lost", "ended"} /\ sock' # "open"
  BY SMT
<1>2. strikes' \in 0..Strikes /\ frozen' \in BOOLEAN
  BY Flags
<1>3. TypeOK'
  BY Zenon, <1>1, <1>2, FlagsAgain
<1>4. OneWayBack' /\ StrikesAreLeft'
  BY Zenon, <1>1 DEF OneWayBack, StrikesAreLeft
<1> QED BY Zenon, <1>3, <1>4 DEF IInv

LEMMA ShutTypes ==
  ASSUME TypeOK
  PROVE  /\ fatal \in BOOLEAN /\ heard \in BOOLEAN /\ FALSE \in BOOLEAN /\ TRUE \in BOOLEAN
         /\ faults \in 0..MaxFaults
         /\ \A s \in {"none", "lost", "ended"} : s \in {"none", "dialling", "lost", "ended"}
         /\ \A p \in {"failed", "stopped"} :
              p \in {"connecting", "subscribing", "serving", "failed", "stopped"}
BY Zenon, Flags

LEMMA InitEstablishes == Init => IInv
<1> SUFFICES ASSUME Init PROVE IInv
  OBVIOUS
<1>1. Feed
  <2>1. subs \in [Subs -> {"none", "first", "fetching", "reading"}]
    BY DEF Init
  <2>2. aborts \in Subs \cup {0} /\ forwarding \in BOOLEAN
    BY Zenon DEF Init
  <2>3. restarts \in Nat
    BY SMT DEF Init
  <2> QED BY <2>1, <2>2, <2>3 DEF Feed
<1>2. TypeOK
  <2>1. strikes \in 0..Strikes /\ faults \in 0..MaxFaults
    BY SMT, Bounds DEF Init
  <2> QED BY Zenon, <1>1, <2>1, Flags DEF Init
<1>3. OneWayBack /\ StrikesAreLeft
  BY Zenon DEF Init, OneWayBack, StrikesAreLeft
<1> QED BY <1>2, <1>3 DEF IInv

---------------------------------------------------------------------------
(* The socket *)

LEMMA DialOpensKeeps == IInv /\ DialOpens => IInv'
<1> SUFFICES ASSUME IInv, DialOpens PROVE IInv'
  OBVIOUS
<1> USE Bounds
<1>1. TypeOK /\ OneWayBack
  BY DEF IInv
<1>2. Feed'
  <2>1. CASE phase = "connecting" \/ ~forwarding
    <3>1. Subscribe(phase = "connecting") /\ restarts' = restarts
      BY <2>1 DEF DialOpens
    <3>2. (phase = "connecting") \in BOOLEAN /\ restarts' \in Nat
      BY <3>1, <1>1 DEF TypeOK
    <3> QED BY <1>1, <3>1, <3>2, SubscribeIsSound
  <2>2. CASE ~(phase = "connecting" \/ ~forwarding)
    <3>1. UNCHANGED feed
      BY <2>2 DEF DialOpens
    <3> QED BY SMT, <3>1, <1>1, Flags DEF feed, Feed
  <2> QED BY <2>1, <2>2
<1>3. strikes' = 0 /\ sock' = "open" /\ heard' = FALSE /\ frozen' = FALSE
  BY DEF DialOpens, StrikesAtOpen
<1>4. phase' \in {"connecting", "subscribing", "serving", "failed", "stopped"}
  BY SMT, <1>1 DEF DialOpens, TypeOK
<1>5. TypeOK'
  <2>1. strikes' \in 0..Strikes
    BY SMT, <1>3
  <2>2. UNCHANGED <<share, stopped, fatal, timer, faults>>
    BY DEF DialOpens
  <2> QED BY <1>1, <1>2, <1>3, <1>4, <2>1, <2>2, Flags, FlagsAgain
<1>6. OneWayBack' /\ StrikesAreLeft'
  BY SMT, <1>1, <1>3, Flags DEF DialOpens, OneWayBack, StrikesAreLeft
<1> QED BY <1>5, <1>6 DEF IInv

LEMMA DialFailsKeeps == IInv /\ DialFails => IInv'
<1> SUFFICES ASSUME IInv, DialFails PROVE IInv'
  OBVIOUS
<1>1. TypeOK
  BY DEF IInv
<1>2. faults' \in 0..MaxFaults
  BY <1>1, FaultIsCounted DEF DialFails
<1>3. UNCHANGED <<fatal, frozen, heard, strikes>>
  BY DEF DialFails
<1>4. CASE phase = "connecting"
  <2>1. EndShare("failed", "none")
    BY <1>4 DEF DialFails
  <2>2. /\ stopped' = TRUE /\ timer' = FALSE
        /\ sock' \in {"none", "lost", "ended"}
        /\ phase' \in {"failed", "stopped"}
        /\ share' \in {"held", "gone"}
        /\ Feed'
    BY <1>1, <2>1, EndShareIsSound
  <2> QED BY Zenon, <1>1, <1>2, <1>3, <2>2, ShutTypes, ShutKeeps
<1>5. CASE phase # "connecting"
  <2>1. sock' = "none" /\ timer' = (~stopped /\ ~fatal) /\ UNCHANGED <<phase, share, stopped, feed>>
    BY <1>5 DEF DialFails, Redials
  <2>2. Feed'
    BY SMT, <2>1, <1>1, Flags DEF feed, Feed
  <2>3. timer' \in BOOLEAN
    BY <2>1
  <2>4. TypeOK'
    BY SMT, <1>1, <1>2, <1>3, <2>1, <2>2, <2>3, Flags, FlagsAgain
  <2>5. OneWayBack' /\ StrikesAreLeft'
    BY SMT, <1>3, <2>1 DEF OneWayBack, StrikesAreLeft
  <2> QED BY <2>4, <2>5 DEF IInv
<1> QED BY <1>4, <1>5

LEMMA DialRefusedKeeps == IInv /\ DialRefused => IInv'
<1> SUFFICES ASSUME IInv, DialRefused PROVE IInv'
  OBVIOUS
<1>1. TypeOK
  BY DEF IInv
<1>2. UNCHANGED <<frozen, heard, strikes, faults>>
  BY DEF DialRefused
<1>3. /\ fatal' = TRUE /\ timer' \in BOOLEAN /\ stopped' \in BOOLEAN
      /\ sock' \in {"none", "dialling", "lost", "ended"}
      /\ phase' \in {"connecting", "subscribing", "serving", "failed", "stopped"}
      /\ share' \in {"held", "gone"}
      /\ Feed'
  <2>1. CASE phase = "connecting"
    <3>1. EndShare("failed", "none") /\ fatal' = TRUE
      BY <2>1 DEF DialRefused, Refused
    <3> QED BY SMT, <1>1, <3>1, EndShareIsSound
  <2>2. CASE phase # "connecting"
    <3>1. OnFatal("none")
      BY <2>2 DEF DialRefused, Refused
    <3> QED BY <1>1, <3>1, OnFatalIsSound
  <2> QED BY <2>1, <2>2
<1> QED BY Zenon, <1>1, <1>2, <1>3, ShutTypes, ShutKeeps

LEMMA ClosedKeeps == IInv /\ Closed => IInv'
<1> SUFFICES ASSUME IInv, Closed PROVE IInv'
  OBVIOUS
<1>1. TypeOK
  BY DEF IInv
<1>2. UNCHANGED <<frozen, strikes, faults>> /\ heard' = FALSE
  BY DEF Closed
<1>3. CASE sock = "ended"
  <2>1. OnFatal("none")
    BY <1>3 DEF Closed
  <2>2. /\ fatal' = TRUE /\ timer' \in BOOLEAN /\ stopped' \in BOOLEAN
        /\ sock' \in {"none", "dialling", "lost", "ended"}
        /\ phase' \in {"connecting", "subscribing", "serving", "failed", "stopped"}
        /\ share' \in {"held", "gone"}
        /\ Feed'
    BY <1>1, <2>1, OnFatalIsSound
  <2> QED BY Zenon, <1>1, <1>2, <2>2, ShutTypes, ShutKeeps
<1>4. CASE sock # "ended"
  <2>1. sock' = "none" /\ timer' = (~stopped /\ ~fatal)
        /\ UNCHANGED <<phase, share, stopped, fatal, feed>>
    BY <1>4 DEF Closed
  <2>2. Feed'
    BY SMT, <2>1, <1>1, Flags DEF feed, Feed
  <2>3. timer' \in BOOLEAN
    BY <2>1
  <2>4. TypeOK'
    BY Zenon, <1>1, <1>2, <2>1, <2>2, <2>3, Flags, FlagsAgain
  <2>5. OneWayBack' /\ StrikesAreLeft'
    BY SMT, <2>1 DEF OneWayBack, StrikesAreLeft
  <2> QED BY <2>4, <2>5 DEF IInv
<1> QED BY <1>3, <1>4

(* The steps that move the socket alone.                                     *)
LEMMA SocketKeeps ==
  IInv /\ (RedialTimer \/ LinkBreaks \/ LinkFreezes \/ Hears \/ Tick \/ RelayEnds) => IInv'
<1> SUFFICES ASSUME IInv, RedialTimer \/ LinkBreaks \/ LinkFreezes \/ Hears \/ Tick \/ RelayEnds
             PROVE  IInv'
  OBVIOUS
<1> USE Bounds
<1>0. TypeOK /\ OneWayBack /\ StrikesAreLeft
  BY DEF IInv
<1>1. UNCHANGED <<phase, stopped, fatal, feed>>
  BY DEF RedialTimer, LinkBreaks, LinkFreezes, Hears, Tick, RelayEnds
<1>2. Feed'
  BY SMT, <1>0, <1>1, Flags DEF feed, Feed
<1>3. faults' \in 0..MaxFaults
  <2>1. faults' = faults \/ Fault
    BY DEF RedialTimer, LinkBreaks, LinkFreezes, Hears, Tick, RelayEnds
  <2> QED BY <1>0, <2>1, FaultIsCounted DEF TypeOK
<1>4. share' \in {"held", "gone"}
  BY SMT, <1>0 DEF RedialTimer, LinkBreaks, LinkFreezes, Hears, Tick, RelayEnds, TypeOK
<1>5. frozen' \in BOOLEAN /\ heard' \in BOOLEAN
  BY Zenon, <1>0, Flags DEF RedialTimer, LinkBreaks, LinkFreezes, Hears, Tick, RelayEnds, link
<1>6. timer' \in BOOLEAN /\ (timer' = timer \/ (timer /\ timer' = FALSE))
  BY Zenon, <1>0, Flags DEF RedialTimer, LinkBreaks, LinkFreezes, Hears, Tick, RelayEnds, link
<1>7. /\ sock' \in {"none", "dialling", "open", "lost", "ended"}
      /\ strikes' \in 0..Strikes
      /\ sock' = "open" => strikes' < Strikes
  <2>1. CASE Tick
    <3>1. strikes \in 0..Strikes /\ strikes < Strikes
      BY SMT, <2>1, <1>0 DEF Tick, TypeOK, StrikesAreLeft
    <3>2. CASE Progress
      BY SMT, <2>1, <3>1, <3>2 DEF Tick
    <3>3. CASE ~Progress
      BY SMT, <2>1, <3>1, <3>3 DEF Tick
    <3> QED BY <3>2, <3>3
  <2>2. CASE ~Tick
    <3>1. strikes' = strikes
      BY <2>2 DEF RedialTimer, LinkBreaks, LinkFreezes, Hears, RelayEnds
    <3>2. sock' \in {"none", "dialling", "open", "lost", "ended"} /\ (sock' = "open" => sock = "open")
      BY SMT, <2>2, <1>0 DEF RedialTimer, LinkBreaks, LinkFreezes, Hears, RelayEnds, TypeOK
    <3> QED BY SMT, <3>1, <3>2, <1>0 DEF TypeOK, StrikesAreLeft
  <2> QED BY <2>1, <2>2
<1>8. OneWayBack'
  <2>1. CASE RedialTimer
    <3>1. timer' = FALSE /\ UNCHANGED <<stopped, fatal>>
      BY <2>1 DEF RedialTimer
    <3>2. ~stopped /\ ~fatal => (sock' # "none") = TRUE
      BY <2>1 DEF RedialTimer
    <3> QED BY Zenon, <3>1, <3>2 DEF OneWayBack
  <2>2. CASE ~RedialTimer
    <3>1. timer' = timer /\ (sock' = "none" <=> sock = "none")
      BY SMT, <2>2, <1>0 DEF LinkBreaks, LinkFreezes, Hears, Tick, RelayEnds
    <3> QED BY SMT, <3>1, <1>0, <1>1 DEF OneWayBack
  <2> QED BY <2>1, <2>2
<1>9. TypeOK'
  BY <1>0, <1>1, <1>2, <1>3, <1>4, <1>5, <1>6, <1>7, Flags, FlagsAgain
<1> QED BY <1>7, <1>8, <1>9 DEF IInv, StrikesAreLeft

---------------------------------------------------------------------------
(* The subscriptions and the share's end *)

LEMMA FeedStepKeeps ==
  ASSUME IInv, UNCHANGED <<share, stopped, fatal, link>>,
         phase' \in {"connecting", "subscribing", "serving", "failed", "stopped"},
         Feed', faults' \in 0..MaxFaults
  PROVE  IInv'
<1>1. UNCHANGED <<share, stopped, fatal, sock, frozen, heard, strikes, timer>>
  BY DEF link
<1>2. TypeOK /\ OneWayBack /\ StrikesAreLeft
  BY DEF IInv
<1>3. TypeOK'
  BY <1>1, <1>2, Flags, FlagsAgain
<1>4. OneWayBack' /\ StrikesAreLeft'
  BY <1>1, <1>2 DEF OneWayBack, StrikesAreLeft
<1> QED BY <1>3, <1>4 DEF IInv

LEMMA FetchedKeeps == ASSUME IInv, NEW s \in Subs, Fetched(s) PROVE IInv'
<1>1. TypeOK /\ Feed
  BY Flags DEF IInv
<1>2. Feed'
  BY SMT, <1>1 DEF Fetched, Feed
<1>3. phase' \in {"connecting", "subscribing", "serving", "failed", "stopped"}
  BY SMT, <1>1 DEF Fetched, TypeOK
<1> QED BY <1>1, <1>2, <1>3, FeedStepKeeps DEF Fetched, TypeOK

LEMMA FetchFailsKeeps == ASSUME IInv, NEW s \in Subs, FetchFails(s) PROVE IInv'
<1>1. TypeOK /\ Feed /\ sock \in {"none", "dialling", "open", "lost", "ended"}
  BY Flags DEF IInv
<1>2. faults' \in 0..MaxFaults
  BY <1>1, FaultIsCounted DEF FetchFails
<1>3. UNCHANGED <<fatal, frozen, heard, strikes>>
  BY DEF FetchFails
<1>4. CASE subs[s] = "first"
  <2>1. EndShare("failed", sock)
    BY <1>4 DEF FetchFails
  <2>2. /\ stopped' = TRUE /\ timer' = FALSE
        /\ sock' \in {"none", "lost", "ended"}
        /\ phase' \in {"failed", "stopped"}
        /\ share' \in {"held", "gone"}
        /\ Feed'
    BY <1>1, <2>1, EndShareIsSound
  <2> QED BY Zenon, <1>1, <1>2, <1>3, <2>2, ShutTypes, ShutKeeps
<1>5. CASE subs[s] # "first"
  <2>1. /\ subs' = [subs EXCEPT ![s] = "none"]
        /\ restarts' = IF stopped THEN restarts ELSE restarts + 1
        /\ UNCHANGED <<phase, share, stopped, sock, timer, aborts, forwarding>>
    BY <1>5 DEF FetchFails, Resubscribes
  <2>2. Feed'
    BY SMT, <1>1, <2>1 DEF Feed
  <2> QED BY <1>1, <1>2, <1>3, <2>1, <2>2, FeedStepKeeps DEF link, TypeOK
<1> QED BY <1>4, <1>5

LEMMA StreamEndsKeeps == ASSUME IInv, NEW s \in Subs, StreamEnds(s) PROVE IInv'
<1>1. TypeOK /\ Feed
  BY Flags DEF IInv
<1>2. faults' \in 0..MaxFaults
  BY <1>1, FaultIsCounted DEF StreamEnds
<1>3. Feed'
  <2>1. subs' \in [Subs -> {"none", "first", "fetching", "reading"}] /\ aborts' = aborts
    BY <1>1 DEF StreamEnds, Feed
  <2>2. restarts' \in Nat
    BY SMT, <1>1 DEF StreamEnds, Feed
  <2>3. forwarding' \in BOOLEAN
    BY DEF StreamEnds
  <2> QED BY <1>1, <2>1, <2>2, <2>3 DEF Feed
<1> QED BY <1>1, <1>2, <1>3, FeedStepKeeps DEF StreamEnds, TypeOK

LEMMA RestartTimerKeeps == IInv /\ RestartTimer => IInv'
<1> SUFFICES ASSUME IInv, RestartTimer PROVE IInv'
  OBVIOUS
<1>1. TypeOK /\ Feed
  BY Flags DEF IInv
<1>2. restarts' \in Nat
  BY SMT, <1>1 DEF RestartTimer, Feed
<1>3. Feed'
  <2>1. CASE stopped \/ forwarding
    BY Zenon, <2>1, <1>1, <1>2 DEF RestartTimer, Feed
  <2>2. CASE ~(stopped \/ forwarding)
    BY <2>2, <1>1, <1>2, SubscribeIsSound DEF RestartTimer
  <2> QED BY <2>1, <2>2
<1> QED BY <1>1, <1>3, FeedStepKeeps DEF RestartTimer, TypeOK

LEMMA StopKeeps == IInv /\ Stop => IInv'
<1> SUFFICES ASSUME IInv, Stop PROVE IInv'
  OBVIOUS
<1>1. TypeOK /\ sock \in {"none", "dialling", "open", "lost", "ended"}
  BY Flags DEF IInv
<1>2. EndShare("stopped", sock) /\ UNCHANGED <<fatal, frozen, heard, strikes, faults>>
  BY DEF Stop
<1>3. /\ stopped' = TRUE /\ timer' = FALSE
      /\ sock' \in {"none", "lost", "ended"}
      /\ phase' \in {"failed", "stopped"}
      /\ share' \in {"held", "gone"}
      /\ Feed'
  BY <1>1, <1>2, EndShareIsSound
<1> QED BY Zenon, <1>1, <1>2, <1>3, ShutTypes, ShutKeeps

---------------------------------------------------------------------------
LEMMA StepKeeps == IInv /\ [Next]_vars => IInv'
<1> SUFFICES ASSUME IInv, [Next]_vars PROVE IInv'
  OBVIOUS
<1>1. CASE UNCHANGED vars
  <2>1. UNCHANGED <<phase, share, stopped, fatal, sock, frozen, heard, strikes, timer, subs, aborts,
                    forwarding, restarts, faults>>
    BY <1>1 DEF vars, link, feed
  <2> QED BY <2>1 DEF IInv, TypeOK, Subs, OneWayBack, StrikesAreLeft
<1>2. CASE DialOpens
  BY <1>2, DialOpensKeeps
<1>3. CASE DialFails
  BY <1>3, DialFailsKeeps
<1>4. CASE DialRefused
  BY <1>4, DialRefusedKeeps
<1>5. CASE Closed
  BY <1>5, ClosedKeeps
<1>6. CASE RedialTimer \/ LinkBreaks \/ LinkFreezes \/ Hears \/ Tick \/ RelayEnds
  BY <1>6, SocketKeeps
<1>7. CASE \E s \in Subs : Fetched(s) \/ FetchFails(s) \/ StreamEnds(s)
  BY <1>7, FetchedKeeps, FetchFailsKeeps, StreamEndsKeeps
<1>8. CASE RestartTimer
  BY <1>8, RestartTimerKeeps
<1>9. CASE Stop
  BY <1>9, StopKeeps
<1> QED BY <1>1, <1>2, <1>3, <1>4, <1>5, <1>6, <1>7, <1>8, <1>9 DEF Next

(* The way back is one, for any number of strikes, faults and subscriptions: *)
(* no order of failed dials, frozen or lost sockets, refusals and stops arms *)
(* a re-dial beside a socket, or leaves the share with neither.              *)
THEOREM OneWayBackAlways == Spec => []LinkIsSound
<1>1. IInv => LinkIsSound
  BY DEF IInv, LinkIsSound
<1> QED BY InitEstablishes, StepKeeps, <1>1, PTL DEF Spec

---------------------------------------------------------------------------
(* The counters tell a peer that reads from one that does not, for any sizes *)
(* of the buffers, the frames and the limits.                               *)

\* Bytes wait only while the OS is full.
QueueIsSound ==
  /\ write.left <= write.size
  /\ write.left = 0 => write.size = 0 /\ behind = 0
  /\ write.left > 0 => room = 0

\* Since the last tick a write was done, or the same one is still in libuv.
SameWrite ==
  /\ last.flushed <= done
  /\ (watcher = "bridge" /\ last.pending > 0 /\ done = last.flushed) =>
       0 < write.left /\ write.left <= last.queue
  /\ (watcher = "viewer" /\ state = "open" /\ done = last.flushed) =>
       0 < write.left /\ (write.left <= last.queue \/ (last.queue = 0 /\ write.left = 1))

\* What the peer took shows, and nothing else does once the OS is full.
EvidenceIsExact ==
  /\ (read > 0 /\ done = last.flushed /\ (watcher = "viewer" \/ last.pending > 0)) => write.left < last.queue
  /\ (read = 0 /\ last.pending > 0) => done = last.flushed /\ write.left = last.queue

\* Nothing comes from a peer that froze before the last tick.
SilenceIsCounted ==
  /\ dark > 0 => peerFrozen /\ read = 0 /\ ~peerHeard
  /\ watcher = "viewer" => ~peerHeard
  /\ dark > 0 /\ watcher = "viewer" => last.pending > MaxBuffer
  /\ state = "open" /\ watcher = "bridge" => dark <= silences + 1 /\ silences < MaxSilences
  /\ state = "open" /\ watcher = "viewer" => dark <= 1

SocketInv == SocketTypeOK /\ QueueIsSound /\ SameWrite /\ EvidenceIsExact /\ SilenceIsCounted /\ HeldIsBounded

LEMMA SocketLimits ==
  ASSUME LimitsAreSet
  PROVE  /\ Room \in Nat /\ MaxSilences \in Nat /\ MaxBuffer \in Nat /\ MaxExempt \in Nat /\ MaxFrame \in Nat
         /\ Room > 0 /\ MaxSilences > 0 /\ MaxFrame > 0
BY SMT DEF LimitsAreSet

LEMMA NoMoreWaits ==
  ASSUME NEW a \in Nat, NEW b \in Nat, NEW c \in Nat, NEW d \in Nat, NEW n \in Nat,
         a + b + n = c + d, c >= a
  PROVE  d <= b + n
BY SMT

LEMMA ExemptBound ==
  ASSUME LimitsAreSet, SocketTypeOK
  PROVE  Exempt \in Nat /\ Exempt <= MaxExempt
<1>1. CASE exempt.end <= done
  BY <1>1 DEF Exempt, LimitsAreSet
<1>2. CASE ~(exempt.end <= done)
  <2> DEFINE S == {MaxExempt, exempt.length, exempt.end - done}
  <2>1. MaxExempt \in Nat /\ exempt.length \in Nat /\ exempt.end - done \in Nat
    BY SMT, <1>2 DEF LimitsAreSet, SocketTypeOK
  <2>2. \E x \in S : \A y \in S : x <= y
    BY SMT, <2>1
  <2>3. Least(S) \in S /\ \A y \in S : Least(S) <= y
    BY <2>2 DEF Least
  <2> QED BY SMT, <2>1, <2>3, <1>2 DEF Exempt
<1> QED BY <1>1, <1>2

(* What a write does to the counters.                                        *)
LEMMA PutKeeps ==
  ASSUME LimitsAreSet, SocketTypeOK, QueueIsSound, NEW n \in Nat, n > 0, Put(n)
  PROVE  /\ room' \in Nat /\ write' \in [size : Nat, left : Nat] /\ behind' \in Nat /\ done' \in Nat
         /\ QueueIsSound'
         /\ done + Pending + n = done' + Pending'
         /\ done' >= done
         /\ write.left > 0 => write' = write /\ done' = done
         /\ (write.left = 0 /\ done' = done) => write'.left > 0 /\ write'.left <= n
<1>1. CASE write.left > 0
  BY SMT, <1>1 DEF LimitsAreSet, SocketTypeOK, QueueIsSound, Put, Pending
<1>2. CASE ~(write.left > 0) /\ n <= room
  BY SMT, <1>2 DEF LimitsAreSet, SocketTypeOK, QueueIsSound, Put, Pending
<1>3. CASE ~(write.left > 0) /\ ~(n <= room)
  BY SMT, <1>3 DEF LimitsAreSet, SocketTypeOK, QueueIsSound, Put, Pending
<1> QED BY SMT, <1>1, <1>2, <1>3 DEF SocketTypeOK

(* What the peer takes.                                                      *)
LEMMA ReadsKeeps ==
  ASSUME LimitsAreSet, SocketTypeOK, QueueIsSound, NEW n \in 1..Room, Reads(n)
  PROVE  /\ room' \in Nat /\ write' \in [size : Nat, left : Nat] /\ behind' \in Nat /\ done' \in Nat
         /\ QueueIsSound'
         /\ Pending' <= Pending
         /\ done' >= done
         /\ done' = done => write'.left <= write.left
         /\ (done' = done /\ write.left > 0) => 0 < write'.left /\ write'.left < write.left
         /\ read' \in Nat /\ read' > 0
<1>1. CASE n < write.left
  BY SMT, <1>1 DEF LimitsAreSet, SocketTypeOK, QueueIsSound, Reads, Pending
<1>2. CASE ~(n < write.left) /\ n - write.left < behind
  BY SMT, <1>2 DEF LimitsAreSet, SocketTypeOK, QueueIsSound, Reads, Pending
<1>3. CASE ~(n < write.left) /\ ~(n - write.left < behind)
  BY SMT, <1>3 DEF LimitsAreSet, SocketTypeOK, QueueIsSound, Reads, Pending
<1> QED BY SMT, <1>1, <1>2, <1>3 DEF SocketTypeOK, LimitsAreSet

LEMMA SocketInitEstablishes ==
  ASSUME LimitsAreSet, SocketInit
  PROVE  SocketInv
<1>1. done = (IF watcher = "viewer" THEN 1 ELSE 0) /\ done \in Nat
  BY DEF SocketInit
<1>2. SocketTypeOK
  BY <1>1, SocketLimits DEF SocketInit, SocketTypeOK, Counts
<1>3. QueueIsSound
  BY DEF SocketInit, QueueIsSound
<1>4. SameWrite
  BY SMT, <1>1 DEF SocketInit, SameWrite
<1>5. EvidenceIsExact
  BY SMT DEF SocketInit, EvidenceIsExact
<1>6. SilenceIsCounted
  BY SMT, SocketLimits DEF SocketInit, SilenceIsCounted
<1>7. HeldIsBounded
  BY SMT, SocketLimits DEF SocketInit, HeldIsBounded, Pending
<1> QED BY <1>2, <1>3, <1>4, <1>5, <1>6, <1>7 DEF SocketInv

LEMMA ReadsStep ==
  ASSUME LimitsAreSet, SocketInv, NEW n \in 1..Room, Reads(n)
  PROVE  SocketInv'
<1>1. SocketTypeOK /\ QueueIsSound
  BY DEF SocketInv
<1>2. /\ room' \in Nat /\ write' \in [size : Nat, left : Nat] /\ behind' \in Nat /\ done' \in Nat
      /\ QueueIsSound'
      /\ Pending' <= Pending
      /\ done' >= done
      /\ done' = done => write'.left <= write.left
      /\ (done' = done /\ write.left > 0) => 0 < write'.left /\ write'.left < write.left
      /\ read' \in Nat /\ read' > 0
  BY <1>1, ReadsKeeps
<1>3. /\ state = "open" /\ peerFrozen = FALSE
      /\ UNCHANGED <<watcher, state, peerFrozen, peerHeard, silences, exempt, last, dark>>
  BY <1>1 DEF Reads, SocketTypeOK
<1>4. SocketTypeOK'
  BY <1>1, <1>2, <1>3 DEF SocketTypeOK
<1>5. SameWrite'
  BY SMT, <1>1, <1>2, <1>3 DEF SocketInv, SameWrite, SocketTypeOK, Counts
<1>6. EvidenceIsExact'
  BY SMT, <1>1, <1>2, <1>3 DEF SocketInv, SameWrite, EvidenceIsExact, SocketTypeOK, Counts
<1>7. SilenceIsCounted'
  BY SMT, <1>1, <1>2, <1>3 DEF SocketInv, SilenceIsCounted, SocketTypeOK, Counts
<1>8. HeldIsBounded'
  BY SMT, <1>1, <1>2, <1>3 DEF SocketInv, HeldIsBounded, Pending, SocketTypeOK, LimitsAreSet
<1> QED BY <1>2, <1>4, <1>5, <1>6, <1>7, <1>8 DEF SocketInv

(* What is written between two ticks.                                        *)
LEMMA PutStep ==
  ASSUME LimitsAreSet, SocketInv, NEW n \in Nat, n > 0, Put(n),
         UNCHANGED <<watcher, peerFrozen, peerHeard, silences, last, read, dark>>,
         state = "open", state' = "open"
  PROVE  /\ room' \in Nat /\ write' \in [size : Nat, left : Nat] /\ behind' \in Nat /\ done' \in Nat
         /\ QueueIsSound' /\ SameWrite' /\ EvidenceIsExact' /\ SilenceIsCounted'
<1>1. SocketTypeOK /\ QueueIsSound
  BY DEF SocketInv
<1>2. /\ room' \in Nat /\ write' \in [size : Nat, left : Nat] /\ behind' \in Nat /\ done' \in Nat
      /\ QueueIsSound'
      /\ done' >= done
      /\ write.left > 0 => write' = write /\ done' = done
      /\ (write.left = 0 /\ done' = done) => write'.left > 0 /\ write'.left <= n
  BY <1>1, PutKeeps
<1>3. SameWrite'
  BY SMT, <1>1, <1>2 DEF SocketInv, SameWrite, SocketTypeOK, Counts
<1>4. EvidenceIsExact'
  BY SMT, <1>1, <1>2 DEF SocketInv, SameWrite, EvidenceIsExact, SocketTypeOK, Counts
<1>5. SilenceIsCounted'
  BY SMT, <1>1 DEF SocketInv, SilenceIsCounted, SocketTypeOK
<1> QED BY <1>2, <1>3, <1>4, <1>5

LEMMA TickStep ==
  ASSUME LimitsAreSet, SocketInv, KeepAlive
  PROVE  SocketInv'
<1>1. SocketTypeOK /\ QueueIsSound
  BY DEF SocketInv
<1>2. /\ watcher = "bridge" /\ state = "open" /\ watcher' = watcher
      /\ peerHeard' = FALSE /\ read' = 0 /\ last' = Counters
      /\ silences' = IF LinkMadeProgress THEN 0 ELSE silences + 1
      /\ dark' = IF peerFrozen THEN dark + 1 ELSE 0
      /\ UNCHANGED <<peerFrozen, exempt>>
  BY DEF KeepAlive
<1>3. Counters \in Counts /\ Counters.pending = Pending /\ Counters.flushed = done /\ Counters.queue = write.left
  BY SMT, <1>1 DEF Counters, Counts, Pending, SocketTypeOK
<1>0. silences' \in Nat /\ dark' \in Nat
  <2>1. silences + 1 \in Nat /\ dark + 1 \in Nat /\ 0 \in Nat
    BY SMT, <1>1 DEF SocketTypeOK
  <2> QED BY Zenon, <1>2, <2>1
<1>4. dark > 0 => ~LinkMadeProgress
  <2>1. CASE last.pending > 0
    BY SMT, <2>1, <1>1 DEF SocketInv, SilenceIsCounted, EvidenceIsExact, LinkMadeProgress, SocketTypeOK, Counts
  <2>2. CASE ~(last.pending > 0)
    BY SMT, <2>2, <1>1 DEF SocketInv, SilenceIsCounted, LinkMadeProgress, SocketTypeOK, Counts
  <2> QED BY <2>1, <2>2
<1>5. CASE silences' >= MaxSilences
  <2>1. state' = "silent" /\ UNCHANGED socketVars
    BY <1>5 DEF KeepAlive
  <2>2. SocketTypeOK'
    BY <1>0, <1>1, <1>2, <1>3, <2>1 DEF SocketTypeOK, socketVars
  <2>3. QueueIsSound' /\ HeldIsBounded'
    BY <1>1, <1>2, <2>1 DEF QueueIsSound, HeldIsBounded, socketVars
  <2>4. SameWrite' /\ EvidenceIsExact'
    BY SMT, <1>1, <1>2, <1>3, <2>1 DEF SameWrite, EvidenceIsExact, QueueIsSound, SocketTypeOK, Pending, socketVars
  <2>5. SilenceIsCounted'
    BY SMT, <1>1, <1>2, <2>1 DEF SilenceIsCounted, SocketTypeOK
  <2> QED BY <2>2, <2>3, <2>4, <2>5 DEF SocketInv
<1>6. CASE ~(silences' >= MaxSilences)
  <2>1. Put(1) /\ state' = state
    BY <1>6 DEF KeepAlive
  <2>2. /\ room' \in Nat /\ write' \in [size : Nat, left : Nat] /\ behind' \in Nat /\ done' \in Nat
        /\ QueueIsSound'
        /\ done' >= done
        /\ write.left > 0 => write' = write /\ done' = done
        /\ (write.left = 0 /\ done' = done) => write'.left > 0 /\ write'.left <= 1
    BY SMT, <1>1, <2>1, PutKeeps
  <2>3. SocketTypeOK'
    BY <1>0, <1>1, <1>2, <1>3, <2>1, <2>2 DEF SocketTypeOK
  <2>4. HeldIsBounded'
    BY SMT, <1>2 DEF HeldIsBounded
  <2>5. SameWrite'
    BY SMT, <1>1, <1>2, <1>3, <2>2 DEF SameWrite, QueueIsSound, SocketTypeOK, Pending
  <2>6. EvidenceIsExact'
    BY SMT, <1>1, <1>2, <1>3, <2>2 DEF EvidenceIsExact, QueueIsSound, SocketTypeOK, Pending
  <2>7. SilenceIsCounted'
    BY SMT, <1>1, <1>2, <1>4, <1>6, <2>1 DEF SocketInv, SilenceIsCounted, SocketTypeOK, LimitsAreSet
  <2> QED BY <2>2, <2>3, <2>4, <2>5, <2>6, <2>7 DEF SocketInv
<1> QED BY <1>5, <1>6

(* What send writes fits what a stream may hold.                             *)
LEMMA SendHolds ==
  ASSUME LimitsAreSet, SocketInv, watcher = "viewer", NEW n \in Nat, n > 0, n <= MaxFrame,
         Pending <= MaxBuffer + Exempt, Put(n)
  PROVE  Pending' <= MaxBuffer + MaxExempt + MaxFrame
<1>1. Exempt \in Nat /\ Exempt <= MaxExempt
  BY ExemptBound DEF SocketInv
<1>2. done + Pending + n = done' + Pending' /\ done' >= done /\ done' \in Nat
  BY PutKeeps DEF SocketInv
<1>3. Pending \in Nat /\ done \in Nat /\ Pending' \in Nat
  BY PutKeeps DEF SocketInv, SocketTypeOK, Pending
<1>4. MaxBuffer \in Nat /\ MaxExempt \in Nat /\ MaxFrame \in Nat
  BY SMT DEF LimitsAreSet
<1>5. Pending' <= Pending + n
  BY <1>2, <1>3, NoMoreWaits
<1> QED BY SMT, <1>1, <1>3, <1>4, <1>5

LEMMA ExemptTyped ==
  ASSUME LimitsAreSet, SocketTypeOK, NEW n \in Nat,
         exempt' = IF n >= Exempt THEN [end |-> done + Pending + n, length |-> n] ELSE exempt
  PROVE  exempt' \in [end : Nat, length : Nat]
BY SMT DEF SocketTypeOK, Pending

LEMMA StreamSendsStep ==
  ASSUME LimitsAreSet, SocketInv, NEW n \in 1..MaxFrame, StreamSends(n)
  PROVE  SocketInv'
<1>1. /\ SocketTypeOK /\ n \in Nat /\ n > 0 /\ n <= MaxFrame
  BY SMT DEF SocketInv, LimitsAreSet
<1>2. /\ watcher = "viewer" /\ state = "open"
      /\ UNCHANGED <<watcher, peerFrozen, peerHeard, silences, last, read, dark>>
  BY DEF StreamSends
<1>3. CASE state' = "behind" /\ Same
  BY SMT, <1>1, <1>2, <1>3 DEF SocketInv, Same, socketVars, SocketTypeOK, QueueIsSound, SameWrite, EvidenceIsExact,
                          SilenceIsCounted, HeldIsBounded, Pending
<1>4. CASE /\ Pending <= MaxBuffer + Exempt /\ Put(n) /\ UNCHANGED state
           /\ exempt' = IF n >= Exempt THEN [end |-> done + Pending + n, length |-> n] ELSE exempt
  <2>1. /\ room' \in Nat /\ write' \in [size : Nat, left : Nat] /\ behind' \in Nat /\ done' \in Nat
        /\ QueueIsSound' /\ SameWrite' /\ EvidenceIsExact' /\ SilenceIsCounted'
    BY <1>1, <1>2, <1>4, PutStep
  <2>2. exempt' \in [end : Nat, length : Nat]
    BY <1>1, <1>4, ExemptTyped
  <2>3. SocketTypeOK'
    BY <1>1, <1>2, <1>4, <2>1, <2>2 DEF SocketTypeOK
  <2>4. HeldIsBounded'
    BY <1>1, <1>2, <1>4, SendHolds DEF HeldIsBounded
  <2> QED BY <2>1, <2>3, <2>4 DEF SocketInv
<1> QED BY <1>3, <1>4 DEF StreamSends, Send

LEMMA BeatStep ==
  ASSUME LimitsAreSet, SocketInv, Beat
  PROVE  SocketInv'
<1>1. SocketTypeOK /\ QueueIsSound /\ MaxFrame >= 1
  BY SMT DEF SocketInv, LimitsAreSet
<1>2. /\ watcher = "viewer" /\ state = "open" /\ UNCHANGED <<watcher, peerFrozen, peerHeard, silences>>
  BY DEF Beat
<1>3. CASE Stuck
  <2>1. state' = "silent" /\ Same /\ UNCHANGED <<last, read, dark>>
    BY <1>3 DEF Beat
  <2> QED
    BY SMT, <1>1, <1>2, <2>1 DEF SocketInv, Same, socketVars, SocketTypeOK, QueueIsSound, SameWrite, EvidenceIsExact,
                           SilenceIsCounted, HeldIsBounded, Pending
<1>4. CASE ~Stuck
  <2>1. /\ last' = Counters /\ read' = 0
        /\ dark' = IF peerFrozen /\ Pending > MaxBuffer THEN dark + 1 ELSE 0
        /\ Send(1)
    BY <1>4 DEF Beat
  <2>2. Counters \in Counts /\ Counters.pending = Pending /\ Counters.flushed = done /\ Counters.queue = write.left
    BY SMT, <1>1 DEF Counters, Counts, Pending, SocketTypeOK
  <2>3. dark > 0 => ~(Pending > MaxBuffer)
    BY SMT, <1>1, <1>2, <1>4 DEF SocketInv, SilenceIsCounted, EvidenceIsExact, Stuck, SocketTypeOK, Counts, LimitsAreSet
  <2>4. SilenceIsCounted'
    <3>1. state' = "open" \/ state' = "behind"
      BY <1>2, <2>1 DEF Send
    <3> QED
      BY SMT, <1>1, <1>2, <2>1, <2>2, <2>3, <3>1 DEF SocketInv, SilenceIsCounted, SocketTypeOK, LimitsAreSet
  <2>5. CASE state' = "behind" /\ Same
    <3>1. SocketTypeOK'
      BY SMT, <1>1, <1>2, <2>1, <2>2, <2>5 DEF SocketTypeOK, Same, socketVars
    <3>2. QueueIsSound' /\ HeldIsBounded'
      BY <1>2, <2>5 DEF SocketInv, QueueIsSound, HeldIsBounded, Same, socketVars, Pending
    <3>3. SameWrite' /\ EvidenceIsExact'
      BY SMT, <1>1, <1>2, <2>1, <2>2, <2>5 DEF SocketInv, SameWrite, EvidenceIsExact, QueueIsSound, Same, socketVars, SocketTypeOK, Pending
    <3> QED BY <3>1, <3>2, <3>3, <2>4 DEF SocketInv
  <2>6. CASE /\ Pending <= MaxBuffer + Exempt /\ Put(1) /\ UNCHANGED state
             /\ exempt' = IF 1 >= Exempt THEN [end |-> done + Pending + 1, length |-> 1] ELSE exempt
    <3>1. /\ room' \in Nat /\ write' \in [size : Nat, left : Nat] /\ behind' \in Nat /\ done' \in Nat
          /\ QueueIsSound'
          /\ done' >= done
          /\ write.left > 0 => write' = write /\ done' = done
          /\ (write.left = 0 /\ done' = done) => write'.left > 0 /\ write'.left <= 1
      BY SMT, <1>1, <2>6, PutKeeps
    <3>2. exempt' \in [end : Nat, length : Nat]
      BY <1>1, <2>6, ExemptTyped
    <3>3. SocketTypeOK'
      BY SMT, <1>1, <1>2, <2>1, <2>2, <2>6, <3>1, <3>2 DEF SocketTypeOK
    <3>4. HeldIsBounded'
      BY SMT, <1>1, <1>2, <2>6, SendHolds DEF HeldIsBounded
    <3>5. SameWrite'
      BY SMT, <1>1, <1>2, <2>1, <2>2, <3>1 DEF SameWrite, QueueIsSound, SocketTypeOK, Pending
    <3>6. EvidenceIsExact'
      BY SMT, <1>1, <1>2, <2>1, <2>2, <3>1 DEF EvidenceIsExact, QueueIsSound, SocketTypeOK, Pending
    <3> QED BY <3>1, <3>3, <3>4, <3>5, <3>6, <2>4 DEF SocketInv
  <2> QED BY <2>1, <2>5, <2>6 DEF Send
<1> QED BY <1>3, <1>4

LEMMA SocketStepKeeps ==
  ASSUME LimitsAreSet, SocketInv, [SocketNext]_progressVars
  PROVE  SocketInv'
<1>1. ASSUME NEW n \in 1..Room, Reads(n) PROVE SocketInv'
  BY <1>1, ReadsStep
<1>2. ASSUME Freezes PROVE SocketInv'
  BY SMT, <1>2 DEF SocketInv, Freezes, socketVars, SocketTypeOK, QueueIsSound, SameWrite, EvidenceIsExact,
              SilenceIsCounted, HeldIsBounded, Pending
<1>3. ASSUME PeerSpeaks PROVE SocketInv'
  BY SMT, <1>3 DEF SocketInv, PeerSpeaks, Same, socketVars, SocketTypeOK, QueueIsSound, SameWrite, EvidenceIsExact,
              SilenceIsCounted, HeldIsBounded, Pending
<1>4. ASSUME KeepAlive PROVE SocketInv'
  BY <1>4, TickStep
<1>5. ASSUME Beat PROVE SocketInv'
  BY <1>5, BeatStep
<1>6. ASSUME NEW n \in 1..MaxFrame, LinkSends(n) PROVE SocketInv'
  <2>1. n \in Nat /\ n > 0 /\ SocketTypeOK
    BY SMT DEF LimitsAreSet, SocketInv
  <2>2. /\ watcher = "bridge" /\ state = "open" /\ Put(n)
        /\ UNCHANGED <<watcher, state, peerFrozen, peerHeard, silences, exempt, last, read, dark>>
    BY <1>6 DEF LinkSends
  <2>3. /\ room' \in Nat /\ write' \in [size : Nat, left : Nat] /\ behind' \in Nat /\ done' \in Nat
        /\ QueueIsSound' /\ SameWrite' /\ EvidenceIsExact' /\ SilenceIsCounted'
    BY <2>1, <2>2, PutStep
  <2>4. SocketTypeOK' /\ HeldIsBounded'
    BY <2>1, <2>2, <2>3 DEF SocketTypeOK, HeldIsBounded
  <2> QED BY <2>3, <2>4 DEF SocketInv
<1>7. ASSUME NEW n \in 1..MaxFrame, StreamSends(n) PROVE SocketInv'
  BY <1>7, StreamSendsStep
<1>8. CASE UNCHANGED progressVars
  BY <1>8 DEF progressVars, socketVars, SocketInv, SocketTypeOK, QueueIsSound, SameWrite, EvidenceIsExact,
              SilenceIsCounted, HeldIsBounded, Pending
<1> QED BY <1>1, <1>2, <1>3, <1>4, <1>5, <1>6, <1>7, <1>8 DEF SocketNext

(* A peer that reads is never cut as silent.                                 *)
LEMMA OnlyTheSilentAreCut ==
  ASSUME LimitsAreSet, SocketInv, [SocketNext]_progressVars, state' # state, state' = "silent",
         read > 0, watcher = "viewer" \/ last.pending > 0
  PROVE  FALSE
<1>1. CASE KeepAlive
  BY SMT, <1>1 DEF SocketInv, SocketTypeOK, Counts, SameWrite, EvidenceIsExact, SilenceIsCounted, KeepAlive, LinkMadeProgress, LimitsAreSet
<1>2. CASE Beat
  <2>1. CASE Stuck
    BY SMT, <1>2, <2>1 DEF SocketInv, SocketTypeOK, Counts, SameWrite, EvidenceIsExact, Beat, Stuck
  <2>2. CASE ~Stuck
    BY <1>2, <2>2 DEF Beat, Send
  <2> QED BY <2>1, <2>2
<1> QED BY <1>1, <1>2 DEF SocketNext, progressVars, Reads, Freezes, PeerSpeaks, LinkSends, StreamSends, Send

(* However large its frames and buffers, a peer that takes anything of a     *)
(* backlog between two ticks is not cut as silent (relay.ts:986-1002,        *)
(* adapter.ts:2017-2027).                                                    *)
THEOREM MovingPeersStay ==
  ASSUME LimitsAreSet
  PROVE  SocketSpec => MovingPeersAreKept
<1>1. SocketInit => SocketInv
  BY SocketInitEstablishes
<1>2. SocketInv /\ [SocketNext]_progressVars => SocketInv'
  BY SocketStepKeeps
<1>3. SocketInv /\ [SocketNext]_progressVars => [(read > 0 /\ (watcher = "viewer" \/ last.pending > 0) /\ state = "open") => state' # "silent"]_progressVars
  BY OnlyTheSilentAreCut
<1> QED BY <1>1, <1>2, <1>3, PTL DEF SocketSpec, MovingPeersAreKept

(* A link whose peer froze is cut within its strikes, and a stream over its  *)
(* cap on the second beat.                                                   *)
THEOREM FrozenPeersGo ==
  ASSUME LimitsAreSet
  PROVE  SocketSpec => []FrozenPeersAreCut
<1>1. SocketInit => SocketInv
  BY SocketInitEstablishes
<1>2. SocketInv /\ [SocketNext]_progressVars => SocketInv'
  BY SocketStepKeeps
<1>3. SocketInv => FrozenPeersAreCut
  BY SMT DEF SocketInv, SocketTypeOK, SilenceIsCounted, FrozenPeersAreCut, LimitsAreSet
<1> QED BY <1>1, <1>2, <1>3, PTL DEF SocketSpec

(* And whatever it is sent, a stream holds the cap, one exempt frame and the *)
(* frame that was last let in.                                               *)
THEOREM StreamsHoldLittle ==
  ASSUME LimitsAreSet
  PROVE  SocketSpec => []HeldIsBounded
<1>1. SocketInit => SocketInv
  BY SocketInitEstablishes
<1>2. SocketInv /\ [SocketNext]_progressVars => SocketInv'
  BY SocketStepKeeps
<1>3. SocketInv => HeldIsBounded
  BY DEF SocketInv
<1> QED BY <1>1, <1>2, <1>3, PTL DEF SocketSpec

---------------------------------------------------------------------------
(* The relay's requests (BridgeRequests) *)

---------------------------------------------------------------------------
(* Induction over the natural numbers, for sets of them *)

LEMMA LeastNatural ==
  ASSUME NEW T \in SUBSET Nat, T # {}
  PROVE \E n \in T : \A m \in T : n <= m
<1> DEFINE R == {ss \in Nat \X Nat : ss[1] < ss[2]}
<1>1. IsWellFoundedOn(R, Nat)
  BY NatLessThanWellFounded DEF OpToRel
<1>2. \A m, n \in Nat : m < n => <<m, n>> \in R
  OBVIOUS
<1> HIDE DEF R
<1>3. \E n \in T : \A m \in T : <<m, n>> \notin R
  BY <1>1, WFMin
<1> PICK n \in T : \A m \in T : <<m, n>> \notin R
  BY <1>3
<1>4. ASSUME NEW m \in T PROVE n <= m
  <2>1. m \in Nat /\ n \in Nat /\ ~(m < n)
    BY <1>2
  <2> QED BY <2>1
<1> QED BY <1>4

LEMMA NaturalsByInduction ==
  ASSUME NEW T, 0 \in T, \A n \in Nat : n \in T => n + 1 \in T
  PROVE Nat \subseteq T
<1> SUFFICES ASSUME Nat \ T # {} PROVE FALSE
  OBVIOUS
<1> PICK n \in Nat \ T : \A m \in Nat \ T : n <= m
  BY LeastNatural
<1>1. n # 0 /\ n - 1 \in Nat
  OBVIOUS
<1>2. n - 1 \in T
  BY <1>1
<1>3. (n - 1) + 1 \in T
  BY <1>1, <1>2
<1> QED BY <1>3

LEMMA MaxIsMax ==
  ASSUME NEW n \in Nat, NEW s \in SUBSET (1..n), n \in s
  PROVE Max(s) = n
<1>1. n \in s /\ \A y \in s : n >= y
  OBVIOUS
<1>2. \A x \in s : (\A y \in s : x >= y) => x = n
  OBVIOUS
<1> QED BY <1>1, <1>2 DEF Max

LEMMA MinIsMember ==
  ASSUME NEW T \in SUBSET Nat, T # {}
  PROVE Min(T) \in T
BY LeastNatural DEF Min

---------------------------------------------------------------------------
(* rememberBounded *)

\* A sequence without repetitions.
Distinct(seq) == \A i, j \in DOMAIN seq : i # j => seq[i] # seq[j]

LEMMA SequencesAreFunctions ==
  ASSUME NEW S, NEW seq \in Seq(S)
  PROVE /\ DOMAIN seq = 1..Len(seq) /\ Len(seq) \in Nat
        /\ \A i \in 1..Len(seq) : seq[i] \in S
        /\ ToSet(seq) = {seq[i] : i \in 1..Len(seq)}
        /\ ToSet(seq) \subseteq S
BY DEF ToSet

LEMMA SubSequences ==
  ASSUME NEW S, NEW seq \in Seq(S), NEW m \in Int, NEW n \in Int, 1 <= m, n <= Len(seq)
  PROVE /\ SubSeq(seq, m, n) \in Seq(S)
        /\ Len(SubSeq(seq, m, n)) = IF m <= n THEN n - m + 1 ELSE 0
        /\ \A i \in 1..(n - m + 1) : SubSeq(seq, m, n)[i] = seq[m + i - 1]
OBVIOUS

\* What is taken out leaves what is before it, and what comes after it one earlier.
LEMMA RemovingOne ==
  ASSUME NEW S, NEW seq \in Seq(S), NEW x, x \in ToSet(seq)
  PROVE \E k \in 1..Len(seq) :
          /\ seq[k] = x
          /\ RemoveFirst(seq, x) \in Seq(S)
          /\ Len(RemoveFirst(seq, x)) = Len(seq) - 1
          /\ \A i \in 1..(Len(seq) - 1) : RemoveFirst(seq, x)[i] = IF i < k THEN seq[i] ELSE seq[i + 1]
<1> DEFINE At == {i \in 1..Len(seq) : seq[i] = x}
<1>1. At \in SUBSET Nat /\ At # {}
  BY SequencesAreFunctions
<1> PICK k \in 1..Len(seq) : k = Min(At) /\ seq[k] = x
  BY <1>1, MinIsMember
<1>2. RemoveFirst(seq, x) = RemoveAt(seq, k)
  BY <1>1 DEF RemoveFirst, SelectInSeq
<1> DEFINE A == SubSeq(seq, 1, k - 1)
           B == SubSeq(seq, k + 1, Len(seq))
<1>0. Len(seq) \in Nat /\ \A i \in 1..Len(seq) : seq[i] \in S
  BY SequencesAreFunctions
<1>k. k \in Int /\ 1 <= k /\ k <= Len(seq)
  BY <1>0
<1> HIDE DEF At
<1>3. A \in Seq(S) /\ Len(A) = k - 1 /\ \A i \in 1..(k - 1) : A[i] = seq[i]
  <2>1. 1 \in Int /\ k - 1 \in Int /\ 1 <= 1 /\ k - 1 <= Len(seq)
    BY <1>0, <1>k
  <2>2. /\ A \in Seq(S) /\ Len(A) = IF 1 <= k - 1 THEN k - 1 - 1 + 1 ELSE 0
        /\ \A i \in 1..(k - 1 - 1 + 1) : A[i] = seq[1 + i - 1]
    BY <2>1, SubSequences
  <2> HIDE DEF A
  <2>3. k - 1 - 1 + 1 = k - 1 /\ \A i \in 1..(k - 1) : 1 + i - 1 = i
    BY <1>k
  <2> QED BY <1>k, <2>2, <2>3
<1>4. B \in Seq(S) /\ Len(B) = Len(seq) - k /\ \A i \in 1..(Len(seq) - k) : B[i] = seq[k + i]
  <2>1. k + 1 \in Int /\ Len(seq) \in Int /\ 1 <= k + 1 /\ Len(seq) <= Len(seq)
    BY <1>0, <1>k
  <2>2. /\ B \in Seq(S) /\ Len(B) = IF k + 1 <= Len(seq) THEN Len(seq) - (k + 1) + 1 ELSE 0
        /\ \A i \in 1..(Len(seq) - (k + 1) + 1) : B[i] = seq[k + 1 + i - 1]
    BY <2>1, SubSequences
  <2> HIDE DEF B
  <2>3. Len(B) = Len(seq) - k
    BY <1>0, <1>k, <2>2
  <2>4. ASSUME NEW i \in 1..(Len(seq) - k) PROVE B[i] = seq[k + i]
    <3>1. i \in 1..(Len(seq) - (k + 1) + 1) /\ k + 1 + i - 1 = k + i
      BY <1>0, <1>k
    <3> QED BY <2>2, <3>1
  <2> QED BY <2>2, <2>3, <2>4
<1> HIDE DEF A, B
<1>5. /\ A \o B \in Seq(S) /\ Len(A \o B) = Len(seq) - 1
      /\ \A i \in 1..(Len(seq) - 1) : (A \o B)[i] = IF i < k THEN seq[i] ELSE seq[i + 1]
  <2>1. /\ A \o B \in Seq(S) /\ Len(A \o B) = Len(A) + Len(B)
        /\ \A i \in 1..(Len(A) + Len(B)) : (A \o B)[i] = IF i <= Len(A) THEN A[i] ELSE B[i - Len(A)]
    BY <1>3, <1>4, ConcatProperties
  <2>2. Len(A \o B) = Len(seq) - 1
    BY <1>0, <1>3, <1>4, <2>1
  <2>3. ASSUME NEW i \in 1..(Len(seq) - 1) PROVE (A \o B)[i] = IF i < k THEN seq[i] ELSE seq[i + 1]
    <3>1. (A \o B)[i] = IF i <= k - 1 THEN A[i] ELSE B[i - (k - 1)]
      <4>1. Len(A) = k - 1 /\ Len(A) + Len(B) = Len(seq) - 1
        BY <1>0, <1>3, <1>4
      <4>2. i \in 1..(Len(A) + Len(B))
        BY <4>1
      <4>3. (A \o B)[i] = IF i <= Len(A) THEN A[i] ELSE B[i - Len(A)]
        BY <2>1, <4>2
      <4> QED BY <4>1, <4>3
    <3>2. CASE i < k
      BY <1>3, <3>1, <3>2
    <3>3. CASE ~(i < k)
      <4>1. i - (k - 1) \in 1..(Len(seq) - k)
        BY <1>0, <3>3
      <4>2. B[i - (k - 1)] = seq[k + (i - (k - 1))] /\ k + (i - (k - 1)) = i + 1
        BY <1>0, <1>k, <1>4, <4>1
      <4> QED BY <3>1, <3>3, <4>2
    <3> QED BY <3>2, <3>3
  <2> QED BY <2>1, <2>2, <2>3
<1>6. RemoveFirst(seq, x) = A \o B
  BY <1>2 DEF RemoveAt, A, B
<1> QED BY <1>5, <1>6

\* What is left keeps its order, and x comes last; the oldest goes if there is no room.
Follows(old, x, max, new) ==
  /\ Len(new) \in 1..max /\ new[Len(new)] = x
  /\ \E h \in [1..(Len(new) - 1) -> 1..Len(old)] :
       /\ \A p, q \in 1..(Len(new) - 1) : p < q => h[p] < h[q]
       /\ \A p \in 1..(Len(new) - 1) : new[p] = old[h[p]] /\ old[h[p]] # x
       /\ \A i \in 1..Len(old) :
            \/ old[i] = x
            \/ i = 1 /\ Len(old) = max /\ x \notin ToSet(old)
            \/ \E p \in 1..(Len(new) - 1) : h[p] = i

LEMMA RememberedFollows ==
  ASSUME NEW S, NEW seq \in Seq(S), Distinct(seq), NEW x \in S, NEW max \in Nat \ {0}, Len(seq) <= max
  PROVE Remembered(seq, x, max) \in Seq(S) /\ Follows(seq, x, max, Remembered(seq, x, max))
<1> DEFINE others == RemoveFirst(seq, x)
           new == Remembered(seq, x, max)
<1>0. /\ Len(seq) \in Nat /\ DOMAIN seq = 1..Len(seq) /\ \A i \in 1..Len(seq) : seq[i] \in S
      /\ ToSet(seq) = {seq[i] : i \in 1..Len(seq)}
  BY SequencesAreFunctions
<1>1. CASE x \in ToSet(seq)
  <2> PICK k \in 1..Len(seq) :
        /\ seq[k] = x /\ others \in Seq(S) /\ Len(others) = Len(seq) - 1
        /\ \A i \in 1..(Len(seq) - 1) : others[i] = IF i < k THEN seq[i] ELSE seq[i + 1]
    BY <1>1, RemovingOne
  <2>1. new = Append(others, x)
    BY <1>1 DEF Remembered
  <2> HIDE DEF new, others
  <2>2. /\ new \in Seq(S) /\ Len(new) = Len(seq) /\ new[Len(seq)] = x
        /\ \A i \in 1..(Len(seq) - 1) : new[i] = IF i < k THEN seq[i] ELSE seq[i + 1]
    BY <1>0, <2>1, AppendProperties
  <2> DEFINE h == [p \in 1..(Len(new) - 1) |-> IF p < k THEN p ELSE p + 1]
  <2>3. h \in [1..(Len(new) - 1) -> 1..Len(seq)]
    BY <1>0, <2>2
  <2>4. \A p, q \in 1..(Len(new) - 1) : p < q => h[p] < h[q]
    BY <1>0, <2>2
  <2>5. \A p \in 1..(Len(new) - 1) : new[p] = seq[h[p]] /\ h[p] \in 1..Len(seq) /\ h[p] # k
    BY <1>0, <2>2
  <2>6. \A p \in 1..(Len(new) - 1) : seq[h[p]] # x
    <3> HIDE DEF h
    <3> QED BY <1>0, <2>5 DEF Distinct
  <2>7. ASSUME NEW i \in 1..Len(seq), i # k PROVE \E p \in 1..(Len(new) - 1) : h[p] = i
    <3>1. CASE i < k
      BY <1>0, <2>2, <3>1
    <3>2. CASE i > k
      <4>1. i - 1 \in 1..(Len(new) - 1) /\ h[i - 1] = i
        BY <1>0, <2>2, <3>2
      <4> QED BY <4>1
    <3> QED BY <1>0, <2>7, <3>1, <3>2
  <2>8. Len(new) \in 1..max
    BY <1>0, <2>2
  <2> HIDE DEF h
  <2>9. \A i \in 1..Len(seq) : seq[i] = x \/ \E p \in 1..(Len(new) - 1) : h[p] = i
    BY <2>7
  <2> QED BY <2>2, <2>3, <2>4, <2>5, <2>6, <2>8, <2>9 DEF Follows, new
<1>2. CASE x \notin ToSet(seq)
  <2>1. others = seq
    BY <1>0, <1>2 DEF RemoveFirst
  <2>2. CASE Len(seq) < max
    <3>1. new = Append(seq, x)
      BY <1>2, <2>1, <2>2 DEF Remembered
    <3> HIDE DEF new, others
    <3>2. /\ new \in Seq(S) /\ Len(new) = Len(seq) + 1 /\ new[Len(seq) + 1] = x
          /\ \A i \in 1..Len(seq) : new[i] = seq[i]
      BY <1>0, <3>1, AppendProperties
    <3> DEFINE h == [p \in 1..(Len(new) - 1) |-> p]
    <3>3. h \in [1..(Len(new) - 1) -> 1..Len(seq)] /\ \A p \in 1..(Len(new) - 1) : h[p] = p
      BY <1>0, <3>2
    <3>4. 1..(Len(new) - 1) = 1..Len(seq) /\ Len(new) \in 1..max
      BY <1>0, <2>2, <3>2
    <3> HIDE DEF h
    <3>5. \A p, q \in 1..(Len(new) - 1) : p < q => h[p] < h[q]
      BY <3>3
    <3>6. \A p \in 1..(Len(new) - 1) : new[p] = seq[h[p]] /\ seq[h[p]] # x
      BY <1>0, <1>2, <3>2, <3>3, <3>4
    <3>7. \A i \in 1..Len(seq) : \E p \in 1..(Len(new) - 1) : h[p] = i
      BY <3>3, <3>4
    <3>8. new[Len(new)] = x
      BY <3>2
    <3>9. Follows(seq, x, max, new)
      BY <3>3, <3>4, <3>5, <3>6, <3>7, <3>8 DEF Follows
    <3> QED BY <3>2, <3>9 DEF new
  <2>3. CASE Len(seq) = max
    <3>0. seq # <<>>
      BY <2>3
    <3>1. new = Append(Tail(seq), x)
      BY <1>0, <1>2, <2>3 DEF Remembered
    <3> HIDE DEF new, others
    <3>2. Tail(seq) \in Seq(S) /\ Len(Tail(seq)) = Len(seq) - 1 /\ \A i \in 1..(Len(seq) - 1) : Tail(seq)[i] = seq[i + 1]
      BY <1>0, <3>0, HeadTailProperties
    <3>3. /\ new \in Seq(S) /\ Len(new) = Len(seq) /\ new[Len(seq)] = x
          /\ \A i \in 1..(Len(seq) - 1) : new[i] = seq[i + 1]
      BY <1>0, <3>1, <3>2, AppendProperties
    <3> DEFINE h == [p \in 1..(Len(new) - 1) |-> p + 1]
    <3>4. h \in [1..(Len(new) - 1) -> 1..Len(seq)]
      BY <1>0, <3>3
    <3>5. \A p \in 1..(Len(new) - 1) : h[p] = p + 1
      OBVIOUS
    <3> HIDE DEF h
    <3>6. \A p, q \in 1..(Len(new) - 1) : p < q => h[p] < h[q]
      BY <1>0, <3>3, <3>5
    <3>7. \A p \in 1..(Len(new) - 1) : new[p] = seq[h[p]] /\ seq[h[p]] # x
      BY <1>0, <1>2, <3>3, <3>4, <3>5
    <3>8. ASSUME NEW i \in 1..Len(seq), i # 1 PROVE \E p \in 1..(Len(new) - 1) : h[p] = i
      <4>1. i - 1 \in 1..(Len(new) - 1) /\ h[i - 1] = i
        BY <1>0, <3>3, <3>5, <3>8
      <4> QED BY <4>1
    <3>9. Len(new) \in 1..max
      BY <1>0, <2>3, <3>3
    <3>10. new[Len(new)] = x
      BY <3>3
    <3>11. Follows(seq, x, max, new)
      BY <1>2, <2>3, <3>4, <3>6, <3>7, <3>8, <3>9, <3>10 DEF Follows
    <3> QED BY <3>3, <3>11 DEF new
  <2>4. Len(seq) < max \/ Len(seq) = max
    <3>1. \A l, m \in Nat : l <= m => l < m \/ l = m
      OBVIOUS
    <3>2. Len(seq) \in Nat /\ max \in Nat
      BY <1>0
    <3> QED BY <3>1, <3>2
  <2> QED BY <2>2, <2>3, <2>4
<1> QED BY <1>1, <1>2

LEMMA FollowingIsBounded ==
  ASSUME NEW S, NEW old \in Seq(S), Distinct(old), NEW x, NEW max \in Nat \ {0}, NEW new \in Seq(S),
         Follows(old, x, max, new)
  PROVE Distinct(new) /\ Len(new) <= max /\ ToSet(new) \subseteq ToSet(old) \cup {x}
<1>0. /\ Len(old) \in Nat /\ DOMAIN old = 1..Len(old) /\ ToSet(old) = {old[i] : i \in 1..Len(old)}
      /\ Len(new) \in Nat /\ DOMAIN new = 1..Len(new) /\ ToSet(new) = {new[i] : i \in 1..Len(new)}
  BY SequencesAreFunctions
<1> PICK h \in [1..(Len(new) - 1) -> 1..Len(old)] :
      /\ \A p, q \in 1..(Len(new) - 1) : p < q => h[p] < h[q]
      /\ \A p \in 1..(Len(new) - 1) : new[p] = old[h[p]] /\ old[h[p]] # x
  BY DEF Follows
<1>1. Len(new) \in 1..max /\ new[Len(new)] = x
  BY DEF Follows
<1>2. \A p \in 1..Len(new) : p = Len(new) \/ p \in 1..(Len(new) - 1)
  <2>1. \A l \in Nat : \A p \in 1..l : p = l \/ p \in 1..(l - 1)
    OBVIOUS
  <2> QED BY <1>0, <2>1
<1>3. ASSUME NEW p \in 1..Len(new), NEW q \in 1..Len(new), p < q PROVE new[p] # new[q]
  <2>1. p \in 1..(Len(new) - 1)
    BY <1>0, <1>3
  <2>2. CASE q = Len(new)
    BY <1>1, <2>1, <2>2
  <2>3. CASE q \in 1..(Len(new) - 1)
    <3>1. h[p] # h[q] /\ h[p] \in 1..Len(old) /\ h[q] \in 1..Len(old)
      BY <1>0, <1>3, <2>1, <2>3
    <3> QED BY <1>0, <2>1, <2>3, <3>1 DEF Distinct
  <2> QED BY <1>2, <2>2, <2>3
<1>4. Distinct(new)
  BY <1>0, <1>3 DEF Distinct
<1>5. \A p \in 1..Len(new) : new[p] \in ToSet(old) \cup {x}
  BY <1>0, <1>1, <1>2
<1> QED BY <1>0, <1>1, <1>4, <1>5

LEMMA RememberingAChain ==
  ASSUME NEW S, NEW seq \in Seq(S), Distinct(seq), NEW ids \in Seq(S), NEW max \in Nat \ {0}, Len(seq) <= max
  PROVE LET all == AllRemembered(seq, ids, max) IN
        /\ all \in Seq(S) /\ Distinct(all) /\ Len(all) <= max
        /\ ToSet(all) \subseteq ToSet(seq) \cup ToSet(ids)
<1> DEFINE Fold(n, g) ==
             g = [s \in SUBSET (1..n) |->
                    IF s = {} THEN seq ELSE Remembered(g[s \ {Max(s)}], ids[Max(s)], max)]
           all == AllRemembered(seq, ids, max)
<1>0. Len(ids) \in Nat /\ DOMAIN ids = 1..Len(ids) /\ \A i \in 1..Len(ids) : ids[i] \in S /\ ids[i] \in ToSet(ids)
  BY SequencesAreFunctions
<1>1. all = (CHOOSE g : Fold(Len(ids), g))[1..Len(ids)]
  BY <1>0 DEF AllRemembered, FoldLeft, MapThenFoldSet
<1> HIDE DEF all
<1>2. ASSUME NEW n \in Nat PROVE \E g : Fold(n, g)
  <2> DEFINE T == {m \in Nat : \E g : Fold(m, g)}
  <2>1. 0 \in T
    <3>1. \A s \in SUBSET (1..0) : s = {}
      OBVIOUS
    <3>2. Fold(0, [s \in SUBSET (1..0) |-> seq])
      BY <3>1
    <3> QED BY <3>2
  <2>2. ASSUME NEW m \in Nat, m \in T PROVE m + 1 \in T
    <3> PICK g : Fold(m, g)
      BY <2>2
    <3> DEFINE G == [s \in SUBSET (1..(m + 1)) |->
                       IF m + 1 \in s THEN Remembered(g[s \ {m + 1}], ids[m + 1], max) ELSE g[s]]
               F == [s \in SUBSET (1..(m + 1)) |->
                       IF s = {} THEN seq ELSE Remembered(G[s \ {Max(s)}], ids[Max(s)], max)]
    <3>0. \A s : s \in SUBSET (1..m) <=> s \in SUBSET (1..(m + 1)) /\ m + 1 \notin s
      OBVIOUS
    <3>1. \A s \in SUBSET (1..m) : G[s] = g[s]
      BY <3>0
    <3>2. \A s \in SUBSET (1..m) :
            g[s] = IF s = {} THEN seq ELSE Remembered(g[s \ {Max(s)}], ids[Max(s)], max)
      OBVIOUS
    <3>3. ASSUME NEW s \in SUBSET (1..(m + 1)), m + 1 \in s PROVE G[s] = F[s]
      <4>1. Max(s) = m + 1
        BY <3>3, MaxIsMax
      <4>2. s \ {m + 1} \in SUBSET (1..m)
        BY <3>0
      <4>3. G[s \ {m + 1}] = g[s \ {m + 1}]
        BY <3>1, <4>2
      <4>4. G[s] = Remembered(g[s \ {m + 1}], ids[m + 1], max)
        BY <3>3
      <4>5. F[s] = Remembered(G[s \ {Max(s)}], ids[Max(s)], max)
        <5> HIDE DEF G
        <5> QED BY <3>3
      <4> HIDE DEF G, F
      <4> QED BY <4>1, <4>3, <4>4, <4>5
    <3>4. ASSUME NEW s \in SUBSET (1..(m + 1)), m + 1 \notin s PROVE G[s] = F[s]
      <4>1. s \in SUBSET (1..m) /\ s \ {Max(s)} \in SUBSET (1..m)
        BY <3>0, <3>4
      <4>2. G[s] = g[s] /\ G[s \ {Max(s)}] = g[s \ {Max(s)}]
        BY <3>1, <4>1
      <4>3. g[s] = IF s = {} THEN seq ELSE Remembered(g[s \ {Max(s)}], ids[Max(s)], max)
        BY <3>2, <4>1
      <4>4. F[s] = IF s = {} THEN seq ELSE Remembered(G[s \ {Max(s)}], ids[Max(s)], max)
        <5> HIDE DEF G
        <5> QED OBVIOUS
      <4> HIDE DEF G, F
      <4> QED BY <4>2, <4>3, <4>4
    <3>5. DOMAIN G = SUBSET (1..(m + 1)) /\ DOMAIN F = SUBSET (1..(m + 1))
      OBVIOUS
    <3>6. G = [s \in SUBSET (1..(m + 1)) |-> G[s]] /\ F = [s \in SUBSET (1..(m + 1)) |-> F[s]]
      OBVIOUS
    <3>7. G = F
      <4> HIDE DEF G, F
      <4> QED BY <3>3, <3>4, <3>6
    <3>8. Fold(m + 1, G)
      <4> HIDE DEF G
      <4> QED BY <3>7
    <3> HIDE DEF G, F
    <3>9. \E f : Fold(m + 1, f)
      BY <3>8
    <3>10. m + 1 \in Nat
      OBVIOUS
    <3> HIDE DEF Fold
    <3> QED BY <3>9, <3>10
  <2> HIDE DEF T
  <2>3. Nat \subseteq T
    BY <2>1, <2>2, NaturalsByInduction
  <2> QED BY <2>3 DEF T
<1> PICK g : Fold(Len(ids), g) /\ all = g[1..Len(ids)]
  BY <1>0, <1>1, <1>2
<1> DEFINE Good(v) == /\ v \in Seq(S) /\ Distinct(v) /\ Len(v) <= max
                      /\ ToSet(v) \subseteq ToSet(seq) \cup ToSet(ids)
           K == {m \in Nat : m <= Len(ids) => Good(g[1..m])}
<1>3. 0 \in K
  <2>1. (1..0) = {} /\ {} \in SUBSET (1..Len(ids))
    OBVIOUS
  <2>2. g[{}] = seq
    BY <2>1
  <2> QED BY <2>1, <2>2
<1>4. ASSUME NEW m \in Nat, m \in K PROVE m + 1 \in K
  <2> HIDE DEF Good
  <2> SUFFICES ASSUME m + 1 <= Len(ids) PROVE Good(g[1..(m + 1)])
    <3>1. m + 1 \in Nat
      OBVIOUS
    <3> QED BY <3>1
  <2>1. m <= Len(ids) /\ m + 1 \in 1..Len(ids)
    BY <1>0
  <2>2. 1..(m + 1) \in SUBSET (1..Len(ids)) /\ 1..(m + 1) # {} /\ (1..(m + 1)) \ {m + 1} = 1..m
    BY <1>0
  <2>3. Max(1..(m + 1)) = m + 1
    BY MaxIsMax
  <2>4. g[1..(m + 1)] = Remembered(g[1..m], ids[m + 1], max)
    BY <2>2, <2>3
  <2> PICK v : v = g[1..m]
    OBVIOUS
  <2>5. Good(v)
    BY <1>4, <2>1
  <2> PICK x \in S : x = ids[m + 1] /\ x \in ToSet(ids)
    BY <1>0, <2>1
  <2>6. v \in Seq(S) /\ Distinct(v) /\ Len(v) <= max /\ ToSet(v) \subseteq ToSet(seq) \cup ToSet(ids)
    BY <2>5 DEF Good
  <2> HIDE DEF Fold, K
  <2>7. Remembered(v, x, max) \in Seq(S) /\ Follows(v, x, max, Remembered(v, x, max))
    BY <2>6, RememberedFollows
  <2> PICK w \in Seq(S) : w = Remembered(v, x, max)
    BY <2>7
  <2>8. Distinct(w) /\ Len(w) <= max /\ ToSet(w) \subseteq ToSet(v) \cup {x}
    <3>1. Follows(v, x, max, w)
      BY <2>7
    <3>2. v \in Seq(S) /\ Distinct(v) /\ max \in Nat \ {0}
      BY <2>6
    <3>3. \A o \in Seq(S), n \in Seq(S) : \A e :
            Distinct(o) /\ Follows(o, e, max, n)
              => Distinct(n) /\ Len(n) <= max /\ ToSet(n) \subseteq ToSet(o) \cup {e}
      BY FollowingIsBounded
    <3>4. Distinct(w) /\ Len(w) <= max
      BY <3>1, <3>2, <3>3
    <3>5. ToSet(w) \subseteq ToSet(v) \cup {x}
      BY <3>1, <3>2, <3>3
    <3> QED BY <3>4, <3>5
  <2>9. w \in Seq(S) /\ ToSet(w) \subseteq ToSet(seq) \cup ToSet(ids)
    BY <2>6, <2>8
  <2> QED BY <2>4, <2>8, <2>9 DEF Good
<1> HIDE DEF K
<1>5. Nat \subseteq K
  BY <1>3, <1>4, NaturalsByInduction
<1>6. Good(all)
  <2>1. Len(ids) \in K
    BY <1>0, <1>5
  <2>2. Len(ids) <= Len(ids)
    BY <1>0
  <2> HIDE DEF Good
  <2>3. Good(g[1..Len(ids)])
    BY <2>1, <2>2 DEF K
  <2> QED BY <2>3
<1> QED BY <1>6 DEF all

---------------------------------------------------------------------------
(* The invariant *)

RequestType == [phase : {"idle", "walking", "listing", "proving", "calling", "zipping"},
                asks : Asked \cup {None}, chain : Seq(Others), len : Nat]
Frames == [to : Requests, bytes : Nat, zip : BOOLEAN]

LinkInv ==
  /\ relay \in Hellos \cup {None} /\ told \in BOOLEAN /\ gzip \in BOOLEAN /\ cap \in 1..DefaultCap
  /\ relay # None /\ told => gzip = relay.gzip /\ cap = AnnouncedCap(relay)
  /\ relay # None /\ ~told => ~gzip

Allowed(a) == a.at \in {Bound, None} \/ a.route[2] \in BridgeSubagentRoutes

\* Each of a chain is the parent of the one before.
Climbs(chain) == chain # <<>> /\ \A i \in 1..(Len(chain) - 1) : ParentOf[chain[i]] = chain[i + 1]

\* How far a request has come is what is known of the session in its path, and of the
\* prompt it answers.
IsGuarded(q) ==
  /\ q.phase \in {"walking", "listing", "proving", "calling"} => q.asks \in Asked /\ Allowed(q.asks)
  /\ q.phase = "walking" => Climbs(q.chain) /\ q.chain[1] = q.asks.at
  /\ q.phase \in {"listing", "proving"} => q.asks.names \in Prompts
  /\ q.phase = "proving" => Climbs(q.chain) /\ q.chain[1] = OwnerOf[q.asks.names]
  /\ q.phase \in {"listing", "proving", "calling"} => q.asks.at \in Tree \cup {None}
  /\ q.phase = "calling" => InItsTree(q.asks)

GuardInv == req \in [Requests -> RequestType] /\ \A r \in Requests : IsGuarded(req[r])

Taken == {r \in Requests : Busy(r)}
PlacesInv == inflight = Cardinality(Taken) /\ inflight \in 0..MaxInflight

TreeInv == proven \in Seq(Others) /\ Distinct(proven) /\ Len(proven) <= MaxProven /\ Proven \subseteq Tree

\* The objects events named from one on.
Since(seq, i) == {seq[j] : j \in i..Len(seq)}
Foreign(o) == o \in Objects /\ OwnerOf[o] \notin Tree

\* An object of a session outside the share is remembered until MaxForeign others were
\* named after it: those that are remembered after it are some of them.
ForeignInv ==
  /\ foreign \in Seq(Objects) /\ Distinct(foreign) /\ Len(foreign) <= MaxForeign
  /\ events \in Seq(Objects)
  /\ \A i \in 1..Len(events) : Foreign(events[i]) =>
       events[i] \in ToSet(foreign) \/ Cardinality(Since(events, i)) > MaxForeign
  /\ \A i \in 1..Len(events), p \in 1..Len(foreign) : Foreign(events[i]) /\ foreign[p] = events[i] =>
       \A q \in p..Len(foreign) : foreign[q] \in Since(events, i)

OutInv == out \in {None} \cup Frames /\ FramesSuitTheLink

BridgeInv == LinkInv /\ GuardInv /\ PlacesInv /\ TreeInv /\ ForeignInv /\ OutInv

---------------------------------------------------------------------------
(* The share's tree *)

LEMMA TreeIsClosed ==
  /\ Bound \in Tree
  /\ \A s \in Others : ParentOf[s] \in Tree => s \in Tree
BY SessionsAreTrees DEF Tree, Families

\* A chain whose last is a child of the tree's is in the tree.
LEMMA ChainsAreInTheTree ==
  ASSUME NEW chain \in Seq(Others), Climbs(chain), ParentOf[Last(chain)] \in Tree
  PROVE ToSet(chain) \subseteq Tree
<1>0. Len(chain) \in Nat /\ Len(chain) # 0 /\ \A i \in 1..Len(chain) : chain[i] \in Others
  BY SequencesAreFunctions DEF Climbs
<1> DEFINE K == {m \in Nat : m < Len(chain) => chain[Len(chain) - m] \in Tree}
<1>1. 0 \in K
  <2>1. chain[Len(chain)] \in Others /\ ParentOf[chain[Len(chain)]] \in Tree /\ Len(chain) - 0 = Len(chain)
    BY <1>0 DEF Last
  <2> QED BY <2>1, TreeIsClosed
<1>2. ASSUME NEW m \in Nat, m \in K PROVE m + 1 \in K
  <2>1. ASSUME m + 1 < Len(chain) PROVE chain[Len(chain) - (m + 1)] \in Tree
    <3>1. chain[Len(chain) - m] \in Tree
      BY <1>0, <1>2, <2>1
    <3>0. \A l, n \in Nat : n + 1 < l =>
            /\ n < l /\ l - (n + 1) \in 1..(l - 1) /\ l - (n + 1) \in 1..l /\ l - (n + 1) + 1 = l - n
      OBVIOUS
    <3> PICK i \in 1..(Len(chain) - 1) : i = Len(chain) - (m + 1) /\ i + 1 = Len(chain) - m /\ i \in 1..Len(chain)
      BY <1>0, <2>1, <3>0
    <3>2. ParentOf[chain[i]] = chain[i + 1] /\ chain[i] \in Others
      BY <1>0 DEF Climbs
    <3> QED BY <3>1, <3>2, TreeIsClosed
  <2> QED BY <2>1
<1> HIDE DEF K
<1>3. Nat \subseteq K
  BY <1>1, <1>2, NaturalsByInduction
<1>4. ASSUME NEW i \in 1..Len(chain) PROVE chain[i] \in Tree
  <2>1. Len(chain) - i \in K /\ Len(chain) - i < Len(chain) /\ Len(chain) - (Len(chain) - i) = i
    BY <1>0, <1>3
  <2> QED BY <2>1 DEF K
<1> QED BY <1>4, SequencesAreFunctions

---------------------------------------------------------------------------
(* One step of a request *)

\* What a step may put on the socket of a request it answers.
Answers(r, frame) ==
  \/ relay = None /\ frame = None
  \/ relay # None /\ frame \in Frames /\ frame.to = r /\ frame.bytes <= cap /\ (frame.zip => gzip)

Unrefused(a) == a.names \in Objects => ~RefusedObject(a.names)

\* Request r goes on as q.
GoesOn(r, q) ==
  /\ q \in RequestType /\ IsGuarded(q)
  /\ req' = [req EXCEPT ![r] = q]
  /\ \/ /\ Busy(r) /\ q.phase # "idle"
        /\ inflight' = inflight /\ out' = None
     \/ /\ Busy(r) /\ q.phase = "idle"
        /\ inflight' = inflight - 1 /\ Answers(r, out')
     \/ /\ ~Busy(r) /\ q.phase # "idle" /\ inflight < MaxInflight
        /\ inflight' = inflight + 1 /\ out' = None
        /\ q.phase = "calling" => Unrefused(q.asks)
     \/ /\ ~Busy(r) /\ q = req[r]
        /\ inflight' = inflight /\ Answers(r, out')

Goes(r) == \E q \in RequestType : GoesOn(r, q)

LEMMA IdleIsGuarded == Idle \in RequestType /\ IsGuarded(Idle) /\ Idle.phase = "idle"
<1>1. <<>> \in Seq(Others)
  OBVIOUS
<1> QED BY <1>1 DEF Idle, RequestType, IsGuarded

LEMMA SayAnswers ==
  ASSUME LinkInv, NEW r \in Requests
  PROVE Answers(r, Say(r))
BY DEF LinkInv, Say, Answers, Frame, Frames

LEMMA PlainAnswers ==
  ASSUME LinkInv, NEW r \in Requests, NEW len \in Nat
  PROVE Answers(r, Plain(r, len))
BY SayAnswers DEF LinkInv, Plain, Answers, Frame, Frames

LEMMA EndsGoes ==
  ASSUME BridgeInv, NEW r \in Requests, Busy(r), NEW frame, Answers(r, frame), Ends(r, frame)
  PROVE Goes(r)
BY IdleIsGuarded DEF Ends, Goes, GoesOn, GivesPlace

LEMMA RefuseGoes ==
  ASSUME BridgeInv, NEW r \in Requests, Refuse(r)
  PROVE Goes(r)
<1>1. Answers(r, Say(r))
  BY SayAnswers DEF BridgeInv
<1>2. CASE Busy(r)
  BY <1>1, <1>2, EndsGoes DEF Refuse
<1>3. CASE ~Busy(r)
  <2>1. req' = req /\ inflight' = inflight /\ out' = Say(r)
    BY <1>3 DEF Refuse
  <2>2. req' = [req EXCEPT ![r] = req[r]] /\ req[r] \in RequestType /\ IsGuarded(req[r])
    BY <2>1 DEF BridgeInv, GuardInv
  <2> QED BY <1>1, <1>3, <2>1, <2>2 DEF Goes, GoesOn
<1> QED BY <1>2, <1>3

\* The record a waiting request is.
Waiting(a, stage, chain) == [phase |-> stage, asks |-> a, chain |-> chain, len |-> 0]

LEMMA WaitsGoes ==
  ASSUME BridgeInv, NEW r \in Requests, NEW a \in Asked,
         NEW stage \in {"walking", "listing", "proving", "calling"}, NEW chain \in Seq(Others),
         IsGuarded(Waiting(a, stage, chain)),
         Busy(r) \/ (inflight < MaxInflight /\ (stage = "calling" => Unrefused(a))),
         Waits(r, a, stage, chain)
  PROVE Goes(r)
<1> PICK q : q = Waiting(a, stage, chain)
  OBVIOUS
<1>1. q \in RequestType /\ q.phase = stage /\ q.asks = a /\ q.phase # "idle"
  BY DEF Waiting, RequestType
<1>2. req' = [req EXCEPT ![r] = q] /\ out' = None
  BY DEF Waits, Waiting
<1>3. inflight' = IF Busy(r) THEN inflight ELSE inflight + 1
  BY DEF Waits
<1>4. GoesOn(r, q)
  BY <1>1, <1>2, <1>3 DEF GoesOn
<1> QED BY <1>1, <1>4 DEF Goes

\* guardRequest, once the session in the path is the share's.
LEMMA GuardObjectsGoes ==
  ASSUME BridgeInv, NEW r \in Requests, NEW a \in Asked, Allowed(a), a.at \in Tree \cup {None},
         Busy(r) \/ inflight < MaxInflight, GuardObjects(r, a)
  PROVE Goes(r)
<1>0. <<>> \in Seq(Others)
  OBVIOUS
<1>1. CASE a.names \in Objects /\ RefusedObject(a.names)
  BY <1>1, RefuseGoes DEF GuardObjects
<1>2. CASE ~(a.names \in Objects /\ RefusedObject(a.names)) /\ a.names \in Prompts
  <2>1. Waits(r, a, "listing", <<>>)
    BY <1>2 DEF GuardObjects
  <2>2. IsGuarded(Waiting(a, "listing", <<>>))
    BY <1>2 DEF IsGuarded, Waiting
  <2> QED BY <1>0, <1>2, <2>1, <2>2, WaitsGoes DEF Unrefused
<1>3. CASE ~(a.names \in Objects /\ RefusedObject(a.names)) /\ a.names \notin Prompts
  <2>1. Waits(r, a, "calling", <<>>)
    BY <1>3 DEF GuardObjects
  <2>2. IsGuarded(Waiting(a, "calling", <<>>))
    BY <1>3 DEF IsGuarded, Waiting, InItsTree, Allowed
  <2> QED BY <1>0, <1>3, <2>1, <2>2, WaitsGoes DEF Unrefused
<1> QED BY <1>1, <1>2, <1>3

LEMMA TakeGoes ==
  ASSUME BridgeInv, NEW r \in Requests, NEW a \in Asked, Take(r, a)
  PROVE Goes(r)
<1>1. CASE ~MatchProxyRoute(a.route, a.at, Bound) \/ inflight >= MaxInflight
  BY <1>1, RefuseGoes DEF Take
<1>2. CASE MatchProxyRoute(a.route, a.at, Bound) /\ ~(inflight >= MaxInflight)
  <2>1. inflight < MaxInflight
    BY <1>2, LimitsArePositive DEF BridgeInv, PlacesInv
  <2>2. Allowed(a)
    BY <1>2, RequestsTakeRoutes DEF Allowed, MatchProxyRoute, IsAllowedSessionSegment
  <2>3. CASE a.at \in {None, Bound} \cup Proven
    <3>1. a.at \in Tree \cup {None}
      BY <2>3, TreeIsClosed DEF BridgeInv, TreeInv
    <3>2. GuardObjects(r, a)
      BY <1>2, <2>3 DEF Take
    <3> QED BY <2>1, <2>2, <3>1, <3>2, GuardObjectsGoes
  <2>4. CASE a.at \notin {None, Bound} \cup Proven
    <3>1. Waits(r, a, "walking", <<a.at>>) /\ ~Busy(r)
      BY <1>2, <2>4 DEF Take
    <3>2. a.at \in Others
      BY <2>4, RequestsTakeRoutes
    <3>3. <<a.at>> \in Seq(Others) /\ Climbs(<<a.at>>) /\ <<a.at>>[1] = a.at
      BY <3>2 DEF Climbs
    <3> PICK chain \in Seq(Others) : chain = <<a.at>> /\ Climbs(chain) /\ chain[1] = a.at
      BY <3>3
    <3>4. IsGuarded(Waiting(a, "walking", chain))
      BY <2>2 DEF IsGuarded, Waiting
    <3> QED BY <2>1, <3>1, <3>4, WaitsGoes
  <2> QED BY <2>3, <2>4
<1> QED BY <1>1, <1>2

\* What a chain leads to is the share's, or what starts it is not known to be.
LEMMA ChainStarts ==
  ASSUME BridgeInv, NEW r \in Requests, req[r].phase \in {"walking", "proving"}
  PROVE /\ req[r] \in RequestType /\ IsGuarded(req[r]) /\ Busy(r)
        /\ req[r].asks \in Asked /\ Allowed(req[r].asks)
        /\ req[r].chain \in Seq(Others) /\ Climbs(req[r].chain)
        /\ req[r].phase = "walking" => req[r].chain[1] = req[r].asks.at
        /\ req[r].phase = "proving" =>
             /\ req[r].asks.names \in Prompts /\ req[r].asks.at \in Tree \cup {None}
             /\ req[r].chain[1] = OwnerOf[req[r].asks.names]
        /\ Len(req[r].chain) \in Nat \ {0}
        /\ \A i \in 1..Len(req[r].chain) : req[r].chain[i] \in Others
        /\ Last(req[r].chain) \in Others
<1>1. req[r] \in RequestType /\ IsGuarded(req[r])
  BY DEF BridgeInv, GuardInv
<1>2. req[r].chain \in Seq(Others) /\ Climbs(req[r].chain)
  BY <1>1 DEF IsGuarded, RequestType
<1>3. /\ Len(req[r].chain) \in Nat \ {0}
      /\ \A i \in 1..Len(req[r].chain) : req[r].chain[i] \in Others
  BY <1>2, SequencesAreFunctions DEF Climbs
<1>4. Last(req[r].chain) \in Others
  BY <1>3 DEF Last
<1> QED BY <1>1, <1>2, <1>3, <1>4 DEF IsGuarded, Busy

\* sharesTree and guardSessionId remember only what is the share's.
LEMMA LearnKeeps ==
  ASSUME BridgeInv, NEW r \in Requests, req[r].phase \in {"walking", "proving"},
         NEW v, Learn(r, v), v = "true" => ParentOf[Last(req[r].chain)] \in Tree
  PROVE TreeInv'
<1>0. proven \in Seq(Others) /\ Distinct(proven) /\ Len(proven) <= MaxProven /\ ToSet(proven) \subseteq Tree
  BY DEF BridgeInv, TreeInv, Proven
<1>1. CASE v # "true"
  <2>1. proven' = proven
    BY <1>1 DEF Learn, Learns
  <2> QED BY <1>0, <2>1 DEF TreeInv, Proven
<1>2. CASE v = "true"
  <2> PICK chain \in Seq(Others) : chain = req[r].chain
    BY ChainStarts
  <2>1. ToSet(chain) \subseteq Tree /\ Len(chain) \in Nat \ {0} /\ chain[1] \in ToSet(chain)
    <3>1. ToSet(chain) \subseteq Tree
      BY <1>2, ChainStarts, ChainsAreInTheTree
    <3>2. Len(chain) \in Nat \ {0}
      BY ChainStarts
    <3>3. 1 \in 1..Len(chain)
      BY <3>2
    <3> QED BY <3>1, <3>2, <3>3, SequencesAreFunctions
  <2>2. ASSUME req[r].phase = "walking"
        PROVE /\ Append(chain, req[r].asks.at) \in Seq(Others)
              /\ ToSet(Append(chain, req[r].asks.at)) \subseteq Tree
    <3> PICK at \in Others : at = req[r].asks.at /\ at \in Tree
      BY <2>1, <2>2, ChainStarts, SequencesAreFunctions
    <3>1. Append(chain, at) \in Seq(Others) /\ ToSet(Append(chain, at)) = ToSet(chain) \cup {at}
      <4>1. /\ Append(chain, at) \in Seq(Others) /\ Len(Append(chain, at)) = Len(chain) + 1
            /\ Append(chain, at)[Len(chain) + 1] = at
            /\ \A i \in 1..Len(chain) : Append(chain, at)[i] = chain[i]
        BY AppendProperties
      <4> PICK c \in Seq(Others) : c = Append(chain, at)
        BY <4>1
      <4>2. \A s \in Seq(Others) : ToSet(s) = {s[i] : i \in 1..Len(s)}
        BY SequencesAreFunctions
      <4>3. \A i \in 1..Len(c) : i = Len(chain) + 1 \/ i \in 1..Len(chain)
        <5>1. \A l \in Nat : \A i \in 1..(l + 1) : i = l + 1 \/ i \in 1..l
          OBVIOUS
        <5> QED BY <2>1, <4>1, <5>1
      <4>4. \A i \in 1..Len(chain) : i \in 1..Len(c)
        <5>1. \A l \in Nat : \A i \in 1..l : i \in 1..(l + 1)
          OBVIOUS
        <5> QED BY <2>1, <4>1, <5>1
      <4>5. Len(chain) + 1 \in 1..Len(c)
        BY <2>1, <4>1
      <4>6. ToSet(c) = {c[i] : i \in 1..Len(c)} /\ ToSet(chain) = {chain[i] : i \in 1..Len(chain)}
        BY <4>2
      <4>7. ASSUME NEW i \in 1..Len(c) PROVE c[i] \in ToSet(chain) \cup {at}
        BY <4>1, <4>3, <4>6
      <4>8. at \in ToSet(c)
        BY <4>1, <4>5, <4>6
      <4>9. ASSUME NEW i \in 1..Len(chain) PROVE chain[i] \in ToSet(c)
        <5>1. i \in 1..Len(c) /\ chain[i] = c[i]
          BY <4>1, <4>4
        <5> QED BY <4>6, <5>1
      <4> QED BY <4>6, <4>7, <4>8, <4>9
    <3> QED BY <2>1, <3>1
  <2> PICK ids \in Seq(Others) :
        /\ ids = IF req[r].phase = "walking" THEN Append(req[r].chain, req[r].asks.at) ELSE req[r].chain
        /\ ToSet(ids) \subseteq Tree
    BY <2>1, <2>2
  <2>3. proven' = AllRemembered(proven, ids, MaxProven)
    BY <1>2 DEF Learn, Learns
  <2>4. MaxProven \in Nat \ {0}
    BY LimitsArePositive
  <2>5. /\ proven' \in Seq(Others) /\ Distinct(proven') /\ Len(proven') <= MaxProven
        /\ ToSet(proven') \subseteq ToSet(proven) \cup ToSet(ids)
    BY <1>0, <2>3, <2>4, RememberingAChain
  <2> QED BY <1>0, <2>5 DEF TreeInv, Proven
<1> QED BY <1>1, <1>2

LEMMA CallingGoes ==
  ASSUME BridgeInv, NEW r \in Requests, NEW a \in Asked, Busy(r),
         IsGuarded(Waiting(a, "calling", <<>>)), Waits(r, a, "calling", <<>>)
  PROVE Goes(r)
<1>1. <<>> \in Seq(Others)
  OBVIOUS
<1> QED BY <1>1, WaitsGoes

LEMMA WalkedGoes ==
  ASSUME BridgeInv, NEW r \in Requests, Walked(r)
  PROVE Goes(r) /\ TreeInv' /\ Busy(r)
<1> PICK q \in RequestType : q = req[r]
  BY DEF BridgeInv, GuardInv
<1>0. q.phase \in {"walking", "proving"}
  BY DEF Walked
<1> PICK chain \in Seq(Others) : chain = q.chain
  BY <1>0, ChainStarts
<1> PICK a \in Asked : a = q.asks
  BY <1>0, ChainStarts
<1> PICK parent : parent = ParentOf[Last(chain)]
  OBVIOUS
<1>1. /\ Busy(r) /\ Allowed(a) /\ Climbs(chain)
      /\ q.phase = "walking" => chain[1] = a.at
      /\ q.phase = "proving" =>
           a.names \in Prompts /\ a.at \in Tree \cup {None} /\ chain[1] = OwnerOf[a.names]
      /\ Len(chain) \in Nat \ {0} /\ \A i \in 1..Len(chain) : chain[i] \in Others
      /\ Last(chain) \in Others
  BY <1>0, ChainStarts
<1>2. ASSUME NEW v, v # "true", Learn(r, v), Refuse(r) PROVE Goes(r) /\ TreeInv'
  BY <1>0, <1>2, RefuseGoes, LearnKeeps
<1>3. ASSUME parent \in {Bound} \cup Proven, Learn(r, "true"),
             \/ q.phase = "walking" /\ GuardObjects(r, a)
             \/ q.phase = "proving" /\ Waits(r, a, "calling", <<>>)
      PROVE Goes(r) /\ TreeInv'
  <2>1. parent \in Tree
    BY <1>3, TreeIsClosed DEF BridgeInv, TreeInv
  <2>2. TreeInv'
    BY <1>0, <1>3, <2>1, LearnKeeps
  <2>3. chain[1] \in Tree
    <3>1. ToSet(chain) \subseteq Tree
      BY <1>1, <2>1, ChainsAreInTheTree
    <3>2. 1 \in 1..Len(chain)
      BY <1>1
    <3> QED BY <3>1, <3>2, SequencesAreFunctions
  <2>4. CASE q.phase = "walking"
    BY <1>1, <1>3, <2>2, <2>3, <2>4, GuardObjectsGoes
  <2>5. CASE q.phase = "proving"
    <3>1. IsGuarded(Waiting(a, "calling", <<>>))
      BY <1>1, <2>3, <2>5 DEF IsGuarded, Waiting, InItsTree, Allowed
    <3>2. Waits(r, a, "calling", <<>>)
      BY <1>3, <2>5
    <3> QED BY <1>1, <2>2, <3>1, <3>2, CallingGoes
  <2> QED BY <1>0, <2>4, <2>5
<1>4. ASSUME parent \notin {Bound} \cup Proven, parent # None,
             Waits(r, a, q.phase, Append(chain, parent)), UNCHANGED proven
      PROVE Goes(r) /\ TreeInv'
  <2>1. parent \in Others
    BY <1>1, <1>4, SessionsAreTrees
  <2>2. /\ Append(chain, parent) \in Seq(Others) /\ Len(Append(chain, parent)) = Len(chain) + 1
        /\ Append(chain, parent)[Len(chain) + 1] = parent
        /\ \A i \in 1..Len(chain) : Append(chain, parent)[i] = chain[i]
    BY <2>1, AppendProperties
  <2> PICK longer \in Seq(Others) : longer = Append(chain, parent)
    BY <2>2
  <2>3. ASSUME NEW i \in 1..Len(chain) PROVE ParentOf[longer[i]] = longer[i + 1]
    <3>1. CASE i = Len(chain)
      <4>1. longer[i] = chain[Len(chain)] /\ longer[i + 1] = parent
        BY <1>1, <2>2, <3>1
      <4> QED BY <4>1 DEF Last
    <3>2. CASE i # Len(chain)
      <4>1. i \in 1..(Len(chain) - 1) /\ i + 1 \in 1..Len(chain)
        BY <1>1, <3>2
      <4>2. ParentOf[chain[i]] = chain[i + 1]
        BY <1>1, <4>1 DEF Climbs
      <4> QED BY <2>2, <4>1, <4>2
    <3> QED BY <3>1, <3>2
  <2>4. Climbs(longer) /\ longer[1] = chain[1]
    <3>1. Len(longer) = Len(chain) + 1 /\ Len(longer) - 1 = Len(chain) /\ 1 \in 1..Len(chain) /\ longer # <<>>
      BY <1>1, <2>2
    <3> QED BY <2>2, <2>3, <3>1 DEF Climbs
  <2>5. IsGuarded(Waiting(a, q.phase, longer))
    BY <1>0, <1>1, <2>4 DEF IsGuarded, Waiting
  <2>6. Goes(r)
    BY <1>0, <1>1, <1>4, <2>5, WaitsGoes
  <2>7. TreeInv'
    BY <1>4 DEF BridgeInv, TreeInv, Proven
  <2> QED BY <2>6, <2>7
<1>5. \/ \E v : v # "true" /\ Learn(r, v) /\ Refuse(r)
      \/ /\ parent \in {Bound} \cup Proven /\ Learn(r, "true")
         /\ \/ q.phase = "walking" /\ GuardObjects(r, a)
            \/ q.phase = "proving" /\ Waits(r, a, "calling", <<>>)
      \/ /\ parent \notin {Bound} \cup Proven /\ parent # None
         /\ Waits(r, a, q.phase, Append(chain, parent)) /\ UNCHANGED proven
  BY DEF Walked
<1> QED BY <1>1, <1>2, <1>3, <1>4, <1>5

LEMMA ListedGoes ==
  ASSUME BridgeInv, NEW r \in Requests, Listed(r)
  PROVE Goes(r) /\ Busy(r)
<1> PICK q \in RequestType : q = req[r] /\ IsGuarded(q)
  BY DEF BridgeInv, GuardInv
<1>0. q.phase = "listing" /\ Busy(r)
  BY DEF Listed, Busy
<1> PICK a \in Asked : a = q.asks /\ Allowed(a) /\ a.names \in Prompts /\ a.at \in Tree \cup {None}
  BY <1>0 DEF IsGuarded
<1> PICK owner \in Others \cup {Bound} : owner = OwnerOf[a.names]
  BY EveryObjectHasAnOwner
<1>1. CASE Refuse(r)
  BY <1>0, <1>1, RefuseGoes
<1>2. CASE owner \in {Bound} \cup Proven /\ Waits(r, a, "calling", <<>>)
  <2>1. owner \in Tree
    BY <1>2, TreeIsClosed DEF BridgeInv, TreeInv
  <2>2. IsGuarded(Waiting(a, "calling", <<>>))
    BY <2>1 DEF IsGuarded, Waiting, InItsTree, Allowed
  <2> QED BY <1>0, <1>2, <2>2, CallingGoes
<1>3. CASE owner \notin {Bound} \cup Proven /\ Waits(r, a, "proving", <<owner>>)
  <2>0. <<owner>> \in Seq(Others) /\ Climbs(<<owner>>) /\ <<owner>>[1] = owner
    BY <1>3 DEF Climbs
  <2> PICK chain \in Seq(Others) : chain = <<owner>> /\ Climbs(chain) /\ chain[1] = owner
    BY <2>0
  <2>1. IsGuarded(Waiting(a, "proving", chain))
    BY DEF IsGuarded, Waiting, Allowed
  <2> QED BY <1>0, <1>3, <2>1, WaitsGoes
<1> QED BY <1>0, <1>1, <1>2, <1>3 DEF Listed

LEMMA CalledGoes ==
  ASSUME BridgeInv, NEW r \in Requests, NEW len \in Lengths, Called(r, len)
  PROVE Goes(r) /\ Busy(r)
<1>0. Busy(r) /\ len \in Nat
  BY LimitsArePositive DEF Called, Busy
<1>1. CASE gzip /\ len >= GzipMin
  <2> PICK q : q = [phase |-> "zipping", asks |-> None, chain |-> <<>>, len |-> len]
    OBVIOUS
  <2>1. q \in RequestType /\ q.phase = "zipping"
    <3>1. <<>> \in Seq(Others)
      OBVIOUS
    <3> QED BY <1>0, <3>1 DEF RequestType
  <2>2. IsGuarded(q)
    BY <2>1 DEF IsGuarded
  <2>3. req' = [req EXCEPT ![r] = q] /\ out' = None /\ inflight' = inflight
    BY <1>1 DEF Called
  <2> QED BY <1>0, <2>1, <2>2, <2>3 DEF Goes, GoesOn
<1>2. CASE ~(gzip /\ len >= GzipMin)
  BY <1>0, <1>2, PlainAnswers, EndsGoes DEF Called, BridgeInv
<1> QED BY <1>0, <1>1, <1>2

LEMMA UnreachableGoes ==
  ASSUME BridgeInv, NEW r \in Requests, Unreachable(r)
  PROVE Goes(r) /\ Busy(r)
BY SayAnswers, EndsGoes DEF Unreachable, Busy, BridgeInv

LEMMA ZippedGoes ==
  ASSUME BridgeInv, NEW r \in Requests, NEW small \in Lengths, Zipped(r, small)
  PROVE Goes(r) /\ Busy(r)
<1>0. Busy(r) /\ req[r].len \in Nat /\ small \in Nat /\ LinkInv
  BY LimitsArePositive DEF Zipped, Busy, BridgeInv, GuardInv, RequestType
<1>1. CASE Ends(r, Frame(r, small, TRUE)) /\ AcceptsGzip /\ small <= cap
  <2>1. Answers(r, Frame(r, small, TRUE))
    BY <1>0, <1>1 DEF Answers, AcceptsGzip, Frame, Frames
  <2> QED BY <1>0, <1>1, <2>1, EndsGoes
<1>2. CASE Ends(r, Plain(r, req[r].len))
  BY <1>0, <1>2, PlainAnswers, EndsGoes
<1> QED BY <1>1, <1>2 DEF Zipped

---------------------------------------------------------------------------
(* Every step keeps the invariant *)

LEMMA CapSuits ==
  ASSUME LinkInv, relay # None, NEW r, NEW frame, Answers(r, frame)
  PROVE frame \in Frames /\ (frame.zip => told /\ relay.gzip) /\ (told /\ relay.cap # None => frame.bytes <= relay.cap)
<1>1. frame \in Frames /\ frame.bytes <= cap /\ (frame.zip => gzip) /\ frame.bytes \in Nat /\ frame.zip \in BOOLEAN
  BY DEF Answers, Frames
<1>2. cap \in Nat /\ DefaultCap \in Nat
  BY LimitsArePositive DEF LinkInv
<1>3. relay \in Hellos /\ relay.gzip \in BOOLEAN /\ (relay.cap = None \/ relay.cap \in Nat)
  BY RelaysTakeAnAnswer DEF LinkInv
<1>4. gzip => told /\ relay.gzip
  BY <1>3 DEF LinkInv
<1>5. ASSUME told, relay.cap # None PROVE frame.bytes <= relay.cap
  <2>1. cap = AnnouncedCap(relay)
    BY <1>5 DEF LinkInv
  <2>2. cap <= relay.cap
    BY <1>2, <1>3, <1>5, <2>1 DEF AnnouncedCap
  <2> QED BY <1>1, <1>2, <1>3, <1>5, <2>2
<1> QED BY <1>1, <1>4, <1>5

LEMMA GoesKeeps ==
  ASSUME BridgeInv, NEW r \in Requests, Goes(r), UNCHANGED linkVars
  PROVE LinkInv' /\ GuardInv' /\ PlacesInv' /\ OutInv'
<1> PICK q \in RequestType : GoesOn(r, q)
  BY DEF Goes
<1>1. LinkInv'
  BY DEF BridgeInv, LinkInv, linkVars
<1>2. GuardInv'
  <2>1. req' = [req EXCEPT ![r] = q] /\ IsGuarded(q) /\ req \in [Requests -> RequestType]
    BY DEF GoesOn, BridgeInv, GuardInv
  <2>2. ASSUME NEW s \in Requests PROVE IsGuarded(req'[s])
    BY <2>1 DEF BridgeInv, GuardInv
  <2> QED BY <2>1, <2>2 DEF GuardInv
<1>3. PlacesInv'
  <2>0. /\ IsFiniteSet(Taken) /\ inflight = Cardinality(Taken) /\ inflight \in 0..MaxInflight /\ MaxInflight \in Nat
        /\ r \in Taken <=> Busy(r)
    BY RequestsAreFinite, FS_Subset, LimitsArePositive DEF BridgeInv, PlacesInv, Taken
  <2>1. Taken' = IF q.phase = "idle" THEN Taken \ {r} ELSE Taken \cup {r}
    BY DEF GoesOn, BridgeInv, GuardInv, Taken, Busy
  <2>2. CASE Busy(r) /\ q.phase # "idle" /\ inflight' = inflight
    <3>1. Taken' = Taken
      BY <2>0, <2>1, <2>2
    <3> QED BY <2>0, <2>2, <3>1 DEF PlacesInv
  <2>3. CASE Busy(r) /\ q.phase = "idle" /\ inflight' = inflight - 1
    <3>1. Cardinality(Taken \ {r}) = Cardinality(Taken) - 1 /\ Cardinality(Taken \ {r}) \in Nat
      BY <2>0, <2>3, FS_RemoveElement, FS_CardinalityType
    <3> QED BY <2>0, <2>1, <2>3, <3>1 DEF PlacesInv
  <2>4. CASE ~Busy(r) /\ q.phase # "idle" /\ inflight < MaxInflight /\ inflight' = inflight + 1
    <3>1. Cardinality(Taken \cup {r}) = Cardinality(Taken) + 1
      BY <2>0, <2>4, FS_AddElement
    <3> QED BY <2>0, <2>1, <2>4, <3>1 DEF PlacesInv
  <2>5. CASE ~Busy(r) /\ q = req[r] /\ inflight' = inflight
    <3>1. Taken' = Taken
      BY <2>0, <2>1, <2>5 DEF Busy
    <3> QED BY <2>0, <2>5, <3>1 DEF PlacesInv
  <2> QED BY <2>2, <2>3, <2>4, <2>5 DEF GoesOn
<1>4. OutInv'
  <2>1. CASE out' = None
    BY <2>1 DEF OutInv, FramesSuitTheLink
  <2>2. CASE out' # None
    <3>1. Answers(r, out') /\ relay # None
      BY <2>2 DEF GoesOn, Answers
    <3>2. /\ out' \in Frames /\ (out'.zip => told /\ relay.gzip)
          /\ told /\ relay.cap # None => out'.bytes <= relay.cap
      BY <3>1, CapSuits DEF BridgeInv
    <3> QED BY <3>2 DEF OutInv, FramesSuitTheLink, linkVars
  <2> QED BY <2>1, <2>2
<1> QED BY <1>1, <1>2, <1>3, <1>4

LEMMA LinkStepKeeps ==
  ASSUME BridgeInv, Hello \/ Lost \/ \E h \in Hellos : Open(h)
  PROVE BridgeInv'
<1>0. DefaultCap \in Nat /\ DefaultCap >= 1 /\ cap \in 1..DefaultCap
  BY LimitsArePositive DEF BridgeInv, LinkInv
<1>1. UNCHANGED <<req, inflight, proven, foreign, events>> /\ out' = None
  BY DEF Hello, Lost, Open, treeVars
<1>2. LinkInv'
  <2>1. CASE Hello
    <3>1. relay \in Hellos /\ relay.gzip \in BOOLEAN /\ (relay.cap = None \/ relay.cap \in Nat \ {0})
      BY <2>1, RelaysTakeAnAnswer DEF Hello, BridgeInv, LinkInv
    <3>2. AnnouncedCap(relay) \in 1..DefaultCap
      BY <1>0, <3>1 DEF AnnouncedCap
    <3> QED BY <2>1, <3>1, <3>2 DEF Hello, LinkInv
  <2>2. CASE Lost
    BY <2>2 DEF Lost, BridgeInv, LinkInv
  <2>3. CASE \E h \in Hellos : Open(h)
    <3> PICK h \in Hellos : Open(h)
      BY <2>3
    <3>1. relay' = h /\ told' = FALSE /\ gzip' = FALSE /\ cap' = DefaultCap
      BY DEF Open
    <3>2. cap' \in 1..DefaultCap /\ relay' \in Hellos \cup {None}
      BY <1>0, <3>1
    <3>3. told' \in BOOLEAN /\ gzip' \in BOOLEAN /\ ~told' /\ ~gzip'
      BY <3>1
    <3> QED BY <3>2, <3>3 DEF LinkInv
  <2> QED BY <2>1, <2>2, <2>3
<1>3. GuardInv' /\ PlacesInv'
  BY <1>1 DEF BridgeInv, GuardInv, PlacesInv, Taken, Busy
<1>4. TreeInv'
  BY <1>1 DEF BridgeInv, TreeInv, Proven
<1>5. ForeignInv'
  BY <1>1 DEF BridgeInv, ForeignInv
<1>6. OutInv'
  BY <1>1 DEF OutInv, FramesSuitTheLink
<1> QED BY <1>2, <1>3, <1>4, <1>5, <1>6 DEF BridgeInv

---------------------------------------------------------------------------
(* Objects of other sessions *)

LEMMA SinceIsFinite ==
  ASSUME NEW S, NEW seq \in Seq(S), NEW i \in 1..Len(seq)
  PROVE IsFiniteSet(Since(seq, i)) /\ Cardinality(Since(seq, i)) \in Nat
<1>0. Len(seq) \in Nat
  BY SequencesAreFunctions
<1> DEFINE f == [j \in i..Len(seq) |-> seq[j]]
<1>1. f \in Surjection(i..Len(seq), Since(seq, i))
  <2>1. f \in [i..Len(seq) -> Since(seq, i)] /\ \A y \in Since(seq, i) : \E j \in i..Len(seq) : f[j] = y
    BY DEF Since
  <2> QED BY <2>1 DEF Surjection
<1>2. IsFiniteSet(i..Len(seq))
  BY <1>0, FS_Interval
<1> HIDE DEF f
<1>3. IsFiniteSet(Since(seq, i))
  BY <1>1, <1>2, FS_Surjection
<1> QED BY <1>3, FS_CardinalityType

LEMMA DistinctAreCounted ==
  ASSUME NEW S, NEW seq \in Seq(S), Distinct(seq)
  PROVE IsFiniteSet(ToSet(seq)) /\ Cardinality(ToSet(seq)) = Len(seq)
<1>0. Len(seq) \in Nat /\ DOMAIN seq = 1..Len(seq) /\ ToSet(seq) = {seq[i] : i \in 1..Len(seq)}
  BY SequencesAreFunctions
<1>1. seq \in [1..Len(seq) -> ToSet(seq)] /\ \A y \in ToSet(seq) : \E j \in 1..Len(seq) : seq[j] = y
  <2>1. seq = [i \in 1..Len(seq) |-> seq[i]]
    BY <1>0
  <2>2. \A i \in 1..Len(seq) : seq[i] \in ToSet(seq)
    BY <1>0
  <2> QED BY <1>0, <2>1, <2>2
<1>2. seq \in Surjection(1..Len(seq), ToSet(seq))
  BY <1>1 DEF Surjection
<1>3. seq \in Injection(1..Len(seq), ToSet(seq))
  BY <1>0, <1>1 DEF Injection, IsInjective, Distinct
<1>4. IsFiniteSet(1..Len(seq)) /\ Cardinality(1..Len(seq)) = Len(seq)
  <2>1. IsFiniteSet(1..Len(seq)) /\ Cardinality(1..Len(seq)) = IF 1 > Len(seq) THEN 0 ELSE Len(seq) - 1 + 1
    BY <1>0, FS_Interval
  <2> QED BY <1>0, <2>1
<1>5. IsFiniteSet(ToSet(seq)) /\ Cardinality(ToSet(seq)) = Cardinality(1..Len(seq))
  BY <1>2, <1>3, <1>4, FS_Surjection
<1> QED BY <1>4, <1>5

\* An event more names o.
NamesOneMore(old, new, o) ==
  /\ Len(new) = Len(old) + 1 /\ new[Len(new)] = o
  /\ \A i \in 1..Len(new) :
       /\ o \in Since(new, i)
       /\ i = Len(new) \/ (i \in 1..Len(old) /\ new[i] = old[i] /\ Since(old, i) \subseteq Since(new, i))

LEMMA MoreIsNamed ==
  ASSUME NEW old \in Seq(Objects), NEW new \in Seq(Objects), NEW o \in Objects, new = Append(old, o)
  PROVE NamesOneMore(old, new, o)
<1>0. /\ Len(old) \in Nat /\ Len(new) = Len(old) + 1 /\ new[Len(old) + 1] = o
      /\ \A i \in 1..Len(old) : new[i] = old[i]
  BY SequencesAreFunctions, AppendProperties
<1>1. ASSUME NEW i \in 1..Len(new)
      PROVE /\ o \in Since(new, i)
            /\ i = Len(new) \/ (i \in 1..Len(old) /\ new[i] = old[i] /\ Since(old, i) \subseteq Since(new, i))
  <2>0. \A l \in Nat : \A k \in 1..(l + 1) :
          /\ l + 1 \in k..(l + 1) /\ (k = l + 1 \/ k \in 1..l)
          /\ \A j \in k..l : j \in 1..l /\ j \in k..(l + 1)
    OBVIOUS
  <2>1. /\ Len(new) \in i..Len(new) /\ (i = Len(new) \/ i \in 1..Len(old))
        /\ \A j \in i..Len(old) : j \in 1..Len(old) /\ j \in i..Len(new)
    BY <1>0, <2>0
  <2>2. \A j \in i..Len(old) : new[j] = old[j] /\ j \in i..Len(new)
    BY <1>0, <2>1
  <2>3. Since(old, i) \subseteq Since(new, i)
    BY <2>2 DEF Since
  <2>4. o \in Since(new, i)
    BY <1>0, <2>1 DEF Since
  <2> QED BY <1>0, <2>1, <2>3, <2>4
<1> QED BY <1>0, <1>1 DEF NamesOneMore

LEMMA NoteKeeps ==
  ASSUME BridgeInv, NEW o \in Objects, Note(o)
  PROVE ForeignInv'
<1>0. /\ foreign \in Seq(Objects) /\ Distinct(foreign) /\ Len(foreign) <= MaxForeign
      /\ events \in Seq(Objects) /\ MaxForeign \in Nat \ {0}
      /\ \A i \in 1..Len(events) : Foreign(events[i]) =>
           events[i] \in ToSet(foreign) \/ Cardinality(Since(events, i)) > MaxForeign
      /\ \A i \in 1..Len(events), p \in 1..Len(foreign) : Foreign(events[i]) /\ foreign[p] = events[i] =>
           \A q \in p..Len(foreign) : foreign[q] \in Since(events, i)
  BY LimitsArePositive DEF BridgeInv, ForeignInv
<1>1. Append(events, o) \in Seq(Objects) /\ events' = Append(events, o)
  BY <1>0 DEF Note
<1> PICK now \in Seq(Objects) : now = Append(events, o) /\ events' = now
  BY <1>1
<1>2. /\ Len(now) = Len(events) + 1 /\ now[Len(now)] = o
      /\ \A i \in 1..Len(now) :
           /\ o \in Since(now, i)
           /\ i = Len(now) \/ (i \in 1..Len(events) /\ now[i] = events[i] /\ Since(events, i) \subseteq Since(now, i))
  <2>1. events \in Seq(Objects) /\ now \in Seq(Objects) /\ now = Append(events, o)
    BY <1>0
  <2> QED BY <2>1, MoreIsNamed DEF NamesOneMore
<1>3. ASSUME NEW i \in 1..Len(now), NEW T \in SUBSET Since(now, i), IsFiniteSet(T)
      PROVE /\ Cardinality(T) \in Nat /\ Cardinality(Since(now, i)) \in Nat
            /\ Cardinality(T) <= Cardinality(Since(now, i))
  BY <1>3, SinceIsFinite, FS_Subset, FS_CardinalityType
<1>4. ASSUME NEW i \in 1..Len(events), i \in 1..Len(now), Since(events, i) \subseteq Since(now, i),
             Cardinality(Since(events, i)) > MaxForeign
      PROVE Cardinality(Since(now, i)) > MaxForeign
  <2>1. IsFiniteSet(Since(events, i)) /\ Cardinality(Since(events, i)) \in Nat
    BY <1>0, SinceIsFinite
  <2>2. /\ Cardinality(Since(now, i)) \in Nat
        /\ Cardinality(Since(events, i)) <= Cardinality(Since(now, i))
    BY <1>3, <1>4, <2>1
  <2> QED BY <1>0, <1>4, <2>1, <2>2
<1>5. CASE OwnerOf[o] \in {Bound} \cup Proven
  <2>1. foreign' = foreign
    BY <1>5 DEF Note
  <2>2. ~Foreign(o)
    BY <1>5, TreeIsClosed DEF Foreign, BridgeInv, TreeInv
  <2>3. ASSUME NEW i \in 1..Len(now), Foreign(now[i])
        PROVE i \in 1..Len(events) /\ now[i] = events[i] /\ Since(events, i) \subseteq Since(now, i)
    BY <1>2, <2>2, <2>3
  <2>4. ASSUME NEW i \in 1..Len(now), Foreign(now[i])
        PROVE now[i] \in ToSet(foreign) \/ Cardinality(Since(now, i)) > MaxForeign
    BY <1>0, <1>4, <2>3, <2>4
  <2>5. ASSUME NEW i \in 1..Len(now), NEW p \in 1..Len(foreign), Foreign(now[i]), foreign[p] = now[i],
               NEW q \in p..Len(foreign)
        PROVE foreign[q] \in Since(now, i)
    BY <1>0, <2>3, <2>5
  <2> QED BY <1>0, <2>1, <2>4, <2>5 DEF ForeignInv
<1>6. CASE OwnerOf[o] \notin {Bound} \cup Proven
  <2>1. /\ Noted(foreign, o) \in Seq(Objects) /\ Follows(foreign, o, MaxForeign, Noted(foreign, o))
        /\ foreign' = Noted(foreign, o)
    BY <1>0, <1>6, RememberedFollows DEF Note, Noted
  <2> PICK new \in Seq(Objects) : foreign' = new /\ Follows(foreign, o, MaxForeign, new)
    BY <2>1
  <2>2. Distinct(new) /\ Len(new) <= MaxForeign
    BY <1>0, FollowingIsBounded
  <2> PICK h \in [1..(Len(new) - 1) -> 1..Len(foreign)] :
        /\ \A p, q \in 1..(Len(new) - 1) : p < q => h[p] < h[q]
        /\ \A p \in 1..(Len(new) - 1) : new[p] = foreign[h[p]] /\ foreign[h[p]] # o
        /\ \A k \in 1..Len(foreign) :
             \/ foreign[k] = o
             \/ k = 1 /\ Len(foreign) = MaxForeign /\ o \notin ToSet(foreign)
             \/ \E p \in 1..(Len(new) - 1) : h[p] = k
    BY DEF Follows
  <2>3. Len(new) \in Nat \ {0} /\ new[Len(new)] = o
    BY <1>0 DEF Follows
  <2>4. \A p \in 1..Len(new) : p = Len(new) \/ p \in 1..(Len(new) - 1)
    <3>1. \A l \in Nat : \A p \in 1..l : p = l \/ p \in 1..(l - 1)
      OBVIOUS
    <3> QED BY <2>3, <3>1
  <2>5. Len(new) \in 1..Len(new) /\ \A p \in 1..(Len(new) - 1) : p \in 1..Len(new)
    <3>1. \A l \in Nat \ {0} : l \in 1..l /\ \A p \in 1..(l - 1) : p \in 1..l
      OBVIOUS
    <3> QED BY <2>3, <3>1
  <2>6. ToSet(new) = {new[p] : p \in 1..Len(new)} /\ ToSet(foreign) = {foreign[p] : p \in 1..Len(foreign)}
    <3>1. \A seq \in Seq(Objects) : ToSet(seq) = {seq[p] : p \in 1..Len(seq)}
      BY SequencesAreFunctions
    <3> QED BY <1>0, <3>1
  <2>7. ASSUME NEW i \in 1..Len(now), Foreign(now[i])
        PROVE now[i] \in ToSet(new) \/ Cardinality(Since(now, i)) > MaxForeign
    <3>1. CASE now[i] = o
      BY <2>3, <2>5, <2>6, <3>1
    <3>2. CASE now[i] # o
      <4>1. i \in 1..Len(events) /\ now[i] = events[i] /\ Since(events, i) \subseteq Since(now, i) /\ o \in Since(now, i)
        BY <1>2, <3>2
      <4>2. CASE Cardinality(Since(events, i)) > MaxForeign
        BY <1>4, <4>1, <4>2
      <4>3. CASE events[i] \in ToSet(foreign)
        <5> PICK k \in 1..Len(foreign) : foreign[k] = events[i]
          BY <2>6, <4>3
        <5>1. CASE k = 1 /\ Len(foreign) = MaxForeign /\ o \notin ToSet(foreign)
          <6>1. \A q \in 1..Len(foreign) : foreign[q] \in Since(events, i)
            BY <1>0, <2>7, <4>1, <5>1
          <6>2. ToSet(foreign) \cup {o} \in SUBSET Since(now, i)
            BY <2>6, <4>1, <6>1
          <6>3. IsFiniteSet(ToSet(foreign)) /\ Cardinality(ToSet(foreign)) = MaxForeign
            BY <1>0, <5>1, DistinctAreCounted
          <6>4. IsFiniteSet(ToSet(foreign) \cup {o}) /\ Cardinality(ToSet(foreign) \cup {o}) = MaxForeign + 1
            BY <5>1, <6>3, FS_AddElement
          <6>5. MaxForeign + 1 <= Cardinality(Since(now, i)) /\ Cardinality(Since(now, i)) \in Nat
            BY <1>3, <6>2, <6>4
          <6> QED BY <1>0, <6>5
        <5>2. CASE \E p \in 1..(Len(new) - 1) : h[p] = k
          <6> PICK p \in 1..(Len(new) - 1) : h[p] = k
            BY <5>2
          <6>1. new[p] = now[i] /\ p \in 1..Len(new)
            BY <2>5, <4>1
          <6> QED BY <2>6, <6>1
        <5> QED BY <3>2, <4>1, <5>1, <5>2
      <4> QED BY <1>0, <2>7, <4>1, <4>2, <4>3
    <3> QED BY <3>1, <3>2
  <2>8. ASSUME NEW i \in 1..Len(now), NEW p \in 1..Len(new), Foreign(now[i]), new[p] = now[i],
               NEW q \in p..Len(new)
        PROVE new[q] \in Since(now, i)
    <3>0. p \in Nat /\ q \in Nat /\ p <= q /\ q \in 1..Len(new)
      BY <2>3
    <3>1. CASE q = Len(new)
      BY <1>2, <2>3, <3>1
    <3>2. CASE q \in 1..(Len(new) - 1)
      <4>1. p \in 1..(Len(new) - 1)
        BY <2>3, <3>0, <3>2
      <4>2. now[i] = foreign[h[p]] /\ now[i] # o /\ new[q] = foreign[h[q]]
        BY <2>8, <3>2, <4>1
      <4>3. i \in 1..Len(events) /\ now[i] = events[i] /\ Since(events, i) \subseteq Since(now, i)
        BY <1>2, <4>2
      <4>4. h[p] \in 1..Len(foreign) /\ h[q] \in 1..Len(foreign) /\ h[p] <= h[q]
        <5>0. /\ h[p] \in 1..Len(foreign) /\ h[q] \in 1..Len(foreign)
              /\ p < q => h[p] < h[q]
          BY <3>2, <4>1
        <5>1. h[p] \in Int /\ h[q] \in Int
          BY <5>0
        <5>2. p = q \/ p < q
          BY <3>0
        <5> QED BY <5>0, <5>1, <5>2
      <4>5. h[q] \in h[p]..Len(foreign)
        BY <1>0, <4>4
      <4>6. foreign[h[q]] \in Since(events, i)
        BY <1>0, <2>8, <4>2, <4>3, <4>4, <4>5
      <4> QED BY <4>2, <4>3, <4>6
    <3> QED BY <2>4, <3>0, <3>1, <3>2
  <2> QED BY <2>2, <2>7, <2>8 DEF ForeignInv
<1> QED BY <1>5, <1>6

---------------------------------------------------------------------------
(* The theorems *)

LEMMA RequestsInitEstablishes == RequestsInit => BridgeInv
<1> SUFFICES ASSUME RequestsInit PROVE BridgeInv
  OBVIOUS
<1>a. <<>> \in Seq(Others)
  OBVIOUS
<1>b. <<>> \in Seq(Objects)
  OBVIOUS
<1>c. Len(<<>>) = 0 /\ 1..0 = {} /\ DOMAIN <<>> = {}
  OBVIOUS
<1>d. ToSet(<<>>) = {}
  BY <1>c DEF ToSet
<1>1. LinkInv
  <2>1. DefaultCap \in Nat \ {0}
    BY LimitsArePositive
  <2>2. cap \in 1..DefaultCap /\ relay \in Hellos \cup {None}
    BY <2>1 DEF RequestsInit
  <2>3. told \in BOOLEAN /\ gzip \in BOOLEAN /\ relay = None
    BY DEF RequestsInit
  <2> QED BY <2>2, <2>3 DEF LinkInv
<1>2. GuardInv
  BY IdleIsGuarded DEF RequestsInit, GuardInv
<1>3. PlacesInv
  <2>1. Taken = {}
    BY DEF RequestsInit, Taken, Busy, Idle
  <2> QED BY <2>1, FS_EmptySet, LimitsArePositive DEF RequestsInit, PlacesInv
<1>4. TreeInv
  <2>1. 0 <= MaxProven
    BY LimitsArePositive
  <2> QED BY <1>a, <1>c, <1>d, <2>1 DEF RequestsInit, TreeInv, Distinct, Proven
<1>5. ForeignInv
  <2>1. 0 <= MaxForeign
    BY LimitsArePositive
  <2> QED BY <1>b, <1>c, <2>1 DEF RequestsInit, ForeignInv, Distinct
<1>6. OutInv
  BY DEF RequestsInit, OutInv, FramesSuitTheLink
<1> QED BY <1>1, <1>2, <1>3, <1>4, <1>5, <1>6 DEF BridgeInv

\* A step is of the link, of an event, or of a request.
LEMMA StepsAreKnown ==
  ASSUME BridgeInv, RequestsNext
  PROVE \/ Hello \/ Lost \/ \E h \in Hellos : Open(h)
        \/ \E o \in Objects : Note(o)
        \/ \E r \in Requests :
             /\ Goes(r) /\ TreeInv' /\ UNCHANGED <<linkVars, foreign, events>>
             /\ Busy(r) \/ (relay # None /\ UNCHANGED proven)
<1>1. ASSUME NEW r \in Requests, Walked(r)
      PROVE Goes(r) /\ TreeInv' /\ UNCHANGED <<linkVars, foreign, events>> /\ Busy(r)
  BY <1>1, WalkedGoes DEF Walked
<1>2. ASSUME UNCHANGED treeVars PROVE TreeInv' /\ UNCHANGED <<proven, foreign, events>>
  BY <1>2 DEF treeVars, BridgeInv, TreeInv, Proven
<1>3. ASSUME NEW r \in Requests, Listed(r)
      PROVE Goes(r) /\ TreeInv' /\ UNCHANGED <<linkVars, foreign, events>> /\ Busy(r)
  BY <1>2, <1>3, ListedGoes DEF Listed
<1>4. ASSUME NEW r \in Requests, Unreachable(r)
      PROVE Goes(r) /\ TreeInv' /\ UNCHANGED <<linkVars, foreign, events>> /\ Busy(r)
  BY <1>2, <1>4, UnreachableGoes DEF Unreachable
<1>5. ASSUME NEW r \in Requests, NEW a \in Asked, Take(r, a)
      PROVE Goes(r) /\ TreeInv' /\ UNCHANGED <<linkVars, foreign, events>> /\ relay # None /\ UNCHANGED proven
  BY <1>2, <1>5, TakeGoes DEF Take
<1>6. ASSUME NEW r \in Requests, NEW len \in Lengths, Called(r, len)
      PROVE Goes(r) /\ TreeInv' /\ UNCHANGED <<linkVars, foreign, events>> /\ Busy(r)
  BY <1>2, <1>6, CalledGoes DEF Called
<1>7. ASSUME NEW r \in Requests, NEW len \in Lengths, Zipped(r, len)
      PROVE Goes(r) /\ TreeInv' /\ UNCHANGED <<linkVars, foreign, events>> /\ Busy(r)
  BY <1>2, <1>7, ZippedGoes DEF Zipped
<1> QED BY <1>1, <1>3, <1>4, <1>5, <1>6, <1>7 DEF RequestsNext

LEMMA RequestsStepKeeps == BridgeInv /\ [RequestsNext]_requestsVars => BridgeInv'
<1> SUFFICES ASSUME BridgeInv, [RequestsNext]_requestsVars PROVE BridgeInv'
  OBVIOUS
<1>1. CASE UNCHANGED requestsVars
  <2>1. UNCHANGED <<relay, told, gzip, cap, req, inflight, proven, foreign, events, out>>
    BY <1>1 DEF requestsVars, linkVars, treeVars
  <2>2. LinkInv' /\ GuardInv' /\ PlacesInv'
    BY <2>1 DEF BridgeInv, LinkInv, GuardInv, PlacesInv, Taken, Busy
  <2>3. TreeInv' /\ ForeignInv'
    BY <2>1 DEF BridgeInv, TreeInv, Proven, ForeignInv
  <2>4. OutInv'
    BY <2>1 DEF BridgeInv, OutInv, FramesSuitTheLink
  <2> QED BY <2>2, <2>3, <2>4 DEF BridgeInv
<1>2. CASE Hello \/ Lost \/ \E h \in Hellos : Open(h)
  BY <1>2, LinkStepKeeps
<1>3. ASSUME NEW o \in Objects, Note(o) PROVE BridgeInv'
  <2>1. UNCHANGED <<relay, told, gzip, cap, req, inflight, proven>> /\ out' = None
    BY <1>3 DEF Note, linkVars
  <2>2. LinkInv' /\ GuardInv' /\ PlacesInv'
    BY <2>1 DEF BridgeInv, LinkInv, GuardInv, PlacesInv, Taken, Busy
  <2>3. TreeInv'
    BY <2>1 DEF BridgeInv, TreeInv, Proven
  <2>4. OutInv'
    BY <2>1 DEF OutInv, FramesSuitTheLink
  <2> QED BY <1>3, <2>2, <2>3, <2>4, NoteKeeps DEF BridgeInv
<1>4. ASSUME NEW r \in Requests, Goes(r), TreeInv', UNCHANGED <<linkVars, foreign, events>> PROVE BridgeInv'
  <2>1. ForeignInv'
    BY <1>4 DEF BridgeInv, ForeignInv
  <2> QED BY <1>4, <2>1, GoesKeeps DEF BridgeInv
<1> QED BY <1>1, <1>2, <1>3, <1>4, StepsAreKnown

LEMMA BridgeInvHolds == RequestsSpec => []BridgeInv
BY RequestsInitEstablishes, RequestsStepKeeps, PTL DEF RequestsSpec

(* The places taken are those of the requests in progress, however each of   *)
(* them ends, and never more than there are (relay.ts, inflightProxy).       *)
THEOREM PlacesAlwaysExact == RequestsSpec => []PlacesAreExact
<1>1. BridgeInv => PlacesAreExact
  <2> SUFFICES ASSUME BridgeInv PROVE PlacesAreExact
    OBVIOUS
  <2>1. inflight = Cardinality({r \in Requests : Busy(r)}) /\ inflight \in 0..MaxInflight /\ inflight <= MaxInflight
    BY LimitsArePositive DEF BridgeInv, PlacesInv, Taken
  <2>2. RequestsTypeOK
    BY <2>1 DEF BridgeInv, LinkInv, GuardInv, TreeInv, ForeignInv, OutInv, RequestsTypeOK, RequestType, Frames
  <2> QED BY <2>1, <2>2 DEF PlacesAreExact
<1> QED BY <1>1, BridgeInvHolds, PTL

(* What goes onto a socket fits what the relay at its other end announced,   *)
(* though the answer was made for another (relay.ts, send and sendProxy).    *)
THEOREM FramesAlwaysSuitTheLink == RequestsSpec => []FramesSuitTheLink
<1>1. BridgeInv => FramesSuitTheLink
  BY DEF BridgeInv, OutInv
<1> QED BY <1>1, BridgeInvHolds, PTL

\* A request that an event or the link does not move is where it was.
LEMMA OnlyItsOwnStepMoves ==
  ASSUME BridgeInv, RequestsNext, NEW s \in Requests, req'[s] # req[s]
  PROVE Goes(s) /\ UNCHANGED <<linkVars, foreign, events>> /\ (Busy(s) \/ (relay # None /\ UNCHANGED proven))
<1>1. CASE Hello \/ Lost \/ (\E h \in Hellos : Open(h)) \/ \E o \in Objects : Note(o)
  BY <1>1 DEF Hello, Lost, Open, Note
<1>2. ASSUME NEW r \in Requests, Goes(r), r # s PROVE FALSE
  BY <1>2 DEF Goes, GoesOn, BridgeInv, GuardInv
<1> QED BY <1>1, <1>2, StepsAreKnown

(* A request that ends while there is a link is answered on it (relay.ts,    *)
(* the answers and refusals of onMessage).                                   *)
THEOREM AlwaysAnsweredWhileLinked == RequestsSpec => AnsweredWhileLinked
<1> DEFINE Step == \A r \in Requests :
                     Busy(r) /\ req'[r].phase = "idle" /\ relay # None => out' # None /\ out'.to = r
<1>1. BridgeInv /\ [RequestsNext]_requestsVars => [Step]_requestsVars
  <2> SUFFICES ASSUME BridgeInv, RequestsNext, NEW r \in Requests,
                      Busy(r), req'[r].phase = "idle", relay # None
               PROVE out' # None /\ out'.to = r
    OBVIOUS
  <2>1. Goes(r)
    BY OnlyItsOwnStepMoves DEF Busy
  <2> PICK q \in RequestType : GoesOn(r, q)
    BY <2>1 DEF Goes
  <2>2. q.phase = "idle"
    BY DEF GoesOn, BridgeInv, GuardInv
  <2>3. Answers(r, out')
    BY <2>2 DEF GoesOn
  <2> QED BY <2>3, NoneIsNothing DEF Answers, Frames
<1> QED BY <1>1, BridgeInvHolds, PTL DEF RequestsSpec, AnsweredWhileLinked

\* The objects events named last that are foreign are all remembered.
LEMMA TheRecentAreRemembered ==
  ASSUME BridgeInv, NEW o \in Recent, Foreign(o)
  PROVE o \in ToSet(foreign)
<1>0. events \in Seq(Objects) /\ DOMAIN events = 1..Len(events) /\ MaxForeign \in Nat
  BY LimitsArePositive, SequencesAreFunctions DEF BridgeInv, ForeignInv
<1> PICK i \in 1..Len(events) : o = events[i] /\ Cardinality(Since(events, i)) <= MaxForeign
  BY <1>0 DEF Recent, Since
<1>1. Cardinality(Since(events, i)) \in Nat
  BY <1>0, SinceIsFinite
<1>2. ~(Cardinality(Since(events, i)) > MaxForeign)
  BY <1>0, <1>1
<1> QED BY <1>2 DEF BridgeInv, ForeignInv

(* Whatever is with opencode for a viewer is about the shared session or one *)
(* under it, and what runs something is about the shared session alone; and  *)
(* a write that names a message of another session is refused as long as the *)
(* bridge has not read of MaxForeign others since (relay.ts, guardRequest).  *)
THEOREM OnlyTheShareIsEverTouched == RequestsSpec => OnlyTheShareIsTouched
<1> DEFINE Reached == \A r \in Requests : req'[r].phase = "calling" => InItsTree(req'[r].asks)
           Written == \A r \in Requests :
                        ~Busy(r) /\ req'[r].phase = "calling" =>
                          LET o == req'[r].asks.names IN
                          o \in Objects /\ o \in Recent => OwnerOf[o] \in Tree
<1>1. BridgeInv /\ BridgeInv' => Reached
  BY DEF BridgeInv, GuardInv, IsGuarded
<1>2. BridgeInv /\ [RequestsNext]_requestsVars => [Written]_requestsVars
  <2> SUFFICES ASSUME BridgeInv, RequestsNext, NEW r \in Requests,
                      ~Busy(r), req'[r].phase = "calling",
                      req'[r].asks.names \in Objects, req'[r].asks.names \in Recent,
                      OwnerOf[req'[r].asks.names] \notin Tree
               PROVE FALSE
    OBVIOUS
  <2>1. Goes(r)
    BY OnlyItsOwnStepMoves DEF Busy
  <2> PICK q \in RequestType : GoesOn(r, q)
    BY <2>1 DEF Goes
  <2>2. q.phase = "calling" /\ q.asks = req'[r].asks
    BY DEF GoesOn, BridgeInv, GuardInv
  <2> PICK o \in Objects : o = q.asks.names /\ o \in Recent /\ Foreign(o)
    BY <2>2 DEF Foreign
  <2>3. Unrefused(q.asks)
    BY <2>2 DEF GoesOn, Busy
  <2>4. o \in ToSet(foreign) /\ OwnerOf[o] \notin Proven
    BY TheRecentAreRemembered DEF Foreign, BridgeInv, TreeInv
  <2> QED BY <2>3, <2>4 DEF Unrefused, RefusedObject
<1>3. BridgeInv /\ BridgeInv' => [Reached]_requestsVars
  BY <1>1
<1>4. RequestsSpec => OnlyItsTreeIsReached
  BY <1>3, BridgeInvHolds, PTL DEF RequestsSpec, OnlyItsTreeIsReached
<1>5. RequestsSpec => ForeignWritesAreRefused
  BY <1>2, BridgeInvHolds, PTL DEF RequestsSpec, ForeignWritesAreRefused
<1> QED BY <1>4, <1>5 DEF OnlyTheShareIsTouched
=============================================================================
