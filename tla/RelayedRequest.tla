--------------------------- MODULE RelayedRequest ---------------------------
(***************************************************************************)
(* What BridgeClient.request (src/relay/src/ws/bridge.ts) promises its      *)
(* callers, with the sockets left out: a request is settled once and for    *)
(* all, an answer means that the bridge ran it, and only a GET is ever run  *)
(* a second time, however often the link drops.                             *)
(***************************************************************************)
EXTENDS Naturals

CONSTANTS
  Requests,     \* the requests viewers make
  Repeatable    \* those that may be sent again (GET)

VARIABLES
  state,        \* "idle", "asked", "answered" or "failed"
  runs          \* how often the bridge has run each request

vars == <<state, runs>>

Init ==
  /\ state = [r \in Requests |-> "idle"]
  /\ runs = [r \in Requests |-> 0]

\* A viewer asks; a relay without a bridge may refuse at once.
Ask(r) ==
  /\ state[r] = "idle"
  /\ \E now \in {"asked", "failed"} : state' = [state EXCEPT ![r] = now]
  /\ UNCHANGED runs

\* The bridge runs a request, perhaps long after the relay gave up on it.
Run(r) ==
  /\ state[r] # "idle"
  /\ runs[r] = 0 \/ (r \in Repeatable /\ runs[r] = 1)
  /\ runs' = [runs EXCEPT ![r] = @ + 1]
  /\ UNCHANGED state

\* One event, a lost socket say, may settle several requests.
Settle ==
  /\ \E settled \in SUBSET {r \in Requests : state[r] = "asked"} :
       \E verdict \in [settled -> {"answered", "failed"}] :
         /\ \A r \in settled : verdict[r] = "answered" => runs[r] > 0
         /\ state' = [r \in Requests |-> IF r \in settled THEN verdict[r] ELSE state[r]]
  /\ UNCHANGED runs

Next == (\E r \in Requests : Ask(r) \/ Run(r)) \/ Settle

Spec == Init /\ [][Next]_vars

=============================================================================
