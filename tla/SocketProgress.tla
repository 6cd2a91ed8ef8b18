--------------------------- MODULE SocketProgress ---------------------------
(***************************************************************************)
(* What a sender sees of a peer that reads slowly, or no longer: Node      *)
(* lowers writableLength only when a whole write is done, libuv's own queue *)
(* shrinks while one is partway, and the OS takes bytes as long as it has  *)
(* room.  Two watchers judge the peer by these counters: the bridge's       *)
(* keep-alive (bridge/src/relay.ts, linkMadeProgress) and the heartbeat of a *)
(* viewer's stream (relay/src/proxy/adapter.ts, sseEvents), which also drops *)
(* a stream that is too far behind.                                         *)
(*                                                                         *)
(* A byte is a heartbeat's or a ping's worth.  What waits behind a write goes *)
(* into the next one whole (writev).                                        *)
(***************************************************************************)
EXTENDS Naturals

CONSTANTS
  Room,       \* what the OS holds for a peer
  MaxSilences,    \* KEEPALIVE_STRIKES
  MaxBuffer,  \* sseMaxBufferBytes
  MaxExempt,  \* sseMaxExemptBytes
  MaxFrame,   \* the largest frame
  MaxBytes    \* bound: what is ever sent

\* What the source makes of the constants; the theorems assume it.
LimitsAreSet ==
  /\ {Room, MaxSilences, MaxBuffer, MaxExempt, MaxFrame, MaxBytes} \subseteq Nat
  /\ Room > 0 /\ MaxSilences > 0 /\ MaxFrame > 0

VARIABLES
  watcher,  \* "bridge" or "viewer": whose counters these are
  state,    \* "open", or why it was cut: "silent", "behind"
  peerFrozen, \* the peer reads and sends no more
  room,     \* what the OS would take at once
  write,    \* the write in libuv: its size, and what is left of it
  behind,   \* bytes waiting for it
  done,     \* bytes of finished writes
  peerHeard, \* pongSinceTick, inboundSinceTick
  silences,  \* of the keep-alive
  exempt,   \* exemptEnd, exemptLength
  last,     \* the counters at the last tick or beat
  read,     \* ghost: what the peer took since then
  dark      \* ghost: ticks, or beats of a stream over its cap, since it froze

socketVars == <<room, write, behind, done>>
progressVars == <<watcher, state, peerFrozen, socketVars, peerHeard, silences, exempt, last, read, dark>>

Pending == write.size + behind

Counters == [pending |-> Pending, flushed |-> done, queue |-> write.left]

Counts == [pending : Nat, flushed : Nat, queue : Nat]

SocketTypeOK ==
  /\ watcher \in {"bridge", "viewer"} /\ state \in {"open", "silent", "behind"}
  /\ peerFrozen \in BOOLEAN /\ peerHeard \in BOOLEAN
  /\ room \in Nat /\ write \in [size : Nat, left : Nat] /\ behind \in Nat /\ done \in Nat
  /\ silences \in Nat /\ exempt \in [end : Nat, length : Nat]
  /\ last \in Counts /\ read \in Nat /\ dark \in Nat

\* A stream has written its handshake, which the OS takes.
SocketInit ==
  /\ watcher \in {"bridge", "viewer"} /\ state = "open" /\ peerFrozen = FALSE
  /\ room = Room /\ write = [size |-> 0, left |-> 0] /\ behind = 0
  /\ done = IF watcher = "viewer" THEN 1 ELSE 0
  /\ peerHeard = FALSE /\ silences = 0
  /\ exempt = [end |-> 0, length |-> 0]
  /\ last = [pending |-> 0, flushed |-> 0, queue |-> 0]
  /\ read = 0 /\ dark = 0

---------------------------------------------------------------------------
(* The socket *)

\* n bytes are written: to the OS, or behind what it did not take yet.
Put(n) ==
  /\ IF write.left > 0
     THEN behind' = behind + n /\ UNCHANGED <<room, write, done>>
     ELSE /\ UNCHANGED behind
          /\ IF n <= room
             THEN room' = room - n /\ done' = done + n /\ UNCHANGED write
             ELSE room' = 0 /\ write' = [size |-> n, left |-> n - room] /\ UNCHANGED done

\* The peer takes n bytes, and the OS as many of those that wait.
Reads(n) ==
  /\ state = "open" /\ ~peerFrozen
  /\ room + n <= Room
  /\ read' = read + n
  /\ IF n < write.left
     THEN /\ write' = [write EXCEPT !.left = @ - n]
          /\ UNCHANGED <<room, behind, done>>
     ELSE IF n - write.left < behind
     THEN /\ write' = [size |-> behind, left |-> behind - (n - write.left)]
          /\ behind' = 0 /\ done' = done + write.size
          /\ UNCHANGED room
     ELSE /\ write' = [size |-> 0, left |-> 0]
          /\ behind' = 0 /\ done' = done + Pending
          /\ room' = room + (n - write.left - behind)
  /\ UNCHANGED <<watcher, state, peerFrozen, peerHeard, silences, exempt, last, dark>>

Freezes ==
  /\ state = "open" /\ ~peerFrozen
  /\ peerFrozen' = TRUE
  /\ UNCHANGED <<watcher, state, socketVars, peerHeard, silences, exempt, last, read, dark>>

Same == UNCHANGED <<socketVars, exempt>>

---------------------------------------------------------------------------
(* The bridge's link *)

\* What the relay sends, its pongs too, proves the link by itself.
PeerSpeaks ==
  /\ watcher = "bridge" /\ state = "open" /\ ~peerFrozen
  /\ peerHeard' = TRUE
  /\ UNCHANGED <<watcher, state, peerFrozen, silences, last, read, dark>> /\ Same

LinkSends(n) ==
  /\ watcher = "bridge" /\ state = "open"
  /\ done + Pending + n <= MaxBytes
  /\ Put(n)
  /\ UNCHANGED <<watcher, state, peerFrozen, peerHeard, silences, exempt, last, read, dark>>

\* Movement since the last tick counts if the OS was full then.
LinkMadeProgress ==
  \/ peerHeard
  \/ last.pending > 0 /\ (done > last.flushed \/ write.left < last.queue)

\* One round, and its ping.
KeepAlive ==
  /\ watcher = "bridge" /\ state = "open"
  /\ done + Pending < MaxBytes
  /\ peerHeard' = FALSE /\ read' = 0 /\ last' = Counters
  /\ silences' = IF LinkMadeProgress THEN 0 ELSE silences + 1
  /\ dark' = IF peerFrozen THEN dark + 1 ELSE 0
  /\ IF silences' >= MaxSilences
     THEN state' = "silent" /\ UNCHANGED socketVars
     ELSE Put(1) /\ UNCHANGED state
  /\ UNCHANGED <<watcher, peerFrozen, exempt>>

---------------------------------------------------------------------------
(* A viewer's stream *)

Least(S) == CHOOSE x \in S : \A y \in S : x <= y

\* unsentOfExempt
Exempt == IF exempt.end <= done THEN 0 ELSE Least({MaxExempt, exempt.length, exempt.end - done})

\* send: the cap comes first, then what all streams hold over it.
Send(n) ==
  \/ /\ Pending > MaxBuffer + Exempt \/ Pending + n > MaxBuffer
     /\ state' = "behind" /\ Same
  \/ /\ Pending <= MaxBuffer + Exempt
     /\ Put(n)
     /\ exempt' = IF n >= Exempt THEN [end |-> done + Pending + n, length |-> n] ELSE exempt
     /\ UNCHANGED state

StreamSends(n) ==
  /\ watcher = "viewer" /\ state = "open"
  /\ done + Pending + n <= MaxBytes
  /\ Send(n)
  /\ UNCHANGED <<watcher, peerFrozen, peerHeard, silences, last, read, dark>>

\* A stream over its cap that has not drained since the last beat is stuck.
Stuck == Pending > MaxBuffer /\ done <= last.flushed /\ ~(write.left < last.queue)

Beat ==
  /\ watcher = "viewer" /\ state = "open"
  /\ done + Pending < MaxBytes
  /\ IF Stuck
     THEN state' = "silent" /\ Same /\ UNCHANGED <<last, read, dark>>
     ELSE /\ last' = Counters /\ read' = 0
          /\ dark' = IF peerFrozen /\ Pending > MaxBuffer THEN dark + 1 ELSE 0
          /\ Send(1)
  /\ UNCHANGED <<watcher, peerFrozen, peerHeard, silences>>

---------------------------------------------------------------------------
SocketNext ==
  \/ \E n \in 1..Room : Reads(n)
  \/ Freezes \/ PeerSpeaks \/ KeepAlive \/ Beat
  \/ \E n \in 1..MaxFrame : LinkSends(n) \/ StreamSends(n)

SocketSpec == SocketInit /\ [][SocketNext]_progressVars

---------------------------------------------------------------------------
(* Properties *)

\* A peer that took anything of a backlog since the last tick is not taken for dead,
\* however slowly it takes one large frame (relay.ts:986-1002, adapter.ts:2017-2027).
MovingPeersAreKept ==
  [][(read > 0 /\ (watcher = "viewer" \/ last.pending > 0) /\ state = "open") => state' # "silent"]_progressVars

\* A peer that takes nothing is found out: a link within its strikes, a stream over
\* its cap on the second beat.
FrozenPeersAreCut ==
  state = "open" => dark <= IF watcher = "bridge" THEN MaxSilences ELSE 1

\* A stuck stream holds "at most the cap, plus that one frame, plus the frame whose
\* write passed" (adapter.ts:1917-1918).
HeldIsBounded == watcher = "viewer" => Pending <= MaxBuffer + MaxExempt + MaxFrame
=============================================================================
