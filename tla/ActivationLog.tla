--------------------------- MODULE ActivationLog ---------------------------
(***************************************************************************)
(* The budget of the relay's [activate] lines                              *)
(* (relay/src/api/activate.ts, warnBudgeted and flushSuppressed): so many  *)
(* lines a minute whatever strangers try, and a reserve that lets each     *)
(* share be heard in a minute that other shares' attackers have filled.    *)
(*                                                                         *)
(* Where several shares have spent most of their reserve the code displaces *)
(* the earliest; which of them it is makes no difference here.             *)
(***************************************************************************)
EXTENDS Naturals, FiniteSets

CONSTANTS
  LoggedShares,    \* registered session ids
  NoShare,   \* an id nobody registered
  Lines,     \* ACTIVATE_LOG_LINES_PER_MINUTE
  Reserve,   \* PER_SHARE_RESERVED
  ReserveShares,     \* RESERVE_SHARES
  MaxTries   \* bound: attempts on one id in a window

\* What the source makes of the constants; the theorems assume it.
LogLimitsAreSet ==
  /\ IsFiniteSet(LoggedShares) /\ NoShare \notin LoggedShares
  /\ {Lines, Reserve, ReserveShares, MaxTries} \subseteq Nat \ {0}

VARIABLES
  lines,       \* written in this window
  reserved,    \* of each share, the lines it took from its reserve; 0: it holds no slot
  suppressed,  \* not written, and not told of
  flush,       \* the timer that tells of them
  tried,       \* ghost: attempts on each id in this window
  written      \* ghost: those that were written

logVars == <<lines, reserved, suppressed, flush>>
budgetVars == <<logVars, tried, written>>

LoggedIds == LoggedShares \cup {NoShare}

LogTypeOK ==
  /\ lines \in Nat
  /\ reserved \in [LoggedShares -> 0..Reserve]
  /\ suppressed \in Nat /\ flush \in {"off", "armed"}
  /\ tried \in [LoggedIds -> Nat] /\ written \in [LoggedIds -> Nat]

LogInit ==
  /\ lines = 0 /\ reserved = [s \in LoggedShares |-> 0]
  /\ suppressed = 0 /\ flush = "off"
  /\ tried = [n \in LoggedIds |-> 0] /\ written = [n \in LoggedIds |-> 0]

Holders(r) == {s \in LoggedShares : r[s] > 0}

\* A share that holds no slot is given one, if need be that of a share that has spent
\* the most of its reserve.
Given(r, s) ==
  IF r[s] > 0 \/ Cardinality(Holders(r)) < ReserveShares
  THEN {[r EXCEPT ![s] = @ + 1]}
  ELSE {[r EXCEPT ![s] = @ + 1, ![o] = 0] :
          o \in {h \in Holders(r) : \A other \in Holders(r) : r[other] <= r[h]}}

HasReserve(r, n) == n \in LoggedShares /\ r[n] < Reserve

\* One [activate] line about n, in a window that has written l lines.
Write(n, l, r) ==
  IF HasReserve(r, n) \/ l < Lines
  THEN /\ lines' = l + 1
       /\ reserved' \in IF HasReserve(r, n) THEN Given(r, n) ELSE {r}
  ELSE /\ lines' = l /\ reserved' = r

\* warnBudgeted, in the window, or as the first of the next one.
Warn(n) ==
  /\ tried[n] < MaxTries
  /\ Write(n, lines, reserved)
  /\ suppressed' = suppressed + IF lines' = lines THEN 1 ELSE 0
  /\ flush' = IF lines' = lines THEN "armed" ELSE flush
  /\ tried' = [tried EXCEPT ![n] = @ + 1]
  /\ written' = IF lines' = lines THEN written ELSE [written EXCEPT ![n] = @ + 1]

WarnInNewWindow(n) ==
  /\ Write(n, 0, [s \in LoggedShares |-> 0])
  /\ suppressed' = 0 /\ flush' = "off"
  /\ tried' = [m \in LoggedIds |-> IF m = n THEN 1 ELSE 0]
  /\ written' = [m \in LoggedIds |-> IF m = n THEN 1 ELSE 0]

FlushSuppressed ==
  /\ flush = "armed"
  /\ suppressed' = 0 /\ flush' = "off"
  /\ UNCHANGED <<lines, reserved, tried, written>>

LogNext == (\E n \in LoggedIds : Warn(n) \/ WarnInNewWindow(n)) \/ FlushSuppressed

LogSpec == LogInit /\ [][LogNext]_budgetVars

---------------------------------------------------------------------------
(* Properties *)

\* What is not written is counted, and a timer will tell of it (activate.ts:167-169,
\* 219-226).
SuppressedLinesAreTold == suppressed > 0 => flush = "armed"

\* The map of reserves is as small as it claims (activate.ts:126-128).
SlotsAreBounded == Cardinality(Holders(reserved)) <= ReserveShares

\* However many lines a minute has seen, the first attempt on a share is written
\* (activate.ts:130-138).
EveryShareIsHeard == \A s \in LoggedShares : tried[s] > 0 => written[s] > 0

\* While no more shares are tried than there are slots, each has its whole reserve.
ReservesAreKept ==
  Cardinality({s \in LoggedShares : tried[s] > 0}) <= ReserveShares =>
    \A s \in LoggedShares : written[s] >= IF tried[s] < Reserve THEN tried[s] ELSE Reserve

LogIsSound == LogTypeOK /\ SuppressedLinesAreTold /\ SlotsAreBounded /\ EveryShareIsHeard /\ ReservesAreKept

\* "A share still writing is only ever displaced by a share that has not written at
\* all" (activate.ts:199-203): one that was displaced itself displaces others.
DisplacedOnlyByTheUnheard ==
  [][\A s, o \in LoggedShares :
       (s # o /\ reserved[o] > 0 /\ reserved'[o] = 0 /\ tried'[s] = tried[s] + 1 /\ tried'[o] = tried[o])
         => written[s] = 0]_budgetVars
=============================================================================
