--------------------------- MODULE RelaySettings ---------------------------
(***************************************************************************)
(* The relay's limits as its environment sets them (relay/src/config.ts):  *)
(* each is read from a variable of its own, and held to the others where   *)
(* one must carry what another lets in.  RelayBudgets, EventStreams and     *)
(* ShareRegistry take such limits as constants; here is what any            *)
(* environment makes of them.                                              *)
(*                                                                         *)
(* A variable is a number, counted in halves, because 0.5 passes for a      *)
(* positive number and is rounded to 0.  Bytes and milliseconds are exact.  *)
(***************************************************************************)
EXTENDS Integers

Unset == 0   \* not set, not a number, or no positive one

KiB == 1024
MiB == 1048576

\* The variables, in halves; "unset" is 0, which envInt does not take either.
Variables == {"frame", "maxBuffered", "streamBuffer", "exempt", "parked", "bodyLimit", "maxInbound",
              "stallCheck", "ping", "pongRounds"}
Environments == [Variables -> Nat]

EnvInt(halves, default) == IF halves > Unset THEN halves \div 2 ELSE default

AtLeast(x, floor) == IF x < floor THEN floor ELSE x
AtMost(x, cap)    == IF x > cap THEN cap ELSE x
CeilDiv(x, d)     == (x + d - 1) \div d

---------------------------------------------------------------------------
(* Answers and events *)

BridgeMaxPayloadBytes(e) == EnvInt(e["frame"], 100 * MiB)

ProxyMaxBufferedBytes(e) == AtLeast(EnvInt(e["maxBuffered"], 128 * MiB), 8 * BridgeMaxPayloadBytes(e))

ProxySessionShareBytes(e) == AtLeast(ProxyMaxBufferedBytes(e) \div 8, BridgeMaxPayloadBytes(e))

SseMaxBufferBytes(e) == EnvInt(e["streamBuffer"], 2 * MiB)

SseMaxExemptBytes(e) == AtMost(EnvInt(e["exempt"], 32 * MiB), BridgeMaxPayloadBytes(e))

SseMaxParkedBytes(e) ==
  AtLeast(EnvInt(e["parked"], 128 * MiB), BridgeMaxPayloadBytes(e) - SseMaxBufferBytes(e))

---------------------------------------------------------------------------
(* Bodies *)

ProxyBodyLimitBytes(e) == EnvInt(e["bodyLimit"], 25 * MiB)

ProxyMaxInboundBytes(e) == AtLeast(EnvInt(e["maxInbound"], 128 * MiB), 16 * ProxyBodyLimitBytes(e))

ProxyInboundShareBytes(e) == AtLeast(ProxyMaxInboundBytes(e) \div 8, 2 * ProxyBodyLimitBytes(e))

ProxyInboundReserveBytes(e) == AtMost(16 * MiB, ProxyMaxInboundBytes(e) \div 8)

ProxyInboundSmallBodyBytes(e) == AtMost(256 * KiB, ProxyBodyLimitBytes(e) \div 8)

ProxyStallCheckMs(e) == EnvInt(e["stallCheck"], 2500)

SlowUplinkBytesPerSecond == 740000 \div 8

ProxyInboundMinRateBytes(e) == AtLeast(CeilDiv(ProxyInboundSmallBodyBytes(e), 60), 1)

\* What a check of the stall watch wants to have seen.
DuePerCheck(e) == CeilDiv(ProxyInboundMinRateBytes(e) * ProxyStallCheckMs(e), 1000)

\* httpRequestTimeoutMs() in seconds: it is a whole number of them.
HttpRequestTimeout(e) ==
  AtLeast(CeilDiv(2 * ProxyBodyLimitBytes(e), SlowUplinkBytesPerSecond * 60) * 60, 120)

---------------------------------------------------------------------------
(* Bridges that have gone *)

WsPingIntervalMs(e)  == EnvInt(e["ping"], 25000)
WsPongGraceRounds(e) == EnvInt(e["pongRounds"], 2)
UnboundReapMs        == 5 * 60000

DepartedBridgeMs(e) == AtLeast((WsPongGraceRounds(e) + 2) * WsPingIntervalMs(e), UnboundReapMs)

---------------------------------------------------------------------------
(* What the limits owe each other *)

(* A frame the bridge's socket lets in has room everywhere behind it: as an *)
(* answer in its share's slice, eight slices of which are the ceiling, and  *)
(* as an event in an idle viewer's stream.                                  *)
FramesFit(e) ==
  /\ BridgeMaxPayloadBytes(e) <= ProxySessionShareBytes(e)
  /\ 8 * ProxySessionShareBytes(e) <= ProxyMaxBufferedBytes(e)
  /\ BridgeMaxPayloadBytes(e) - SseMaxBufferBytes(e) <= SseMaxParkedBytes(e)
  /\ SseMaxExemptBytes(e) <= BridgeMaxPayloadBytes(e)

(* Two bodies of any size the limit allows fit in a share's slice, eight     *)
(* slices are the ceiling and no more, what is kept for quiet shares is no   *)
(* more than one slice, and holds a small body.                              *)
BodiesFit(e) ==
  /\ 2 * ProxyBodyLimitBytes(e) <= ProxyInboundShareBytes(e)
  /\ 8 * ProxyInboundShareBytes(e) <= ProxyMaxInboundBytes(e)
  /\ ProxyInboundReserveBytes(e) <= ProxyInboundShareBytes(e)
  /\ ProxyInboundSmallBodyBytes(e) <= ProxyInboundReserveBytes(e)

(* A viewer on the slow uplink the relay is sized for gets the largest body  *)
(* through: it owes no check of the stall watch anything, and the time to    *)
(* arrive is twice what the body needs.                                      *)
SlowUplinksGetThrough(e) ==
  /\ 1000 * DuePerCheck(e) <= SlowUplinkBytesPerSecond * ProxyStallCheckMs(e)
  /\ 2 * ProxyBodyLimitBytes(e) <= SlowUplinkBytesPerSecond * HttpRequestTimeout(e)

(* A bridge counts as gone only when it has been silent for longer than the  *)
(* pings that end its socket, and a round more.                              *)
PresentBridgesStay(e) ==
  (WsPongGraceRounds(e) + 1) * WsPingIntervalMs(e) + WsPingIntervalMs(e) <= DepartedBridgeMs(e)

LimitsFit(e) == FramesFit(e) /\ BodiesFit(e) /\ SlowUplinksGetThrough(e) /\ PresentBridgesStay(e)

=============================================================================
