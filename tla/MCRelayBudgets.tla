--------------------------- MODULE MCRelayBudgets ---------------------------
(* Instance of RelayBudgets for TLC.  RelaySettings is evaluated here in a    *)
(* few environments; StateFileProofs has all of them.                         *)
EXTENDS RelayBudgets

Settings == INSTANCE RelaySettings

\* Nothing set, one body limit of 256 KiB or 60 MiB set, frames of 1 MiB, and a
\* variable of 0.5 in each place in turn.  In halves.
Frames     == {0, 1, 2 * Settings!MiB}
BodyLimits == {0, 1, 512 * Settings!KiB, 120 * Settings!MiB}
Others     == {0, 1, 2000}

Samples ==
  {[v \in Settings!Variables |->
      CASE v = "frame" -> f [] v = "bodyLimit" -> b [] v = odd -> x [] OTHER -> 0] :
    f \in Frames, b \in BodyLimits, x \in Others, odd \in Settings!Variables}

ASSUME SampledLimitsFit == \A e \in Samples : Settings!LimitsFit(e)
=============================================================================
