--------------------------- MODULE MCPluginStarts ---------------------------
(* Two starts of one session, and one of another, typed in one OpenCode or *)
(* in two.                                                             *)
EXTENDS PluginStarts

CONSTANTS s1, s2, s3, x1, x2, h1, h2

MCSessionOf == s1 :> x1 @@ s2 :> x1 @@ s3 :> x2
MCHostOf == s1 :> h1 @@ s2 :> h1 @@ s3 :> h1
MCTwoHosts == s1 :> h1 @@ s2 :> h1 @@ s3 :> h2
=============================================================================
