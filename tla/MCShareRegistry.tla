-------------------------- MODULE MCShareRegistry --------------------------
(***************************************************************************)
(* Small instances of ShareRegistry for TLC: two installs, each with an    *)
(* address of its own, and keyless registrations from both addresses.      *)
(* Blocks are tagged tuples, like the blocks restore() makes up, so that   *)
(* TLC can compare the two.                                                *)
(***************************************************************************)
EXTENDS ShareRegistry, TLC

CONSTANTS a1, a2, o1, o2

MCBlock  == [a \in Addrs \cup {NoAddr} |-> <<"block", a>>]
MCBlocks == {MCBlock[a] : a \in DOMAIN MCBlock}

MCRegistrants   == {<<o1, a1>>, <<o2, a2>>, <<NoOwner, a1>>, <<NoOwner, a2>>}
MCOneRegistrant == {<<o1, a1>>, <<NoOwner, a1>>}

\* Ids are alike, and so are the installs with their addresses.
Alike    == Permutations(Ids)
Swap     == o1 :> o2 @@ o2 :> o1 @@ a1 :> a2 @@ a2 :> a1
Symmetry == Alike \cup {p @@ Swap : p \in Alike}

\* Two states are one for TLC when they differ only in what no step and no
\* property of the run reads before it is written: the last answer, the history
\* field registered_at, and counters whose window is over, which every
\* registration treats as absent.  The invariants do not read those either, but
\* for a counter's bound, and a count only grows within its window.  (The
\* equations say nothing: they have TLC work out the functions of a state, which
\* a view alone leaves unevaluated.)
WithoutHistory(s) == IF s = None THEN None ELSE [s EXCEPT !.registered_at = 0]

MCView == <<now, [id \in Ids |-> WithoutHistory(sessions[id])], claims,
            PruneRegistrations(registrations), connected, closing, restoredAt,
            reaping, toRestore,
            sessions = sessions, claims = claims, registrations = registrations>>

=============================================================================
