-------------------------- MODULE MCSubagentWalks --------------------------
(* An owner's sessions: a child of the shared one, a grandchild and one that  *)
(* has nothing to do with it.  An earlier share of the same id came from a    *)
(* bridge that calls the third one its child and the others each other's.     *)
EXTENDS SubagentWalks

CONSTANTS child, grandchild, other

MCParentOf ==
  << (child :> grandchild @@ grandchild :> child @@ other :> Root),
     (child :> Root @@ grandchild :> child @@ other :> None) >>

\* rememberAncestry, one id at a time.
RememberedOne(seq, id) ==
  LET others == SelectSeq(seq, LAMBDA x : x # id)
      room == IF id \in ToSet(seq) \/ Len(seq) < CacheMax THEN others ELSE Tail(seq) IN
  Append(room, id)

Orders(S, n) == {seq \in UNION {[1..k -> S] : k \in 0..n} : IsInjective(seq)}

\* A chain is remembered like its sessions one after the other.
ASSUME ChainsAreRememberedInTurn ==
  \A seq \in Orders(Ids, CacheMax), chain \in Orders(Ids, Cardinality(Ids)) :
    Remembered(seq, chain) = FoldLeft(RememberedOne, seq, chain)
=============================================================================
