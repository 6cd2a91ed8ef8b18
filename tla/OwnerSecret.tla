---------------------------- MODULE OwnerSecret ----------------------------
(***************************************************************************)
(* The install secret that every owner_key is derived from                 *)
(* (bridge/src/state.ts, loadOrCreateOwnerSecret): starts read it from     *)
(* owner.key, or make one and link it into place, while others do.  A relay *)
(* knows the owner of an ended share by that key alone, so two starts that *)
(* differ about it cannot take each other's share back.                    *)
(*                                                                         *)
(* A secret is named after the start that made it.                         *)
(***************************************************************************)
EXTENDS Naturals

CONSTANTS
  Creators,   \* processes that derive an owner_key
  Given,    \* the secret an earlier start left
  Absent,   \* no owner.key
  Damaged   \* an owner.key of another size than a secret's

\* What the theorems assume of the constants.
NamesDiffer == {Given, Absent, Damaged} \cap Creators = {} /\ Given \notin {Absent, Damaged} /\ Absent # Damaged

VARIABLES
  ownerKey,    \* owner.key
  at,      \* "new", "made" a secret, "raced": the link failed, "replacing", "has" one, "dead"
  secret   \* what a start that has one derives its keys from

secretVars == <<ownerKey, at, secret>>

Secrets == Creators \cup {Given}

SecretTypeOK ==
  /\ ownerKey \in Secrets \cup {Absent, Damaged}
  /\ at \in [Creators -> {"new", "made", "raced", "replacing", "has", "dead"}]
  /\ secret \in [Creators -> Secrets \cup {Absent}]

\* A file of the wrong size was truncated or edited by hand.
SecretInit ==
  /\ ownerKey \in {Given, Absent, Damaged}
  /\ at = [s \in Creators |-> "new"]
  /\ secret = [s \in Creators |-> Absent]

Has(s, k) ==
  /\ at' = [at EXCEPT ![s] = "has"]
  /\ secret' = [secret EXCEPT ![s] = k]

Goes(s, to) == at' = [at EXCEPT ![s] = to] /\ UNCHANGED secret

\* readOwnerSecret, and what a start without a secret does next.
Read(s) ==
  /\ at[s] = "new"
  /\ IF ownerKey \in Secrets THEN Has(s, ownerKey) ELSE Goes(s, "made")
  /\ UNCHANGED ownerKey

\* linkSync: it fails where there is a file.
Link(s) ==
  /\ at[s] = "made"
  /\ IF ownerKey = Absent
     THEN ownerKey' = s /\ Has(s, s)
     ELSE Goes(s, "raced") /\ UNCHANGED ownerKey

ReadRaced(s) ==
  /\ at[s] = "raced"
  /\ IF ownerKey \in Secrets THEN Has(s, ownerKey) ELSE Goes(s, "replacing")
  /\ UNCHANGED ownerKey

\* renameSync, over whatever is there by now.
Replace(s) ==
  /\ at[s] = "replacing"
  /\ ownerKey' = s
  /\ Has(s, s)

\* A write that fails, or the end of the process.
Die(s) ==
  /\ at[s] # "dead"
  /\ Goes(s, "dead")
  /\ UNCHANGED ownerKey

SecretNext == \E s \in Creators : Read(s) \/ Link(s) \/ ReadRaced(s) \/ Replace(s) \/ Die(s)

SecretSpec == SecretInit /\ [][SecretNext]_secretVars

\* No file was damaged when the starts began.
Undamaged == SecretSpec /\ ownerKey # Damaged

---------------------------------------------------------------------------
(* Properties *)

\* Every start derives its keys from the secret on disk (state.ts:200-202: "two
\* starts racing to create it both end up with whichever secret landed first").
SecretIsShared == \A s \in Creators : at[s] = "has" => secret[s] = ownerKey

\* A secret that landed stays.
SecretStays == [][(ownerKey \in Secrets) => ownerKey' = ownerKey]_secretVars
=============================================================================
