---------------------------- MODULE MCAccounts ----------------------------
(***************************************************************************)
(* The instances of Accounts that TLC checks.                              *)
(***************************************************************************)
EXTENDS Accounts, TLC

CONSTANTS i1, i2, r1, r2

TwoReplicas == {i1, i2}
TwoRequests == {r1, r2}

\* The owner's name and password, as a customer may also choose them.
TheOwner == [username |-> "owner", password |-> "secret"]

OwnerOrNone == {TheOwner, Null}
OwnerOnly   == {TheOwner}

Symmetry == Permutations(TwoReplicas) \cup Permutations(TwoRequests)
=============================================================================
