---------------------------- MODULE MCOrderStore ----------------------------
(***************************************************************************)
(* The instance of OrderStore, and of Listings beside it, that TLC checks: *)
(* three orders of one piece of one article, of which there are never      *)
(* enough for all, and one transfer that is offered for each of them.      *)
(***************************************************************************)
EXTENDS Listings

CONSTANTS a1, o1, o2, o3, b1, w1, h1

MCArticle  == {a1}
MCOrderId  == {o1, o2, o3}
MCBuyer    == {b1}
MCWallet   == {w1}
MCHash     == {h1}
MCPrice    == {1}
MCQuantity == {1}
MCMoney    == {1}

\* A customer's own orders, and the admin's list of the failed ones.
MCFilters == {[buyer |-> b1, status |-> Null], [buyer |-> Null, status |-> "FAILED"]}

\* Bound: releases after a rewrite of the shelf pile pieces up; stop there.
MaxShelf == 2
ShelfBound == \A a \in DOMAIN stock : stock[a] <= MaxShelf

Symmetry == Permutations(MCOrderId)
=============================================================================
