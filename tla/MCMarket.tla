------------------------------ MODULE MCMarket ------------------------------
(* Market on small instances.                                              *)
EXTENDS Market

CONSTANTS p1, p2, p3, i1
Perms == Permutations({p2, p3})
MCOneOffer == {<<1, 1>>}
MCOffers == {<<1, 0>>, <<1, 2>>}
MCOwner == [i \in Items |-> p1]
=============================================================================
