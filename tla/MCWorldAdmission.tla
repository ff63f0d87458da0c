-------------------------- MODULE MCWorldAdmission --------------------------
(***************************************************************************)
(* Instances of WorldAdmission for TLC: account accA may connect twice, accB *)
(* and accC are other players and accG is staff.                           *)
(***************************************************************************)
EXTENDS WorldAdmission, TLC

CONSTANTS accA, accB, accC, accG, a1, a2, b1, c1, g1

MCAccount ==
  [s \in Sessions |->
     CASE s \in {a1, a2} -> accA [] s = b1 -> accB [] s = c1 -> accC [] s = g1 -> accG]

\* The two sessions of accA are alike, and so are accB with its session and
\* accC with its own.
Alike ==
  {p @@ q : p \in {a1 :> a1 @@ a2 :> a2, a1 :> a2 @@ a2 :> a1},
            q \in {b1 :> b1 @@ c1 :> c1 @@ accB :> accB @@ accC :> accC,
                   b1 :> c1 @@ c1 :> b1 @@ accB :> accC @@ accC :> accB}}
=============================================================================
