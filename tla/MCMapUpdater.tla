---------------------------- MODULE MCMapUpdater ----------------------------
(* Instances of MapUpdater for TLC. *)
EXTENDS MapUpdater, TLC

CONSTANTS w1, w2, w3, m1, m2, m3, i1, i2

\* m1 is a MapInstanced with two instances, m2 and m3 are plain maps.
OneInstanced == (i1 :> m1) @@ (i2 :> m1)

\* m3 is a child terrain map of m2.
TwoTerrains == (m1 :> {m1}) @@ (m2 :> {m2, m3}) @@ (m3 :> {m2, m3})
=============================================================================
