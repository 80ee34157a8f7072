------------------------------- MODULE MCTrade -------------------------------
(* Instances of Trade for TLC: two players with an item and a coin each and a
   third who comes between them; two players with four items and no money. *)
EXTENDS Trade, TLC

CONSTANTS a, b, c, i1, i2, i3, i4

Owner2 == (i1 :> a) @@ (i2 :> b)
Coins3 == (a :> 1) @@ (b :> 1) @@ (c :> 0)

Owner4 == (i1 :> a) @@ (i2 :> a) @@ (i3 :> b) @@ (i4 :> b)
Coins2 == (a :> 0) @@ (b :> 0)
=============================================================================
