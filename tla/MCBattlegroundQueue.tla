-------------------------- MODULE MCBattlegroundQueue --------------------------
EXTENDS BattlegroundQueue

CONSTANTS a1, a2, h1, h2

TwoByTwo == [p \in {a1, a2, h1, h2} |-> IF p \in {a1, a2} THEN "alliance" ELSE "horde"]
BothParties == {{a1, a2}, {h1, h2}}
SmallSettings == [balance : {0, 1}, min : {1}, max : {2}, group : {2}]
                    \cup [balance : {2}, min : {1}, max : {2}, group : {1}]
                    \cup [balance : {1}, min : {1}, max : {1}, group : {1}]
=============================================================================
