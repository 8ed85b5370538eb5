---------------------------- MODULE MCIncentives ----------------------------
(***************************************************************************)
(* Instances of Incentives for TLC: one aToken, one reward token.          *)
(***************************************************************************)
EXTENDS Incentives, TLC

CONSTANTS usdc_atoken, aqua, alice, bob, supply_side

OneAsset == {usdc_atoken}
OneToken == {aqua}
TwoUsers == {alice, bob}
SupplyOnly == {supply_side}
SuppliesOnly == [a \in OneAsset |-> supply_side]

TwoRates == {0, 6}
OneUnit == {1}
AllOrSix == {0, 6}
Six == {6}
JustOne == {1}

Symmetry == Permutations(TwoUsers)

=============================================================================
