------------------------- MODULE MCReserveRegistry -------------------------
(***************************************************************************)
(* Instances of ReserveRegistry for TLC: more listings than assets, so     *)
(* that assets come back and ids run out.                                  *)
(***************************************************************************)
EXTENDS ReserveRegistry

CONSTANTS usdc, xlm, alice, handler, rewards

TwoAssets == {usdc, xlm}

OneUser == {alice}

OneHandler == {handler}

OneContract == {rewards}

(* Lists of usdc and of liquidations: empty, or with her. *)
ListsButOnXlm ==
  [s \in WhitelistScopes |->
     CASE s = xlm -> {<<>>}
       [] s = SwapHandlers -> {<<>>, <<handler>>}
       [] OTHER -> {<<>>, <<alice>>}]

=============================================================================
