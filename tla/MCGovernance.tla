---------------------------- MODULE MCGovernance ----------------------------
(* Two accounts that share and exchange the roles of Governance. *)
EXTENDS Governance

CONSTANTS alice, bob

TwoAccounts == {alice, bob}

=============================================================================
