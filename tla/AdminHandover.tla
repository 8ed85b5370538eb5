--------------------------- MODULE AdminHandover ---------------------------
(***************************************************************************)
(* What a two-step handover of a role promises: at every time one account  *)
(* holds the role; it passes only to the account that the role's owner     *)
(* proposed last, only by that account's own act, and only once per        *)
(* proposal.  The owner is whoever may propose: the holder of the role, or *)
(* of a higher one.                                                        *)
(***************************************************************************)
CONSTANTS
  Accounts,
  None       \* nobody is proposed

VARIABLES
  owner,     \* may propose and cancel
  holder,    \* holds the role
  pending,   \* proposed, or None
  signer     \* who signed the last transaction

Init == holder \in Accounts /\ pending = None

Propose ==
  /\ signer' = owner
  /\ pending' \in Accounts
  /\ UNCHANGED holder

Accept ==
  /\ pending # None
  /\ signer' = pending
  /\ holder' = pending
  /\ pending' = None

Cancel ==
  /\ signer' = owner
  /\ pending # None
  /\ pending' = None
  /\ UNCHANGED holder

Next == Propose \/ Accept \/ Cancel

Spec == Init /\ [][Next]_<<holder, pending>>

=============================================================================
