----------------------------- MODULE Governance -----------------------------
(***************************************************************************)
(* Who may do what: the roles of the kinetic-router and of the             *)
(* pool-configurator, their two-step handovers, and the switches they      *)
(* guard (the router's global pause, the pause of a reserve, the pause of  *)
(* deployments, the listing of a reserve).                                 *)
(*                                                                         *)
(* The upgrade admin's handover is the one in shared/upgradeable.rs, which *)
(* the oracle and the treasury use unchanged and the interest rate         *)
(* strategy repeats; the others are the router's and the configurator's    *)
(* own.  A transaction is signed by one account.                           *)
(***************************************************************************)
CONSTANTS
  Accounts,
  None       \* nobody is proposed

ASSUME NobodyAssumption == None \notin Accounts

(* Three roles of the router, and the admin of the configurator. *)
Roles == {"upgrade", "pool", "emergency", "configurator"}

VARIABLES
  admin,             \* the holder of each role
  pending,           \* the proposed holder of each role, or None
  configurator_key,  \* ADMIN_KEY of the configurator, for its upgrades
  guardian,          \* EMERGENCY_ADMIN of the configurator
  configurator_set,  \* the router takes orders from the configurator
  router_paused,
  deployment_paused,
  reserve,           \* "unlisted", "open" or "paused"
  signer             \* who signed the last transaction

handovers == <<admin, pending, configurator_key>>

switches == <<configurator_set, router_paused, deployment_paused, reserve>>

state == <<handovers, guardian, switches>>

vars == <<state, signer>>

TypeOK ==
  /\ admin \in [Roles -> Accounts]
  /\ pending \in [Roles -> Accounts \union {None}]
  /\ configurator_key \in Accounts
  /\ guardian \in Accounts
  /\ configurator_set \in BOOLEAN
  /\ router_paused \in BOOLEAN
  /\ deployment_paused \in BOOLEAN
  /\ reserve \in {"unlisted", "open", "paused"}
  /\ signer \in Accounts

(***************************************************************************)
(* The two initialize calls: one account becomes upgrade and pool admin of *)
(* the router and names its emergency admin; one becomes admin, upgrade    *)
(* admin and emergency admin of the configurator.                          *)
(***************************************************************************)
Init ==
  \E pool, emergency, configurator \in Accounts :
    /\ admin = [r \in Roles |-> CASE r = "emergency" -> emergency
                                  [] r = "configurator" -> configurator
                                  [] OTHER -> pool]
    /\ pending = [r \in Roles |-> None]
    /\ configurator_key = configurator
    /\ guardian = configurator
    /\ configurator_set = FALSE
    /\ router_paused = FALSE /\ deployment_paused = FALSE
    /\ reserve = "unlisted"
    /\ signer = pool

(* The emergency role is in the gift of the pool admin. *)
decider(r) == IF r = "emergency" THEN admin["pool"] ELSE admin[r]

-----------------------------------------------------------------------------
(* propose_admin, propose_pool_admin, propose_emergency_admin: a proposal  *)
(* still open is replaced.                                                 *)
Propose(r, who) ==
  /\ signer' = decider(r)
  /\ pending' = [pending EXCEPT ![r] = who]
  /\ UNCHANGED <<admin, configurator_key, guardian, switches>>

(* Mutation: the proposal stays open after it was accepted. *)
keep_pending(r) == pending

clear_pending(r) == [pending EXCEPT ![r] = None]

(* Mutation: the key for upgrades stays with the former admin. *)
former_key(r) == configurator_key

(* accept_admin of the configurator passes both of its keys on. *)
synced_key(r) ==
  IF r = "configurator" THEN pending[r] ELSE configurator_key

(* accept_admin and its variants: only by the proposed account itself. *)
Accept(r) ==
  /\ pending[r] # None
  /\ signer' = pending[r]
  /\ admin' = [admin EXCEPT ![r] = pending[r]]
  /\ configurator_key' = synced_key(r)
  /\ pending' = clear_pending(r)
  /\ UNCHANGED <<guardian, switches>>

(* cancel_admin_proposal and its variants. *)
Cancel(r) ==
  /\ signer' = decider(r)
  /\ pending[r] # None
  /\ pending' = [pending EXCEPT ![r] = None]
  /\ UNCHANGED <<admin, configurator_key, guardian, switches>>

-----------------------------------------------------------------------------
(* Mutation: a proposed emergency admin may pause before accepting. *)
may_pause_when_proposed ==
  {admin["emergency"], admin["pool"], pending["emergency"]} \ {None}

(* validate_emergency_admin of the router *)
may_pause == {admin["emergency"], admin["pool"]}

Pause ==
  /\ signer' \in may_pause
  /\ router_paused' = TRUE
  /\ UNCHANGED <<handovers, guardian, configurator_set, deployment_paused,
                 reserve>>

Unpause ==
  /\ signer' = admin["pool"]
  /\ router_paused' = FALSE
  /\ UNCHANGED <<handovers, guardian, configurator_set, deployment_paused,
                 reserve>>

(* set_pool_configurator: to this configurator or to another. *)
SetPoolConfigurator(this) ==
  /\ signer' = admin["pool"]
  /\ configurator_set' = this
  /\ UNCHANGED <<handovers, guardian, router_paused, deployment_paused,
                 reserve>>

(* init_reserve of the configurator, which the router takes from it alone. *)
InitReserve ==
  /\ signer' = admin["configurator"]
  /\ ~deployment_paused
  /\ configurator_set
  /\ reserve = "unlisted"
  /\ reserve' = "open"
  /\ UNCHANGED <<handovers, guardian, configurator_set, router_paused,
                 deployment_paused>>

DropReserve ==
  /\ signer' = admin["configurator"]
  /\ configurator_set
  /\ reserve # "unlisted"
  /\ reserve' = "unlisted"
  /\ UNCHANGED <<handovers, guardian, configurator_set, router_paused,
                 deployment_paused>>

(* validate_emergency_admin of the configurator *)
may_guard == {guardian, admin["configurator"]}

SetReservePause(paused) ==
  /\ signer' \in may_guard
  /\ configurator_set
  /\ reserve # "unlisted"
  /\ reserve' = IF paused THEN "paused" ELSE "open"
  /\ UNCHANGED <<handovers, guardian, configurator_set, router_paused,
                 deployment_paused>>

(* pause_reserve_deployment, unpause_reserve_deployment *)
SetReserveDeploymentPaused(paused) ==
  /\ signer' \in may_guard
  /\ deployment_paused' = paused
  /\ UNCHANGED <<handovers, guardian, configurator_set, router_paused,
                 reserve>>

Next ==
  \/ \E r \in Roles :
       \/ \E who \in Accounts : Propose(r, who)
       \/ Accept(r)
       \/ Cancel(r)
  \/ Pause \/ Unpause
  \/ InitReserve \/ DropReserve
  \/ \E on \in BOOLEAN :
       \/ SetPoolConfigurator(on)
       \/ SetReservePause(on)
       \/ SetReserveDeploymentPaused(on)

Spec == Init /\ [][Next]_vars

-----------------------------------------------------------------------------
(* Each role by itself, as the two-step handover sees it. *)
Upgrade == INSTANCE AdminHandover WITH
  owner <- admin["upgrade"], holder <- admin["upgrade"],
  pending <- pending["upgrade"]

Pool == INSTANCE AdminHandover WITH
  owner <- admin["pool"], holder <- admin["pool"],
  pending <- pending["pool"]

Emergency == INSTANCE AdminHandover WITH
  owner <- admin["pool"], holder <- admin["emergency"],
  pending <- pending["emergency"]

Configurator == INSTANCE AdminHandover WITH
  owner <- admin["configurator"], holder <- admin["configurator"],
  pending <- pending["configurator"]

(***************************************************************************)
(* All four roles are handed over in two steps, whatever happens to the    *)
(* others in between: the emergency role is owned by whoever is pool admin *)
(* at the time (propose_role_admin, accept_role_admin, cancel_role_admin,  *)
(* upgradeable.rs, and the configurator's own copies).                     *)
(***************************************************************************)
RolesAreHandedOver ==
  Upgrade!Spec /\ Pool!Spec /\ Emergency!Spec /\ Configurator!Spec

(***************************************************************************)
(* The configurator's two keys stay with one account through every         *)
(* handover: its upgrades ask both to sign (accept_admin, upgrade).        *)
(***************************************************************************)
ConfiguratorKeysAgree == configurator_key = admin["configurator"]

(* Accounts with some power now. *)
powerful == {admin[r] : r \in Roles} \union {guardian}

(***************************************************************************)
(* Whoever holds no role can do one thing only: take up a role that was    *)
(* proposed to it.  A proposal gives no power before it is accepted, and a *)
(* handover leaves none behind.                                            *)
(***************************************************************************)
OutsidersOnlyAccept ==
  [][signer' \in powerful \/ (\E r \in Roles :
       /\ pending[r] = signer'
       /\ admin'[r] = signer'
       /\ pending'[r] = None
       /\ switches' = switches)]_state

=============================================================================
