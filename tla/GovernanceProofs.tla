-------------------------- MODULE GovernanceProofs --------------------------
(***************************************************************************)
(* Theorems about the roles: for any number of accounts, and without any   *)
(* bound on the handovers under way at once.  And about what their holders *)
(* set: premiums, and the packed words of reserves and users.              *)
(***************************************************************************)
EXTENDS Governance, Configuration, RayMathProofs

LEMMA InitType == Init => TypeOK
  <1> SUFFICES ASSUME NEW pool \in Accounts, NEW emergency \in Accounts,
                      NEW configurator \in Accounts,
                      admin = [r \in Roles |->
                        CASE r = "emergency" -> emergency
                          [] r = "configurator" -> configurator
                          [] OTHER -> pool],
                      pending = [r \in Roles |-> None],
                      configurator_key = configurator,
                      guardian = configurator,
                      configurator_set = FALSE,
                      router_paused = FALSE, deployment_paused = FALSE,
                      reserve = "unlisted", signer = pool
               PROVE  TypeOK
    BY Zenon DEF Init
  <1> QED
    BY DEF TypeOK, Roles

(* Whoever decides about a role holds a role.                              *)
LEMMA DeciderType ==
  ASSUME TypeOK, NEW r \in Roles
  PROVE  decider(r) \in Accounts /\ decider(r) \in powerful
  BY DEF TypeOK, decider, powerful, Roles

(* What the three steps of a handover do to the role and its proposal.     *)
LEMMA HandoverStep ==
  ASSUME TypeOK, NEW r \in Roles,
         \/ \E who \in Accounts : Propose(r, who)
         \/ Accept(r)
         \/ Cancel(r)
  PROVE  /\ TypeOK'
         /\ \A s \in Roles \ {r} :
              admin'[s] = admin[s] /\ pending'[s] = pending[s]
         /\ \/ /\ signer' = decider(r)
               /\ pending'[r] \in Accounts
               /\ admin'[r] = admin[r]
               /\ configurator_key' = configurator_key
            \/ /\ pending[r] # None
               /\ signer' = pending[r]
               /\ admin'[r] = pending[r]
               /\ pending'[r] = None
               /\ configurator_key' = synced_key(r)
            \/ /\ signer' = decider(r)
               /\ pending[r] # None
               /\ pending'[r] = None
               /\ admin'[r] = admin[r]
               /\ configurator_key' = configurator_key
  <1>1. ASSUME NEW who \in Accounts, Propose(r, who)
        PROVE  /\ TypeOK'
               /\ \A s \in Roles \ {r} :
                    admin'[s] = admin[s] /\ pending'[s] = pending[s]
               /\ signer' = decider(r)
               /\ pending'[r] \in Accounts
               /\ admin'[r] = admin[r]
               /\ configurator_key' = configurator_key
    BY <1>1, DeciderType DEF Propose, TypeOK, switches
  <1>2. ASSUME Accept(r)
        PROVE  /\ TypeOK'
               /\ \A s \in Roles \ {r} :
                    admin'[s] = admin[s] /\ pending'[s] = pending[s]
               /\ pending[r] # None
               /\ signer' = pending[r]
               /\ admin'[r] = pending[r]
               /\ pending'[r] = None
               /\ configurator_key' = synced_key(r)
    BY <1>2 DEF Accept, clear_pending, synced_key, TypeOK, switches
  <1>3. ASSUME Cancel(r)
        PROVE  /\ TypeOK'
               /\ \A s \in Roles \ {r} :
                    admin'[s] = admin[s] /\ pending'[s] = pending[s]
               /\ signer' = decider(r)
               /\ pending[r] # None
               /\ pending'[r] = None
               /\ admin'[r] = admin[r]
               /\ configurator_key' = configurator_key
    BY <1>3, DeciderType DEF Cancel, TypeOK, switches
  <1> QED
    BY <1>1, <1>2, <1>3

(* The other operations leave every role as it is and are signed by        *)
(* someone who holds one.                                                  *)
LEMMA SwitchStep ==
  ASSUME TypeOK,
         \/ Pause \/ Unpause \/ InitReserve \/ DropReserve
         \/ \E on \in BOOLEAN :
              \/ SetPoolConfigurator(on)
              \/ SetReservePause(on)
              \/ SetReserveDeploymentPaused(on)
  PROVE  TypeOK' /\ signer' \in powerful /\ UNCHANGED handovers
  <1> USE DEF TypeOK, powerful, Roles, handovers
  <1>1. ASSUME Pause
        PROVE  TypeOK' /\ signer' \in powerful /\ UNCHANGED handovers
    BY <1>1 DEF Pause, may_pause
  <1>2. ASSUME Unpause \/ InitReserve \/ DropReserve
        PROVE  TypeOK' /\ signer' \in powerful /\ UNCHANGED handovers
    BY <1>2 DEF Unpause, InitReserve, DropReserve
  <1>3. ASSUME NEW on \in BOOLEAN, SetPoolConfigurator(on)
        PROVE  TypeOK' /\ signer' \in powerful /\ UNCHANGED handovers
    BY <1>3 DEF SetPoolConfigurator
  <1>4. ASSUME NEW on \in BOOLEAN,
               SetReservePause(on) \/ SetReserveDeploymentPaused(on)
        PROVE  TypeOK' /\ signer' \in powerful /\ UNCHANGED handovers
    BY <1>4 DEF SetReservePause, SetReserveDeploymentPaused, may_guard
  <1> QED
    BY <1>1, <1>2, <1>3, <1>4

LEMMA NextType == TypeOK /\ [Next]_vars => TypeOK'
  <1> SUFFICES ASSUME TypeOK, [Next]_vars
               PROVE  TypeOK'
    OBVIOUS
  <1>1. CASE Next
    BY <1>1, HandoverStep, SwitchStep DEF Next
  <1>2. CASE UNCHANGED vars
    BY <1>2 DEF vars, state, handovers, switches, TypeOK
  <1> QED
    BY <1>1, <1>2

(* The types hold: every role has one holder, an account, at all times.    *)
THEOREM TypeCorrect == Spec => []TypeOK
  BY InitType, NextType, PTL DEF Spec

-----------------------------------------------------------------------------
(* The configurator's admin and its key for upgrades are the same account, *)
(* through every sequence of proposals, acceptances and cancellations      *)
(* (pool-configurator contract.rs, accept_admin).                          *)
THEOREM KeysAgree == Spec => []ConfiguratorKeysAgree
  <1>1. Init => ConfiguratorKeysAgree
    BY DEF Init, ConfiguratorKeysAgree, Roles
  <1>2. TypeOK /\ ConfiguratorKeysAgree /\ [Next]_vars => ConfiguratorKeysAgree'
    <2> SUFFICES ASSUME TypeOK, ConfiguratorKeysAgree, [Next]_vars
                 PROVE  ConfiguratorKeysAgree'
      OBVIOUS
    <2>1. ASSUME NEW r \in Roles,
                 \/ \E who \in Accounts : Propose(r, who)
                 \/ Accept(r)
                 \/ Cancel(r)
          PROVE  ConfiguratorKeysAgree'
      BY <2>1, HandoverStep DEF ConfiguratorKeysAgree, synced_key, Roles
    <2>2. ASSUME UNCHANGED handovers
          PROVE  ConfiguratorKeysAgree'
      BY <2>2 DEF ConfiguratorKeysAgree, handovers
    <2>3. CASE Next
      BY <2>1, <2>2, <2>3, SwitchStep DEF Next
    <2>4. CASE UNCHANGED vars
      BY <2>2, <2>4 DEF vars, state
    <2> QED
      BY <2>3, <2>4
  <1> QED
    BY <1>1, <1>2, TypeCorrect, PTL DEF Spec

-----------------------------------------------------------------------------
(* Each role's handover is the abstract one: the initial states map to     *)
(* initial states, and every step to a step of it or a stutter.            *)
LEMMA RolesInit ==
  Init => Upgrade!Init /\ Pool!Init /\ Emergency!Init /\ Configurator!Init
  <1> SUFFICES ASSUME Init
               PROVE  \A r \in Roles :
                        admin[r] \in Accounts /\ pending[r] = None
    BY DEF Upgrade!Init, Pool!Init, Emergency!Init, Configurator!Init, Roles
  <1>1. TypeOK
    BY InitType
  <1>2. pending = [r \in Roles |-> None]
    BY DEF Init
  <1> QED
    BY <1>1, <1>2 DEF TypeOK

LEMMA RolesNext ==
  ASSUME TypeOK, [Next]_vars
  PROVE  /\ [Upgrade!Next]_<<admin["upgrade"], pending["upgrade"]>>
         /\ [Pool!Next]_<<admin["pool"], pending["pool"]>>
         /\ [Emergency!Next]_<<admin["emergency"], pending["emergency"]>>
         /\ [Configurator!Next]_<<admin["configurator"],
                                  pending["configurator"]>>
  <1> DEFINE Step(r) == \/ /\ signer' = decider(r)
                           /\ pending'[r] \in Accounts
                           /\ admin'[r] = admin[r]
                        \/ /\ pending[r] # None
                           /\ signer' = pending[r]
                           /\ admin'[r] = pending[r]
                           /\ pending'[r] = None
                        \/ /\ signer' = decider(r)
                           /\ pending[r] # None
                           /\ pending'[r] = None
                           /\ admin'[r] = admin[r]
             Kept(r) == admin'[r] = admin[r] /\ pending'[r] = pending[r]
  <1>1. \A r \in Roles : Step(r) \/ Kept(r)
    <2>1. ASSUME NEW r \in Roles,
                 \/ \E who \in Accounts : Propose(r, who)
                 \/ Accept(r)
                 \/ Cancel(r)
          PROVE  \A s \in Roles : Step(s) \/ Kept(s)
      BY <2>1, HandoverStep
    <2>2. ASSUME UNCHANGED handovers
          PROVE  \A s \in Roles : Step(s) \/ Kept(s)
      BY <2>2 DEF handovers
    <2>3. CASE Next
      <3> HIDE DEF Step, Kept
      <3> QED
        BY <2>1, <2>2, <2>3, SwitchStep DEF Next
    <2>4. CASE UNCHANGED vars
      BY <2>2, <2>4 DEF vars, state
    <2> QED
      BY <2>3, <2>4
  <1>2. [Upgrade!Next]_<<admin["upgrade"], pending["upgrade"]>>
    BY <1>1 DEF Roles, decider, Upgrade!Next, Upgrade!Propose,
                Upgrade!Accept, Upgrade!Cancel
  <1>3. [Pool!Next]_<<admin["pool"], pending["pool"]>>
    BY <1>1 DEF Roles, decider, Pool!Next, Pool!Propose, Pool!Accept,
                Pool!Cancel
  <1>4. [Emergency!Next]_<<admin["emergency"], pending["emergency"]>>
    BY <1>1 DEF Roles, decider, Emergency!Next, Emergency!Propose,
                Emergency!Accept, Emergency!Cancel
  <1>5. [Configurator!Next]_<<admin["configurator"], pending["configurator"]>>
    BY <1>1 DEF Roles, decider, Configurator!Next, Configurator!Propose,
                Configurator!Accept, Configurator!Cancel
  <1> QED
    BY <1>2, <1>3, <1>4, <1>5

(* The router's and the configurator's handovers implement the abstract    *)
(* two-step handover, all four of them, for any number of accounts and in  *)
(* any interleaving (upgradeable.rs and the router's role admins).         *)
THEOREM HandoversImplemented == Spec => RolesAreHandedOver
  BY RolesInit, RolesNext, TypeCorrect, PTL
  DEF Spec, RolesAreHandedOver, Upgrade!Spec, Pool!Spec, Emergency!Spec,
      Configurator!Spec

-----------------------------------------------------------------------------
(* An account without a role can do nothing but accept one that was        *)
(* proposed to it, whatever is proposed, paused or listed in between.      *)
THEOREM OutsidersAccept == Spec => OutsidersOnlyAccept
  <1> DEFINE Accepted == \E r \in Roles :
               /\ pending[r] = signer'
               /\ admin'[r] = signer'
               /\ pending'[r] = None
               /\ switches' = switches
  <1>1. TypeOK /\ [Next]_vars => [signer' \in powerful \/ Accepted]_state
    <2> SUFFICES ASSUME TypeOK, [Next]_vars
                 PROVE  [signer' \in powerful \/ Accepted]_state
      OBVIOUS
    <2>1. ASSUME NEW r \in Roles,
                 (\E who \in Accounts : Propose(r, who)) \/ Cancel(r)
          PROVE  signer' \in powerful
      BY <2>1, DeciderType DEF Propose, Cancel
    <2>2. ASSUME NEW r \in Roles, Accept(r)
          PROVE  Accepted
      BY <2>2, HandoverStep DEF Accept, clear_pending, TypeOK
    <2>3. CASE Next
      <3> HIDE DEF Accepted
      <3> QED
        BY <2>1, <2>2, <2>3, SwitchStep DEF Next
    <2>4. CASE UNCHANGED vars
      BY <2>4 DEF vars
    <2> QED
      BY <2>3, <2>4
  <1> QED
    BY <1>1, TypeCorrect, PTL DEF Spec, OutsidersOnlyAccept

-----------------------------------------------------------------------------
(***************************************************************************)
(* The parameters that the pool admin sets (module Configuration).         *)
(***************************************************************************)
(* What the arithmetic of the setters needs. *)
PremiumsTyped ==
  params \in [premium : Nat, surcharge : Nat, max : Nat]

(* The premiums of a fresh pool are naturals. *)
LEMMA PremiumInit ==
  ConfigurationInit => PremiumsTyped
BY PremiumAssumption DEF ConfigurationInit, PremiumsTyped

(* Of all setters only those of a premium raise the sum, and they check    *)
(* it.                                                                     *)
LEMMA PremiumStep ==
  ASSUME PremiumsTyped, [ConfigurationNext]_configuration_vars
  PROVE  /\ PremiumsTyped'
         /\ params'.premium + params'.surcharge
                > params.premium + params.surcharge
              => params'.premium + params'.surcharge <= params'.max
<1>1. CASE UNCHANGED params
  BY <1>1 DEF PremiumsTyped
<1>2. ASSUME NEW v \in Premiums, set_flash_loan_premium_max(v)
      PROVE  /\ params' = [params EXCEPT !.max = v] /\ v \in Nat
  BY <1>2, PremiumAssumption DEF set_flash_loan_premium_max
<1>3. ASSUME NEW v \in Premiums, NEW name \in {"premium", "surcharge"},
             set_premium(name, v)
      PROVE  /\ params' = [params EXCEPT ![name] = v] /\ v \in Nat
             /\ v + params[IF name = "premium" THEN "surcharge"
                                               ELSE "premium"] <= params.max
  BY <1>3, PremiumAssumption DEF set_premium, combined_premium
<1>4. CASE \E v \in Premiums : params' = [params EXCEPT !.max = v]
  BY <1>4, PremiumAssumption DEF PremiumsTyped
<1>5. CASE \E v \in Premiums, name \in {"premium", "surcharge"} :
             /\ params' = [params EXCEPT ![name] = v]
             /\ v + params[IF name = "premium" THEN "surcharge"
                                               ELSE "premium"] <= params.max
  <2>1. PICK v \in Premiums, name \in {"premium", "surcharge"} :
             /\ params' = [params EXCEPT ![name] = v]
             /\ v + params[IF name = "premium" THEN "surcharge"
                                               ELSE "premium"] <= params.max
    BY <1>5
  <2>2. CASE name = "premium"
    BY <2>1, <2>2, PremiumAssumption DEF PremiumsTyped
  <2>3. CASE name = "surcharge"
    BY <2>1, <2>3, PremiumAssumption DEF PremiumsTyped
  <2> QED BY <2>2, <2>3
<1>6. \/ UNCHANGED params
      \/ \E v \in Premiums : set_flash_loan_premium_max(v)
      \/ \E v \in Premiums, name \in {"premium", "surcharge"} :
           set_premium(name, v)
  BY DEF ConfigurationNext, configuration_vars, set_position, set_number,
    set_reserve_factor, set_flag,
    configure_reserve_as_collateral,
    update_reserve_configuration
<1> QED BY <1>1, <1>2, <1>3, <1>4, <1>5, <1>6

(***************************************************************************)
(* No sequence of the setters of premium, surcharge and maximum makes the  *)
(* sum of the two premiums grow beyond the maximum then in force, whatever *)
(* the layout of the words and the values asked for                        *)
(* (kinetic-router/src/params.rs).                                         *)
(***************************************************************************)
THEOREM PremiumsAlwaysGrowWithinMax ==
  ConfigurationSpec => PremiumsGrowWithinMax
<1>1. ConfigurationInit => PremiumsTyped
  BY PremiumInit
<1>2. PremiumsTyped /\ [ConfigurationNext]_configuration_vars =>
        /\ PremiumsTyped'
        /\ [params'.premium + params'.surcharge
               > params.premium + params.surcharge
             => params'.premium + params'.surcharge
                  <= params'.max]_configuration_vars
  BY PremiumStep
<1> QED BY <1>1, <1>2, PTL DEF ConfigurationSpec, PremiumsGrowWithinMax

-----------------------------------------------------------------------------
(***************************************************************************)
(* The packed words (module Configuration).                                *)
(***************************************************************************)
(* What the recursion of the powers of two says.                           *)
LEMMA TwoTo ==
  /\ two_to[0] = 1
  /\ \A n \in Nat : two_to[n] \in Nat /\ two_to[n + 1] = 2 * two_to[n]
  <1> DEFINE p == CHOOSE p : powers_of(2, p)
  <1>1. powers_of(2, p)
    BY PowersExist
  <1>2. two_to = p
    BY DEF two_to, powers_of
  <1> HIDE DEF p
  <1> QED
    BY <1>1, <1>2, PowersGrow

(* They are positive.                                                     *)
LEMMA TwoToPositive ==
  \A n \in Nat : two_to[n] \in Nat /\ two_to[n] > 0
  <1> DEFINE Bad == {n \in Nat : ~(two_to[n] > 0)}
  <1>1. Bad = {}
    <2> SUFFICES ASSUME Bad # {} PROVE FALSE
      OBVIOUS
    <2>1. PICK n \in Bad : \A m \in Bad : n <= m
      BY SmallestNumber
    <2>2. n \in Nat /\ n # 0 /\ ~(two_to[n] > 0)
      BY TwoTo
    <2>3. n - 1 \in Nat /\ n - 1 \notin Bad /\ (n - 1) + 1 = n
      BY <2>1, <2>2
    <2>4. two_to[n - 1] > 0 /\ two_to[n] = 2 * two_to[n - 1]
      BY <2>3, TwoTo
    <2>5. two_to[n - 1] \in Nat
      BY <2>3, TwoTo
    <2> QED
      BY <2>2, <2>4, <2>5
  <1> QED
    BY <1>1, TwoTo

(* They multiply: one shift after another.                                 *)
LEMMA TwoToAdds ==
  ASSUME NEW m \in Nat, NEW n \in Nat
  PROVE  two_to[m + n] = two_to[m] * two_to[n]
  <1> DEFINE Bad == {k \in Nat : two_to[m + k] # two_to[m] * two_to[k]}
  <1>1. Bad = {}
    <2> SUFFICES ASSUME Bad # {} PROVE FALSE
      OBVIOUS
    <2>1. PICK k \in Bad : \A j \in Bad : k <= j
      BY SmallestNumber
    <2>2. two_to[m] \in Nat
      BY TwoTo
    <2>3. k # 0
      <3>1. two_to[m + 0] = two_to[m] * two_to[0]
        BY <2>2, TwoTo
      <3> QED BY <3>1
    <2>4. k - 1 \in Nat /\ k - 1 \notin Bad
      BY <2>1, <2>3
    <2> DEFINE j == k - 1
    <2>5. /\ j \in Nat /\ m + j \in Nat /\ k = j + 1
          /\ m + k = (m + j) + 1
          /\ two_to[m + j] = two_to[m] * two_to[j]
      BY <2>4
    <2> HIDE DEF j
    <2>6. /\ two_to[m + k] = 2 * two_to[m + j]
          /\ two_to[k] = 2 * two_to[j] /\ two_to[j] \in Nat
      BY <2>5, TwoTo
    <2>7. two_to[m + k] = two_to[m] * two_to[k]
      BY <2>2, <2>5, <2>6
    <2> QED
      BY <2>7
  <1> QED
    BY <1>1

-----------------------------------------------------------------------------
(* The bits of x from position a on, w of them; and x with v in their place. *)
bits(x, a, w) == (x \div two_to[a]) % two_to[w]
with_bits(x, a, w, v) == x + (v - bits(x, a, w)) * two_to[a]

(* Two numbers with the same bits below a and from a + w on.               *)
same_around(x, y, a, w) ==
  y % two_to[a] = x % two_to[a] /\ y \div two_to[a + w] = x \div two_to[a + w]

(* Changing the bits leaves those below and above them.                    *)
LEMMA WithBits ==
  ASSUME NEW x \in Nat, NEW a \in Nat, NEW w \in Nat, NEW v \in Nat,
         v < two_to[w]
  PROVE  LET y == with_bits(x, a, w, v)
         IN  /\ y \in Nat /\ bits(y, a, w) = v
             /\ same_around(x, y, a, w)
  <1> DEFINE A == two_to[a]
             W == two_to[w]
             q == x \div A
             l == x % A
             h == q \div W
             m == q % W
             y == with_bits(x, a, w, v)
  <1>1. A \in Nat /\ A > 0 /\ W \in Nat /\ W > 0 /\ two_to[a + w] = A * W
    BY TwoToPositive, TwoToAdds
  <1> HIDE DEF A, W
  <1>2. q \in Nat /\ l \in 0 .. A - 1 /\ x = q * A + l
    BY <1>1, DivModPair
  <1> HIDE DEF q, l
  <1>3. h \in Nat /\ m \in 0 .. W - 1 /\ q = h * W + m
    BY <1>1, <1>2, DivModPair
  <1>4. v \in 0 .. W - 1
    BY <1>1 DEF W
  <1>5. y = x + (v - m) * A
    BY DEF with_bits, bits, m, q, A, W
  <1> HIDE DEF h, m, y
  <1> DEFINE p == h * W + v
  <1>6. p \in Nat /\ p = q + (v - m)
    BY <1>1, <1>3, <1>4, ProductNat
  <1>7. y = p * A + l
    <2>1. (q + (v - m)) * A = q * A + (v - m) * A
      <3>1. v - m \in Int
        BY <1>3, <1>4
      <3> QED
        BY <1>1, <1>2, <3>1
    <2>2. q * A \in Int /\ (v - m) * A \in Int /\ l \in Int
      BY <1>1, <1>2, <1>3, <1>4
    <2> HIDE DEF p
    <2> QED
      BY <1>2, <1>5, <1>6, <2>1, <2>2
  <1>8. p \div W = h /\ p % W = v
    BY <1>1, <1>3, <1>4, DivModUnique
  <1> HIDE DEF p
  <1>9. y \div A = p /\ y % A = l /\ y \in Nat
    <2>1. p * A \in Nat
      BY <1>1, <1>6, ProductNat
    <2>2. (p * A + l) \div A = p /\ (p * A + l) % A = l
      BY <1>1, <1>2, <1>6, DivModUnique
    <2>3. y \in Nat
      BY <1>2, <1>7, <2>1
    <2> QED
      BY <1>7, <2>2, <2>3
  <1>10. y \div (A * W) = h /\ x \div (A * W) = h
    <2>1. /\ (y \div A) \div W = y \div (A * W)
          /\ (x \div A) \div W = x \div (A * W)
      BY <1>1, <1>9, DivTwice
    <2> QED
      BY <1>8, <1>9, <2>1 DEF h, q
  <1> QED
    BY <1>1, <1>8, <1>9, <1>10 DEF same_around, bits, A, W, y, l

(* Fields that do not overlap are left alone.                              *)
LEMMA OtherBits ==
  ASSUME NEW x \in Nat, NEW y \in Nat,
         NEW a \in Nat, NEW w \in Nat, NEW b \in Nat, NEW k \in Nat,
         same_around(x, y, a, w), b + k <= a \/ a + w <= b
  PROVE  bits(y, b, k) = bits(x, b, k)
  <1>1. CASE a + w <= b
    <2> DEFINE A == two_to[a + w]
               D == two_to[b - (a + w)]
    <2>1. /\ a + w \in Nat /\ b - (a + w) \in Nat
          /\ (a + w) + (b - (a + w)) = b
      BY <1>1
    <2>2. A \in Nat /\ A > 0 /\ D \in Nat /\ D > 0 /\ two_to[b] = A * D
      <3>1. two_to[(a + w) + (b - (a + w))] = A * D
        BY <2>1, TwoToAdds
      <3> QED BY <2>1, <3>1, TwoToPositive
    <2>3. y \div A = x \div A
      BY DEF same_around
    <2> HIDE DEF A, D
    <2>4. /\ (y \div A) \div D = y \div (A * D)
          /\ (x \div A) \div D = x \div (A * D)
      BY <2>2, DivTwice
    <2> QED
      BY <2>2, <2>3, <2>4 DEF bits
  <1>2. CASE b + k <= a
    <2> DEFINE A == two_to[a]
               B == two_to[b]
               K == two_to[k]
               D == two_to[a - (b + k)]
               l == x % A
    <2>1. /\ b + k \in Nat /\ a - (b + k) \in Nat
          /\ (b + k) + (a - (b + k)) = a
      BY <1>2
    <2>2. /\ B \in Nat /\ B > 0 /\ K \in Nat /\ K > 0
          /\ D \in Nat /\ D > 0 /\ A = (B * K) * D /\ A \in Nat /\ A > 0
      <3>1. two_to[(b + k) + (a - (b + k))] = two_to[b + k] * D
        BY <2>1, TwoToAdds
      <3>2. two_to[b + k] = B * K
        BY TwoToAdds
      <3> QED BY <2>1, <3>1, <3>2, TwoToPositive
    <2>3. l \in Nat /\ y % A = l
      <3> HIDE DEF A
      <3>1. A \in Nat /\ A > 0
        BY <2>2
      <3> QED BY <3>1, DivModPair DEF same_around, A
    <2> HIDE DEF A, B, K, D, l
    <2>4. ASSUME NEW z \in Nat, z % A = l
          PROVE  (z \div B) % K = (l \div B) % K
      <3> DEFINE q == z \div A
                 s == l \div B
                 t == l % B
                 e == s \div K
                 f == s % K
      <3>1. q \in Nat /\ z = q * A + l
        BY <2>2, <2>4, DivModPair
      <3>2. s \in Nat /\ t \in 0 .. B - 1 /\ l = s * B + t
        BY <2>2, <2>3, DivModPair
      <3> HIDE DEF q, s, t
      <3>3. e \in Nat /\ f \in 0 .. K - 1 /\ s = e * K + f
        BY <2>2, <3>2, DivModPair
      <3> HIDE DEF e, f
      <3> DEFINE g == q * D
                 i == g * K + s
      <3>4. g \in Nat /\ g * K \in Nat /\ i \in Nat
        <4>1. g \in Nat
          BY <2>2, <3>1, ProductNat
        <4> HIDE DEF g
        <4> QED BY <2>2, <3>2, <4>1, ProductNat
      <3>5. q * A = (g * K) * B
        BY <2>2, <3>1
      <3> HIDE DEF g
      <3>6. z = i * B + t
        BY <2>2, <3>1, <3>2, <3>4, <3>5
      <3>7. i = (g + e) * K + f /\ g + e \in Nat
        BY <2>2, <3>3, <3>4
      <3> HIDE DEF i
      <3>8. z \div B = i
        BY <2>2, <3>2, <3>4, <3>6, DivModUnique
      <3>9. i % K = f
        <4> DEFINE j == g + e
        <4>1. j \in Nat /\ i = j * K + f
          BY <3>7
        <4> HIDE DEF j
        <4> QED BY <2>2, <3>3, <4>1, DivModUnique
      <3> QED
        BY <3>8, <3>9 DEF f, s
    <2>5. (x \div B) % K = (l \div B) % K
      BY <2>4 DEF l
    <2>6. (y \div B) % K = (l \div B) % K
      BY <2>3, <2>4
    <2> QED
      BY <2>5, <2>6 DEF bits, B, K
  <1> QED
    BY <1>1, <1>2

-----------------------------------------------------------------------------
Words == [{"low", "high"} -> Nat]

(* What the layout says of one field and of two.                           *)
LEMMA Places ==
  /\ \A f \in Fields : /\ Layout[f].word \in {"low", "high"}
                       /\ Layout[f].at \in Nat /\ Layout[f].width \in Nat
                       /\ two_to[Layout[f].width] > 1
  /\ \A f \in Fields, g \in Fields :
       f # g /\ Layout[f].word = Layout[g].word =>
         \/ Layout[f].at + Layout[f].width <= Layout[g].at
         \/ Layout[g].at + Layout[g].width <= Layout[f].at
  <1>1. \A f \in Fields : Layout[f] \in FieldPlaces
    BY LayoutAssumption
  <1>2. \A n \in Nat \ {0} : two_to[n] > 1
    <2> SUFFICES ASSUME NEW n \in Nat \ {0} PROVE two_to[n] > 1
      OBVIOUS
    <2> DEFINE m == n - 1
    <2>1. m \in Nat /\ m + 1 = n
      OBVIOUS
    <2> HIDE DEF m
    <2>2. two_to[m] \in Nat /\ two_to[m] > 0 /\ two_to[m + 1] = 2 * two_to[m]
      BY <2>1, TwoTo, TwoToPositive
    <2> QED
      BY <2>1, <2>2
  <1>3. \A f \in Fields : /\ Layout[f].word \in {"low", "high"}
                          /\ Layout[f].at \in Nat
                          /\ Layout[f].width \in Nat \ {0}
    BY <1>1 DEF FieldPlaces
  <1> QED
    BY <1>2, <1>3, LayoutAssumption DEF FieldsAreApart

(* A setter writes its field and no other.                                 *)
LEMMA Put ==
  ASSUME NEW c \in Words, NEW f \in Fields, NEW v \in Nat, fits(f, v)
  PROVE  /\ put(c, f, v) \in Words
         /\ get(put(c, f, v), f) = v
         /\ \A g \in Fields \ {f} : get(put(c, f, v), g) = get(c, g)
  <1> DEFINE i == Layout[f].word
             a == Layout[f].at
             w == Layout[f].width
             x == c[i]
             y == with_bits(x, a, w, v)
             d == put(c, f, v)
  <1>1. i \in {"low", "high"} /\ a \in Nat /\ w \in Nat
    BY Places
  <1>2. v < two_to[w]
    BY DEF fits
  <1>3. v % two_to[w] = v
    <2> DEFINE n == two_to[w]
    <2>1. n \in Nat /\ n > 0
      BY <1>1, TwoToPositive
    <2>2. v \in 0 .. n - 1
      BY <1>2, <2>1
    <2> HIDE DEF n
    <2>3. (0 * n + v) % n = v /\ 0 * n + v = v
      BY <2>1, <2>2, DivModUnique
    <2> QED
      BY <2>3 DEF n
  <1>4. d = [c EXCEPT ![i] = y]
    BY <1>3 DEF put, with_bits, bits, get
  <1>5. x \in Nat
    BY <1>1 DEF Words
  <1> HIDE DEF i, a, w, x
  <1>6. /\ y \in Nat /\ bits(y, a, w) = v
        /\ same_around(x, y, a, w)
    BY <1>1, <1>2, <1>5, WithBits
  <1> HIDE DEF y, d
  <1>7. d \in Words /\ d[i] = y /\ \A j \in {"low", "high"} \ {i} : d[j] = c[j]
    BY <1>1, <1>4, <1>6 DEF Words
  <1>8. get(d, f) = v
    BY <1>6, <1>7 DEF get, bits, i, a, w
  <1>9. ASSUME NEW g \in Fields \ {f}
        PROVE  get(d, g) = get(c, g)
    <2> DEFINE b == Layout[g].at
               k == Layout[g].width
    <2>1. b \in Nat /\ k \in Nat /\ Layout[g].word \in {"low", "high"}
      BY Places
    <2>2. CASE Layout[g].word = i
      <3>1. b + k <= a \/ a + w <= b
        BY <2>2, Places DEF i, a, w
      <3> HIDE DEF b, k
      <3>2. bits(y, b, k) = bits(x, b, k)
        BY <1>1, <1>5, <1>6, <2>1, <3>1, OtherBits
      <3> QED
        BY <1>7, <2>2, <3>2 DEF get, bits, b, k, x
    <2>3. CASE Layout[g].word # i
      BY <1>7, <2>1, <2>3 DEF get
    <2> QED
      BY <2>2, <2>3
  <1> QED
    BY <1>7, <1>8, <1>9 DEF d

-----------------------------------------------------------------------------
(* The words read as asked, and the bits of the user as his positions.     *)
ReservePart ==
  /\ configuration \in Words /\ asked \in [Fields -> Nat]
  /\ \A f \in Fields : get(configuration, f) = asked[f]

UserPart ==
  /\ user_data \in Nat
  /\ positions \in [Kinds -> SUBSET (0 .. MAX_RESERVES - 1)]
  /\ \A kind \in Kinds, id \in 0 .. MAX_RESERVES - 1 :
       bits(user_data, shift(kind, id), 1) = 1 <=> id \in positions[kind]

WordsInv == ReservePart /\ UserPart

(* The words c read as the values q.                                       *)
ReadsAs(c, q) ==
  /\ c \in Words /\ q \in [Fields -> Nat]
  /\ \A f \in Fields : get(c, f) = q[f]

(* A put keeps the agreement of words and values.                          *)
LEMMA PutReads ==
  ASSUME NEW c, NEW q, ReadsAs(c, q), NEW f \in Fields, NEW v \in Nat,
         fits(f, v)
  PROVE  ReadsAs(put(c, f, v), [q EXCEPT ![f] = v])
  <1> DEFINE d == put(c, f, v)
             r == [q EXCEPT ![f] = v]
  <1>1. /\ d \in Words /\ get(d, f) = v
        /\ \A g \in Fields \ {f} : get(d, g) = get(c, g)
    BY Put DEF ReadsAs
  <1> HIDE DEF d
  <1>2. /\ r \in [Fields -> Nat] /\ r[f] = v
        /\ \A g \in Fields \ {f} : r[g] = q[g]
    BY DEF ReadsAs
  <1> HIDE DEF r
  <1> QED
    BY <1>1, <1>2 DEF ReadsAs, d, r

(* Values that are checked fit.                                            *)
LEMMA Fit ==
  /\ \A f \in InPoints, v \in Nat : f \in Fields /\ (in_points(v) => fits(f, v))
  /\ \A f \in Flags, v \in 0 .. 1 : f \in Fields /\ fits(f, v)
  /\ \A v \in Nat : v <= MAX_SAFE_DECIMALS => fits("decimals", v)
  <1>1. \A f \in InPoints : /\ f \in Fields
                            /\ BASIS_POINTS_MULTIPLIER < two_to[Layout[f].width]
                            /\ two_to[Layout[f].width] \in Nat
    BY LayoutAssumption, Places, TwoTo DEF FieldsAreWide, InPoints, Fields
  <1>2. \A f \in Flags : /\ f \in Fields /\ two_to[Layout[f].width] > 1
                         /\ two_to[Layout[f].width] \in Nat
    BY Places, TwoTo DEF Fields
  <1>3. /\ MAX_SAFE_DECIMALS < two_to[Layout["decimals"].width]
        /\ two_to[Layout["decimals"].width] \in Nat
    BY LayoutAssumption, Places, TwoTo DEF FieldsAreWide, Fields
  <1>4. \A v \in 0 .. 1 : v \in Nat /\ v <= 1
    OBVIOUS
  <1>5. BASIS_POINTS_MULTIPLIER \in Nat
    BY ScaleAssumption
  <1>6. MAX_SAFE_DECIMALS \in Nat
    BY ArgumentsAssumption
  <1>7. ASSUME NEW f \in InPoints, NEW v \in Nat, in_points(v)
        PROVE  fits(f, v)
    BY <1>1, <1>5, <1>7 DEF in_points, fits
  <1>8. ASSUME NEW f \in Flags, NEW v \in 0 .. 1
        PROVE  fits(f, v)
    BY <1>2 DEF fits
  <1>9. ASSUME NEW v \in Nat, v <= MAX_SAFE_DECIMALS
        PROVE  fits("decimals", v)
    BY <1>3, <1>6, <1>9 DEF fits
  <1> QED
    BY <1>1, <1>2, <1>7, <1>8, <1>9

-----------------------------------------------------------------------------
(* A pool is listed with words that read as its parameters.                *)
LEMMA WordsInit == ConfigurationInit => WordsInv
  <1> SUFFICES ASSUME ConfigurationInit PROVE WordsInv
    OBVIOUS
  <1>1. PICK ltv \in Points, threshold \in Points, decimals \in Decimals :
          /\ in_points(ltv) /\ in_points(threshold)
          /\ decimals <= MAX_SAFE_DECIMALS
          /\ configuration = packed(ltv, threshold, decimals)
          /\ asked = [f \in Fields |->
               CASE f = "ltv" -> ltv
                 [] f = "liquidation_threshold" -> threshold
                 [] f = "decimals" -> decimals
                 [] f = "active" -> 1
                 [] OTHER -> 0]
    BY DEF ConfigurationInit
  <1>2. ltv \in Nat /\ threshold \in Nat /\ decimals \in Nat
    BY ArgumentsAssumption
  <1> DEFINE q0 == [f \in Fields |-> 0]
             q1 == [q0 EXCEPT !["ltv"] = ltv]
             q2 == [q1 EXCEPT !["liquidation_threshold"] = threshold]
             q3 == [q2 EXCEPT !["decimals"] = decimals]
             q4 == [q3 EXCEPT !["active"] = 1]
             c1 == put(NoBits, "ltv", ltv)
             c2 == put(c1, "liquidation_threshold", threshold)
             c3 == put(c2, "decimals", decimals)
             c4 == put(c3, "active", 1)
  <1>3. ReadsAs(NoBits, q0)
    <2>1. NoBits \in Words /\ \A i \in {"low", "high"} : NoBits[i] = 0
      BY DEF NoBits, Words
    <2>2. \A n \in Nat : n > 0 => 0 \div n = 0 /\ 0 % n = 0
      <3> SUFFICES ASSUME NEW n \in Nat, n > 0
                   PROVE  0 \div n = 0 /\ 0 % n = 0
        OBVIOUS
      <3>1. 0 \in 0 .. n - 1 /\ 0 * n + 0 = 0
        OBVIOUS
      <3>2. (0 * n + 0) \div n = 0 /\ (0 * n + 0) % n = 0
        BY <3>1, DivModUnique
      <3> QED
        BY <3>1, <3>2
    <2>3. ASSUME NEW f \in Fields PROVE get(NoBits, f) = 0
      <3> DEFINE A == two_to[Layout[f].at]
                 W == two_to[Layout[f].width]
      <3>1. A \in Nat /\ A > 0 /\ W \in Nat /\ W > 0
        BY Places, TwoToPositive
      <3>2. NoBits[Layout[f].word] = 0
        BY <2>1, Places
      <3>3. 0 \div A = 0 /\ 0 % W = 0
        <4> HIDE DEF A, W
        <4> QED BY <2>2, <3>1
      <3> QED
        BY <3>2, <3>3 DEF get
    <2> QED
      BY <2>1, <2>3 DEF ReadsAs
  <1>4. /\ {"ltv", "liquidation_threshold", "decimals", "active"}
             \subseteq Fields
        /\ fits("ltv", ltv) /\ fits("liquidation_threshold", threshold)
        /\ fits("decimals", decimals) /\ fits("active", 1)
    <2>1. /\ "ltv" \in InPoints /\ "liquidation_threshold" \in InPoints
          /\ "active" \in Flags /\ 1 \in 0 .. 1 /\ "decimals" \in Fields
      BY DEF InPoints, Flags, Fields
    <2> QED
      BY <1>1, <1>2, <2>1, Fit
  <1>5. ReadsAs(c4, q4)
    <2> HIDE DEF q0, q1, q2, q3, q4, c1, c2, c3, c4
    <2>1. ReadsAs(c1, q1)
      BY <1>2, <1>3, <1>4, PutReads DEF c1, q1
    <2>2. ReadsAs(c2, q2)
      BY <1>2, <1>4, <2>1, PutReads DEF c2, q2
    <2>3. ReadsAs(c3, q3)
      BY <1>2, <1>4, <2>2, PutReads DEF c3, q3
    <2>4. 1 \in Nat
      OBVIOUS
    <2> QED
      BY <1>4, <2>3, <2>4, PutReads DEF c4, q4
  <1>6. configuration = c4 /\ asked = q4
    BY <1>1, <1>4 DEF packed
  <1>7. ReservePart
    <2> HIDE DEF q4, c4
    <2> QED BY <1>5, <1>6 DEF ReservePart, ReadsAs
  <1>8. UserPart
    <2>1. /\ user_data = 0 /\ positions = [k \in Kinds |-> {}]
          /\ MAX_RESERVES \in Nat
      BY ArgumentsAssumption DEF ConfigurationInit
    <2>2. ASSUME NEW kind \in Kinds, NEW id \in 0 .. MAX_RESERVES - 1
          PROVE  bits(0, shift(kind, id), 1) = 0
      <3> DEFINE A == two_to[shift(kind, id)]
      <3>1. shift(kind, id) \in Nat
        BY <2>1 DEF shift
      <3>2. A \in Nat /\ A > 0 /\ two_to[1] = 2
        <4>1. two_to[0 + 1] = 2 * 1
          BY TwoTo
        <4> QED BY <3>1, <4>1, TwoToPositive
      <3> HIDE DEF A
      <3>3. 0 \in 0 .. A - 1 /\ 0 * A + 0 = 0
        BY <3>2
      <3>4. (0 * A + 0) \div A = 0
        BY <3>2, <3>3, DivModUnique
      <3>5. 0 \div A = 0 /\ 0 % 2 = 0
        BY <3>3, <3>4
      <3> QED
        BY <3>2, <3>5 DEF bits, A
    <2> QED
      BY <2>1, <2>2 DEF UserPart
  <1> QED
    BY <1>7, <1>8 DEF WordsInv

(* Every setter of a field changes it as asked.                            *)
LEMMA ReserveStep ==
  ASSUME ReservePart, ConfigurationNext
  PROVE  ReservePart'
  <1>1. ReadsAs(configuration, asked)
    BY DEF ReservePart, ReadsAs
  <1>2. SUFFICES ReadsAs(configuration', asked')
    BY DEF ReservePart, ReadsAs
  <1>3. CASE UNCHANGED <<configuration, asked>>
    BY <1>1, <1>3
  <1>4. ASSUME NEW f \in Fields, NEW v \in Nat, fits(f, v),
               configuration' = put(configuration, f, v),
               asked' = [g \in Fields |-> IF g \in DOMAIN [h \in {f} |-> v]
                                          THEN [h \in {f} |-> v][g]
                                          ELSE asked[g]]
        PROVE  ReadsAs(configuration', asked')
    <2>1. asked' = [asked EXCEPT ![f] = v]
      <3>1. asked \in [Fields -> Nat]
        BY <1>1 DEF ReadsAs
      <3> QED BY <1>4, <3>1
    <2> QED
      BY <1>1, <1>4, <2>1, PutReads
  <1>5. ASSUME NEW f \in Switches, NEW v \in 0 .. 1, set_flag(f, v)
        PROVE  ReadsAs(configuration', asked')
    <2>1. f \in Fields /\ fits(f, v) /\ v \in Nat
      BY ArgumentsAssumption, Fit
    <2> QED
      BY <1>4, <1>5, <2>1 DEF set_flag, update_reserve_configuration, Asks
  <1>6. ASSUME NEW v \in Points, set_reserve_factor(v)
        PROVE  ReadsAs(configuration', asked')
    <2>1. "reserve_factor" \in InPoints /\ v \in Nat /\ in_points(v)
      BY <1>6, ArgumentsAssumption DEF InPoints, set_reserve_factor
    <2>2. "reserve_factor" \in Fields /\ fits("reserve_factor", v)
      BY <2>1, Fit
    <2>3. asked' = [g \in Fields |->
                      IF g \in DOMAIN [h \in {"reserve_factor"} |-> v]
                      THEN [h \in {"reserve_factor"} |-> v][g] ELSE asked[g]]
      BY <1>6 DEF set_reserve_factor, Asks
    <2>4. configuration' = put(configuration, "reserve_factor", v)
      BY <1>6 DEF set_reserve_factor, update_reserve_configuration
    <2> QED
      BY <1>4, <2>1, <2>2, <2>3, <2>4
  <1>7. ASSUME NEW v \in Numbers, NEW f \in Fields, set_number(f, v)
        PROVE  ReadsAs(configuration', asked')
    <2>1. v \in Nat /\ fits(f, v)
      BY <1>7, ArgumentsAssumption DEF set_number
    <2> QED
      BY <1>4, <1>7, <2>1 DEF set_number, Asks
  <1>8. ASSUME NEW ltv \in Points, NEW threshold \in Points,
               NEW bonus \in Points,
               configure_reserve_as_collateral(ltv, threshold, bonus)
        PROVE  ReadsAs(configuration', asked')
    <2> DEFINE q1 == [asked EXCEPT !["ltv"] = ltv]
               q2 == [q1 EXCEPT !["liquidation_threshold"] = threshold]
               q3 == [q2 EXCEPT !["liquidation_bonus"] = bonus]
               c1 == put(configuration, "ltv", ltv)
               c2 == put(c1, "liquidation_threshold", threshold)
               c3 == put(c2, "liquidation_bonus", bonus)
    <2>1. /\ ltv \in Nat /\ threshold \in Nat /\ bonus \in Nat
          /\ in_points(ltv) /\ in_points(threshold) /\ in_points(bonus)
      BY <1>8, ArgumentsAssumption DEF configure_reserve_as_collateral
    <2>2. /\ {"ltv", "liquidation_threshold", "liquidation_bonus"}
               \subseteq InPoints
      BY DEF InPoints
    <2>3. /\ {"ltv", "liquidation_threshold", "liquidation_bonus"}
               \subseteq Fields
          /\ fits("ltv", ltv) /\ fits("liquidation_threshold", threshold)
          /\ fits("liquidation_bonus", bonus)
      BY <2>1, <2>2, Fit
    <2>4. ReadsAs(c3, q3)
      <3> HIDE DEF q1, q2, q3, c1, c2, c3
      <3>1. ReadsAs(c1, q1)
        BY <1>1, <2>1, <2>3, PutReads DEF c1, q1
      <3>2. ReadsAs(c2, q2)
        BY <2>1, <2>3, <3>1, PutReads DEF c2, q2
      <3> QED
        BY <2>1, <2>3, <3>2, PutReads DEF c3, q3
    <2>5. configuration' = c3
      BY <1>8 DEF configure_reserve_as_collateral, update_reserve_configuration
    <2>6. asked' = q3
      <3>1. asked \in [Fields -> Nat]
        BY <1>1 DEF ReadsAs
      <3>2. asked' = [f \in Fields |->
              CASE f = "ltv" -> ltv
                [] f = "liquidation_threshold" -> threshold
                [] f = "liquidation_bonus" -> bonus
                [] OTHER -> asked[f]]
        BY <1>8 DEF configure_reserve_as_collateral, Asks
      <3> QED
        BY <2>3, <3>1, <3>2
    <2> QED
      BY <2>4, <2>5, <2>6
  <1>9. ASSUME NEW v \in Premiums,
               \/ set_flash_loan_premium_max(v)
               \/ \E name \in {"premium", "surcharge"} : set_premium(name, v)
        PROVE  UNCHANGED <<configuration, asked>>
    BY <1>9 DEF set_flash_loan_premium_max, set_premium
  <1>10. ASSUME NEW kind \in Kinds, NEW id \in Ids, NEW value \in BOOLEAN,
                set_position(kind, id, value)
         PROVE  UNCHANGED <<configuration, asked>>
    BY <1>10 DEF set_position
  <1> QED
    BY <1>3, <1>5, <1>6, <1>7, <1>8, <1>9, <1>10 DEF ConfigurationNext

(* Two bits of the user's word are apart.                                  *)
LEMMA BitPlaces ==
  ASSUME NEW kind \in Kinds, NEW id \in Nat, NEW other \in Kinds,
         NEW j \in Nat, <<kind, id>> # <<other, j>>
  PROVE  /\ shift(kind, id) \in Nat /\ shift(other, j) \in Nat
         /\ \/ shift(other, j) + 1 <= shift(kind, id)
            \/ shift(kind, id) + 1 <= shift(other, j)
  BY DEF shift, Kinds

(* A bit is one wide.                                                      *)
LEMMA TwoToOne == two_to[1] = 2
  <1>1. two_to[0 + 1] = 2 * 1
    BY TwoTo
  <1> QED BY <1>1

(* Setting a position changes its bit.                                     *)
LEMMA UserStep ==
  ASSUME UserPart, ConfigurationNext
  PROVE  UserPart'
  <1>1. CASE UNCHANGED <<user_data, positions>>
    BY <1>1 DEF UserPart
  <1>2. ASSUME NEW kind \in Kinds, NEW id \in Ids, NEW value \in BOOLEAN,
               set_position(kind, id, value)
        PROVE  UserPart'
    <2>1. id \in Nat /\ MAX_RESERVES \in Nat
      BY ArgumentsAssumption
    <2>2. positions \in [Kinds -> SUBSET (0 .. MAX_RESERVES - 1)]
      BY DEF UserPart
    <2>3. CASE id >= MAX_RESERVES
      <3>1. user_data' = user_data
        BY <1>2, <2>3 DEF set_position, with_bit
      <3>2. positions' = [positions EXCEPT ![kind] = @ \ {id}]
        <4>1. ~(id < MAX_RESERVES)
          BY <2>1, <2>3
        <4>2. positions' = [positions EXCEPT ![kind] =
                IF value /\ id < MAX_RESERVES THEN @ \union {id} ELSE @ \ {id}]
          BY <1>2 DEF set_position
        <4>3. CASE value
          BY <4>1, <4>2, <4>3
        <4>4. CASE ~value
          BY <4>2, <4>4
        <4> QED
          BY <4>3, <4>4
      <3>3. positions[kind] \ {id} = positions[kind]
        BY <2>1, <2>2, <2>3
      <3>4. positions' = positions
        BY <2>2, <3>2, <3>3
      <3> QED
        BY <3>1, <3>4, <1>1
    <2>4. CASE id < MAX_RESERVES
      <3> DEFINE at == shift(kind, id)
                 v == IF value THEN 1 ELSE 0
                 y == with_bits(user_data, at, 1, v)
      <3>1. v \in Nat /\ v < two_to[1] /\ at \in Nat /\ user_data \in Nat
        BY <2>1, TwoToOne DEF shift, UserPart
      <3>2. user_data' = y
        BY <1>2, <2>1, <2>4, TwoToOne
        DEF set_position, with_bit, with_bits, bits
      <3>3. y \in Nat /\ bits(y, at, 1) = v /\ same_around(user_data, y, at, 1)
        <4> HIDE DEF v
        <4>1. 1 \in Nat
          OBVIOUS
        <4> QED BY <3>1, <4>1, WithBits
      <3>4. positions' = [positions EXCEPT ![kind] =
                            IF value THEN @ \union {id} ELSE @ \ {id}]
        BY <1>2, <2>4 DEF set_position
      <3>5. positions' \in [Kinds -> SUBSET (0 .. MAX_RESERVES - 1)]
        BY <2>1, <2>2, <2>4, <3>4
      <3>6. ASSUME NEW other \in Kinds, NEW j \in 0 .. MAX_RESERVES - 1
            PROVE  bits(y, shift(other, j), 1) = 1 <=> j \in positions'[other]
        <4>1. CASE other = kind /\ j = id
          <5>1. j \in positions'[other] <=> value
            BY <2>2, <3>4, <4>1
          <5>2. v = 1 <=> value
            OBVIOUS
          <5> QED
            BY <3>3, <4>1, <5>1, <5>2
        <4>2. CASE ~(other = kind /\ j = id)
          <5>1. j \in positions'[other] <=> j \in positions[other]
            BY <2>2, <3>4, <4>2
          <5>2. j \in Nat /\ <<kind, id>> # <<other, j>> /\ 1 \in Nat
            BY <2>1, <4>2
          <5>3. /\ shift(other, j) \in Nat
                /\ \/ shift(other, j) + 1 <= at
                   \/ at + 1 <= shift(other, j)
            BY <2>1, <5>2, BitPlaces
          <5> HIDE DEF y, at
          <5>4. bits(y, shift(other, j), 1)
                  = bits(user_data, shift(other, j), 1)
            BY <3>1, <3>3, <5>2, <5>3, OtherBits
          <5> QED
            BY <5>1, <5>4 DEF UserPart
        <4> QED
          BY <4>1, <4>2
      <3> HIDE DEF y
      <3> QED
        BY <3>2, <3>3, <3>5, <3>6 DEF UserPart
    <2> QED
      BY <2>1, <2>3, <2>4
  <1>3. \/ UNCHANGED <<user_data, positions>>
        \/ \E kind \in Kinds, id \in Ids, value \in BOOLEAN :
             set_position(kind, id, value)
    BY DEF ConfigurationNext, configure_reserve_as_collateral, set_flag,
       update_reserve_configuration, set_reserve_factor, set_number,
       set_flash_loan_premium_max, set_premium
  <1> QED
    BY <1>1, <1>2, <1>3

(* What the pool derives from the bits agrees with the positions.          *)
LEMMA CountsAgree ==
  ASSUME WordsInv
  PROVE  WordsSayWhatWasAsked
  <1>1. MAX_RESERVES \in Nat /\ Ids \subseteq Nat
    BY ArgumentsAssumption
  <1>2. \A kind \in Kinds, id \in 0 .. MAX_RESERVES - 1 :
          is_set(user_data, kind, id) <=> id \in positions[kind]
    BY <1>1, TwoToOne DEF WordsInv, UserPart, is_set, bits
  <1>3. positions \in [Kinds -> SUBSET (0 .. MAX_RESERVES - 1)]
    BY DEF WordsInv, UserPart
  <1>4. ASSUME NEW kind \in Kinds, NEW id \in Ids
        PROVE  is_set(user_data, kind, id) <=> id \in positions[kind]
    <2>1. CASE id < MAX_RESERVES
      BY <1>1, <1>2, <2>1
    <2>2. CASE ~(id < MAX_RESERVES)
      BY <1>1, <1>3, <2>2 DEF is_set
    <2> QED
      BY <2>1, <2>2
  <1>5. "collateral" \in Kinds /\ "borrowing" \in Kinds
    BY DEF Kinds
  <1>6. get_active_reserve_ids(user_data)
          = positions["collateral"] \union positions["borrowing"]
    <2>1. ASSUME NEW id \in 0 .. MAX_RESERVES - 1
          PROVE  (user_data \div two_to[2 * id]) % 4 # 0
                   <=> \/ is_set(user_data, "collateral", id)
                       \/ is_set(user_data, "borrowing", id)
      <3> DEFINE A == two_to[2 * id]
                 q == user_data \div A
      <3>1. id \in Nat /\ id < MAX_RESERVES /\ 2 * id \in Nat
        BY <1>1
      <3>2. A \in Nat /\ A > 0 /\ two_to[2 * id + 1] = A * 2
        <4>1. two_to[2 * id + 1] = 2 * A /\ A \in Nat /\ A > 0
          BY <3>1, TwoTo, TwoToPositive
        <4> HIDE DEF A
        <4> QED BY <4>1
      <3>3. user_data \in Nat
        BY DEF WordsInv, UserPart
      <3> HIDE DEF A
      <3>4. q \in Nat /\ user_data \div (A * 2) = q \div 2
        BY <3>2, <3>3, DivModPair, DivTwice
      <3> HIDE DEF q
      <3>5. q % 4 # 0 <=> q % 2 = 1 \/ (q \div 2) % 2 = 1
        BY <3>4
      <3>6. shift("collateral", id) = 2 * id
            /\ shift("borrowing", id) = 2 * id + 1
        BY <3>1 DEF shift
      <3>7. /\ is_set(user_data, "collateral", id) <=> q % 2 = 1
            /\ is_set(user_data, "borrowing", id) <=> (q \div 2) % 2 = 1
        BY <3>1, <3>2, <3>4, <3>6 DEF is_set, q, A
      <3> QED
        BY <3>5, <3>7 DEF q, A
    <2>2. \A id \in 0 .. MAX_RESERVES - 1 :
            (user_data \div two_to[2 * id]) % 4 # 0
              <=> id \in positions["collateral"] \union positions["borrowing"]
      BY <1>2, <1>5, <2>1
    <2>3. positions["collateral"] \union positions["borrowing"]
            \subseteq 0 .. MAX_RESERVES - 1
      BY <1>3, <1>5
    <2> QED
      BY <2>2, <2>3 DEF get_active_reserve_ids
  <1>7. has_any_borrowing(user_data) <=> positions["borrowing"] # {}
    <2>1. positions["borrowing"] \subseteq 0 .. MAX_RESERVES - 1
      BY <1>3, <1>5
    <2> QED
      BY <1>2, <1>5, <2>1 DEF has_any_borrowing
  <1>8. \A f \in Fields : get(configuration, f) = asked[f]
    BY DEF WordsInv, ReservePart
  <1> QED
    BY <1>4, <1>6, <1>7, <1>8
    DEF WordsSayWhatWasAsked, count_active_reserves

(***************************************************************************)
(* For every layout whose fields are apart and wide enough, the code's     *)
(* among them, and every sequence of setters, each field reads as the      *)
(* value last asked for, each bit of a user as the position last set, and  *)
(* the counts agree with the bits (shared/src/utils.rs,                    *)
(* ReserveConfiguration and UserConfiguration).                            *)
(***************************************************************************)
THEOREM WordsAlwaysSay ==
  ConfigurationSpec => []WordsSayWhatWasAsked
  <1>1. WordsInv /\ [ConfigurationNext]_configuration_vars => WordsInv'
    <2>1. ASSUME WordsInv, UNCHANGED configuration_vars PROVE WordsInv'
      BY <2>1 DEF WordsInv, ReservePart, UserPart, configuration_vars
    <2>2. ASSUME WordsInv, ConfigurationNext PROVE WordsInv'
      BY <2>2, ReserveStep, UserStep DEF WordsInv
    <2> QED
      BY <2>1, <2>2
  <1>2. WordsInv => WordsSayWhatWasAsked
    BY CountsAgree
  <1> QED
    BY <1>1, <1>2, WordsInit, PTL DEF ConfigurationSpec

=============================================================================
