------------------------------- MODULE Custody -------------------------------
(***************************************************************************)
(* What a market promises about money, with no prices, pools or buckets:   *)
(* users' deposits are split once between a fee vault and a vault, the     *)
(* protocol owes exactly what the vault holds, only a withdrawal or a      *)
(* harvest takes from it, and no more than is owed.  Clearing moves money  *)
(* between the parties it is owed to and is invisible here.                *)
(* (crates/protocol-harness/src/lib.rs, assert_funds_conserved and the     *)
(* methods it follows.)                                                    *)
(***************************************************************************)
EXTENDS Integers

VARIABLES vault, feeVault, deposits, withdrawals, owed

vars == <<vault, feeVault, deposits, withdrawals, owed>>

Init ==
  /\ vault = 0 /\ feeVault = 0 /\ deposits = 0 /\ withdrawals = 0 /\ owed = 0

Deposit(fee, principal) ==
  /\ feeVault' = feeVault + fee
  /\ vault' = vault + principal
  /\ owed' = owed + principal
  /\ deposits' = deposits + fee + principal
  /\ UNCHANGED withdrawals

Withdraw(amount) ==
  /\ amount \in 0 .. owed
  /\ vault' = vault - amount
  /\ owed' = owed - amount
  /\ withdrawals' = withdrawals + amount
  /\ UNCHANGED <<feeVault, deposits>>

Collect(amount) ==
  /\ amount \in 0 .. owed
  /\ vault' = vault - amount
  /\ owed' = owed - amount
  /\ feeVault' = feeVault + amount
  /\ UNCHANGED <<deposits, withdrawals>>

(* The amounts are read off the step, so that TLC need not enumerate them. *)
Next ==
  \/ /\ feeVault' >= feeVault /\ vault' >= vault
     /\ Deposit(feeVault' - feeVault, vault' - vault)
  \/ Withdraw(withdrawals' - withdrawals)
  \/ Collect(feeVault' - feeVault)

Spec == Init /\ [][Next]_vars

(* Every unit is in a vault or was paid out, and the vault covers the debt.*)
Backed ==
  /\ vault = owed
  /\ deposits = withdrawals + vault + feeVault
=============================================================================
