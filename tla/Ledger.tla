------------------------------- MODULE Ledger -------------------------------
(***************************************************************************)
(* What the Shield promises about money, with every wait, lock and cache   *)
(* of the implementation abstracted away.  An agent funds a balance; the   *)
(* Shield hands out vouchers (challenge nonces) that name a price and,     *)
(* when the price was discounted, the one agent it was discounted for; a   *)
(* voucher is redeemed at most once, by an agent it may be redeemed by,    *)
(* for at least its price, out of that agent's own balance.                *)
(***************************************************************************)
EXTENDS Integers

CONSTANTS Agents,    \* whoever can hold a balance
          Vouchers,  \* the vouchers that can ever be handed out
          Amounts,   \* what can be funded, asked or paid
          NoOne      \* the holder of a voucher anybody may redeem

Unissued == [price |-> 0, holder |-> NoOne, issued |-> FALSE]

VARIABLES balance,   \* balance[a]: what agent a can still spend
          voucher,   \* voucher[v]: price and holder of v
          redeemed   \* the vouchers already redeemed

ledgerVars == <<balance, voucher, redeemed>>

LedgerInit ==
    /\ balance = [a \in Agents |-> 0]
    /\ voucher = [v \in Vouchers |-> Unissued]
    /\ redeemed = {}

Fund(a, amount) ==
    /\ balance' = [balance EXCEPT ![a] = @ + amount]
    /\ UNCHANGED <<voucher, redeemed>>

Offer(v) ==
    /\ ~voucher[v].issued
    /\ voucher'[v] \in [price : Amounts, holder : Agents \cup {NoOne}, issued : {TRUE}]
    /\ voucher' = [voucher EXCEPT ![v] = voucher'[v]]
    /\ UNCHANGED <<balance, redeemed>>

Redeem(v) ==
    /\ voucher[v].issued
    /\ v \notin redeemed
    /\ redeemed' = redeemed \cup {v}
    /\ UNCHANGED voucher
    /\ \E a \in Agents, amount \in Amounts :
         /\ voucher[v].holder \in {NoOne, a}
         /\ amount >= voucher[v].price
         /\ amount <= balance[a]
         /\ balance' = [balance EXCEPT ![a] = @ - amount]

LedgerNext ==
    \/ \E a \in Agents, amount \in Amounts : Fund(a, amount)
    \/ \E v \in Vouchers : Offer(v) \/ Redeem(v)

LedgerSpec == LedgerInit /\ [][LedgerNext]_ledgerVars
=============================================================================
