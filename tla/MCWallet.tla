------------------------------ MODULE MCWallet ------------------------------
(***************************************************************************)
(* A wallet small enough for TLC.  The wallets of two students share no    *)
(* column, no row and no lock, so one student is enough: s1 with an open   *)
(* wallet of 8 and a cap of 10, or a newly enrolled s1 without a wallet.  *)
(***************************************************************************)
EXTENDS Wallet

CONSTANTS s1, cola, water, twice, h1, h2, t1, raise, block, forged

MCTags == {"drinks", "cola"}
MCMenu == {"water", "cola"}
MCPrice == [i \in MCMenu |-> IF i = "cola" THEN 6 ELSE 4]
MCTagsOf == [i \in MCMenu |-> IF i = "cola" THEN {"cola", "drinks"}
                              ELSE {"drinks"}]

Open  == [s \in Students |->
            [exists |-> TRUE, balance |-> 8, dailyLimit |-> 10,
             blocked |-> [c \in Columns |-> {}], isActive |-> TRUE]]
Newly == [s \in Students |-> NoWallet]

One(item) == [item |-> item, qty |-> 1]

\* `twice' names one item on two lines, which the catalogue query refuses.
MCPurchaseOf == [p \in Purchases |->
    [student |-> s1,
     cart |-> CASE p = cola  -> <<One("cola")>>
                [] p = water -> <<One("water")>>
                [] OTHER     -> <<One("water"), One("water")>>]]

MCTopUpOf == [t \in TopUps |-> [student |-> s1, amount |-> 11]]

\* Every delivery confirms the same top-up: the gateway repeats itself.
MCHookRef == [k \in Hooks |-> t1]

\* `raise' sets a cap, `block' blocks an item, `forged' is not a parent's.
MCEditOf == [e \in Edits |->
    [student |-> s1, authorised |-> e # forged,
     dailyLimit |-> CASE e = raise -> 9 [] e = block -> NoChange [] OTHER -> 0,
     blocked |-> [c \in IF e = block THEN {"blockedItemIds"} ELSE {} |->
                    {"cola"}]]]
=============================================================================
