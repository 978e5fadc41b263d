------------------------------ MODULE Account -------------------------------
(***************************************************************************)
(* What the wallets of a canteen promise, without saying how: a charge is  *)
(* one step that tests the parent's rules, the cap of the day and the      *)
(* balance as they are and takes the money; a top-up that was asked for is *)
(* credited once; only an authorised edit changes the rules of its wallet; *)
(* and an answer is true of what was settled.  An error promises nothing.  *)
(***************************************************************************)
EXTENDS Integers

CONSTANTS
    Students,    \* owners of accounts
    Opening,     \* student -> [balance, limit, blocked] at the start
    Columns,     \* the lists a parent can block by
    Purchases, TopUps, Hooks, Edits,    \* the requests, by kind
    Owner,       \* request -> its student
    Sellable,    \* purchases of listed items that are in stock
    CostOf,      \* purchase -> what it costs
    TagsIn,      \* purchase -> the tags of its items
    AmountOf,    \* top-up -> what it is worth
    Confirms,    \* callback -> the top-up it confirms
    Authorised,  \* edits by a parent of the student
    NewLimit,    \* edit -> the cap it sets
    KeepLimit,   \* the value of NewLimit that leaves the cap alone
    NewBlocked   \* edit -> column -> tags, for the columns it sets

VARIABLES
    balance,   \* student -> what is in the account
    spent,     \* student -> what was charged today
    limit,     \* student -> the daily cap, 0 for none
    blocked,   \* student -> column -> the tags that are blocked
    asked,     \* top-ups that the gateway may confirm
    settled,   \* purchases and top-ups that have moved a balance
    answer     \* request -> "none", "ok", "refused" or "failed"

vars == <<balance, spent, limit, blocked, asked, settled, answer>>

Requests == Purchases \cup TopUps \cup Hooks \cup Edits

Init ==
    /\ balance = [s \in Students |-> Opening[s].balance]
    /\ spent = [s \in Students |-> 0]
    /\ limit = [s \in Students |-> Opening[s].limit]
    /\ blocked = [s \in Students |-> Opening[s].blocked]
    /\ asked = {} /\ settled = {}
    /\ answer = [r \in Requests |-> "none"]

Charge(p) ==
    LET s == Owner[p]
    IN  /\ answer[p] = "none" /\ p \notin settled
        /\ p \in Sellable
        /\ \A c \in Columns : TagsIn[p] \cap blocked[s][c] = {}
        /\ CostOf[p] <= balance[s]
        /\ limit[s] > 0 => spent[s] + CostOf[p] <= limit[s]
        /\ balance' = [balance EXCEPT ![s] = @ - CostOf[p]]
        /\ spent' = [spent EXCEPT ![s] = @ + CostOf[p]]
        /\ settled' = settled \cup {p}
        /\ UNCHANGED <<limit, blocked, asked, answer>>

Ask(t) ==
    /\ answer[t] = "none"
    /\ asked' = asked \cup {t}
    /\ UNCHANGED <<balance, spent, limit, blocked, settled, answer>>

Credit(t) ==
    /\ t \in asked \ settled
    /\ balance' = [balance EXCEPT ![Owner[t]] = @ + AmountOf[t]]
    /\ settled' = settled \cup {t}
    /\ UNCHANGED <<spent, limit, blocked, asked, answer>>

Limited(e) == [limit EXCEPT ![Owner[e]] = IF NewLimit[e] = KeepLimit THEN @
                                          ELSE NewLimit[e]]

\* The first edit of a wallet can set the cap and fail before the rest.
SetLimit(e) ==
    /\ answer[e] = "none" /\ e \in Authorised
    /\ limit' = Limited(e)
    /\ UNCHANGED <<balance, spent, blocked, asked, settled, answer>>

SetRules(e) ==
    /\ answer[e] = "none" /\ e \in Authorised
    /\ limit' = Limited(e)
    /\ blocked' = [blocked EXCEPT ![Owner[e]] =
          [c \in Columns |-> IF c \in DOMAIN NewBlocked[e] THEN NewBlocked[e][c]
                             ELSE @[c]]]
    /\ answer' = [answer EXCEPT ![e] = "ok"]
    /\ UNCHANGED <<balance, spent, asked, settled>>

\* What has to be so for the answer to be an "ok".
Done(r) == \/ r \in Purchases /\ r \in settled
           \/ r \in TopUps /\ r \in asked
           \/ r \in Hooks /\ Confirms[r] \in settled

Tell(r, a) ==
    /\ answer[r] = "none"
    /\ a = "ok" => Done(r)
    /\ a = "refused" => r \notin settled
    /\ answer' = [answer EXCEPT ![r] = a]
    /\ UNCHANGED <<balance, spent, limit, blocked, asked, settled>>

Midnight ==
    /\ spent' = [s \in Students |-> 0]
    /\ UNCHANGED <<balance, limit, blocked, asked, settled, answer>>

Next ==
    \/ \E p \in Purchases : Charge(p)
    \/ \E t \in TopUps : Ask(t) \/ Credit(t)
    \/ \E e \in Edits : SetLimit(e) \/ SetRules(e)
    \/ \E r \in Requests, a \in {"ok", "refused", "failed"} : Tell(r, a)
    \/ Midnight

Spec == Init /\ [][Next]_vars
=============================================================================
