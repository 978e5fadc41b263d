----------------------------- MODULE SlotGrants -----------------------------
(***************************************************************************)
(* What a parent-teacher conference promises, without saying how: a slot   *)
(* that has been offered is granted to at most one eligible request and    *)
(* stays granted to it, a request is told that it won only if the slot is  *)
(* its own, and is told that the slot is taken only if it has been         *)
(* granted.  Any other answer (a refusal, an error) promises nothing.      *)
(***************************************************************************)
CONSTANTS
    Slots,      \* conference slots
    Requests,   \* booking requests
    Nobody,     \* the holder of a free slot
    Wanted,     \* request -> the slot it asks for
    Eligible    \* the requests that may hold their slot

VARIABLES
    offered,    \* slots that parents can ask for
    holder,     \* slot -> the request it is granted to, or Nobody
    answer      \* request -> "none", "won", "taken" or "other"

vars == <<offered, holder, answer>>

Init == /\ offered = {}
        /\ holder = [s \in Slots |-> Nobody]
        /\ answer = [r \in Requests |-> "none"]

Offer(s) == /\ s \notin offered
            /\ offered' = offered \cup {s}
            /\ UNCHANGED <<holder, answer>>

\* The grant and its answer are one step; the answer can be lost.
Grant(r) == /\ answer[r] = "none"
            /\ r \in Eligible
            /\ Wanted[r] \in offered
            /\ holder[Wanted[r]] = Nobody
            /\ holder' = [holder EXCEPT ![Wanted[r]] = r]
            /\ \E a \in {"won", "other"} : answer' = [answer EXCEPT ![r] = a]
            /\ UNCHANGED offered

Deny(r) == /\ answer[r] = "none"
           /\ holder[Wanted[r]] # Nobody
           /\ answer' = [answer EXCEPT ![r] = "taken"]
           /\ UNCHANGED <<offered, holder>>

Dismiss(r) == /\ answer[r] = "none"
              /\ answer' = [answer EXCEPT ![r] = "other"]
              /\ UNCHANGED <<offered, holder>>

Next == \/ \E s \in Slots : Offer(s)
        \/ \E r \in Requests : Grant(r) \/ Deny(r) \/ Dismiss(r)

Spec == Init /\ [][Next]_vars
=============================================================================
