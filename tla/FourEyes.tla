------------------------------ MODULE FourEyes ------------------------------
(***************************************************************************)
(* What docs/module-purchase-requests.md promises of a purchase request,   *)
(* without coroutines, snapshots or locks: a decision is taken once, by    *)
(* the second supporter or by the first veto, and nobody supports a        *)
(* request of their own.                                                   *)
(***************************************************************************)
EXTENDS Naturals, FiniteSets

CONSTANTS Users, Board, Requests

VARIABLES
    decision,   \* per request: "ABSENT", "OPEN", "APPROVED" or "REJECTED"
    owners,     \* per request: who asked for it or entered it
    supporters  \* per request: who approved it

absVars == <<decision, owners, supporters>>

Init ==
    /\ decision = [r \in Requests |-> "ABSENT"]
    /\ owners = [r \in Requests |-> {}]
    /\ supporters = [r \in Requests |-> {}]

Ask(u, r) ==
    /\ decision[r] = "ABSENT"
    /\ decision' = [decision EXCEPT ![r] = "OPEN"]
    /\ owners' = [owners EXCEPT ![r] = {u}]
    /\ UNCHANGED supporters

Support(u, r) ==
    /\ decision[r] = "OPEN"
    /\ u \in Board \ (owners[r] \cup supporters[r])
    /\ supporters' = [supporters EXCEPT ![r] = @ \cup {u}]
    /\ decision' = [decision EXCEPT ![r] =
                        IF supporters[r] = {} THEN "OPEN" ELSE "APPROVED"]
    /\ UNCHANGED owners

Veto(u, r) ==
    /\ decision[r] = "OPEN"
    /\ u \in Board
    /\ decision' = [decision EXCEPT ![r] = "REJECTED"]
    /\ UNCHANGED <<owners, supporters>>

Next == \E u \in Users, r \in Requests : Ask(u, r) \/ Support(u, r) \/ Veto(u, r)

Spec == Init /\ [][Next]_absVars
=============================================================================
