---------------------------- MODULE LeaveWorkflow ----------------------------
(***************************************************************************)
(* What a leave request promises its users, without rows, payloads, logs   *)
(* or machines: a draft is handed to a chain of approvers, each slot of the *)
(* chain is passed once, in order and by someone who has its identity, one *)
(* rejection or cancellation ends it, an ended request never moves again,  *)
(* and everything that ever happened to it stays on its trail.             *)
(*                                                                         *)
(* LeaveRequest implements this when its calls do not race (SerialSpec).   *)
(***************************************************************************)
EXTENDS Integers, Sequences

CONSTANTS
    Requests,
    Users,
    Positions,    \* what a user may hold, and a chain may name
    Acts,         \* what users do to requests, each once
    Nobody        \* the approver of an act that is no decision

VARIABLES
    phase,        \* of a request: none, draft, pending, approved, rejected, cancelled
    left,         \* the slots still to be passed, in order
    trail         \* the acts that have been done to it

vars == <<phase, left, trail>>

\* The requests that the old workflow left in progress are there from the start.
Init ==
    /\ phase \in [Requests -> {"none", "pending"}]
    /\ left \in [Requests -> Seq(Users \cup Positions)]
    /\ \A r \in Requests : phase[r] = "none" => left[r] = << >>
    /\ trail = [r \in Requests |-> {}]

\* Act a moves request r to phase p with chain to go, and is remembered.
Moves(a, r, event, u, p, chain) ==
    /\ phase' = [phase EXCEPT ![r] = p]
    /\ left' = [left EXCEPT ![r] = chain]
    /\ \A done \in trail[r] : done.act # a
    /\ trail' = [trail EXCEPT ![r] = @ \cup {[act |-> a, event |-> event, approver |-> u]}]

Open(r) ==
    /\ phase[r] = "none"
    /\ phase' = [phase EXCEPT ![r] = "draft"]
    /\ UNCHANGED <<left, trail>>

Submit(a, r) ==
    /\ phase[r] = "draft"
    /\ left'[r] \in Seq(Users \cup Positions) \ {<< >>}
    /\ Moves(a, r, "SUBMIT", Nobody, "pending", left'[r])

\* u, holding the positions held, has the identity of the slot that is next.
IsNext(r, u, held) ==
    /\ phase[r] = "pending"
    /\ left[r] # << >>
    /\ Head(left[r]) \in {u} \cup held

Approve(a, r, u, held) ==
    /\ IsNext(r, u, held)
    /\ Moves(a, r, "APPROVE", u, IF Len(left[r]) = 1 THEN "approved" ELSE "pending",
             Tail(left[r]))

Reject(a, r, u, held) ==
    /\ IsNext(r, u, held)
    /\ Moves(a, r, "REJECT", u, "rejected", << >>)

Cancel(a, r) ==
    /\ phase[r] \in {"draft", "pending"}
    /\ Moves(a, r, "CANCEL", Nobody, "cancelled", << >>)

Next ==
    \E r \in Requests :
        \/ Open(r)
        \/ \E a \in Acts :
              \/ Submit(a, r)
              \/ Cancel(a, r)
              \/ \E u \in Users, held \in SUBSET Positions :
                    Approve(a, r, u, held) \/ Reject(a, r, u, held)

Spec == Init /\ [][Next]_vars
=============================================================================
