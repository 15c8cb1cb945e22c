---------------------------- MODULE LeaveMachine ----------------------------
(***************************************************************************)
(* The leave-request state machine of src/leave-request/                   *)
(* leave-request.machine.ts: its status/state maps, its guards and the     *)
(* effect of its actions on the context.  The machine is pure (no I/O), so *)
(* it is a module of constant operators; LeaveRequest drives it from the   *)
(* service's handlers, which is where the interleavings are.               *)
(*                                                                         *)
(* A chain slot holds the id of a user or of a position.  Chain indexes    *)
(* are the code's (from 0): the slot at index i is chain[i + 1].           *)
(***************************************************************************)
EXTENDS Integers, Sequences

CONSTANTS
    Users,        \* user ids
    Positions,    \* position / role ids that a user may hold
    NoUser        \* an absent approverId

Identities == Users \cup Positions

ASSUME NoUserAssumption == NoUser \notin Identities

Statuses == {"DRAFT", "PENDING_APPROVAL", "APPROVED_BY_SUPERVISOR",
             "APPROVED", "REJECTED", "CANCELLED"}

TerminalStatuses == {"APPROVED", "REJECTED", "CANCELLED"}

StateValues == {"draft", "approving", "approved", "rejected", "cancelled"}

\* STATE_TO_STATUS: what the service stores for a machine state.
StatusOfState ==
    [draft     |-> "DRAFT",
     approving |-> "PENDING_APPROVAL",
     approved  |-> "APPROVED",
     rejected  |-> "REJECTED",
     cancelled |-> "CANCELLED"]

\* STATUS_TO_STATE: the state a stored row is rehydrated into; the legacy
\* status of the old two-step graph is read as approving.
StateOfStatus ==
    [DRAFT                  |-> "draft",
     PENDING_APPROVAL       |-> "approving",
     APPROVED_BY_SUPERVISOR |-> "approving",
     APPROVED               |-> "approved",
     REJECTED               |-> "rejected",
     CANCELLED              |-> "cancelled"]

EventTypes == {"SUBMIT", "APPROVE", "REJECT", "CANCEL"}

\* ALLOWED_EVENTS_BY_STATUS: what the UI is told it may offer.
AllowedEvents ==
    [DRAFT                  |-> {"SUBMIT", "CANCEL"},
     PENDING_APPROVAL       |-> {"APPROVE", "REJECT", "CANCEL"},
     APPROVED_BY_SUPERVISOR |-> {"APPROVE", "REJECT", "CANCEL"},
     APPROVED               |-> {},
     REJECTED               |-> {},
     CANCELLED              |-> {}]

-----------------------------------------------------------------------------
(* Events and contexts.                                                    *)

\* Remarks matter only to hasRemarks: absent, blank after trim(), or written.
Remarks == {"absent", "blank", "written"}

Event == [type      : EventTypes,
          approver  : Users \cup {NoUser},
          positions : SUBSET Positions,
          remarks   : Remarks,
          chain     : Seq(Identities)]

SubmitEvent(chain) == [type |-> "SUBMIT", approver |-> NoUser, positions |-> {},
                       remarks |-> "absent", chain |-> chain]
ApproveEvent(u, held) == [type |-> "APPROVE", approver |-> u, positions |-> held,
                          remarks |-> "absent", chain |-> << >>]
RejectEvent(u, remarks) == [type |-> "REJECT", approver |-> u, positions |-> {},
                            remarks |-> remarks, chain |-> << >>]
CancelEvent == [type |-> "CANCEL", approver |-> NoUser, positions |-> {},
                remarks |-> "absent", chain |-> << >>]

Context == [chain        : Seq(Identities),
            step         : Int,
            lastApprover : Users \cup {NoUser}]

\* 'approverId' in event
CarriesApprover(e) == e.type \in {"APPROVE", "REJECT"}

-----------------------------------------------------------------------------
(* Guards.                                                                 *)

HasApprovalChain(e) == e.type = "SUBMIT" /\ e.chain # << >>

IsAuthorisedApproverOfAnySlot(ctx, e) ==
    /\ CarriesApprover(e)
    /\ ctx.step + 1 \in 1..Len(ctx.chain)
    /\ \E i \in 1..Len(ctx.chain) : ctx.chain[i] \in {e.approver} \cup e.positions

IsAuthorisedWithoutSlot(ctx, e) ==
    /\ CarriesApprover(e)
    /\ ctx.step + 1 \in 1..Len(ctx.chain) =>
          ctx.chain[ctx.step + 1] \in {e.approver} \cup e.positions

\* chain[currentStepIndex] must exist and be one of the actor's identities.
IsAuthorisedApprover(ctx, e) ==
    /\ CarriesApprover(e)
    /\ ctx.step + 1 \in 1..Len(ctx.chain)
    /\ ctx.chain[ctx.step + 1] \in {e.approver} \cup e.positions

IsLastStep(ctx) == ctx.step >= Len(ctx.chain) - 1

NotLastStep(ctx) == ctx.step < Len(ctx.chain) - 1

HasRemarks(e) == e.remarks = "written"

-----------------------------------------------------------------------------
(* Transitions: from state s with context ctx, event e is taken to t.      *)

Fires(s, ctx, e, t) ==
    \/ /\ s = "draft" /\ t = "approving"
       /\ HasApprovalChain(e)
    \/ /\ s \in {"draft", "approving"} /\ t = "cancelled"
       /\ e.type = "CANCEL"
    \/ /\ s = "approving" /\ t = "approving"
       /\ e.type = "APPROVE" /\ IsAuthorisedApprover(ctx, e) /\ NotLastStep(ctx)
    \/ /\ s = "approving" /\ t = "approved"
       /\ e.type = "APPROVE" /\ IsAuthorisedApprover(ctx, e) /\ IsLastStep(ctx)
    \/ /\ s = "approving" /\ t = "rejected"
       /\ e.type = "REJECT" /\ IsAuthorisedApprover(ctx, e) /\ HasRemarks(e)

\* snapshot.can(event)
Can(s, ctx, e) == \E t \in StateValues : Fires(s, ctx, e, t)

\* The context after e was taken to t: initApprovalChain on SUBMIT,
\* setApproverCtx on APPROVE and REJECT, advanceStepIndex on an APPROVE
\* that stays in approving.
ContextAfter(ctx, e, t) ==
    [chain        |-> IF e.type = "SUBMIT" THEN e.chain ELSE ctx.chain,
     step         |-> IF e.type = "SUBMIT" THEN 0
                      ELSE IF e.type = "APPROVE" /\ t = "approving" THEN ctx.step + 1
                      ELSE ctx.step,
     lastApprover |-> IF e.type = "CANCEL" THEN ctx.lastApprover
                      ELSE e.approver]
=============================================================================
