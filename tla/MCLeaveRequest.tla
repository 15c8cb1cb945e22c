--------------------------- MODULE MCLeaveRequest ---------------------------
(***************************************************************************)
(* Small instances of LeaveRequest: two users, one position, chains of one *)
(* and two slots.                                                          *)
(***************************************************************************)
EXTENDS LeaveRequest, TLC

CONSTANTS u1, u2, p1

MCUsers == {u1, u2}
MCPositions == {p1}

\* A user and a position; the other user alone: two SUBMITs that race can
\* disagree on the chain and on its length.
MCChains == {<<u1, p1>>, <<u2>>}

\* A chain of two slots, both reachable by one actor holding p1.
MCOneChain == {<<u1, p1>>}

NoExtra == << >>

\* What a client may put under the reserved keys: a state of its choosing, a
\* log that pretends to approve, or values of other types.
ForgedLog == <<[call |-> NoCall, event |-> "APPROVE", from |-> "approving",
                to |-> "approved", step |-> 0, approver |-> u1]>>
MCExtras == {NoExtra,
             [stateValue |-> "approved", log |-> ForgedLog],
             [chain |-> Malformed, step |-> Malformed, log |-> Malformed]}
MCNoExtras == {NoExtra}
MCNoLegacy == {}

LegacyPayload(chain, step) ==
    [stateValue |-> "approving", chain |-> chain, step |-> step,
     lastApprover |-> NoUser, log |-> Malformed]

\* An approverIds row of the old workflow, and one that has a chain and waits
\* at its second slot.
MCLegacy ==
    {[status |-> "PENDING_APPROVAL", submittedAt |-> NoCall,
      payload |-> LegacyPayload(Malformed, Malformed)],
     [status |-> "APPROVED_BY_SUPERVISOR", submittedAt |-> NoCall,
      payload |-> LegacyPayload(<<u1, u2>>, 1)]}

Symmetry == Permutations(Calls)
=============================================================================
