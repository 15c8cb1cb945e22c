---------------------------- MODULE LeaveRequest ----------------------------
(***************************************************************************)
(* LeaveRequestService (src/leave-request/leave-request.service.ts) over    *)
(* the leave_requests and leave_approvals tables.                           *)
(*                                                                         *)
(* Every handler is cut at its database round trips, because that is where *)
(* the Node event loop, other instances of the service and the database    *)
(* may interleave: transition() reads the row, drives the machine on that  *)
(* copy, and later replaces the whole row, with the audit row, in one       *)
(* transaction that does not look at what the row holds by then.           *)
(*                                                                         *)
(* A call (an HTTP request being served) is an element of Calls, used once *)
(* and for one handler; it also stands for the timestamp that the log       *)
(* record and the audit row share.                                          *)
(***************************************************************************)
EXTENDS LeaveMachine

CONSTANTS
    Requests,     \* ids of leave requests
    Calls,        \* calls of submit, approve, reject and cancel
    Chains,       \* approval chains that callers submit
    Extras,       \* dto.payload objects, as far as they use reserved keys
    LegacyRows,   \* rows written by the old two-step workflow
    NoCall,       \* the call of a record that transition() did not write
    NoRequest,
    NoRow,        \* the row of an id that is not in the table
    Malformed     \* a JSON value of the wrong type for its key

VARIABLES
    rows,         \* leave_requests
    audit,        \* leave_approvals
    positions,    \* user.payload.positionIds, maintained outside src/
    calls         \* the calls being served

vars == <<rows, audit, positions, calls>>

NoStep == -1      \* an undefined stepIndex

\* A TransitionRecord.  actorId, remarks and timestamp are left out: no
\* guard reads them, and the call stands for the timestamp.
Record == [call     : Calls \cup {NoCall},
           event    : EventTypes \cup {"CREATE"},
           from     : StateValues \cup {"none"},
           to       : StateValues,
           step     : Int,
           approver : Users \cup {NoUser}]

\* The reserved keys of the payload column.
Payload == [stateValue   : StateValues \cup {Malformed},
            chain        : Seq(Identities) \cup {Malformed},
            step         : Int \cup {Malformed},
            lastApprover : Users \cup {NoUser},
            log          : Seq(Record) \cup {Malformed}]

Row == [status : Statuses, submittedAt : Calls \cup {NoCall}, payload : Payload]

AuditRow == [request : Requests, call : Calls, action : EventTypes,
             approver : Users, positions : SUBSET Positions]

\* pc: idle -> (resolved ->) read -> done, or done at once on an error.  The
\* caller may be told of an error (answer "500") while pc is still "read": the
\* transaction it knows nothing of any more is under way at the database.
Call == [pc      : {"idle", "resolved", "read", "done"},
         request : Requests \cup {NoRequest},
         event   : Event,
         row     : Row \cup {NoRow},
         answer  : {"none", "200", "400", "404", "409", "500"}]

IdleCall == [pc |-> "idle", request |-> NoRequest, event |-> CancelEvent,
             row |-> NoRow, answer |-> "none"]

-----------------------------------------------------------------------------
(* Reading a stored row: a key of the wrong JSON type reads as its default. *)

Log(row) == IF row.payload.log = Malformed THEN << >> ELSE row.payload.log

Rehydrate(row) ==
    [chain        |-> IF row.payload.chain = Malformed THEN << >>
                      ELSE row.payload.chain,
     step         |-> IF row.payload.step = Malformed THEN 0
                      ELSE row.payload.step,
     lastApprover |-> row.payload.lastApprover]

StateOf(row) == StateOfStatus[row.status]

Terminal(row) == row.status \in TerminalStatuses

\* The record transition() appends: the step is the one being satisfied,
\* read before advanceStepIndex.
RecordOf(c, row, e, t) ==
    [call     |-> c,
     event    |-> e.type,
     from     |-> StateOf(row),
     to       |-> t,
     step     |-> IF CarriesApprover(e) THEN Rehydrate(row).step ELSE NoStep,
     approver |-> e.approver]

\* The row that replaces the one a call has read.
RowAfterForgettingSubmission(c, row, e, t) ==
    LET ctx == ContextAfter(Rehydrate(row), e, t) IN
    [status      |-> StatusOfState[t],
     submittedAt |-> IF e.type = "SUBMIT" THEN c ELSE NoCall,
     payload     |-> [stateValue   |-> t,
                      chain        |-> ctx.chain,
                      step         |-> ctx.step,
                      lastApprover |-> ctx.lastApprover,
                      log          |-> Append(Log(row), RecordOf(c, row, e, t))]]

RowAfterRestartingTheLog(c, row, e, t) ==
    LET ctx == ContextAfter(Rehydrate(row), e, t) IN
    [status      |-> StatusOfState[t],
     submittedAt |-> IF e.type = "SUBMIT" THEN c ELSE row.submittedAt,
     payload     |-> [stateValue   |-> t,
                      chain        |-> ctx.chain,
                      step         |-> ctx.step,
                      lastApprover |-> ctx.lastApprover,
                      log          |-> <<RecordOf(c, row, e, t)>>]]

RowAfter(c, row, e, t) ==
    LET ctx == ContextAfter(Rehydrate(row), e, t) IN
    [status      |-> StatusOfState[t],
     submittedAt |-> IF e.type = "SUBMIT" THEN c ELSE row.submittedAt,
     payload     |-> [stateValue   |-> t,
                      chain        |-> ctx.chain,
                      step         |-> ctx.step,
                      lastApprover |-> ctx.lastApprover,
                      log          |-> Append(Log(row), RecordOf(c, row, e, t))]]

AuditOfEveryEvent(c, r, e) ==
    {[request |-> r, call |-> c, action |-> e.type,
      approver |-> e.approver, positions |-> e.positions]}

AuditOf(c, r, e) ==
    IF CarriesApprover(e)
    THEN {[request |-> r, call |-> c, action |-> e.type,
           approver |-> e.approver, positions |-> e.positions]}
    ELSE {}

-----------------------------------------------------------------------------
(* create(): one insert.  The caller's payload is spread last, so its keys  *)
(* win over the reserved ones.                                              *)

InitialPayload ==
    [stateValue   |-> "draft",
     chain        |-> << >>,
     step         |-> 0,
     lastApprover |-> NoUser,
     log          |-> <<[call |-> NoCall, event |-> "CREATE", from |-> "none",
                         to |-> "draft", step |-> NoStep, approver |-> NoUser]>>]

CreatedPayload(extra) ==
    [k \in DOMAIN InitialPayload |->
        IF k \in DOMAIN extra THEN extra[k] ELSE InitialPayload[k]]

Create(r, extra) ==
    /\ rows[r] = NoRow
    /\ rows' = [rows EXCEPT ![r] = [status      |-> "DRAFT",
                                    submittedAt |-> NoCall,
                                    payload     |-> CreatedPayload(extra)]]
    /\ UNCHANGED <<audit, positions, calls>>

\* What the model assumes of its parameters: payloads and legacy rows have
\* the types above and hold no record of a call yet to come, and a legacy
\* row is one the old workflow left in progress.
WithoutCalls(payload) ==
    payload.log # Malformed =>
        \A i \in 1..Len(payload.log) : payload.log[i].call = NoCall

ASSUME RequestAssumption ==
    /\ NoCall \notin Calls
    /\ NoRow \notin Row
    /\ Malformed \notin Seq(Record) \cup Seq(Identities) \cup StateValues \cup Int
    /\ Chains \subseteq Seq(Identities)
    /\ \A x \in Extras : CreatedPayload(x) \in Payload /\ WithoutCalls(CreatedPayload(x))
    /\ LegacyRows \subseteq Row
    /\ \A row \in LegacyRows :
          /\ row.status \in {"PENDING_APPROVAL", "APPROVED_BY_SUPERVISOR"}
          /\ WithoutCalls(row.payload)

-----------------------------------------------------------------------------
(* transition(): findUnique, then everything up to the $transaction, which *)
(* runs without giving up the event loop.                                   *)

Ends(c, r, e, code) ==
    calls' = [calls EXCEPT ![c] = [pc |-> "done", request |-> r, event |-> e,
                                   row |-> NoRow, answer |-> code]]

Transition(c, r, e) ==
    /\ \/ rows[r] = NoRow /\ Ends(c, r, e, "404")
       \/ rows[r] # NoRow /\ Terminal(rows[r]) /\ Ends(c, r, e, "409")
       \/ /\ rows[r] # NoRow /\ ~Terminal(rows[r])
          /\ ~Can(StateOf(rows[r]), Rehydrate(rows[r]), e)
          /\ Ends(c, r, e, "400")
       \/ /\ rows[r] # NoRow /\ ~Terminal(rows[r])
          /\ Can(StateOf(rows[r]), Rehydrate(rows[r]), e)
          /\ calls' = [calls EXCEPT ![c] = [pc |-> "read", request |-> r, event |-> e,
                                            row |-> rows[r], answer |-> "none"]]
    /\ UNCHANGED <<rows, audit, positions>>

Submit(c, r, chain) ==
    /\ calls[c].pc = "idle"
    /\ Transition(c, r, SubmitEvent(chain))

\* reject() passes no positionIds; the DTO lets blank remarks through.
Reject(c, r, u, remarks) ==
    /\ calls[c].pc = "idle"
    /\ Transition(c, r, RejectEvent(u, remarks))

Cancel(c, r) ==
    /\ calls[c].pc = "idle"
    /\ Transition(c, r, CancelEvent)

\* approve() first reads the positions the actor holds ...
ResolvePositions(c, r, u) ==
    /\ calls[c].pc = "idle"
    /\ calls' = [calls EXCEPT ![c] =
           [pc |-> "resolved", request |-> r,
            event |-> ApproveEvent(u, positions[u]), row |-> NoRow, answer |-> "none"]]
    /\ UNCHANGED <<rows, audit, positions>>

\* ... and then calls transition() with them.
Approve(c) ==
    /\ calls[c].pc = "resolved"
    /\ Transition(c, calls[c].request, calls[c].event)

\* What the $transaction writes: the row is found by id alone and replaced,
\* and a decision gets its audit row.
StoreRow(c) ==
    LET r == calls[c].request
        e == calls[c].event
        row == calls[c].row
    IN \E t \in StateValues :
         /\ Fires(StateOf(row), Rehydrate(row), e, t)
         /\ rows' = [rows EXCEPT ![r] = RowAfter(c, row, e, t)]

\* The $transaction commits; a caller that was not told of an error yet is
\* answered with the row.
Persist(c) ==
    /\ calls[c].pc = "read"
    /\ StoreRow(c)
    /\ audit' = audit \cup AuditOf(c, calls[c].request, calls[c].event)
    /\ Ends(c, calls[c].request, calls[c].event,
            IF calls[c].answer = "none" THEN "200" ELSE "500")
    /\ UNCHANGED positions

\* The connection fails, or the process dies, while COMMIT is under way: the
\* caller gets an error, and the transaction still commits (Persist) or rolls
\* back (Fail).
LoseAcknowledgement(c) ==
    /\ calls[c].pc = "read" /\ calls[c].answer = "none"
    /\ calls' = [calls EXCEPT ![c].answer = "500"]
    /\ UNCHANGED <<rows, audit, positions>>

FailWithRowStored(c) ==
    /\ calls[c].pc \in {"resolved", "read"}
    /\ IF calls[c].pc = "read" THEN StoreRow(c) ELSE UNCHANGED rows
    /\ Ends(c, calls[c].request, calls[c].event, "500")
    /\ UNCHANGED <<audit, positions>>

\* A round trip fails, or the transaction rolls back: the caller gets an
\* error and nothing was written.
Fail(c) ==
    /\ calls[c].pc \in {"resolved", "read"}
    /\ Ends(c, calls[c].request, calls[c].event, "500")
    /\ UNCHANGED <<rows, audit, positions>>

\* HR administration, outside src/, changes the positions a user holds.
SetPositions(u, held) ==
    /\ held # positions[u]
    /\ positions' = [positions EXCEPT ![u] = held]
    /\ UNCHANGED <<rows, audit, calls>>

-----------------------------------------------------------------------------

Init ==
    /\ rows \in [Requests -> LegacyRows \cup {NoRow}]
    /\ audit = {}
    /\ positions = [u \in Users |-> {}]
    /\ calls = [c \in Calls |-> IdleCall]

Next ==
    \/ \E r \in Requests, x \in Extras : Create(r, x)
    \/ \E c \in Calls, r \in Requests :
          \/ \E chain \in Chains : Submit(c, r, chain)
          \/ \E u \in Users : ResolvePositions(c, r, u)
          \/ \E u \in Users, m \in {"blank", "written"} : Reject(c, r, u, m)
          \/ Cancel(c, r)
    \/ \E c \in Calls : Approve(c) \/ Persist(c) \/ LoseAcknowledgement(c) \/ Fail(c)
    \/ \E u \in Users, held \in SUBSET Positions : SetPositions(u, held)

Spec == Init /\ [][Next]_vars

-----------------------------------------------------------------------------
(* Properties under any interleaving.                                      *)

\* Every variable stays in its type; in particular each row that a racing
\* transition() stores is a well-formed row again.
TypeOK ==
    /\ rows \in [Requests -> Row \cup {NoRow}]
    /\ audit \subseteq AuditRow
    /\ positions \in [Users -> SUBSET Positions]
    /\ calls \in [Calls -> Call]

\* k is the place of the SUBMIT record that this service wrote.
SubmittedAt(row, k) ==
    /\ k \in 1..Len(Log(row))
    /\ Log(row)[k].event = "SUBMIT"
    /\ Log(row)[k].call # NoCall

\* One of the audit rows trail is that of rec, and shows that its actor had
\* the identity of the slot.
Authorised(trail, r, rec, slot) ==
    \E a \in trail :
        /\ a.request = r /\ a.call = rec.call
        /\ a.action = rec.event /\ a.approver = rec.approver
        /\ slot \in {a.approver} \cup a.positions

\* The n records after the k-th approve the first n slots, in order.
ApprovesInOrder(trail, r, row, k, n) ==
    \A j \in 1..n :
        /\ Log(row)[k + j].event = "APPROVE"
        /\ Log(row)[k + j].step = j - 1
        /\ Authorised(trail, r, Log(row)[k + j], row.payload.chain[j])

FollowsChain(trail, r, row) ==
    \A k \in 1..Len(Log(row)) : SubmittedAt(row, k) =>
        LET n == Len(Log(row)) - k
            len == Len(row.payload.chain)
            last == Log(row)[k + n]
        IN /\ row.payload.chain \in Seq(Identities)
           /\ \/ /\ row.status = "PENDING_APPROVAL"
                 /\ row.payload.step = n /\ n < len
                 /\ ApprovesInOrder(trail, r, row, k, n)
              \/ /\ row.status = "APPROVED"
                 /\ n = len /\ len > 0
                 /\ ApprovesInOrder(trail, r, row, k, n)
              \/ /\ row.status = "REJECTED"
                 /\ n \in 1..len
                 /\ ApprovesInOrder(trail, r, row, k, n - 1)
                 /\ last.event = "REJECT" /\ last.step = n - 1
                 /\ Authorised(trail, r, last, row.payload.chain[n])
              \/ /\ row.status = "CANCELLED"
                 /\ n \in 1..len
                 /\ ApprovesInOrder(trail, r, row, k, n - 1)
                 /\ last.event = "CANCEL"

\* Whatever races, a stored request that was submitted here is explained by
\* its own log: PENDING with currentStepIndex n means the first n slots were
\* approved in order, APPROVED means every slot was, REJECTED and CANCELLED
\* that the last record did it at the slot reached; and every decision was
\* made by someone holding that slot's identity, as its audit row shows.
HistoryFollowsChain ==
    \A r \in Requests : rows[r] # NoRow => FollowsChain(audit, r, rows[r])

\* The same for the copies of the row that calls are working on: any of them
\* may be stored next.
CopiesFollowChain ==
    \A c \in Calls :
        /\ calls[c].pc \in {"resolved", "read"} =>
              /\ calls[c].request \in Requests
              /\ CarriesApprover(calls[c].event) => calls[c].event.approver \in Users
        /\ calls[c].pc = "read" =>
              /\ calls[c].row \in Row
              /\ FollowsChain(audit, calls[c].request, calls[c].row)

\* The inductive invariant.
ChainInv == TypeOK /\ HistoryFollowsChain /\ CopiesFollowChain

\* The log is one path through the machine: once transition() has written,
\* everything after is its own, each record starts where the one before it
\* ended, and the fields stored beside the log (status, _stateValue,
\* lastApproverId, submittedAt) are those of its last records.
IsPath(row) ==
    \A i \in 1..Len(Log(row)) :
        LET rec == Log(row)[i] IN
        rec.call # NoCall =>
            /\ i < Len(Log(row)) =>
                  /\ Log(row)[i + 1].call # NoCall
                  /\ Log(row)[i + 1].from = rec.to
            /\ i = Len(Log(row)) =>
                  /\ row.status = StatusOfState[rec.to]
                  /\ row.payload.stateValue = rec.to
                  /\ CarriesApprover([type |-> rec.event]) =>
                        row.payload.lastApprover = rec.approver
            /\ rec.event = "SUBMIT" => row.submittedAt = rec.call

LogIsAPath == \A r \in Requests : rows[r] # NoRow => IsPath(rows[r])

\* A call has come to its end and may have written: it was answered with
\* success, or with an error after its COMMIT was sent.
MayHaveWritten(c) == calls[c].pc = "done" /\ calls[c].answer \in {"200", "500"}

\* a is the audit row of what call c did to request r.
AuditRowOf(a, c, r) ==
    a.call = c /\ a.request = r /\ a.action = calls[c].event.type

\* All or nothing, acknowledged or not.  Each record of a stored log is what
\* its call asked of this request, once, and a recorded decision has its audit
\* row; each audit row is of what its call asked; a decision answered with
\* success was audited.  So a call that was refused, or is under way (also
\* one whose caller was told of an error already), has left nothing, and one
\* that ended with an error has left both rows or none: a caller who tries
\* again finds it decided or not, never in between.
AnswersTellTheTruth ==
    /\ \A r \in Requests : rows[r] # NoRow =>
          \A i \in 1..Len(Log(rows[r])) :
              LET c == Log(rows[r])[i].call IN
              c # NoCall =>
                  /\ MayHaveWritten(c)
                  /\ calls[c].request = r
                  /\ calls[c].event.type = Log(rows[r])[i].event
                  /\ CarriesApprover(calls[c].event) => \E a \in audit : AuditRowOf(a, c, r)
                  /\ \A j \in 1..Len(Log(rows[r])) : Log(rows[r])[j].call = c => j = i
    /\ \A a \in audit :
          /\ MayHaveWritten(a.call)
          /\ AuditRowOf(a, a.call, calls[a.call].request)
    /\ \A c \in Calls :
          calls[c].answer = "200" /\ CarriesApprover(calls[c].event) =>
              \E a \in audit : AuditRowOf(a, c, calls[c].request)

-----------------------------------------------------------------------------
(* What the comments of the code promise.  They hold when no two calls work *)
(* on one request at the same time (SerialSpec), and not otherwise.          *)

Holds(c, r) == calls[c].pc = "read" /\ calls[c].request = r

OneAtATime ==
    \A r \in Requests : \A c, d \in Calls : Holds(c, r) /\ Holds(d, r) => c = d

SerialSpec == Init /\ [][Next /\ OneAtATime']_vars

TerminalStaysFinal ==
    \A r \in Requests :
        rows[r] # NoRow /\ Terminal(rows[r]) => rows'[r] = rows[r]

\* "Terminal states - no outbound transitions": a terminal row never changes.
TerminalIsFinal == [][TerminalStaysFinal]_vars

\* The workflow's view of a row: the phase it is in, ...
Phase(row) ==
    IF row = NoRow THEN "none"
    ELSE IF StateOf(row) = "approving" THEN "pending" ELSE StateOf(row)

\* ... the slots still to be passed, if the row has a slot at its index at all
\* (the old approverIds rows have no approvalChain), ...
AtASlot(row) ==
    StateOf(row) = "approving" /\ Rehydrate(row).step + 1 \in 1..Len(Rehydrate(row).chain)

Left(row) ==
    IF row # NoRow /\ AtASlot(row)
    THEN SubSeq(Rehydrate(row).chain, Rehydrate(row).step + 1, Len(Rehydrate(row).chain))
    ELSE << >>

\* ... and what transition() has logged, without the CREATE record and without
\* what a payload brought along.
Trail(row) ==
    IF row = NoRow THEN {}
    ELSE {[act |-> rec.call, event |-> rec.event, approver |-> rec.approver] :
             rec \in {Log(row)[i] : i \in {j \in 1..Len(Log(row)) : Log(row)[j].call # NoCall}}}

Phases == [r \in Requests |-> Phase(rows[r])]
Lefts  == [r \in Requests |-> Left(rows[r])]
Trails == [r \in Requests |-> Trail(rows[r])]

Workflow == INSTANCE LeaveWorkflow WITH
    Acts <- Calls, Nobody <- NoUser, phase <- Phases, left <- Lefts, trail <- Trails

\* The service implements the workflow that its comments describe: "Set once at
\* SUBMIT; never mutated afterwards" (the chain is only consumed, slot by
\* slot), "no outbound transitions" of a terminal state, "Immutable once
\* written" (the trail only grows, by the act of the call); and a legacy row
\* without a slot at its index can only be cancelled.
ImplementsWorkflow == Workflow!Spec

\* The audit trail and the log tell the same story: no audited decision is
\* missing from the log of its request, also none whose caller was told of an
\* error.
AuditedDecisionsAreLogged ==
    \A a \in audit :
        /\ rows[a.request] # NoRow
        /\ \E i \in 1..Len(Log(rows[a.request])) :
              /\ Log(rows[a.request])[i].call = a.call
              /\ Log(rows[a.request])[i].event = a.action

=============================================================================
