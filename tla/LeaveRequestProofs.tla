------------------------- MODULE LeaveRequestProofs -------------------------
(***************************************************************************)
(* Theorems about LeaveRequest, for any users, positions, requests, calls, *)
(* chains and legacy rows.                                                 *)
(*                                                                         *)
(* The last part is the refinement: LeaveRequest implements LeaveWorkflow  *)
(* when no two calls work on one request at the same time.  The step that  *)
(* matters is Persist: it replaces a row by one computed from a copy, and  *)
(* only because the copy is still the row (SerialInv) is that a step of    *)
(* the request and not a jump back to an older one.                        *)
(***************************************************************************)
EXTENDS LeaveRequest, TLAPS, SequenceTheorems

-----------------------------------------------------------------------------
(* The machine.                                                            *)

\* "notLastStep XOR isLastStep": an event is taken to at most one state, so
\* the order of the entries in the machine's APPROVE array does not matter.
THEOREM Deterministic ==
    ASSUME NEW ctx \in Context, NEW e \in Event, NEW s \in StateValues,
           NEW t \in StateValues, NEW u \in StateValues,
           Fires(s, ctx, e, t), Fires(s, ctx, e, u)
    PROVE  t = u
BY DEF Fires, Context, Event, IsLastStep, NotLastStep, HasApprovalChain

LEMMA ContextAfterType ==
    ASSUME NEW ctx \in Context, NEW e \in Event, NEW t \in StateValues
    PROVE  ContextAfter(ctx, e, t) \in Context
BY DEF ContextAfter, Context, Event

-----------------------------------------------------------------------------
(* Rows.                                                                   *)

LEMMA LogType ==
    ASSUME NEW row \in Row
    PROVE  Log(row) \in Seq(Record)
BY DEF Log, Row, Payload

LEMMA RehydrateType ==
    ASSUME NEW row \in Row
    PROVE  Rehydrate(row) \in Context
BY DEF Rehydrate, Context, Row, Payload

LEMMA StateOfType ==
    ASSUME NEW row \in Row
    PROVE  StateOf(row) \in StateValues
BY DEF StateOf, StateOfStatus, StateValues, Row, Statuses

LEMMA RecordOfType ==
    ASSUME NEW c \in Calls, NEW row \in Row, NEW e \in Event, NEW t \in StateValues
    PROVE  RecordOf(c, row, e, t) \in Record
<1>1. Rehydrate(row).step \in Int
  BY RehydrateType DEF Context
<1>2. StateOf(row) \in StateValues
  BY StateOfType
<1>. QED
  BY <1>1, <1>2 DEF RecordOf, Record, Event, NoStep, CarriesApprover

LEMMA RowAfterType ==
    ASSUME NEW c \in Calls, NEW row \in Row, NEW e \in Event, NEW t \in StateValues
    PROVE  RowAfter(c, row, e, t) \in Row
<1>. DEFINE ctx == ContextAfter(Rehydrate(row), e, t)
<1>1. ctx \in Context
  BY RehydrateType, ContextAfterType
<1>2. Append(Log(row), RecordOf(c, row, e, t)) \in Seq(Record)
  BY LogType, RecordOfType
<1>3. StatusOfState[t] \in Statuses
  BY DEF StatusOfState, Statuses, StateValues
<1>4. row.submittedAt \in Calls \cup {NoCall}
  BY DEF Row
<1>. HIDE DEF ctx
<1>5. [stateValue |-> t, chain |-> ctx.chain, step |-> ctx.step,
       lastApprover |-> ctx.lastApprover,
       log |-> Append(Log(row), RecordOf(c, row, e, t))] \in Payload
  BY <1>1, <1>2 DEF Payload, Context
<1>. QED
  BY <1>3, <1>4, <1>5 DEF RowAfter, Row, ctx

LEMMA CreatedRowType ==
    ASSUME NEW x \in Extras
    PROVE  [status |-> "DRAFT", submittedAt |-> NoCall,
            payload |-> CreatedPayload(x)] \in Row
BY RequestAssumption DEF Row, Statuses

LEMMA EventsOfCalls ==
    /\ \A chain \in Chains : SubmitEvent(chain) \in Event
    /\ \A u \in Users, held \in SUBSET Positions : ApproveEvent(u, held) \in Event
    /\ \A u \in Users, m \in {"blank", "written"} : RejectEvent(u, m) \in Event
    /\ CancelEvent \in Event
BY RequestAssumption
   DEF SubmitEvent, ApproveEvent, RejectEvent, CancelEvent, Event, EventTypes, Remarks

-----------------------------------------------------------------------------
(* Type correctness.                                                       *)

LEMMA TransitionType ==
    ASSUME TypeOK, NEW c \in Calls, NEW r \in Requests, NEW e \in Event,
           Transition(c, r, e)
    PROVE  TypeOK'
<1>1. rows[r] # NoRow => rows[r] \in Row
  BY DEF TypeOK
<1>2. calls' \in [Calls -> Call]
  BY <1>1 DEF TypeOK, Transition, Ends, Call
<1>. QED
  BY <1>2 DEF TypeOK, Transition

\* What a commit does, whatever its caller is told.
LEMMA PersistEffect ==
    ASSUME NEW c \in Calls, Persist(c)
    PROVE  \E t \in StateValues, code \in {"200", "500"} :
              /\ Fires(StateOf(calls[c].row), Rehydrate(calls[c].row), calls[c].event, t)
              /\ rows' = [rows EXCEPT ![calls[c].request] =
                             RowAfter(c, calls[c].row, calls[c].event, t)]
              /\ audit' = audit \cup AuditOf(c, calls[c].request, calls[c].event)
              /\ Ends(c, calls[c].request, calls[c].event, code)
BY DEF Persist, StoreRow

LEMMA PersistType ==
    ASSUME TypeOK, CopiesFollowChain, NEW c \in Calls, Persist(c)
    PROVE  TypeOK'
<1>. DEFINE r == calls[c].request
            e == calls[c].event
<1>1. /\ e \in Event
      /\ r \in Requests
      /\ calls[c].row \in Row
      /\ CarriesApprover(e) => e.approver \in Users
  BY DEF TypeOK, Call, CopiesFollowChain, Persist
<1>2. PICK t \in StateValues, code \in {"200", "500"} :
           /\ rows' = [rows EXCEPT ![r] = RowAfter(c, calls[c].row, e, t)]
           /\ audit' = audit \cup AuditOf(c, r, e)
           /\ Ends(c, r, e, code)
  BY PersistEffect
<1>3. RowAfter(c, calls[c].row, e, t) \in Row
  BY <1>1, RowAfterType
<1>4. rows' \in [Requests -> Row \cup {NoRow}]
  BY <1>2, <1>3 DEF TypeOK
<1>5. AuditOf(c, r, e) \subseteq AuditRow
  BY <1>1 DEF AuditOf, AuditRow, Event
<1>6. calls' \in [Calls -> Call]
  BY <1>1, <1>2 DEF TypeOK, Ends, Call
<1>. QED
  BY <1>2, <1>4, <1>5, <1>6 DEF TypeOK, Persist

-----------------------------------------------------------------------------
(* One transition extends an explained history to an explained history.    *)

\* What replacing the row does to its log.
LEMMA LogAfter ==
    ASSUME NEW c \in Calls, NEW row \in Row, NEW e \in Event, NEW t \in StateValues
    PROVE  /\ Log(RowAfter(c, row, e, t)) = Append(Log(row), RecordOf(c, row, e, t))
           /\ Len(Log(RowAfter(c, row, e, t))) = Len(Log(row)) + 1
           /\ \A i \in 1..Len(Log(row)) : Log(RowAfter(c, row, e, t))[i] = Log(row)[i]
           /\ Log(RowAfter(c, row, e, t))[Len(Log(row)) + 1] = RecordOf(c, row, e, t)
<1>1. Append(Log(row), RecordOf(c, row, e, t)) \in Seq(Record)
  BY LogType, RecordOfType
<1>2. Append(Log(row), RecordOf(c, row, e, t)) # Malformed
  BY <1>1, RequestAssumption
<1>3. Log(RowAfter(c, row, e, t)) = Append(Log(row), RecordOf(c, row, e, t))
  BY <1>2 DEF RowAfter, Log
<1>. QED
  BY <1>3, LogType, RecordOfType

\* The audit trail only grows, which keeps every history explained.
LEMMA FollowsChainMonotone ==
    ASSUME NEW trail, NEW longer, trail \subseteq longer,
           NEW r \in Requests, NEW row \in Row, FollowsChain(trail, r, row)
    PROVE  FollowsChain(longer, r, row)
<1>1. \A rec, slot : Authorised(trail, r, rec, slot) => Authorised(longer, r, rec, slot)
  BY DEF Authorised
<1>2. \A k, n : ApprovesInOrder(trail, r, row, k, n) => ApprovesInOrder(longer, r, row, k, n)
  BY <1>1 DEF ApprovesInOrder
<1>3. ASSUME NEW k \in 1..Len(Log(row)), SubmittedAt(row, k)
      PROVE  LET n == Len(Log(row)) - k
                 len == Len(row.payload.chain)
                 last == Log(row)[k + n]
             IN /\ row.payload.chain \in Seq(Identities)
                /\ \/ /\ row.status = "PENDING_APPROVAL"
                      /\ row.payload.step = n /\ n < len
                      /\ ApprovesInOrder(longer, r, row, k, n)
                   \/ /\ row.status = "APPROVED"
                      /\ n = len /\ len > 0
                      /\ ApprovesInOrder(longer, r, row, k, n)
                   \/ /\ row.status = "REJECTED"
                      /\ n \in 1..len
                      /\ ApprovesInOrder(longer, r, row, k, n - 1)
                      /\ last.event = "REJECT" /\ last.step = n - 1
                      /\ Authorised(longer, r, last, row.payload.chain[n])
                   \/ /\ row.status = "CANCELLED"
                      /\ n \in 1..len
                      /\ ApprovesInOrder(longer, r, row, k, n - 1)
                      /\ last.event = "CANCEL"
  BY <1>1, <1>2, <1>3, Zenon DEF FollowsChain
<1>. QED
  BY <1>3, Zenon DEF FollowsChain

LEMMA RowAfterFollowsChain ==
    ASSUME NEW trail, NEW r \in Requests, NEW c \in Calls, NEW row \in Row,
           NEW e \in Event, NEW t \in StateValues,
           FollowsChain(trail, r, row),
           Fires(StateOf(row), Rehydrate(row), e, t),
           AuditOf(c, r, e) \subseteq trail
    PROVE  FollowsChain(trail, r, RowAfter(c, row, e, t))
<1>. DEFINE new == RowAfter(c, row, e, t)
            rec == RecordOf(c, row, e, t)
            old == Len(Log(row))
<1>1. /\ Len(Log(new)) = old + 1
      /\ \A i \in 1..old : Log(new)[i] = Log(row)[i]
      /\ Log(new)[old + 1] = rec
      /\ old \in Nat
  BY LogAfter, LogType
<1>2. /\ new.status = StatusOfState[t]
      /\ new.payload.chain = ContextAfter(Rehydrate(row), e, t).chain
      /\ new.payload.step = ContextAfter(Rehydrate(row), e, t).step
  BY DEF RowAfter
<1>3. SUFFICES ASSUME NEW k \in 1..Len(Log(new)), SubmittedAt(new, k)
      PROVE  LET n == Len(Log(new)) - k
                 len == Len(new.payload.chain)
                 last == Log(new)[k + n]
             IN /\ new.payload.chain \in Seq(Identities)
                /\ \/ /\ new.status = "PENDING_APPROVAL"
                      /\ new.payload.step = n /\ n < len
                      /\ ApprovesInOrder(trail, r, new, k, n)
                   \/ /\ new.status = "APPROVED"
                      /\ n = len /\ len > 0
                      /\ ApprovesInOrder(trail, r, new, k, n)
                   \/ /\ new.status = "REJECTED"
                      /\ n \in 1..len
                      /\ ApprovesInOrder(trail, r, new, k, n - 1)
                      /\ last.event = "REJECT" /\ last.step = n - 1
                      /\ Authorised(trail, r, last, new.payload.chain[n])
                   \/ /\ new.status = "CANCELLED"
                      /\ n \in 1..len
                      /\ ApprovesInOrder(trail, r, new, k, n - 1)
                      /\ last.event = "CANCEL"
  BY DEF FollowsChain
<1>. HIDE DEF new
<1>4. CASE k = old + 1
  <2>1. e.type = "SUBMIT"
    BY <1>1, <1>3, <1>4 DEF SubmittedAt, RecordOf
  <2>2. t = "approving" /\ e.chain \in Seq(Identities) /\ e.chain # << >>
    BY <2>1 DEF Fires, HasApprovalChain, Event
  <2>3. /\ new.status = "PENDING_APPROVAL"
        /\ new.payload.chain = e.chain
        /\ new.payload.step = 0
    BY <1>2, <2>1, <2>2 DEF StatusOfState, ContextAfter
  <2>4. Len(Log(new)) - k = 0 /\ Len(e.chain) > 0
    BY <1>1, <1>4, <2>2
  <2>5. ApprovesInOrder(trail, r, new, k, 0)
    BY DEF ApprovesInOrder
  <2>. QED
    BY <2>2, <2>3, <2>4, <2>5
<1>5. CASE k \in 1..old
  <2>. DEFINE n == old - k
              chain == row.payload.chain
  <2>1. SubmittedAt(row, k)
    BY <1>1, <1>3, <1>5 DEF SubmittedAt
  <2>2. StateOf(row) \in {"draft", "approving"}
    BY DEF Fires
  <2>3. /\ row.status = "PENDING_APPROVAL"
        /\ row.payload.step = n /\ n < Len(chain)
        /\ ApprovesInOrder(trail, r, row, k, n)
        /\ chain \in Seq(Identities)
    BY <1>5, <2>1, <2>2 DEF FollowsChain, StateOf, StateOfStatus
  <2>4. Rehydrate(row).chain = chain /\ Rehydrate(row).step = n
    <3>1. chain # Malformed
      BY <2>3, RequestAssumption
    <3>2. n \in Int /\ row.payload.step # Malformed
      BY <1>1, <1>5, <2>3, RequestAssumption
    <3>. QED
      BY <2>3, <3>1, <3>2 DEF Rehydrate
  <2>5. StateOf(row) = "approving" /\ e.type # "SUBMIT"
    BY <2>3 DEF StateOf, StateOfStatus, Fires, HasApprovalChain
  <2>6. new.payload.chain = chain
    BY <1>2, <2>4, <2>5 DEF ContextAfter
  <2>7. n \in Nat /\ Len(Log(new)) - k = n + 1 /\ Log(new)[k + (n + 1)] = rec
    BY <1>1, <1>5
  <2>8. ApprovesInOrder(trail, r, new, k, n)
    <3>1. \A j \in 1..n : Log(new)[k + j] = Log(row)[k + j]
      BY <1>1, <1>5, <2>7
    <3>. QED
      BY <2>3, <2>6, <3>1 DEF ApprovesInOrder
  <2>9. ASSUME CarriesApprover(e), IsAuthorisedApprover(Rehydrate(row), e)
        PROVE  rec.step = n /\ Authorised(trail, r, rec, chain[n + 1])
    <3>1. rec.step = n /\ rec.event = e.type /\ rec.call = c /\ rec.approver = e.approver
      BY <2>4, <2>9 DEF RecordOf
    <3>2. [request |-> r, call |-> c, action |-> e.type,
           approver |-> e.approver, positions |-> e.positions] \in trail
      BY <2>9 DEF AuditOf
    <3>3. chain[n + 1] \in {e.approver} \cup e.positions
      BY <2>4, <2>9 DEF IsAuthorisedApprover
    <3>. QED
      BY <3>1, <3>2, <3>3 DEF Authorised
  <2>10. rec.event = e.type
    BY DEF RecordOf
  <2>11. CASE e.type = "CANCEL"
    <3>1. new.status = "CANCELLED"
      BY <1>2, <2>11 DEF Fires, HasApprovalChain, StatusOfState
    <3>. QED
      BY <2>3, <2>6, <2>7, <2>8, <2>10, <2>11, <3>1
  <2>12. CASE e.type = "REJECT"
    <3>1. t = "rejected" /\ IsAuthorisedApprover(Rehydrate(row), e)
      BY <2>12 DEF Fires, HasApprovalChain
    <3>2. new.status = "REJECTED"
      BY <1>2, <3>1 DEF StatusOfState
    <3>3. rec.step = n /\ Authorised(trail, r, rec, chain[n + 1])
      BY <2>9, <2>12, <3>1 DEF CarriesApprover
    <3>4. /\ n + 1 \in 1..Len(chain) /\ (n + 1) - 1 = n
          /\ Log(new)[k + (n + 1)].event = "REJECT"
          /\ Log(new)[k + (n + 1)].step = n
      BY <2>3, <2>7, <2>10, <2>12, <3>3
    <3>. QED
      BY <2>3, <2>6, <2>7, <2>8, <3>2, <3>3, <3>4
  <2>13. CASE e.type = "APPROVE"
    <3>1. IsAuthorisedApprover(Rehydrate(row), e)
      BY <2>13 DEF Fires, HasApprovalChain
    <3>2. rec.step = n /\ Authorised(trail, r, rec, chain[n + 1])
      BY <2>9, <2>13, <3>1 DEF CarriesApprover
    <3>3. ApprovesInOrder(trail, r, new, k, n + 1)
      <4>1. \A j \in 1..(n + 1) : j \in 1..n \/ j = n + 1
        BY <2>7
      <4>2. /\ Log(new)[k + (n + 1)].event = "APPROVE"
            /\ Log(new)[k + (n + 1)].step = (n + 1) - 1
            /\ Authorised(trail, r, Log(new)[k + (n + 1)], new.payload.chain[n + 1])
        BY <2>6, <2>7, <2>10, <2>13, <3>2
      <4>. QED
        BY <2>8, <4>1, <4>2 DEF ApprovesInOrder
    <3>4. CASE t = "approving"
      <4>1. n < Len(chain) - 1
        BY <2>4, <2>13, <3>4 DEF Fires, NotLastStep, HasApprovalChain
      <4>2. new.status = "PENDING_APPROVAL" /\ new.payload.step = n + 1
        BY <1>2, <2>4, <2>13, <3>4 DEF StatusOfState, ContextAfter
      <4>. QED
        BY <2>3, <2>6, <2>7, <3>3, <4>1, <4>2
    <3>5. CASE t = "approved"
      <4>1. n >= Len(chain) - 1
        BY <2>4, <2>13, <3>5 DEF Fires, IsLastStep
      <4>2. new.status = "APPROVED"
        BY <1>2, <3>5 DEF StatusOfState
      <4>3. n + 1 = Len(chain)
        BY <2>3, <2>7, <4>1
      <4>. QED
        BY <2>3, <2>6, <2>7, <3>3, <4>2, <4>3
    <3>. QED
      BY <2>13, <3>4, <3>5 DEF Fires, HasApprovalChain
  <2>. QED
    BY <2>5, <2>11, <2>12, <2>13 DEF Event, EventTypes
<1>. QED
  BY <1>1, <1>3, <1>4, <1>5

\* Rows that no call of the model has written need no explanation.
LEMMA WithoutCallsFollowsChain ==
    ASSUME NEW trail, NEW r \in Requests, NEW row \in Row, WithoutCalls(row.payload)
    PROVE  FollowsChain(trail, r, row)
<1>1. ASSUME NEW k \in 1..Len(Log(row))
      PROVE  ~SubmittedAt(row, k)
  BY <1>1 DEF SubmittedAt, Log, WithoutCalls
<1>. QED
  BY <1>1 DEF FollowsChain

-----------------------------------------------------------------------------
(* The inductive invariant.                                                *)

LEMMA InitChainInv == Init => ChainInv
<1>. SUFFICES ASSUME Init PROVE ChainInv
  OBVIOUS
<1>1. IdleCall \in Call
  BY EventsOfCalls DEF IdleCall, Call
<1>2. TypeOK
  BY <1>1, RequestAssumption DEF Init, TypeOK
<1>3. HistoryFollowsChain
  BY WithoutCallsFollowsChain, RequestAssumption DEF Init, HistoryFollowsChain
<1>4. CopiesFollowChain
  BY DEF Init, CopiesFollowChain, IdleCall
<1>. QED
  BY <1>2, <1>3, <1>4 DEF ChainInv

LEMMA CreateChainInv ==
    ASSUME ChainInv, NEW r \in Requests, NEW x \in Extras, Create(r, x)
    PROVE  ChainInv'
<1>. DEFINE new == [status |-> "DRAFT", submittedAt |-> NoCall,
                    payload |-> CreatedPayload(x)]
<1>1. new \in Row /\ WithoutCalls(new.payload)
  BY CreatedRowType, RequestAssumption
<1>2. FollowsChain(audit, r, new)
  BY <1>1, WithoutCallsFollowsChain
<1>3. /\ rows' = [rows EXCEPT ![r] = new]
      /\ UNCHANGED <<audit, positions, calls>>
  BY DEF Create
<1>. HIDE DEF new
<1>4. TypeOK'
  BY <1>1, <1>3 DEF ChainInv, TypeOK
<1>5. HistoryFollowsChain'
  BY <1>2, <1>3 DEF ChainInv, TypeOK, HistoryFollowsChain
<1>6. CopiesFollowChain'
  BY <1>3 DEF ChainInv, CopiesFollowChain
<1>. QED
  BY <1>4, <1>5, <1>6 DEF ChainInv

LEMMA TransitionChainInv ==
    ASSUME ChainInv, NEW c \in Calls, NEW r \in Requests, NEW e \in Event,
           CarriesApprover(e) => e.approver \in Users, Transition(c, r, e)
    PROVE  ChainInv'
<1>1. TypeOK'
  BY TransitionType DEF ChainInv
<1>2. UNCHANGED <<rows, audit>>
  BY DEF Transition
<1>3. HistoryFollowsChain'
  BY <1>2 DEF ChainInv, HistoryFollowsChain
<1>4. rows[r] # NoRow => rows[r] \in Row /\ FollowsChain(audit, r, rows[r])
  BY DEF ChainInv, TypeOK, HistoryFollowsChain
<1>5. \A d \in Calls \ {c} : calls'[d] = calls[d]
  BY DEF Transition, Ends, ChainInv, TypeOK
<1>6. \/ calls'[c].pc = "done"
      \/ /\ rows[r] # NoRow
         /\ calls'[c] = [pc |-> "read", request |-> r, event |-> e,
                         row |-> rows[r], answer |-> "none"]
  BY DEF Transition, Ends, ChainInv, TypeOK
<1>7. CopiesFollowChain'
  BY <1>2, <1>4, <1>5, <1>6 DEF ChainInv, CopiesFollowChain
<1>. QED
  BY <1>1, <1>3, <1>7 DEF ChainInv

LEMMA ResolvePositionsChainInv ==
    ASSUME ChainInv, NEW c \in Calls, NEW r \in Requests, NEW u \in Users,
           ResolvePositions(c, r, u)
    PROVE  ChainInv'
<1>1. ApproveEvent(u, positions[u]) \in Event
  BY EventsOfCalls DEF ChainInv, TypeOK
<1>2. TypeOK'
  BY <1>1 DEF ChainInv, TypeOK, ResolvePositions, Call
<1>3. HistoryFollowsChain'
  BY DEF ChainInv, HistoryFollowsChain, ResolvePositions
<1>4. CopiesFollowChain'
  BY DEF ChainInv, TypeOK, CopiesFollowChain, ResolvePositions, ApproveEvent
<1>. QED
  BY <1>2, <1>3, <1>4 DEF ChainInv

LEMMA PersistChainInv ==
    ASSUME ChainInv, NEW c \in Calls, Persist(c)
    PROVE  ChainInv'
<1>. DEFINE r == calls[c].request
            e == calls[c].event
            row == calls[c].row
<1>1. /\ e \in Event /\ r \in Requests /\ row \in Row
      /\ FollowsChain(audit, r, row)
  BY DEF ChainInv, TypeOK, Call, CopiesFollowChain, Persist
<1>2. PICK t \in StateValues, code \in {"200", "500"} :
           /\ Fires(StateOf(row), Rehydrate(row), e, t)
           /\ rows' = [rows EXCEPT ![r] = RowAfter(c, row, e, t)]
           /\ audit' = audit \cup AuditOf(c, r, e)
           /\ Ends(c, r, e, code)
  BY PersistEffect
<1>3. audit \subseteq audit' /\ AuditOf(c, r, e) \subseteq audit'
  BY <1>2
<1>4. FollowsChain(audit', r, RowAfter(c, row, e, t))
  <2>1. FollowsChain(audit', r, row)
    BY <1>1, <1>3, FollowsChainMonotone
  <2>. QED
    BY <1>1, <1>2, <1>3, <2>1, RowAfterFollowsChain
<1>5. TypeOK'
  BY PersistType DEF ChainInv
<1>6. HistoryFollowsChain'
  <2>1. SUFFICES ASSUME NEW q \in Requests, rows'[q] # NoRow
        PROVE  FollowsChain(audit', q, rows'[q])
    BY DEF HistoryFollowsChain
  <2>2. CASE q = r
    BY <1>1, <1>2, <1>4, <2>2 DEF ChainInv, TypeOK
  <2>3. CASE q # r
    <3>1. rows'[q] = rows[q] /\ rows[q] \in Row
      BY <1>2, <2>1, <2>3 DEF ChainInv, TypeOK
    <3>2. FollowsChain(audit, q, rows[q])
      BY <2>1, <3>1 DEF ChainInv, HistoryFollowsChain
    <3>. QED
      BY <1>3, <3>1, <3>2, FollowsChainMonotone
  <2>. QED
    BY <2>2, <2>3
<1>7. CopiesFollowChain'
  <2>1. \A d \in Calls \ {c} : calls'[d] = calls[d]
    BY <1>2 DEF Ends, ChainInv, TypeOK
  <2>2. calls'[c].pc = "done"
    BY <1>2 DEF Ends, ChainInv, TypeOK
  <2>3. \A d \in Calls \ {c} : calls[d].pc = "read" =>
            FollowsChain(audit', calls[d].request, calls[d].row)
    BY <1>3, FollowsChainMonotone DEF ChainInv, CopiesFollowChain
  <2>. QED
    BY <2>1, <2>2, <2>3 DEF ChainInv, CopiesFollowChain
<1>. QED
  BY <1>5, <1>6, <1>7 DEF ChainInv

LEMMA FailChainInv ==
    ASSUME ChainInv, NEW c \in Calls, Fail(c)
    PROVE  ChainInv'
<1>1. calls[c].event \in Event /\ calls[c].request \in Requests
  BY DEF ChainInv, TypeOK, Call, CopiesFollowChain, Fail
<1>2. TypeOK'
  BY <1>1 DEF ChainInv, TypeOK, Fail, Ends, Call
<1>3. HistoryFollowsChain'
  BY DEF ChainInv, HistoryFollowsChain, Fail
<1>4. CopiesFollowChain'
  BY DEF ChainInv, TypeOK, CopiesFollowChain, Fail, Ends
<1>. QED
  BY <1>2, <1>3, <1>4 DEF ChainInv

LEMMA LoseAcknowledgementChainInv ==
    ASSUME ChainInv, NEW c \in Calls, LoseAcknowledgement(c)
    PROVE  ChainInv'
<1>1. PICK new \in Call : new = [calls[c] EXCEPT !.answer = "500"]
  BY DEF ChainInv, TypeOK, Call
<1>2. /\ calls' = [calls EXCEPT ![c] = new]
      /\ new.pc = calls[c].pc /\ new.request = calls[c].request
      /\ new.event = calls[c].event /\ new.row = calls[c].row
      /\ UNCHANGED <<rows, audit, positions>>
  BY <1>1 DEF LoseAcknowledgement, ChainInv, TypeOK, Call
<1>3. TypeOK'
  BY <1>2 DEF ChainInv, TypeOK
<1>4. HistoryFollowsChain'
  BY <1>2 DEF ChainInv, HistoryFollowsChain
<1>5. CopiesFollowChain'
  BY <1>2 DEF ChainInv, TypeOK, CopiesFollowChain
<1>. QED
  BY <1>3, <1>4, <1>5 DEF ChainInv

LEMMA SetPositionsChainInv ==
    ASSUME ChainInv, NEW u \in Users, NEW held \in SUBSET Positions,
           SetPositions(u, held)
    PROVE  ChainInv'
BY DEF ChainInv, TypeOK, HistoryFollowsChain, CopiesFollowChain, SetPositions

LEMMA NextChainInv == ChainInv /\ [Next]_vars => ChainInv'
<1>. SUFFICES ASSUME ChainInv, [Next]_vars PROVE ChainInv'
  OBVIOUS
<1>1. ASSUME NEW r \in Requests, NEW x \in Extras, Create(r, x)
      PROVE  ChainInv'
  BY <1>1, CreateChainInv
<1>2. ASSUME NEW c \in Calls, NEW r \in Requests, NEW chain \in Chains,
             Submit(c, r, chain)
      PROVE  ChainInv'
  <2>1. SubmitEvent(chain) \in Event /\ ~CarriesApprover(SubmitEvent(chain))
    BY EventsOfCalls DEF SubmitEvent, CarriesApprover
  <2>. QED
    BY <1>2, <2>1, TransitionChainInv DEF Submit
<1>3. ASSUME NEW c \in Calls, NEW r \in Requests, NEW u \in Users,
             NEW m \in {"blank", "written"}, Reject(c, r, u, m)
      PROVE  ChainInv'
  <2>1. RejectEvent(u, m) \in Event /\ RejectEvent(u, m).approver = u
    BY EventsOfCalls DEF RejectEvent
  <2>. QED
    BY <1>3, <2>1, TransitionChainInv DEF Reject
<1>4. ASSUME NEW c \in Calls, NEW r \in Requests, Cancel(c, r)
      PROVE  ChainInv'
  <2>1. CancelEvent \in Event /\ ~CarriesApprover(CancelEvent)
    BY EventsOfCalls DEF CancelEvent, CarriesApprover
  <2>. QED
    BY <1>4, <2>1, TransitionChainInv DEF Cancel
<1>5. ASSUME NEW c \in Calls, NEW r \in Requests, NEW u \in Users,
             ResolvePositions(c, r, u)
      PROVE  ChainInv'
  BY <1>5, ResolvePositionsChainInv
<1>6. ASSUME NEW c \in Calls, Approve(c)
      PROVE  ChainInv'
  <2>1. /\ calls[c].request \in Requests /\ calls[c].event \in Event
        /\ CarriesApprover(calls[c].event) => calls[c].event.approver \in Users
    BY <1>6 DEF ChainInv, TypeOK, Call, CopiesFollowChain, Approve
  <2>. QED
    BY <1>6, <2>1, TransitionChainInv DEF Approve
<1>7. ASSUME NEW c \in Calls, Persist(c)
      PROVE  ChainInv'
  BY <1>7, PersistChainInv
<1>8. ASSUME NEW c \in Calls, Fail(c)
      PROVE  ChainInv'
  BY <1>8, FailChainInv
<1>9. ASSUME NEW u \in Users, NEW held \in SUBSET Positions, SetPositions(u, held)
      PROVE  ChainInv'
  BY <1>9, SetPositionsChainInv
<1>10. ASSUME NEW c \in Calls, LoseAcknowledgement(c)
       PROVE  ChainInv'
  BY <1>10, LoseAcknowledgementChainInv
<1>11. CASE UNCHANGED vars
  BY <1>11 DEF vars, ChainInv, TypeOK, HistoryFollowsChain, CopiesFollowChain
<1>. QED
  BY <1>1, <1>2, <1>3, <1>4, <1>5, <1>6, <1>7, <1>8, <1>9, <1>10, <1>11 DEF Next

\* Every reachable state satisfies the inductive invariant.
THEOREM ChainInvariant == Spec => []ChainInv
<1>. QED
  BY InitChainInv, NextChainInv, PTL DEF Spec

\* Type correctness of the service, whatever calls race.
THEOREM TypeCorrect == Spec => []TypeOK
<1>1. ChainInv => TypeOK
  BY DEF ChainInv
<1>. QED
  BY <1>1, ChainInvariant, PTL

\* The main result: whatever transition() calls race on a request, and
\* whatever stale copy is stored last, the stored request is always explained
\* by its own log and audit rows (HistoryFollowsChain); in particular it is
\* APPROVED only if every slot of its chain was approved, in order, by
\* someone who held that slot's identity.
THEOREM HistoryAlwaysFollowsChain == Spec => []HistoryFollowsChain
<1>1. ChainInv => HistoryFollowsChain
  BY DEF ChainInv
<1>. QED
  BY <1>1, ChainInvariant, PTL

-----------------------------------------------------------------------------
(* The log is a path, and answers tell what was written.                   *)

\* After the first record of a call there are only records of calls, up to
\* the last, and none of them leads back to draft.
PathInv(row) ==
    /\ IsPath(row)
    /\ \A i \in 1..Len(Log(row)) : Log(row)[i].call # NoCall =>
          /\ Log(row)[i].to # "draft"
          /\ Log(row)[Len(Log(row))].call # NoCall

\* No call has two records in the row.
Once(row) ==
    \A i, j \in 1..Len(Log(row)) :
        Log(row)[i].call # NoCall /\ Log(row)[i].call = Log(row)[j].call => i = j

\* call, which is that of c, asked event of request r, may have written, and if
\* it was a decision its audit row is in the trail.
Wrote(call, trail, c, r, event) ==
    /\ call.pc = "done" /\ call.answer \in {"200", "500"}
    /\ call.request = r
    /\ call.event.type = event
    /\ CarriesApprover(call.event) =>
          \E a \in trail : a.call = c /\ a.request = r /\ a.action = call.event.type

\* Every record of the row is of what its call asked of this request.
Recorded(served, trail, r, row) ==
    \A i \in 1..Len(Log(row)) : Log(row)[i].call # NoCall =>
        Wrote(served[Log(row)[i].call], trail, Log(row)[i].call, r, Log(row)[i].event)

\* A row, or a copy of one, that may be stored for request r.
Kept(served, trail, r, row) == PathInv(row) /\ Once(row) /\ Recorded(served, trail, r, row)

CallTruth(c) ==
    /\ calls[c].pc = "read" => Kept(calls, audit, calls[c].request, calls[c].row)
    /\ calls[c].answer = "200" /\ CarriesApprover(calls[c].event) =>
          \E a \in audit : AuditRowOf(a, c, calls[c].request)

AuditTruth(a) ==
    /\ MayHaveWritten(a.call)
    /\ AuditRowOf(a, a.call, calls[a.call].request)

RecordsInv ==
    /\ \A r \in Requests : rows[r] # NoRow => Kept(calls, audit, r, rows[r])
    /\ \A c \in Calls : CallTruth(c)
    /\ \A a \in audit : AuditTruth(a)

\* A call that has come to its end is not changed any more, and no audit row
\* is taken away.
AnswersStay ==
    /\ \A c \in Calls : calls[c].pc = "done" => calls'[c] = calls[c]
    /\ audit \subseteq audit'

LEMMA KeptStays ==
    ASSUME AnswersStay, NEW r \in Requests, NEW row \in Row, Kept(calls, audit, r, row)
    PROVE  Kept(calls', audit', r, row)
<1>1. ASSUME NEW i \in 1..Len(Log(row)), Log(row)[i].call # NoCall
      PROVE  Wrote(calls'[Log(row)[i].call], audit', Log(row)[i].call, r, Log(row)[i].event)
  <2>1. PICK c \in Calls : c = Log(row)[i].call
    <3>1. Log(row) \in Seq(Record)
      BY LogType
    <3>2. Log(row)[i] \in Record
      BY <3>1
    <3>. QED
      BY <1>1, <3>2 DEF Record
  <2>2. PICK event : event = Log(row)[i].event
    OBVIOUS
  <2>3. Wrote(calls[c], audit, c, r, event)
    BY <1>1, <2>1, <2>2 DEF Kept, Recorded
  <2>4. calls'[c] = calls[c] /\ audit \subseteq audit'
    BY <2>3 DEF Wrote, AnswersStay
  <2>5. Wrote(calls'[c], audit', c, r, event)
    BY <2>3, <2>4 DEF Wrote
  <2>. QED
    BY <2>1, <2>2, <2>5
<1>. QED
  BY <1>1 DEF Kept, Recorded

LEMMA AuditTruthStays ==
    ASSUME TypeOK, RecordsInv, AnswersStay, NEW a \in audit
    PROVE  AuditTruth(a)'
<1>1. a.call \in Calls /\ AuditTruth(a)
  BY DEF TypeOK, AuditRow, RecordsInv
<1>2. calls'[a.call] = calls[a.call]
  BY <1>1 DEF AuditTruth, MayHaveWritten, AnswersStay
<1>. QED
  BY <1>1, <1>2 DEF AuditTruth, MayHaveWritten, AuditRowOf

\* Rows that no call of the model has written have no record of a call.
LEMMA WithoutCallsKept ==
    ASSUME NEW r \in Requests, NEW row \in Row, WithoutCalls(row.payload)
    PROVE  Kept(calls, audit, r, row)
<1>1. ASSUME NEW i \in 1..Len(Log(row))
      PROVE  Log(row)[i].call = NoCall
  BY <1>1 DEF Log, WithoutCalls
<1>. QED
  BY <1>1 DEF Kept, PathInv, IsPath, Once, Recorded

\* One transition extends a path to a path.
LEMMA RowAfterPath ==
    ASSUME NEW c \in Calls, NEW row \in Row, NEW e \in Event, NEW t \in StateValues,
           PathInv(row), Fires(StateOf(row), Rehydrate(row), e, t)
    PROVE  PathInv(RowAfter(c, row, e, t))
<1>. DEFINE new == RowAfter(c, row, e, t)
            rec == RecordOf(c, row, e, t)
            n   == Len(Log(row))
<1>1. /\ Len(Log(new)) = n + 1 /\ n \in Nat
      /\ \A i \in 1..n : Log(new)[i] = Log(row)[i]
      /\ Log(new)[n + 1] = rec
  BY LogAfter, LogType
<1>2. /\ rec.call = c /\ rec.event = e.type /\ rec.from = StateOf(row) /\ rec.to = t
      /\ rec.approver = e.approver /\ c # NoCall
  BY RequestAssumption DEF RecordOf
<1>3. /\ new.status = StatusOfState[t] /\ new.payload.stateValue = t
      /\ e.type # "CANCEL" => new.payload.lastApprover = e.approver
      /\ new.submittedAt = IF e.type = "SUBMIT" THEN c ELSE row.submittedAt
  BY DEF RowAfter, ContextAfter
<1>. HIDE DEF new, rec
<1>4. t # "draft"
  BY DEF Fires
<1>5. ASSUME NEW i \in 1..n, Log(row)[i].call # NoCall
      PROVE  /\ Log(row)[n].call # NoCall /\ StateOf(row) = Log(row)[n].to
             /\ Log(row)[n].to # "draft"
  <2>1. n \in 1..n
    BY <1>1
  <2>2. Log(row)[n].call # NoCall /\ Log(row)[n].to # "draft"
    BY <1>5, <2>1 DEF PathInv
  <2>3. row.status = StatusOfState[Log(row)[n].to]
    BY <2>1, <2>2 DEF PathInv, IsPath
  <2>4. Log(row)[n].to \in StateValues
    <3>1. Log(row) \in Seq(Record)
      BY LogType
    <3>2. Log(row)[n] \in Record
      BY <2>1, <3>1
    <3>. QED
      BY <3>2 DEF Record
  <2>5. StateOf(row) = Log(row)[n].to
    BY <2>3, <2>4 DEF StateOf, StateOfStatus, StatusOfState, StateValues
  <2>. QED
    BY <2>2, <2>5
<1>6. ASSUME NEW i \in 1..n, Log(row)[i].call # NoCall
      PROVE  e.type # "SUBMIT"
  BY <1>5, <1>6 DEF Fires
<1>7. ASSUME NEW i \in 1..(n + 1), Log(new)[i].call # NoCall
      PROVE  /\ i < n + 1 => /\ Log(new)[i + 1].call # NoCall
                             /\ Log(new)[i + 1].from = Log(new)[i].to
             /\ i = n + 1 =>
                   /\ new.status = StatusOfState[Log(new)[i].to]
                   /\ new.payload.stateValue = Log(new)[i].to
                   /\ CarriesApprover([type |-> Log(new)[i].event]) =>
                         new.payload.lastApprover = Log(new)[i].approver
             /\ Log(new)[i].event = "SUBMIT" => new.submittedAt = Log(new)[i].call
             /\ Log(new)[i].to # "draft"
  <2>1. CASE i = n + 1
    BY <1>1, <1>2, <1>3, <1>4, <2>1 DEF CarriesApprover
  <2>2. CASE i \in 1..n
    <3>1. Log(new)[i] = Log(row)[i]
      BY <1>1, <2>2
    <3>2. /\ i < n => /\ Log(row)[i + 1].call # NoCall
                      /\ Log(row)[i + 1].from = Log(row)[i].to
          /\ Log(row)[i].event = "SUBMIT" => row.submittedAt = Log(row)[i].call
          /\ Log(row)[i].to # "draft"
      BY <1>7, <2>2, <3>1 DEF PathInv, IsPath
    <3>3. CASE i < n
      <4>1. Log(new)[i + 1] = Log(row)[i + 1]
        BY <1>1, <2>2, <3>3
      <4>. QED
        BY <1>1, <1>3, <1>6, <1>7, <2>2, <3>1, <3>2, <3>3, <4>1
    <3>4. CASE i = n
      <4>1. Log(new)[i + 1] = rec /\ StateOf(row) = Log(row)[i].to
        BY <1>1, <1>5, <1>7, <2>2, <3>1, <3>4
      <4>. QED
        BY <1>1, <1>2, <1>3, <1>6, <1>7, <2>2, <3>1, <3>2, <3>4, <4>1
    <3>. QED
      BY <1>1, <2>2, <3>3, <3>4
  <2>. QED
    BY <1>1, <2>1, <2>2
<1>8. IsPath(new)
  BY <1>1, <1>7 DEF IsPath
<1>9. PathInv(new)
  BY <1>1, <1>2, <1>7, <1>8 DEF PathInv
<1>. QED
  BY <1>9 DEF new

\* A call that has not come to its end adds a record of its own: it has none
\* yet.
LEMMA RowAfterOnce ==
    ASSUME NEW c \in Calls, calls[c].pc # "done", NEW r \in Requests, NEW row \in Row,
           NEW e \in Event, NEW t \in StateValues, Kept(calls, audit, r, row)
    PROVE  Once(RowAfter(c, row, e, t))
<1>. PICK new : new = RowAfter(c, row, e, t)
  OBVIOUS
<1>1. PICK n \in Nat :
           /\ n = Len(Log(row)) /\ Len(Log(new)) = n + 1
           /\ \A i \in 1..n : Log(new)[i] = Log(row)[i]
           /\ Log(new)[n + 1].call = c
  <2>1. RecordOf(c, row, e, t).call = c
    BY DEF RecordOf
  <2>2. Len(Log(row)) \in Nat
    BY LogType
  <2>. QED
    BY <2>1, <2>2, LogAfter
<1>2. \A i \in 1..n : Log(new)[i].call # c
  BY <1>1, RequestAssumption DEF Kept, Recorded, Wrote
<1>3. \A i, j \in 1..n : Log(new)[i].call # NoCall /\ Log(new)[i].call = Log(new)[j].call => i = j
  BY <1>1 DEF Kept, Once
<1>4. \A i \in 1..(n + 1) : i \in 1..n \/ i = n + 1
  OBVIOUS
<1>5. ASSUME NEW i \in 1..(n + 1), NEW j \in 1..(n + 1),
             Log(new)[i].call # NoCall, Log(new)[i].call = Log(new)[j].call
      PROVE  i = j
  <2>1. CASE i \in 1..n /\ j \in 1..n
    BY <1>3, <1>5, <2>1
  <2>2. CASE i = n + 1 \/ j = n + 1
    BY <1>1, <1>2, <1>4, <1>5, <2>2
  <2>. QED
    BY <1>4, <2>1, <2>2
<1>6. Once(new)
  BY <1>1, <1>5 DEF Once
<1>. QED
  BY <1>1, <1>6

\* What holds of a call stays while others move.
LEMMA CallTruthStays ==
    ASSUME ChainInv, RecordsInv, AnswersStay, NEW d \in Calls, calls'[d] = calls[d]
    PROVE  CallTruth(d)'
<1>1. CallTruth(d)
  BY DEF RecordsInv
<1>2. calls'[d].pc = "read" => Kept(calls', audit', calls'[d].request, calls'[d].row)
  <2>. SUFFICES ASSUME calls'[d].pc = "read"
       PROVE  Kept(calls', audit', calls'[d].request, calls'[d].row)
    OBVIOUS
  <2>1. PICK r \in Requests, row \in Row :
             calls[d].request = r /\ calls[d].row = row
    BY DEF ChainInv, CopiesFollowChain
  <2>2. Kept(calls, audit, r, row)
    BY <1>1, <2>1 DEF CallTruth
  <2>3. Kept(calls', audit', r, row)
    BY <2>2, KeptStays
  <2>4. calls'[d].request = r /\ calls'[d].row = row
    BY <2>1
  <2>. QED
    BY <2>3, <2>4
<1>3. calls[d].answer = "200" /\ CarriesApprover(calls[d].event) =>
         \E a \in audit' : AuditRowOf(a, d, calls[d].request)
  BY <1>1 DEF CallTruth, AnswersStay
<1>. QED
  BY <1>2, <1>3 DEF CallTruth, AuditRowOf

\* A call that begins, reads or ends without writing.
LEMMA CallStepRecords ==
    ASSUME ChainInv, TypeOK', RecordsInv, NEW c \in Calls, calls[c].pc # "done",
           NEW new, calls' = [calls EXCEPT ![c] = new], UNCHANGED <<rows, audit>>,
           new.answer # "200",
           new.pc = "read" => \E r \in Requests, row \in Row :
                                 new.request = r /\ new.row = row /\ Kept(calls, audit, r, row)
    PROVE  RecordsInv'
<1>. TypeOK
  BY DEF ChainInv
<1>1. /\ calls'[c] = new /\ \A d \in Calls \ {c} : calls'[d] = calls[d]
      /\ AnswersStay
  BY DEF TypeOK, AnswersStay
<1>2. ASSUME NEW r \in Requests, rows'[r] # NoRow PROVE Kept(calls', audit', r, rows'[r])
  <2>1. PICK row \in Row : row = rows[r] /\ row = rows'[r]
    BY <1>2 DEF TypeOK
  <2>2. Kept(calls', audit', r, row)
    BY <1>1, <1>2, <2>1, KeptStays DEF RecordsInv
  <2>. QED
    BY <2>1, <2>2
<1>3. ASSUME NEW d \in Calls PROVE CallTruth(d)'
  <2>1. CASE d = c
    <3>1. new.pc = "read" => Kept(calls', audit', calls'[c].request, calls'[c].row)
      <4>. SUFFICES ASSUME new.pc = "read"
           PROVE  Kept(calls', audit', calls'[c].request, calls'[c].row)
        OBVIOUS
      <4>1. PICK r \in Requests, row \in Row :
                 new.request = r /\ new.row = row /\ Kept(calls, audit, r, row)
        OBVIOUS
      <4>2. Kept(calls', audit', r, row)
        BY <1>1, <4>1, KeptStays
      <4>3. calls'[c].request = r /\ calls'[c].row = row
        BY <1>1, <4>1
      <4>. QED
        BY <4>2, <4>3
    <3>. QED
      BY <1>1, <2>1, <3>1 DEF CallTruth
  <2>2. CASE d # c
    BY <1>1, <2>2, CallTruthStays
  <2>. QED
    BY <2>1, <2>2
<1>4. \A a \in audit' : AuditTruth(a)'
  BY <1>1, AuditTruthStays
<1>. QED
  BY <1>2, <1>3, <1>4 DEF RecordsInv

LEMMA InitRecords == Init => RecordsInv
<1>. SUFFICES ASSUME Init PROVE RecordsInv
  OBVIOUS
<1>1. \A r \in Requests : rows[r] # NoRow => Kept(calls, audit, r, rows[r])
  BY WithoutCallsKept, RequestAssumption DEF Init
<1>2. \A c \in Calls : CallTruth(c)
  BY DEF Init, IdleCall, CallTruth
<1>. QED
  BY <1>1, <1>2 DEF Init, RecordsInv

LEMMA CreateRecords ==
    ASSUME ChainInv, RecordsInv, NEW r \in Requests, NEW x \in Extras, Create(r, x)
    PROVE  RecordsInv'
<1>1. PICK new \in Row :
           /\ WithoutCalls(new.payload)
           /\ rows' = [rows EXCEPT ![r] = new]
           /\ UNCHANGED <<audit, calls>>
  BY CreatedRowType, RequestAssumption DEF Create
<1>2. AnswersStay
  BY <1>1 DEF AnswersStay
<1>3. ASSUME NEW q \in Requests, rows'[q] # NoRow
      PROVE  Kept(calls', audit', q, rows'[q])
  <2>1. PICK row \in Row : row = rows'[q] /\ Kept(calls, audit, q, row)
    <3>1. CASE q = r
      BY <1>1, <3>1, WithoutCallsKept DEF ChainInv, TypeOK
    <3>2. CASE q # r
      BY <1>1, <1>3, <3>2 DEF ChainInv, TypeOK, RecordsInv
    <3>. QED
      BY <3>1, <3>2
  <2>2. Kept(calls', audit', q, row)
    BY <1>2, <2>1, KeptStays
  <2>. QED
    BY <2>1, <2>2
<1>4. ASSUME NEW d \in Calls PROVE CallTruth(d)'
  BY <1>1, <1>2, CallTruthStays
<1>5. \A a \in audit' : AuditTruth(a)'
  BY <1>1, <1>2, AuditTruthStays DEF ChainInv
<1>. QED
  BY <1>3, <1>4, <1>5 DEF RecordsInv

LEMMA PersistRecords ==
    ASSUME ChainInv, RecordsInv, NEW c \in Calls, Persist(c)
    PROVE  RecordsInv'
<1>1. PICK r \in Requests, e \in Event, row \in Row :
           /\ calls[c].request = r /\ calls[c].event = e /\ calls[c].row = row
           /\ calls[c].pc = "read"
  BY DEF ChainInv, TypeOK, Call, CopiesFollowChain, Persist
<1>2. PICK t \in StateValues, code \in {"200", "500"} :
           /\ Fires(StateOf(row), Rehydrate(row), e, t)
           /\ rows' = [rows EXCEPT ![r] = RowAfter(c, row, e, t)]
           /\ audit' = audit \cup AuditOf(c, r, e)
           /\ Ends(c, r, e, code)
  BY <1>1, PersistEffect
<1>3. Kept(calls, audit, r, row)
  BY <1>1 DEF RecordsInv, CallTruth
<1>4. /\ calls'[c] = [pc |-> "done", request |-> r, event |-> e,
                      row |-> NoRow, answer |-> code]
      /\ \A d \in Calls \ {c} : calls'[d] = calls[d]
  BY <1>2 DEF Ends, ChainInv, TypeOK
<1>5. AnswersStay
  BY <1>1, <1>2, <1>4 DEF AnswersStay
<1>6. CarriesApprover(e) => \E a \in audit' : AuditRowOf(a, c, r)'
  <2>. SUFFICES ASSUME CarriesApprover(e)
       PROVE  \E a \in audit' : AuditRowOf(a, c, r)'
    OBVIOUS
  <2>1. PICK a : a = [request |-> r, call |-> c, action |-> e.type,
                      approver |-> e.approver, positions |-> e.positions]
    OBVIOUS
  <2>2. a \in audit'
    BY <1>2, <2>1 DEF AuditOf
  <2>3. AuditRowOf(a, c, r)'
    BY <1>4, <2>1 DEF AuditRowOf
  <2>. QED
    BY <2>2, <2>3
<1>7. Wrote(calls'[c], audit', c, r, e.type)
  BY <1>4, <1>6 DEF Wrote, AuditRowOf
<1>8. PICK new \in Row : new = RowAfter(c, row, e, t)
  BY RowAfterType
<1>9. Kept(calls', audit', r, new)
  <2>1. PathInv(new) /\ Once(new)
    BY <1>1, <1>2, <1>3, <1>8, RowAfterPath, RowAfterOnce DEF Kept
  <2>2. Recorded(calls', audit', r, row)
    BY <1>3, <1>5, KeptStays DEF Kept
  <2>3. PICK n \in Nat :
             /\ n = Len(Log(row)) /\ Len(Log(new)) = n + 1
             /\ \A i \in 1..n : Log(new)[i] = Log(row)[i]
             /\ Log(new)[n + 1].call = c /\ Log(new)[n + 1].event = e.type
    <3>1. RecordOf(c, row, e, t).call = c /\ RecordOf(c, row, e, t).event = e.type
      BY DEF RecordOf
    <3>2. Len(Log(row)) \in Nat
      BY LogType
    <3>. QED
      BY <1>8, <3>1, <3>2, LogAfter
  <2>4. ASSUME NEW i \in 1..Len(Log(new)), Log(new)[i].call # NoCall
        PROVE  Wrote(calls'[Log(new)[i].call], audit', Log(new)[i].call, r, Log(new)[i].event)
    <3>1. CASE i \in 1..n
      BY <2>2, <2>3, <2>4, <3>1 DEF Recorded
    <3>2. CASE i = n + 1
      BY <1>7, <2>3, <3>2
    <3>. QED
      BY <2>3, <3>1, <3>2
  <2>. QED
    BY <2>1, <2>4 DEF Kept, Recorded
<1>10. ASSUME NEW q \in Requests, rows'[q] # NoRow
       PROVE  Kept(calls', audit', q, rows'[q])
  <2>1. PICK old \in Row : old = rows'[q] /\ Kept(calls', audit', q, old)
    <3>1. CASE q = r
      BY <1>2, <1>8, <1>9, <3>1 DEF ChainInv, TypeOK
    <3>2. CASE q # r
      <4>1. PICK old \in Row : old = rows[q] /\ rows'[q] = old
        BY <1>2, <1>10, <3>2 DEF ChainInv, TypeOK
      <4>2. Kept(calls', audit', q, old)
        BY <1>5, <1>10, <4>1, KeptStays DEF RecordsInv
      <4>. QED
        BY <4>1, <4>2
    <3>. QED
      BY <3>1, <3>2
  <2>. QED
    BY <2>1
<1>11. ASSUME NEW d \in Calls PROVE CallTruth(d)'
  <2>1. CASE d = c
    BY <1>4, <1>6, <2>1 DEF CallTruth, AuditRowOf
  <2>2. CASE d # c
    BY <1>4, <1>5, <2>2, CallTruthStays
  <2>. QED
    BY <2>1, <2>2
<1>12. ASSUME NEW a \in audit' PROVE AuditTruth(a)'
  <2>1. CASE a \in audit
    BY <1>5, <2>1, AuditTruthStays DEF ChainInv
  <2>2. CASE a \in AuditOf(c, r, e)
    <3>1. a.call = c /\ a.request = r /\ a.action = e.type
      BY <2>2 DEF AuditOf
    <3>. QED
      BY <1>4, <3>1 DEF AuditTruth, MayHaveWritten, AuditRowOf
  <2>. QED
    BY <1>2, <2>1, <2>2
<1>. QED
  BY <1>10, <1>11, <1>12 DEF RecordsInv

LEMMA TransitionRecords ==
    ASSUME ChainInv, RecordsInv, NEW c \in Calls, NEW r \in Requests,
           NEW e \in Event, calls[c].pc # "done", Transition(c, r, e)
    PROVE  RecordsInv'
<1>1. TypeOK'
  BY TransitionType DEF ChainInv
<1>2. UNCHANGED <<rows, audit>>
  BY DEF Transition
<1>3. ASSUME NEW code \in {"400", "404", "409"}, Ends(c, r, e, code)
      PROVE  RecordsInv'
  <2>1. PICK new : new = [pc |-> "done", request |-> r, event |-> e,
                          row |-> NoRow, answer |-> code]
    OBVIOUS
  <2>2. calls' = [calls EXCEPT ![c] = new]
    BY <1>3, <2>1 DEF Ends
  <2>3. new.pc = "done" /\ new.answer # "200"
    BY <2>1
  <2>. QED
    BY <1>1, <1>2, <2>2, <2>3, CallStepRecords
<1>4. ASSUME rows[r] # NoRow,
             calls' = [calls EXCEPT ![c] = [pc |-> "read", request |-> r, event |-> e,
                                            row |-> rows[r], answer |-> "none"]]
      PROVE  RecordsInv'
  <2>1. PICK new : new = [pc |-> "read", request |-> r, event |-> e,
                          row |-> rows[r], answer |-> "none"]
    OBVIOUS
  <2>2. calls' = [calls EXCEPT ![c] = new]
    BY <1>4, <2>1
  <2>3. /\ new.answer # "200" /\ new.request = r
        /\ new.row = rows[r] /\ rows[r] \in Row /\ Kept(calls, audit, r, rows[r])
    BY <1>4, <2>1 DEF ChainInv, TypeOK, RecordsInv
  <2>. QED
    BY <1>1, <1>2, <2>2, <2>3, CallStepRecords
<1>. QED
  BY <1>3, <1>4 DEF Transition

LEMMA ResolvePositionsRecords ==
    ASSUME ChainInv, RecordsInv, NEW c \in Calls, NEW r \in Requests,
           NEW u \in Users, ResolvePositions(c, r, u)
    PROVE  RecordsInv'
<1>1. PICK new :
           new = [pc |-> "resolved", request |-> r,
                  event |-> ApproveEvent(u, positions[u]), row |-> NoRow,
                  answer |-> "none"]
  OBVIOUS
<1>2. /\ calls' = [calls EXCEPT ![c] = new]
      /\ UNCHANGED <<rows, audit>> /\ calls[c].pc # "done"
  BY <1>1 DEF ResolvePositions
<1>3. new.pc = "resolved" /\ new.answer # "200"
  BY <1>1
<1>4. TypeOK'
  BY ResolvePositionsChainInv DEF ChainInv
<1>. QED
  BY <1>2, <1>3, <1>4, CallStepRecords

LEMMA FailRecords ==
    ASSUME ChainInv, RecordsInv, NEW c \in Calls, Fail(c)
    PROVE  RecordsInv'
<1>1. PICK new :
           new = [pc |-> "done", request |-> calls[c].request,
                  event |-> calls[c].event, row |-> NoRow, answer |-> "500"]
  OBVIOUS
<1>2. /\ calls' = [calls EXCEPT ![c] = new]
      /\ UNCHANGED <<rows, audit>> /\ calls[c].pc # "done"
  BY <1>1 DEF Fail, Ends
<1>3. new.pc = "done" /\ new.answer # "200"
  BY <1>1
<1>4. TypeOK'
  BY FailChainInv DEF ChainInv
<1>. QED
  BY <1>2, <1>3, <1>4, CallStepRecords

LEMMA LoseAcknowledgementRecords ==
    ASSUME ChainInv, RecordsInv, NEW c \in Calls, LoseAcknowledgement(c)
    PROVE  RecordsInv'
<1>1. PICK new : new = [calls[c] EXCEPT !.answer = "500"]
  OBVIOUS
<1>2. /\ calls' = [calls EXCEPT ![c] = new]
      /\ UNCHANGED <<rows, audit>> /\ calls[c].pc = "read"
  BY <1>1 DEF LoseAcknowledgement, ChainInv, TypeOK
<1>3. new.answer # "200" /\ new.request = calls[c].request /\ new.row = calls[c].row
  BY <1>1 DEF ChainInv, TypeOK, Call
<1>4. PICK r \in Requests, row \in Row :
           calls[c].request = r /\ calls[c].row = row /\ Kept(calls, audit, r, row)
  BY <1>2 DEF ChainInv, CopiesFollowChain, RecordsInv, CallTruth
<1>5. TypeOK'
  BY LoseAcknowledgementChainInv DEF ChainInv
<1>. QED
  BY <1>2, <1>3, <1>4, <1>5, CallStepRecords

LEMMA NextRecords == ChainInv /\ RecordsInv /\ [Next]_vars => RecordsInv'
<1>. SUFFICES ASSUME ChainInv, RecordsInv, [Next]_vars PROVE RecordsInv'
  OBVIOUS
<1>1. ASSUME NEW r \in Requests, NEW x \in Extras, Create(r, x)
      PROVE  RecordsInv'
  BY <1>1, CreateRecords
<1>2. ASSUME NEW c \in Calls, NEW r \in Requests, NEW e \in Event,
             calls[c].pc = "idle", Transition(c, r, e)
      PROVE  RecordsInv'
  BY <1>2, TransitionRecords
<1>3. ASSUME NEW c \in Calls, NEW r \in Requests,
             \/ \E chain \in Chains : Submit(c, r, chain)
             \/ \E u \in Users, m \in {"blank", "written"} : Reject(c, r, u, m)
             \/ Cancel(c, r)
      PROVE  RecordsInv'
  BY <1>2, <1>3, EventsOfCalls DEF Submit, Reject, Cancel
<1>4. ASSUME NEW c \in Calls, NEW r \in Requests, NEW u \in Users,
             ResolvePositions(c, r, u)
      PROVE  RecordsInv'
  BY <1>4, ResolvePositionsRecords
<1>5. ASSUME NEW c \in Calls, Approve(c)
      PROVE  RecordsInv'
  <2>1. PICK r \in Requests, e \in Event :
             calls[c].request = r /\ calls[c].event = e /\ calls[c].pc = "resolved"
    BY <1>5 DEF ChainInv, TypeOK, Call, CopiesFollowChain, Approve
  <2>2. Transition(c, r, e)
    BY <1>5, <2>1 DEF Approve
  <2>. QED
    BY <2>1, <2>2, TransitionRecords
<1>6. ASSUME NEW c \in Calls, Persist(c)
      PROVE  RecordsInv'
  BY <1>6, PersistRecords
<1>7. ASSUME NEW c \in Calls, Fail(c)
      PROVE  RecordsInv'
  BY <1>7, FailRecords
<1>8. ASSUME NEW c \in Calls, LoseAcknowledgement(c)
      PROVE  RecordsInv'
  BY <1>8, LoseAcknowledgementRecords
<1>9. CASE UNCHANGED <<rows, audit, calls>>
  BY <1>9 DEF RecordsInv, CallTruth, AuditTruth, MayHaveWritten, AuditRowOf
<1>. QED
  BY <1>1, <1>3, <1>4, <1>5, <1>6, <1>7, <1>8, <1>9 DEF Next, SetPositions, vars

\* Every reachable state satisfies RecordsInv beside ChainInv.
THEOREM RecordsInvariant == Spec => []RecordsInv
<1>. QED
  BY ChainInvariant, InitRecords, NextRecords, PTL DEF Spec

\* Whatever copy is stored last, the stored log is one path through the
\* machine and the fields beside it are those of its last records
\* (LogIsAPath): a lost update takes whole records away, it never mixes two.
THEOREM LogIsAlwaysAPath == Spec => []LogIsAPath
<1>1. RecordsInv => LogIsAPath
  BY DEF RecordsInv, Kept, PathInv, LogIsAPath
<1>. QED
  BY <1>1, RecordsInvariant, PTL

\* What calls of transition() leave behind is all or nothing, acknowledged or
\* not (AnswersTellTheTruth): each record is of a call that asked for it, once,
\* and audited if it is a decision; a refused call and one under way have left
\* nothing; every decision answered with success was audited.
THEOREM AnswersAlwaysTellTheTruth == Spec => []AnswersTellTheTruth
<1>1. RecordsInv => AnswersTellTheTruth
  BY DEF RecordsInv, Kept, Once, Recorded, Wrote, CallTruth, AuditTruth,
         MayHaveWritten, AuditRowOf, AnswersTellTheTruth
<1>. QED
  BY <1>1, RecordsInvariant, PTL

-----------------------------------------------------------------------------
(* Serial calls.                                                           *)

\* A call that is not over has left no record.
NoEarlyRecords ==
    \A r \in Requests : rows[r] # NoRow =>
        \A i \in 1..Len(Log(rows[r])) :
            Log(rows[r])[i].call # NoCall => calls[Log(rows[r])[i].call].pc = "done"

\* Copies are the rows they were read from, and only decisions name an approver.
CopiesAreCurrent ==
    \A c \in Calls :
        /\ calls[c].pc = "read" =>
              calls[c].row = rows[calls[c].request] /\ calls[c].row # NoRow
        /\ ~CarriesApprover(calls[c].event) => calls[c].event.approver = NoUser

\* The inductive invariant of SerialSpec.
SerialInv == ChainInv /\ OneAtATime /\ NoEarlyRecords /\ CopiesAreCurrent

SerialNext == Next /\ OneAtATime'

-----------------------------------------------------------------------------
(* The invariant.                                                          *)

LEMMA InitSerialInv == Init => SerialInv
<1>. SUFFICES ASSUME Init PROVE SerialInv
  OBVIOUS
<1>1. ChainInv
  BY InitChainInv
<1>2. OneAtATime /\ CopiesAreCurrent
  BY DEF Init, IdleCall, CancelEvent, OneAtATime, Holds, CopiesAreCurrent
<1>3. ASSUME NEW r \in Requests, rows[r] # NoRow, NEW i \in 1..Len(Log(rows[r]))
      PROVE  Log(rows[r])[i].call = NoCall
  <2>1. rows[r] \in LegacyRows
    BY <1>3 DEF Init
  <2>2. WithoutCalls(rows[r].payload)
    BY <2>1, RequestAssumption
  <2>3. CASE rows[r].payload.log = Malformed
    BY <1>3, <2>3 DEF Log
  <2>4. CASE rows[r].payload.log # Malformed
    BY <1>3, <2>2, <2>4 DEF Log, WithoutCalls
  <2>. QED
    BY <2>3, <2>4
<1>. QED
  BY <1>1, <1>2, <1>3 DEF SerialInv, NoEarlyRecords

\* A call that begins, reads or fails leaves the rows alone.
LEMMA CallStepSerialInv ==
    ASSUME SerialInv, ChainInv', OneAtATime', NEW c \in Calls, NEW new,
           UNCHANGED rows, calls' = [calls EXCEPT ![c] = new], calls[c].pc # "done",
           new.pc = "read" => new.row = rows[new.request] /\ new.row # NoRow,
           ~CarriesApprover(new.event) => new.event.approver = NoUser
    PROVE  SerialInv'
<1>1. calls' \in [Calls -> Call] /\ calls \in [Calls -> Call] /\ rows \in [Requests -> Row \cup {NoRow}]
  BY DEF SerialInv, ChainInv, TypeOK
<1>2. CopiesAreCurrent'
  BY <1>1 DEF SerialInv, CopiesAreCurrent
<1>3. NoEarlyRecords'
  <2>. SUFFICES ASSUME NEW r \in Requests, rows[r] # NoRow, NEW i \in 1..Len(Log(rows[r])),
                       Log(rows[r])[i].call # NoCall
                PROVE  calls'[Log(rows[r])[i].call].pc = "done"
    BY DEF NoEarlyRecords
  <2>1. calls[Log(rows[r])[i].call].pc = "done"
    BY DEF SerialInv, NoEarlyRecords
  <2>2. Log(rows[r])[i].call \in Calls
    <3>1. Log(rows[r]) \in Seq(Record)
      BY <1>1, LogType
    <3>2. Log(rows[r])[i] \in Record
      BY <3>1
    <3>. QED
      BY <3>2 DEF Record
  <2>. QED
    BY <1>1, <2>1, <2>2
<1>. QED
  BY <1>2, <1>3 DEF SerialInv

LEMMA TransitionSerialInv ==
    ASSUME SerialInv, ChainInv', OneAtATime', NEW c \in Calls, NEW r \in Requests, NEW e,
           calls[c].pc \in {"idle", "resolved"},
           ~CarriesApprover(e) => e.approver = NoUser, Transition(c, r, e)
    PROVE  SerialInv'
<1>1. PICK code : \/ Ends(c, r, e, code)
                  \/ /\ rows[r] # NoRow
                     /\ calls' = [calls EXCEPT ![c] = [pc |-> "read", request |-> r,
                                     event |-> e, row |-> rows[r], answer |-> "none"]]
  BY DEF Transition
<1>2. UNCHANGED rows
  BY DEF Transition
<1>3. CASE Ends(c, r, e, code)
  BY <1>2, <1>3, CallStepSerialInv DEF Ends
<1>4. CASE /\ rows[r] # NoRow
           /\ calls' = [calls EXCEPT ![c] = [pc |-> "read", request |-> r,
                           event |-> e, row |-> rows[r], answer |-> "none"]]
  BY <1>2, <1>4, CallStepSerialInv
<1>. QED
  BY <1>1, <1>3, <1>4

\* Persist replaces a row by one whose last record is its own; since nobody
\* else holds a copy of that row, every other copy stays current.
LEMMA PersistSerialInv ==
    ASSUME SerialInv, ChainInv', OneAtATime', NEW c \in Calls, Persist(c)
    PROVE  SerialInv'
<1>. DEFINE r == calls[c].request
            e == calls[c].event
            row == calls[c].row
<1>1. /\ calls' \in [Calls -> Call] /\ calls \in [Calls -> Call]
      /\ rows \in [Requests -> Row \cup {NoRow}]
      /\ r \in Requests /\ e \in Event /\ row \in Row /\ row = rows[r]
  BY DEF SerialInv, ChainInv, TypeOK, CopiesFollowChain, CopiesAreCurrent, Call, Persist
<1>2. PICK t \in StateValues, code \in {"200", "500"} :
           /\ rows' = [rows EXCEPT ![r] = RowAfter(c, row, e, t)]
           /\ Ends(c, r, e, code)
  BY PersistEffect
<1>3. CopiesAreCurrent'
  <2>. SUFFICES ASSUME NEW d \in Calls
                PROVE  /\ calls'[d].pc = "read" =>
                             calls'[d].row = rows'[calls'[d].request] /\ calls'[d].row # NoRow
                       /\ ~CarriesApprover(calls'[d].event) => calls'[d].event.approver = NoUser
    BY DEF CopiesAreCurrent
  <2>1. CASE d = c
    BY <1>1, <1>2, <2>1 DEF Ends, SerialInv, CopiesAreCurrent
  <2>2. CASE d # c
    <3>1. calls'[d] = calls[d]
      BY <1>1, <1>2, <2>2 DEF Ends
    <3>2. calls[d].pc = "read" => calls[d].request # r
      BY <2>2, <1>1 DEF SerialInv, OneAtATime, Holds, Persist
    <3>3. calls[d].pc = "read" => rows'[calls[d].request] = rows[calls[d].request]
      BY <1>1, <1>2, <3>2
    <3>. QED
      BY <3>1, <3>3 DEF SerialInv, CopiesAreCurrent
  <2>. QED
    BY <2>1, <2>2
<1>4. NoEarlyRecords'
  <2>. SUFFICES ASSUME NEW q \in Requests, rows'[q] # NoRow, NEW i \in 1..Len(Log(rows'[q])),
                       Log(rows'[q])[i].call # NoCall
                PROVE  calls'[Log(rows'[q])[i].call].pc = "done"
    BY DEF NoEarlyRecords
  <2>1. \A d \in Calls : calls[d].pc = "done" => calls'[d].pc = "done"
    BY <1>1, <1>2 DEF Ends
  <2>2. calls'[c].pc = "done"
    BY <1>1, <1>2 DEF Ends
  <2>3. ASSUME NEW k \in 1..Len(Log(rows[q])), rows[q] # NoRow, Log(rows[q])[k].call # NoCall
        PROVE  calls'[Log(rows[q])[k].call].pc = "done"
    <3>1. Log(rows[q]) \in Seq(Record)
      BY <1>1, <2>3, LogType
    <3>2. Log(rows[q])[k] \in Record
      BY <3>1
    <3>3. Log(rows[q])[k].call \in Calls
      BY <2>3, <3>2 DEF Record
    <3>. QED
      BY <2>1, <2>3, <3>3 DEF SerialInv, NoEarlyRecords
  <2>4. CASE q # r
    <3>1. rows'[q] = rows[q]
      BY <1>1, <1>2, <2>4
    <3>. QED
      BY <2>3, <3>1
  <2>5. CASE q = r
    <3>1. /\ rows'[q] = RowAfter(c, row, e, t) /\ rows[q] = row /\ row # NoRow
      BY <1>1, <1>2, <2>5 DEF SerialInv, CopiesAreCurrent, Persist
    <3>2. /\ Len(Log(rows'[q])) = Len(Log(row)) + 1
          /\ \A k \in 1..Len(Log(row)) : Log(rows'[q])[k] = Log(row)[k]
          /\ Log(rows'[q])[Len(Log(row)) + 1] = RecordOf(c, row, e, t)
      BY <1>1, <3>1, LogAfter
    <3>3. Len(Log(row)) \in Nat
      BY <1>1, LogType
    <3>4. CASE i \in 1..Len(Log(row))
      BY <2>3, <3>1, <3>2, <3>4
    <3>5. CASE i = Len(Log(row)) + 1
      BY <2>2, <3>2, <3>5 DEF RecordOf
    <3>. QED
      BY <3>2, <3>3, <3>4, <3>5
  <2>. QED
    BY <2>4, <2>5
<1>. QED
  BY <1>3, <1>4 DEF SerialInv

LEMMA CreateSerialInv ==
    ASSUME SerialInv, ChainInv', OneAtATime', NEW r \in Requests, NEW x \in Extras, Create(r, x)
    PROVE  SerialInv'
<1>. DEFINE new == [status |-> "DRAFT", submittedAt |-> NoCall, payload |-> CreatedPayload(x)]
<1>1. /\ rows \in [Requests -> Row \cup {NoRow}] /\ rows[r] = NoRow
      /\ rows' = [rows EXCEPT ![r] = new] /\ UNCHANGED calls
  BY DEF SerialInv, ChainInv, TypeOK, Create
<1>2. CopiesAreCurrent'
  BY <1>1 DEF SerialInv, CopiesAreCurrent, ChainInv, CopiesFollowChain
<1>3. \A i \in 1..Len(Log(new)) : Log(new)[i].call = NoCall
  BY RequestAssumption DEF WithoutCalls, Log
<1>4. NoEarlyRecords'
  BY <1>1, <1>3 DEF SerialInv, NoEarlyRecords
<1>. QED
  BY <1>2, <1>4 DEF SerialInv

LEMMA NextSerialInv == SerialInv /\ [SerialNext]_vars => SerialInv'
<1>. SUFFICES ASSUME SerialInv, [SerialNext]_vars PROVE SerialInv'
  OBVIOUS
<1>0. CASE UNCHANGED vars
  BY <1>0 DEF vars, SerialInv, ChainInv, TypeOK, HistoryFollowsChain, CopiesFollowChain,
              OneAtATime, Holds, NoEarlyRecords, CopiesAreCurrent
<1>. SUFFICES ASSUME Next, OneAtATime', ChainInv' PROVE SerialInv'
  BY <1>0, NextChainInv DEF SerialNext, SerialInv
<1>1. ASSUME NEW r \in Requests, NEW x \in Extras, Create(r, x)
      PROVE  SerialInv'
  BY <1>1, CreateSerialInv
<1>2. ASSUME NEW c \in Calls, NEW r \in Requests, NEW chain \in Chains, Submit(c, r, chain)
      PROVE  SerialInv'
  <2>1. SubmitEvent(chain).approver = NoUser
    BY DEF SubmitEvent
  <2>. QED
    BY <1>2, <2>1, TransitionSerialInv DEF Submit
<1>3. ASSUME NEW c \in Calls, NEW r \in Requests, NEW u \in Users,
             NEW m \in {"blank", "written"}, Reject(c, r, u, m)
      PROVE  SerialInv'
  <2>1. CarriesApprover(RejectEvent(u, m))
    BY DEF RejectEvent, CarriesApprover
  <2>. QED
    BY <1>3, <2>1, TransitionSerialInv DEF Reject
<1>4. ASSUME NEW c \in Calls, NEW r \in Requests, Cancel(c, r)
      PROVE  SerialInv'
  <2>1. CancelEvent.approver = NoUser
    BY DEF CancelEvent
  <2>. QED
    BY <1>4, <2>1, TransitionSerialInv DEF Cancel
<1>5. ASSUME NEW c \in Calls, NEW r \in Requests, NEW u \in Users, ResolvePositions(c, r, u)
      PROVE  SerialInv'
  <2>1. CarriesApprover(ApproveEvent(u, positions[u]))
    BY DEF ApproveEvent, CarriesApprover
  <2>. QED
    BY <1>5, <2>1, CallStepSerialInv DEF ResolvePositions
<1>6. ASSUME NEW c \in Calls, Approve(c)
      PROVE  SerialInv'
  <2>1. /\ calls[c].request \in Requests /\ calls[c].pc = "resolved"
        /\ ~CarriesApprover(calls[c].event) => calls[c].event.approver = NoUser
    BY <1>6 DEF Approve, SerialInv, CopiesAreCurrent, ChainInv, CopiesFollowChain
  <2>. QED
    BY <1>6, <2>1, TransitionSerialInv DEF Approve
<1>7. ASSUME NEW c \in Calls, Persist(c)
      PROVE  SerialInv'
  BY <1>7, PersistSerialInv
<1>8. ASSUME NEW c \in Calls, Fail(c)
      PROVE  SerialInv'
  <2>1. ~CarriesApprover(calls[c].event) => calls[c].event.approver = NoUser
    BY DEF SerialInv, CopiesAreCurrent
  <2>. QED
    BY <1>8, <2>1, CallStepSerialInv DEF Fail, Ends
<1>9. ASSUME NEW u \in Users, NEW held \in SUBSET Positions, SetPositions(u, held)
      PROVE  SerialInv'
  BY <1>9 DEF SetPositions, SerialInv, NoEarlyRecords, CopiesAreCurrent
<1>10. ASSUME NEW c \in Calls, LoseAcknowledgement(c)
       PROVE  SerialInv'
  <2>1. PICK new : /\ new = [calls[c] EXCEPT !.answer = "500"]
                   /\ calls' = [calls EXCEPT ![c] = new]
                   /\ calls[c].pc = "read" /\ UNCHANGED rows
    BY <1>10 DEF LoseAcknowledgement, SerialInv, ChainInv, TypeOK
  <2>2. /\ new.event = calls[c].event /\ new.row = calls[c].row
        /\ new.request = calls[c].request
    BY <2>1 DEF SerialInv, ChainInv, TypeOK, Call
  <2>3. /\ new.row = rows[new.request] /\ new.row # NoRow
        /\ ~CarriesApprover(new.event) => new.event.approver = NoUser
    BY <2>1, <2>2 DEF SerialInv, CopiesAreCurrent
  <2>. QED
    BY <2>1, <2>3, CallStepSerialInv
<1>. QED
  BY <1>1, <1>2, <1>3, <1>4, <1>5, <1>6, <1>7, <1>8, <1>9, <1>10 DEF Next

\* Without racing calls every copy is the row it was read from.
THEOREM SerialInvariant == SerialSpec => []SerialInv
<1>1. Init /\ [][SerialNext]_vars => []SerialInv
  BY InitSerialInv, NextSerialInv, PTL
<1>. QED
  BY <1>1 DEF SerialSpec, SerialNext

-----------------------------------------------------------------------------
(* The refinement.                                                         *)

LEMMA TrailAfter ==
    ASSUME NEW c \in Calls, NEW row \in Row, NEW e \in Event, NEW t \in StateValues
    PROVE  Trail(RowAfter(c, row, e, t)) =
             Trail(row) \cup {[act |-> c, event |-> e.type, approver |-> e.approver]}
<1>. DEFINE new == RowAfter(c, row, e, t)
            n == Len(Log(row))
            Act(rec) == [act |-> rec.call, event |-> rec.event, approver |-> rec.approver]
<1>1. /\ new # NoRow /\ row # NoRow /\ n \in Nat /\ c # NoCall
  BY RowAfterType, LogType, RequestAssumption
<1>2. /\ Len(Log(new)) = n + 1
      /\ \A i \in 1..n : Log(new)[i] = Log(row)[i]
      /\ Log(new)[n + 1] = RecordOf(c, row, e, t)
  BY LogAfter
<1>3. RecordOf(c, row, e, t).call = c /\ Act(RecordOf(c, row, e, t)) =
         [act |-> c, event |-> e.type, approver |-> e.approver]
  BY DEF RecordOf
<1>4. \A a : a \in Trail(row) <=> \E i \in 1..n : Log(row)[i].call # NoCall /\ a = Act(Log(row)[i])
  BY <1>1 DEF Trail
<1>5. \A a : a \in Trail(new) <=> \E i \in 1..(n + 1) : Log(new)[i].call # NoCall /\ a = Act(Log(new)[i])
  BY <1>1, <1>2 DEF Trail
<1>. DEFINE act == [act |-> c, event |-> e.type, approver |-> e.approver]
<1>6. act \in Trail(new)
  BY <1>1, <1>2, <1>3, <1>5
<1>7. ASSUME NEW a \in Trail(row) PROVE a \in Trail(new)
  <2>1. PICK i \in 1..n : Log(row)[i].call # NoCall /\ a = Act(Log(row)[i])
    BY <1>4, <1>7
  <2>2. i \in 1..(n + 1) /\ Log(new)[i] = Log(row)[i]
    BY <1>1, <1>2
  <2>. QED
    BY <1>5, <2>1, <2>2
<1>8. ASSUME NEW a \in Trail(new) PROVE a \in Trail(row) \/ a = act
  <2>1. PICK i \in 1..(n + 1) : Log(new)[i].call # NoCall /\ a = Act(Log(new)[i])
    BY <1>5, <1>8
  <2>2. CASE i \in 1..n
    BY <1>2, <1>4, <2>1, <2>2
  <2>3. CASE i = n + 1
    BY <1>2, <1>3, <2>1, <2>3
  <2>. QED
    BY <1>1, <2>2, <2>3
<1>. QED
  BY <1>6, <1>7, <1>8

\* The first slot still to be passed is the one at the index; passing it
\* leaves the others.
LEMMA LeftOfApproving ==
    ASSUME NEW row \in Row, AtASlot(row)
    PROVE  LET chain == Rehydrate(row).chain
               step == Rehydrate(row).step
           IN /\ Left(row) # << >>
              /\ Head(Left(row)) = chain[step + 1]
              /\ Len(Left(row)) = Len(chain) - step
              /\ Tail(Left(row)) = SubSeq(chain, step + 2, Len(chain))
<1>. DEFINE chain == Rehydrate(row).chain
            step == Rehydrate(row).step
<1>1. chain \in Seq(Identities) /\ step \in Int /\ row # NoRow
  BY RehydrateType, RequestAssumption DEF Context
<1>2. step + 1 \in 1..Len(chain) /\ Len(chain) \in Nat
  BY <1>1 DEF AtASlot
<1>3. Left(row) = SubSeq(chain, step + 1, Len(chain))
  BY <1>1 DEF Left
<1>. HIDE DEF chain, step
<1>4. \A i \in (step + 1)..Len(chain) : chain[i] \in Identities
  BY <1>1, <1>2
<1>5. /\ Left(row) \in Seq(Identities)
      /\ Len(Left(row)) = Len(chain) - step
  BY <1>1, <1>2, <1>3, <1>4, SubSeqProperties
<1>6. Left(row) # << >>
  BY <1>2, <1>1, <1>5
<1>7. /\ Head(Left(row)) = chain[step + 1]
      /\ Tail(Left(row)) = SubSeq(chain, step + 2, Len(chain))
  BY <1>1, <1>2, <1>3, HeadTailOfSubSeq
<1>. QED
  BY <1>5, <1>6, <1>7 DEF chain, step

\* A step that leaves the rows alone is a stutter of the workflow.
LEMMA SameRows ==
    ASSUME UNCHANGED rows
    PROVE  UNCHANGED Workflow!vars
BY DEF Workflow!vars, Phases, Lefts, Trails

LEMMA CreateOpens ==
    ASSUME SerialInv, NEW r \in Requests, NEW x \in Extras, Create(r, x)
    PROVE  Workflow!Open(r)
<1>. DEFINE new == [status |-> "DRAFT", submittedAt |-> NoCall, payload |-> CreatedPayload(x)]
<1>1. /\ rows \in [Requests -> Row \cup {NoRow}] /\ rows[r] = NoRow
      /\ rows' = [rows EXCEPT ![r] = new]
  BY DEF SerialInv, ChainInv, TypeOK, Create
<1>2. new \in Row /\ new # NoRow
  BY CreatedRowType, RequestAssumption
<1>3. Phase(new) = "draft" /\ Left(new) = << >>
  BY <1>2 DEF Phase, Left, AtASlot, StateOf, StateOfStatus
<1>4. Trail(new) = {}
  <2>1. \A i \in 1..Len(Log(new)) : Log(new)[i].call = NoCall
    BY RequestAssumption DEF WithoutCalls, Log
  <2>. QED
    BY <2>1 DEF Trail
<1>5. Phase(rows[r]) = "none" /\ Left(rows[r]) = << >> /\ Trail(rows[r]) = {}
  BY <1>1 DEF Phase, Left, Trail
<1>. HIDE DEF new
<1>6. \A q \in Requests : rows'[q] = IF q = r THEN new ELSE rows[q]
  BY <1>1
<1>7. /\ Phases[r] = "none"
      /\ Phases' = [Phases EXCEPT ![r] = "draft"]
  BY <1>3, <1>5, <1>6 DEF Phases
<1>8. Lefts' = Lefts /\ Trails' = Trails
  BY <1>3, <1>4, <1>5, <1>6 DEF Lefts, Trails
<1>. QED
  BY <1>7, <1>8 DEF Workflow!Open

\* The copy a call persists is the row, so storing its successor moves the
\* request by the act of that call.
LEMMA PersistMoves ==
    ASSUME SerialInv, NEW c \in Calls, calls[c].pc = "read",
           NEW t \in StateValues,
           rows' = [rows EXCEPT ![calls[c].request] =
                       RowAfter(c, calls[c].row, calls[c].event, t)]
    PROVE  LET r == calls[c].request
               e == calls[c].event
               new == RowAfter(c, calls[c].row, e, t)
           IN Workflow!Moves(c, r, e.type, e.approver, Phase(new), Left(new))
<1>. DEFINE r == calls[c].request
            e == calls[c].event
            row == calls[c].row
            new == RowAfter(c, row, e, t)
<1>1. /\ rows \in [Requests -> Row \cup {NoRow}]
      /\ r \in Requests /\ e \in Event /\ row \in Row /\ rows[r] = row /\ row # NoRow
  BY DEF SerialInv, ChainInv, TypeOK, CopiesFollowChain, CopiesAreCurrent, Call
<1>2. Trail(new) = Trail(row) \cup {[act |-> c, event |-> e.type, approver |-> e.approver]}
  BY <1>1, TrailAfter
<1>3. \A done \in Trails[r] : done.act # c
  <2>. SUFFICES ASSUME NEW i \in 1..Len(Log(row)), Log(row)[i].call # NoCall
                PROVE  Log(row)[i].call # c
    BY <1>1 DEF Trails, Trail
  <2>. QED
    BY <1>1 DEF SerialInv, NoEarlyRecords
<1>. HIDE DEF new
<1>4. \A q \in Requests : rows'[q] = IF q = r THEN new ELSE rows[q]
  BY <1>1 DEF new
<1>5. Phases' = [Phases EXCEPT ![r] = Phase(new)]
  <2>1. \A q \in Requests : Phase(rows'[q]) = IF q = r THEN Phase(new) ELSE Phase(rows[q])
    BY <1>4
  <2>. QED
    BY <2>1 DEF Phases
<1>6. Lefts' = [Lefts EXCEPT ![r] = Left(new)]
  <2>1. \A q \in Requests : Left(rows'[q]) = IF q = r THEN Left(new) ELSE Left(rows[q])
    BY <1>4
  <2>. QED
    BY <2>1 DEF Lefts
<1>7. Trails' = [Trails EXCEPT ![r] = @ \cup {[act |-> c, event |-> e.type, approver |-> e.approver]}]
  BY <1>1, <1>2, <1>4 DEF Trails
<1>. QED
  BY <1>3, <1>5, <1>6, <1>7 DEF Workflow!Moves, new

LEMMA PersistRefines ==
    ASSUME SerialInv, NEW c \in Calls, Persist(c)
    PROVE  Workflow!Next
<1>. DEFINE r == calls[c].request
            e == calls[c].event
            row == calls[c].row
            ctx == Rehydrate(row)
<1>1. PICK t \in StateValues :
           /\ Fires(StateOf(row), ctx, e, t)
           /\ rows' = [rows EXCEPT ![r] = RowAfter(c, row, e, t)]
  BY PersistEffect
<1>. DEFINE new == RowAfter(c, row, e, t)
<1>2. /\ rows \in [Requests -> Row \cup {NoRow}]
      /\ r \in Requests /\ e \in Event /\ row \in Row /\ rows[r] = row /\ row # NoRow
      /\ calls[c].pc = "read"
      /\ CarriesApprover(e) => e.approver \in Users
      /\ ~CarriesApprover(e) => e.approver = NoUser
  BY DEF SerialInv, ChainInv, TypeOK, CopiesFollowChain, CopiesAreCurrent, Call, Persist
<1>3. /\ Phases[r] = IF StateOf(row) = "approving" THEN "pending" ELSE StateOf(row)
      /\ Lefts[r] = Left(row)
  BY <1>2 DEF Phases, Lefts, Phase
<1>4. ctx \in Context /\ new \in Row /\ new # NoRow
  BY <1>2, RehydrateType, RowAfterType, RequestAssumption
<1>5. /\ Phase(new) = IF t = "approving" THEN "pending" ELSE t
      /\ StateOf(new) = t
      /\ Rehydrate(new).chain = ContextAfter(ctx, e, t).chain
      /\ Rehydrate(new).step = ContextAfter(ctx, e, t).step
  <2>1. ContextAfter(ctx, e, t) \in Context
    BY <1>2, <1>4, ContextAfterType
  <2>2. ContextAfter(ctx, e, t).chain # Malformed /\ ContextAfter(ctx, e, t).step # Malformed
    BY <2>1, RequestAssumption DEF Context
  <2>3. StateOf(new) = t
    BY DEF StateOf, StateOfStatus, StatusOfState, StateValues, RowAfter
  <2>4. Phase(new) = IF t = "approving" THEN "pending" ELSE t
    BY <1>4, <2>3 DEF Phase
  <2>5. /\ Rehydrate(new).chain = ContextAfter(ctx, e, t).chain
        /\ Rehydrate(new).step = ContextAfter(ctx, e, t).step
    BY <2>2 DEF RowAfter, Rehydrate
  <2>. QED
    BY <2>3, <2>4, <2>5
<1>6. Workflow!Moves(c, r, e.type, e.approver, Phase(new), Left(new))
  BY <1>1, <1>2, PersistMoves
<1>. HIDE DEF new, ctx
<1>7. CASE e.type = "SUBMIT"
  <2>1. StateOf(row) = "draft" /\ t = "approving" /\ e.chain # << >> /\ e.approver = NoUser
    BY <1>1, <1>2, <1>7 DEF Fires, HasApprovalChain, CarriesApprover
  <2>2. e.chain \in Seq(Identities) /\ Len(e.chain) >= 1 /\ Len(e.chain) \in Nat
    BY <1>2, <2>1 DEF Event
  <2>3. Rehydrate(new).chain = e.chain /\ Rehydrate(new).step = 0
    BY <1>5, <1>7 DEF ContextAfter
  <2>4. Left(new) = e.chain
    <3>1. AtASlot(new)
      BY <1>5, <2>1, <2>2, <2>3 DEF AtASlot
    <3>2. Left(new) = SubSeq(e.chain, 0 + 1, Len(e.chain))
      BY <1>4, <2>3, <3>1 DEF Left
    <3>3. SubSeq(e.chain, 1, Len(e.chain)) = e.chain
      BY <2>2, SubSeqFull
    <3>. QED
      BY <3>2, <3>3
  <2>5. Lefts'[r] = Left(new)
    BY <1>2, <1>6 DEF Workflow!Moves, Lefts
  <2>6. Workflow!Submit(c, r)
    BY <1>2, <1>3, <1>5, <1>6, <1>7, <2>1, <2>2, <2>4, <2>5 DEF Workflow!Submit, Identities
  <2>. QED
    BY <1>2, <2>6 DEF Workflow!Next
<1>8. CASE e.type = "CANCEL"
  <2>1. StateOf(row) \in {"draft", "approving"} /\ t = "cancelled" /\ e.approver = NoUser
    BY <1>1, <1>2, <1>8 DEF Fires, HasApprovalChain, CarriesApprover
  <2>2. Left(new) = << >> /\ Phase(new) = "cancelled"
    BY <1>5, <2>1 DEF Left, AtASlot
  <2>3. Workflow!Cancel(c, r)
    BY <1>3, <1>6, <1>8, <2>1, <2>2 DEF Workflow!Cancel
  <2>. QED
    BY <1>2, <2>3 DEF Workflow!Next
<1>9. ASSUME e.type \in {"APPROVE", "REJECT"}
      PROVE  /\ Workflow!IsNext(r, e.approver, e.positions)
             /\ AtASlot(row)
             /\ e.approver \in Users /\ e.positions \in SUBSET Positions
  <2>1. /\ StateOf(row) = "approving" /\ AtASlot(row)
        /\ ctx.chain[ctx.step + 1] \in {e.approver} \cup e.positions
    BY <1>1, <1>9 DEF Fires, HasApprovalChain, IsAuthorisedApprover, AtASlot, ctx
  <2>2. Left(row) # << >> /\ Head(Left(row)) = ctx.chain[ctx.step + 1]
    BY <1>2, <2>1, LeftOfApproving DEF ctx
  <2>3. e.approver \in Users /\ e.positions \in SUBSET Positions
    BY <1>2, <1>9 DEF CarriesApprover, Event
  <2>. QED
    BY <1>3, <2>1, <2>2, <2>3 DEF Workflow!IsNext
<1>10. CASE e.type = "REJECT"
  <2>1. t = "rejected"
    BY <1>1, <1>10 DEF Fires, HasApprovalChain
  <2>2. Left(new) = << >> /\ Phase(new) = "rejected"
    BY <1>5, <2>1 DEF Left, AtASlot
  <2>3. Workflow!Reject(c, r, e.approver, e.positions)
    BY <1>6, <1>9, <1>10, <2>2 DEF Workflow!Reject
  <2>. QED
    BY <1>2, <1>9, <1>10, <2>3 DEF Workflow!Next
<1>11. CASE e.type = "APPROVE"
  <2>. DEFINE n == Len(ctx.chain)
  <2>1. /\ ctx.chain \in Seq(Identities) /\ n \in Nat /\ ctx.step \in Int
        /\ ctx.step + 1 \in 1..n
    BY <1>4, <1>9, <1>11 DEF Context, AtASlot, ctx
  <2>2. /\ Len(Left(row)) = n - ctx.step
        /\ Tail(Left(row)) = SubSeq(ctx.chain, ctx.step + 2, n)
    BY <1>2, <1>9, <1>11, LeftOfApproving DEF ctx
  <2>3. ASSUME t = "approving"
        PROVE  Workflow!Approve(c, r, e.approver, e.positions)
    <3>1. ctx.step < n - 1
      BY <1>1, <1>11, <2>3 DEF Fires, NotLastStep, HasApprovalChain
    <3>2. Rehydrate(new).chain = ctx.chain /\ Rehydrate(new).step = ctx.step + 1
      BY <1>5, <1>11, <2>3 DEF ContextAfter
    <3>3. AtASlot(new)
      BY <1>5, <2>1, <2>3, <3>1, <3>2 DEF AtASlot
    <3>4. (ctx.step + 1) + 1 = ctx.step + 2
      BY <2>1
    <3>5. Left(new) = SubSeq(ctx.chain, (ctx.step + 1) + 1, n)
      BY <1>4, <3>2, <3>3 DEF Left
    <3>6. Left(new) = Tail(Lefts[r])
      BY <1>3, <2>2, <3>4, <3>5
    <3>7. Phase(new) = IF Len(Lefts[r]) = 1 THEN "approved" ELSE "pending"
      BY <1>3, <1>5, <2>1, <2>2, <2>3, <3>1
    <3>. QED
      BY <1>6, <1>9, <1>11, <3>6, <3>7 DEF Workflow!Approve
  <2>4. ASSUME t = "approved"
        PROVE  Workflow!Approve(c, r, e.approver, e.positions)
    <3>1. ctx.step >= n - 1
      BY <1>1, <1>11, <2>4 DEF Fires, IsLastStep, HasApprovalChain
    <3>2. Len(Left(row)) = 1 /\ Tail(Left(row)) = << >>
      <4>1. ctx.step + 1 = n /\ ctx.step + 2 \in Int /\ ctx.step + 2 > n
        BY <2>1, <3>1
      <4>2. SubSeq(ctx.chain, ctx.step + 2, n) = << >>
        BY <2>1, <4>1, SubSeqEmpty
      <4>. QED
        BY <2>1, <2>2, <4>1, <4>2
    <3>3. Left(new) = << >> /\ Phase(new) = "approved"
      BY <1>5, <2>4 DEF Left, AtASlot
    <3>4. /\ Left(new) = Tail(Lefts[r])
          /\ Phase(new) = IF Len(Lefts[r]) = 1 THEN "approved" ELSE "pending"
      BY <1>3, <3>2, <3>3
    <3>. QED
      BY <1>6, <1>9, <1>11, <3>4 DEF Workflow!Approve
  <2>5. t \in {"approving", "approved"}
    BY <1>1, <1>11 DEF Fires, HasApprovalChain
  <2>6. Workflow!Approve(c, r, e.approver, e.positions)
    BY <2>3, <2>4, <2>5
  <2>. QED
    BY <1>2, <1>9, <1>11, <2>6 DEF Workflow!Next
<1>. QED
  BY <1>2, <1>7, <1>8, <1>10, <1>11 DEF Event, EventTypes

LEMMA InitRefines == Init => Workflow!Init
<1>. SUFFICES ASSUME Init PROVE Workflow!Init
  OBVIOUS
<1>1. ASSUME NEW r \in Requests
      PROVE  /\ Phase(rows[r]) \in {"none", "pending"}
             /\ Left(rows[r]) \in Seq(Identities)
             /\ Phase(rows[r]) = "none" => Left(rows[r]) = << >>
             /\ Trail(rows[r]) = {}
  <2>1. CASE rows[r] = NoRow
    BY <2>1 DEF Phase, Left, Trail
  <2>2. CASE rows[r] # NoRow
    <3>1. rows[r] \in LegacyRows /\ rows[r] \in Row /\ WithoutCalls(rows[r].payload)
      BY <2>2, RequestAssumption DEF Init
    <3>2. StateOf(rows[r]) = "approving"
      BY <3>1, RequestAssumption DEF StateOf, StateOfStatus
    <3>3. Trail(rows[r]) = {}
      BY <2>2, <3>1 DEF Trail, WithoutCalls, Log
    <3>4. Left(rows[r]) \in Seq(Identities)
      <4>. DEFINE chain == Rehydrate(rows[r]).chain
                  step == Rehydrate(rows[r]).step
      <4>1. chain \in Seq(Identities) /\ step \in Int
        BY <3>1, RehydrateType DEF Context
      <4>. HIDE DEF chain, step
      <4>2. ASSUME step + 1 \in 1..Len(chain)
            PROVE  SubSeq(chain, step + 1, Len(chain)) \in Seq(Identities)
        <5>1. /\ Len(chain) \in Int /\ step + 1 \in Int
              /\ \A i \in (step + 1)..Len(chain) : chain[i] \in Identities
          BY <4>1, <4>2
        <5>. QED
          BY <5>1, SubSeqProperties
      <4>. QED
        BY <4>2 DEF Left, AtASlot, chain, step
    <3>. QED
      BY <2>2, <3>2, <3>3, <3>4 DEF Phase
  <2>. QED
    BY <2>1, <2>2
<1>. QED
  BY <1>1 DEF Workflow!Init, Phases, Lefts, Trails, Identities

LEMMA NextRefines == SerialInv /\ [SerialNext]_vars => [Workflow!Next]_(Workflow!vars)
<1>. SUFFICES ASSUME SerialInv, [SerialNext]_vars, rows' # rows PROVE Workflow!Next
  BY SameRows
<1>1. ASSUME NEW r \in Requests, NEW x \in Extras, Create(r, x)
      PROVE  Workflow!Next
  BY <1>1, CreateOpens DEF Workflow!Next
<1>2. ASSUME NEW c \in Calls, Persist(c)
      PROVE  Workflow!Next
  BY <1>2, PersistRefines
<1>3. Next
  BY DEF SerialNext, vars
<1>. QED
  BY <1>1, <1>2, <1>3 DEF Next, Submit, Reject, Cancel, Approve, Transition,
                          ResolvePositions, Fail, LoseAcknowledgement, SetPositions

\* As long as no two calls work on one request at the same time, the service
\* is the workflow of its comments: the chain is consumed slot by slot, a
\* decision is only ever that of the slot reached, an ended request is final
\* and its trail only grows.
THEOREM SerialCallsImplementWorkflow == SerialSpec => ImplementsWorkflow
<1>1. Init /\ [][SerialNext]_vars => SerialSpec
  BY PTL DEF SerialSpec, SerialNext
<1>. QED
  BY SerialInvariant, InitRefines, NextRefines, PTL
     DEF SerialSpec, SerialNext, ImplementsWorkflow, Workflow!Spec

-----------------------------------------------------------------------------
(* What else serial calls keep.                                            *)

\* A terminal row is not overwritten: the copy that a call stores is the row,
\* and the machine takes no event in a terminal state (TerminalIsFinal, which
\* racing calls break).
THEOREM SerialTerminalIsFinal == SerialSpec => TerminalIsFinal
<1>1. SerialInv /\ [SerialNext]_vars => [TerminalStaysFinal]_vars
  <2>. SUFFICES ASSUME SerialInv, Next, NEW r \in Requests, rows[r] # NoRow,
                       Terminal(rows[r])
       PROVE  rows'[r] = rows[r]
    BY DEF TerminalStaysFinal, SerialNext
  <2>. TypeOK
    BY DEF SerialInv, ChainInv
  <2>1. ASSUME NEW q \in Requests, NEW x \in Extras, Create(q, x)
        PROVE  rows'[r] = rows[r]
    BY <2>1 DEF Create, TypeOK
  <2>2. ASSUME NEW c \in Calls, Persist(c)
        PROVE  rows'[r] = rows[r]
    <3>1. calls[c].row = rows[calls[c].request]
      BY <2>2 DEF SerialInv, CopiesAreCurrent, Persist
    <3>2. StateOf(calls[c].row) \in {"draft", "approving"}
      BY <2>2, PersistEffect DEF Fires
    <3>3. StateOf(rows[r]) \notin {"draft", "approving"}
      BY DEF Terminal, TerminalStatuses, StateOf, StateOfStatus
    <3>4. calls[c].request # r
      BY <3>1, <3>2, <3>3
    <3>5. \E new : rows' = [rows EXCEPT ![calls[c].request] = new]
      BY <2>2, PersistEffect
    <3>. QED
      BY <3>4, <3>5 DEF TypeOK
  <2>3. CASE UNCHANGED rows
    BY <2>3
  <2>. QED
    BY <2>1, <2>2, <2>3
    DEF Next, Submit, Reject, Cancel, Approve, Transition, ResolvePositions, Fail,
        LoseAcknowledgement, SetPositions
<1>2. SerialSpec => [][SerialNext]_vars
  BY PTL DEF SerialSpec, SerialNext
<1>. QED
  BY <1>1, <1>2, SerialInvariant, PTL DEF TerminalIsFinal

LEMMA PersistKeepsLogged ==
    ASSUME SerialInv, AuditedDecisionsAreLogged, NEW c \in Calls, Persist(c)
    PROVE  AuditedDecisionsAreLogged'
<1>. TypeOK
  BY DEF SerialInv, ChainInv
<1>1. PICK r \in Requests, e \in Event, row \in Row :
           /\ calls[c].request = r /\ calls[c].event = e
           /\ calls[c].row = row /\ rows[r] = row
  BY DEF SerialInv, ChainInv, TypeOK, Call, CopiesFollowChain, CopiesAreCurrent, Persist
<1>2. PICK t \in StateValues :
           /\ rows' = [rows EXCEPT ![r] = RowAfter(c, row, e, t)]
           /\ audit' = audit \cup AuditOf(c, r, e)
  BY <1>1, PersistEffect
<1>3. PICK new \in Row : new = RowAfter(c, row, e, t)
  BY RowAfterType
<1>4. /\ rows'[r] = new /\ \A q \in Requests \ {r} : rows'[q] = rows[q]
      /\ new # NoRow
  BY <1>2, <1>3, RequestAssumption DEF TypeOK
<1>5. /\ Len(Log(row)) \in Nat /\ Len(Log(new)) = Len(Log(row)) + 1
      /\ \A i \in 1..Len(Log(row)) : Log(new)[i] = Log(row)[i]
      /\ Log(new)[Len(Log(row)) + 1] = RecordOf(c, row, e, t)
  BY <1>3, LogAfter, LogType
<1>6. ASSUME NEW a \in audit'
      PROVE  /\ rows'[a.request] # NoRow
             /\ \E i \in 1..Len(Log(rows'[a.request])) :
                   /\ Log(rows'[a.request])[i].call = a.call
                   /\ Log(rows'[a.request])[i].event = a.action
  <2>1. CASE a \in AuditOf(c, r, e)
    <3>1. a.request = r /\ a.call = c /\ a.action = e.type
      BY <2>1 DEF AuditOf
    <3>2. /\ Log(new)[Len(Log(row)) + 1].call = c
          /\ Log(new)[Len(Log(row)) + 1].event = e.type
      BY <1>5 DEF RecordOf
    <3>3. Len(Log(row)) + 1 \in 1..Len(Log(new))
      BY <1>5
    <3>. QED
      BY <1>4, <3>1, <3>2, <3>3
  <2>2. CASE a \in audit
    <3>1. a.request \in Requests
      BY <2>2 DEF TypeOK, AuditRow
    <3>2. rows[a.request] # NoRow
      BY <2>2 DEF AuditedDecisionsAreLogged
    <3>3. PICK i \in 1..Len(Log(rows[a.request])) :
               /\ Log(rows[a.request])[i].call = a.call
               /\ Log(rows[a.request])[i].event = a.action
      BY <2>2 DEF AuditedDecisionsAreLogged
    <3>4. CASE a.request = r
      <4>1. i \in 1..Len(Log(new)) /\ Log(new)[i] = Log(row)[i]
        BY <1>1, <1>5, <3>3, <3>4
      <4>. QED
        BY <1>1, <1>4, <3>3, <3>4, <4>1
    <3>5. CASE a.request # r
      BY <1>4, <3>1, <3>2, <3>3, <3>5
    <3>. QED
      BY <3>4, <3>5
  <2>. QED
    BY <1>2, <2>1, <2>2
<1>. QED
  BY <1>6 DEF AuditedDecisionsAreLogged

\* No update is lost: the log of a request, which each call replaces as a
\* whole, holds the decision of every audit row that was written for it
\* (AuditedDecisionsAreLogged).
THEOREM SerialAuditedDecisionsAreLogged == SerialSpec => []AuditedDecisionsAreLogged
<1>1. Init => AuditedDecisionsAreLogged
  BY DEF Init, AuditedDecisionsAreLogged
<1>2. SerialInv /\ AuditedDecisionsAreLogged /\ [SerialNext]_vars
         => AuditedDecisionsAreLogged'
  <2>. SUFFICES ASSUME SerialInv, AuditedDecisionsAreLogged, [Next]_vars
       PROVE  AuditedDecisionsAreLogged'
    BY DEF SerialNext
  <2>1. ASSUME NEW r \in Requests, NEW x \in Extras, Create(r, x)
        PROVE  AuditedDecisionsAreLogged'
    <3>1. \A a \in audit : a.request \in Requests /\ a.request # r
      BY <2>1 DEF Create, AuditedDecisionsAreLogged, SerialInv, ChainInv, TypeOK, AuditRow
    <3>2. \A q \in Requests \ {r} : rows'[q] = rows[q]
      BY <2>1 DEF Create, SerialInv, ChainInv, TypeOK
    <3>3. audit' = audit
      BY <2>1 DEF Create
    <3>4. \A a \in audit : rows'[a.request] = rows[a.request]
      BY <3>1, <3>2
    <3>. QED
      BY <3>3, <3>4 DEF AuditedDecisionsAreLogged
  <2>2. ASSUME NEW c \in Calls, Persist(c)
        PROVE  AuditedDecisionsAreLogged'
    BY <2>2, PersistKeepsLogged
  <2>3. CASE UNCHANGED <<rows, audit>>
    BY <2>3 DEF AuditedDecisionsAreLogged
  <2>. QED
    BY <2>1, <2>2, <2>3
    DEF Next, Submit, Reject, Cancel, Approve, Transition, ResolvePositions, Fail,
        LoseAcknowledgement, SetPositions, vars
<1>3. SerialSpec => Init /\ [][SerialNext]_vars
  BY PTL DEF SerialSpec, SerialNext
<1>. QED
  BY <1>1, <1>2, <1>3, SerialInvariant, PTL
=============================================================================
