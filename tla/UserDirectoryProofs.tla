------------------------- MODULE UserDirectoryProofs -------------------------
(***************************************************************************)
(* Proofs about UserDirectory, for any number of employees and calls.      *)
(***************************************************************************)
EXTENDS UserDirectory, TLAPS

DirectoryInv == TypeOK /\ RowsExplained /\ PasswordsExplained

LEMMA IdleCallIsACall == IdleCall \in Call
<1>1. (CHOOSE op \in Ops : TRUE) \in Ops
  BY DirectoryAssumption
<1>. QED
  BY <1>1 DEF IdleCall, Call

LEMMA InitInv == Init => DirectoryInv
<1>. SUFFICES ASSUME Init PROVE DirectoryInv
  OBVIOUS
<1>1. TypeOK
  BY IdleCallIsACall, DirectoryAssumption DEF Init, TypeOK, WellFormed, IdleCall, Exists
<1>2. \A n \in Numbers : ~Exists(n)
  BY DEF Init, Exists
<1>3. \A c \in Calls : ~calls[c].stored
  BY DEF Init, IdleCall
<1>. QED
  BY <1>1, <1>2, <1>3 DEF DirectoryInv, RowsExplained, PasswordsExplained, Done

-----------------------------------------------------------------------------

\* A step that changes only a call, and stores nothing for it.
LEMMA CallStep ==
    ASSUME DirectoryInv, NEW c \in Calls, NEW call \in Call,
           ~At(c, "done"), ~call.stored, WellFormed(call),
           calls' = [calls EXCEPT ![c] = call], UNCHANGED <<users, units>>
    PROVE  DirectoryInv'
<1>1. calls' \in [Calls -> Call]
  BY DEF DirectoryInv, TypeOK
<1>2. \A d \in Calls : calls'[d] = IF d = c THEN call ELSE calls[d]
  BY DEF DirectoryInv, TypeOK
<1>3. \A d \in Calls : WellFormed(calls[d])'
  BY <1>2 DEF DirectoryInv, TypeOK, WellFormed, Exists
<1>4. TypeOK'
  BY <1>1, <1>3 DEF DirectoryInv, TypeOK, Exists, Taken, UnitExists
<1>5. ~calls[c].stored
  BY DEF DirectoryInv, TypeOK, WellFormed, At
<1>6. \A d \in Calls, n \in Numbers : \A types :
         Done(d, n, types)' <=> Done(d, n, types)
  BY <1>2, <1>5 DEF Done
<1>7. \A d \in Calls, n \in Numbers : \A types :
         Done(d, n, types) => calls'[d] = calls[d]
  BY <1>2, <1>5 DEF Done
<1>8. RowsExplained'
  BY <1>6, <1>7 DEF DirectoryInv, RowsExplained, RowExplained, Exists
<1>9. PasswordsExplained'
  BY <1>6, <1>7 DEF DirectoryInv, TypeOK, PasswordsExplained, PasswordExplained,
              KeepsItsPassword, Exists, Row
<1>. QED
  BY <1>4, <1>8, <1>9 DEF DirectoryInv

LEMMA RefusesInv ==
    ASSUME DirectoryInv, NEW c \in Calls, NEW op \in Ops, At(c, "idle"),
           NEW code \in {"404", "409"}, Refuses(c, op, code), UNCHANGED <<users, units>>
    PROVE  DirectoryInv'
<1>. DEFINE call == [calls[c] EXCEPT !.pc = "done", !.op = op, !.answer = code]
<1>1. calls[c] \in Call /\ WellFormed(calls[c])
  BY DEF DirectoryInv, TypeOK
<1>2. call \in Call
  BY <1>1 DEF Call
<1>3. WellFormed(call)
  BY <1>1 DEF WellFormed, At, Call
<1>4. ~call.stored /\ ~At(c, "done")
  BY <1>1 DEF At, Call, WellFormed
<1>5. calls' = [calls EXCEPT ![c] = call]
  BY DEF Refuses
<1>. QED
  BY <1>2, <1>3, <1>4, <1>5, CallStep

LEMMA BeginsInv ==
    ASSUME DirectoryInv, NEW c \in Calls, NEW op \in Ops, At(c, "idle"),
           NEW pc, NEW copy \in Row \cup {NoRow},
           \/ pc = "insert" /\ op.type = "create"
           \/ pc = "write" /\ op.type \in {"update", "remove"} /\ Exists(op.num)
           \/ pc = "unit" /\ op.type = "sync",
           Begins(c, op, pc, copy), UNCHANGED <<users, units>>
    PROVE  DirectoryInv'
<1>. DEFINE call == [calls[c] EXCEPT !.pc = pc, !.op = op, !.copy = copy]
<1>1. calls[c] \in Call /\ WellFormed(calls[c])
  BY DEF DirectoryInv, TypeOK
<1>2. call \in Call
  BY <1>1 DEF Call
<1>3. WellFormed(call)
  BY <1>1 DEF WellFormed, At, Call
<1>4. ~call.stored /\ ~At(c, "done")
  BY <1>1 DEF At, Call, WellFormed
<1>5. calls' = [calls EXCEPT ![c] = call]
  BY DEF Begins
<1>. QED
  BY <1>2, <1>3, <1>4, <1>5, CallStep

LEMMA StartInv ==
    ASSUME DirectoryInv, NEW c \in Calls, NEW op \in Ops, Start(c, op)
    PROVE  DirectoryInv'
<1>1. CASE Create(c, op)
  BY <1>1, RefusesInv, BeginsInv DEF Create
<1>2. CASE Find(c, op)
  <2>1. Exists(op.num) => users[op.num] \in Row
    BY DirectoryAssumption DEF DirectoryInv, TypeOK, Exists, Op
  <2>. QED
    BY <1>2, <2>1, RefusesInv, BeginsInv DEF Find
<1>3. CASE CheckEmail(c, op)
  BY <1>3, RefusesInv, BeginsInv DEF CheckEmail
<1>. QED
  BY <1>1, <1>2, <1>3 DEF Start

LEMMA LookupInv ==
    ASSUME DirectoryInv, NEW c \in Calls,
           FindUnit(c) \/ FindManager(c) \/ ReadPayload(c)
    PROVE  DirectoryInv'
<1>1. calls[c] \in Call /\ WellFormed(calls[c])
  BY DEF DirectoryInv, TypeOK
<1>2. calls[c].op \in Op
  BY <1>1, DirectoryAssumption DEF Call
<1>3. CASE FindUnit(c)
  <2>. DEFINE call == [calls[c] EXCEPT !.pc = "manager",
                          !.unit = IF calls[c].op.unit \in units
                                   THEN calls[c].op.unit ELSE NoUnit]
  <2>1. call \in Call
    BY <1>1, <1>2 DEF Call, Op
  <2>2. WellFormed(call) /\ ~call.stored /\ ~At(c, "done")
    BY <1>1, <1>2, <1>3 DEF WellFormed, At, Call, FindUnit
  <2>. QED
    BY <1>3, <2>1, <2>2, CallStep DEF FindUnit
<1>4. CASE FindManager(c)
  <2>. DEFINE boss == calls[c].op.boss
              call == [calls[c] EXCEPT !.pc = "payload",
                          !.manager = IF boss # NoOne /\ Exists(boss) THEN boss ELSE NoOne]
  <2>1. call \in Call
    BY <1>1, <1>2 DEF Call, Op
  <2>2. WellFormed(call) /\ ~call.stored /\ ~At(c, "done")
    BY <1>1, <1>2, <1>4 DEF WellFormed, At, Call, FindManager
  <2>. QED
    BY <1>4, <2>1, <2>2, CallStep DEF FindManager
<1>5. CASE ReadPayload(c)
  <2>. DEFINE call == [calls[c] EXCEPT !.pc = "upsert", !.copy = users[calls[c].op.num]]
  <2>1. users[calls[c].op.num] \in Row \cup {NoRow}
    BY <1>2 DEF DirectoryInv, TypeOK, Op
  <2>2. call \in Call
    BY <1>1, <2>1 DEF Call
  <2>3. WellFormed(call) /\ ~call.stored /\ ~At(c, "done")
    BY <1>1, <1>5 DEF WellFormed, At, Call, ReadPayload
  <2>. QED
    BY <1>5, <2>2, <2>3, CallStep DEF ReadPayload
<1>. QED
  BY <1>3, <1>4, <1>5

\* A call that ends with an error: Fail, and the refusals of a write.
LEMMA EndsInv ==
    ASSUME DirectoryInv, NEW c \in Calls, calls[c].pc \notin {"idle", "done"},
           Ends(c, "500"), UNCHANGED <<users, units>>
    PROVE  DirectoryInv'
<1>. DEFINE call == Ended(calls[c], "500", FALSE)
<1>1. calls[c] \in Call /\ WellFormed(calls[c])
  BY DEF DirectoryInv, TypeOK
<1>2. call \in Call
  BY <1>1 DEF Ended, Call
<1>3. WellFormed(call) /\ ~call.stored /\ ~At(c, "done")
  BY <1>1 DEF Ended, WellFormed, At, Call
<1>. QED
  BY <1>2, <1>3, CallStep DEF Ends

\* A caller is told of an error while the write is under way.
LEMMA LoseAcknowledgementInv ==
    ASSUME DirectoryInv, NEW c \in Calls, LoseAcknowledgement(c)
    PROVE  DirectoryInv'
<1>. DEFINE call == [calls[c] EXCEPT !.answer = "500"]
<1>1. calls[c] \in Call /\ WellFormed(calls[c])
  BY DEF DirectoryInv, TypeOK
<1>2. call \in Call
  BY <1>1 DEF Call
<1>3. WellFormed(call) /\ ~call.stored /\ ~At(c, "done")
  BY <1>1 DEF WellFormed, At, Call, LoseAcknowledgement
<1>. QED
  BY <1>2, <1>3, CallStep DEF LoseAcknowledgement

-----------------------------------------------------------------------------

\* Call c ends and has stored row for n: what then holds of the
\* answers, and of the other rows.
Stores(c, n, row) ==
    /\ users'[n] = row /\ Exists(n)'
    /\ \A m \in Numbers : m # n => users'[m] = users[m]
    /\ \A d \in Calls : calls'[d].op = calls[d].op
    /\ \A types : calls[c].op.type \in types => Done(c, n, types)'
    /\ \A d \in Calls, m \in Numbers : \A types : Done(d, m, types) => Done(d, m, types)'
    /\ \A d \in Calls, m \in Numbers : \A types :
          Done(d, m, types)' =>
              Done(d, m, types) \/ (d = c /\ m = n /\ calls[c].op.type \in types)

LEMMA SuccessStep ==
    ASSUME DirectoryInv, NEW c \in Calls, calls[c].pc \notin {"idle", "done"},
           NEW n \in Numbers, n = calls[c].op.num, NEW row \in Row,
           Commits(c), users' = [users EXCEPT ![n] = row], units' = units,
           ~Taken(row.email, n), UnitExists(row.unit),
           row.manager # NoOne => Exists(row.manager)
    PROVE  TypeOK' /\ Stores(c, n, row)
<1>. DEFINE call == Ended(calls[c], "200", TRUE)
<1>1. \A d \in Calls : calls[d] \in Call /\ WellFormed(calls[d])
  BY DEF DirectoryInv, TypeOK
<1>2. call \in Call
  BY <1>1 DEF Ended, Call
<1>3. /\ calls' \in [Calls -> Call]
      /\ \A d \in Calls : calls'[d] = IF d = c THEN call ELSE calls[d]
  BY <1>2 DEF DirectoryInv, TypeOK, Commits
<1>4. /\ call.op = calls[c].op /\ call.stored /\ ~calls[c].stored
      /\ call.answer # "none" /\ call.pc = "done" /\ call.unit = calls[c].unit /\ call.manager = calls[c].manager
  BY <1>1 DEF Ended, Call, WellFormed
<1>. HIDE DEF call
<1>5. row # NoRow
  BY DirectoryAssumption
<1>6. /\ users' \in [Numbers -> Row \cup {NoRow}]
      /\ \A m \in Numbers : users'[m] = IF m = n THEN row ELSE users[m]
  BY DEF DirectoryInv, TypeOK
<1>7. \A m \in Numbers : Exists(m) => Exists(m)'
  BY <1>5, <1>6 DEF Exists
<1>8. \A d \in Calls : WellFormed(calls[d])'
  <2>. SUFFICES ASSUME NEW d \in Calls PROVE WellFormed(calls[d])'
    OBVIOUS
  <2>1. calls[d].manager \in Numbers \cup {NoOne}
    BY <1>1 DEF Ended, Call
  <2>2. CASE d = c
    BY <1>1, <1>3, <1>4, <1>7, <2>1, <2>2 DEF WellFormed
  <2>3. CASE d # c
    <3>1. calls[d].pc = "write" => calls[d].op.num \in Numbers
      BY <1>1, DirectoryAssumption DEF Call, Op
    <3>. QED
      BY <1>1, <1>3, <1>7, <2>1, <2>3, <3>1 DEF WellFormed
  <2>. QED
    BY <2>2, <2>3
<1>9. \A m \in Numbers : Exists(m)' =>
          /\ ~Taken(users[m].email, m)'
          /\ UnitExists(users[m].unit)'
          /\ users'[m].manager # NoOne => Exists(users[m].manager)'
  <2>. SUFFICES ASSUME NEW m \in Numbers, Exists(m)'
                PROVE  /\ ~Taken(users[m].email, m)'
                       /\ UnitExists(users[m].unit)'
                       /\ users'[m].manager # NoOne => Exists(users[m].manager)'
    OBVIOUS
  <2>1. CASE m = n
    <3>1. ~Taken(users[m].email, m)'
      BY <1>6, <2>1 DEF Taken, Exists
    <3>2. row.manager \in Numbers \cup {NoOne}
      BY DEF Row
    <3>. QED
      BY <1>6, <1>7, <2>1, <3>1, <3>2 DEF UnitExists
  <2>2. CASE m # n
    <3>1. Exists(m) /\ users'[m] = users[m]
      BY <1>6, <2>2 DEF Exists
    <3>2. users[m] \in Row /\ users[m].manager \in Numbers \cup {NoOne}
      BY <3>1 DEF DirectoryInv, TypeOK, Exists, Row
    <3>3. row.email # users[m].email
      BY <2>2, <3>1 DEF Taken
    <3>4. ~Taken(users[m].email, m)
      BY <3>1 DEF DirectoryInv, TypeOK
    <3>5. ~Taken(users[m].email, m)'
      BY <1>6, <3>1, <3>3, <3>4 DEF Taken, Exists
    <3>. QED
      BY <1>7, <3>1, <3>2, <3>5 DEF DirectoryInv, TypeOK, UnitExists
  <2>. QED
    BY <2>1, <2>2
<1>10. TypeOK'
  BY <1>3, <1>6, <1>8, <1>9 DEF DirectoryInv, TypeOK
<1>. QED
  BY <1>3, <1>4, <1>5, <1>6, <1>10 DEF Stores, Done, Exists

LEMMA OtherRows ==
    ASSUME DirectoryInv, NEW c \in Calls, NEW n \in Numbers, NEW row, Stores(c, n, row),
           NEW m \in Numbers, m # n, Exists(m)'
    PROVE  RowExplained(m)' /\ PasswordExplained(m)'
<1>1. users'[m] = users[m] /\ Exists(m)
  BY DEF Stores, Exists
<1>2. RowExplained(m) /\ PasswordExplained(m)
  BY <1>1 DEF DirectoryInv, RowsExplained, PasswordsExplained
<1>3. users[m].password \in Calls
  BY <1>1 DEF DirectoryInv, TypeOK, Exists, Row
<1>4. RowExplained(m)'
  BY <1>1, <1>2 DEF Stores, RowExplained
<1>5. PasswordExplained(m)'
  BY <1>1, <1>2, <1>3 DEF Stores, PasswordExplained
<1>. QED
  BY <1>4, <1>5

\* What is left to show of a step that stores a row.
LEMMA StoreInv ==
    ASSUME DirectoryInv, NEW c \in Calls, NEW n \in Numbers, NEW row,
           TypeOK', Stores(c, n, row),
           RowExplained(n)', PasswordExplained(n)',
           \A d \in Calls : Done(d, n, {"create"})' => KeepsItsPassword(d, n)'
    PROVE  DirectoryInv'
<1>1. RowsExplained'
  BY OtherRows DEF RowsExplained
<1>2. \A m \in Numbers : Exists(m)' => PasswordExplained(m)'
  BY OtherRows
<1>3. ASSUME NEW d \in Calls, NEW m \in Numbers, m # n, Done(d, m, {"create"})'
      PROVE  KeepsItsPassword(d, m)'
  <2>1. KeepsItsPassword(d, m)
    BY <1>3 DEF Stores, DirectoryInv, PasswordsExplained
  <2>2. users[m].password \in Calls
    BY <2>1 DEF DirectoryInv, TypeOK, KeepsItsPassword, Exists, Row
  <2>. QED
    BY <1>3, <2>1, <2>2 DEF Stores, KeepsItsPassword, Exists
<1>4. PasswordsExplained'
  BY <1>2, <1>3 DEF PasswordsExplained
<1>. QED
  BY <1>1, <1>4 DEF DirectoryInv

LEMMA InsertInv ==
    ASSUME DirectoryInv, NEW c \in Calls, Insert(c)
    PROVE  DirectoryInv'
<1>. DEFINE op == calls[c].op
<1>1. calls[c] \in Call /\ WellFormed(calls[c]) /\ calls[c].pc = "insert"
  BY DEF DirectoryInv, TypeOK, Insert, At
<1>2. op \in Op /\ op \in Ops /\ op.type = "create"
  BY <1>1, DirectoryAssumption DEF Call, WellFormed
<1>3. CASE Ends(c, "500") /\ UNCHANGED users
  BY <1>1, <1>3, EndsInv DEF Insert
<1>4. ASSUME NEW n \in Numbers, n = op.num, NEW row,
             row = [email |-> op.email, password |-> c, unit |-> op.unit,
                    manager |-> NoOne, roles |-> op.roles, deleted |-> FALSE,
                    positions |-> {}, synced |-> NoSync],
             ~Exists(n), ~Taken(op.email, n), UnitExists(op.unit),
             users' = [users EXCEPT ![n] = row], Commits(c)
      PROVE  DirectoryInv'
  <2>1. row \in Row
    BY <1>2, <1>4, DirectoryAssumption DEF Row, Op, ValidCreate
  <2>2. units' = units
    BY DEF Insert
  <2>3. TypeOK' /\ Stores(c, n, row)
    BY <1>1, <1>4, <2>1, <2>2, SuccessStep
  <2>4. RowExplained(n)'
    BY <1>2, <1>4, <2>3 DEF RowExplained, Stores
  <2>5. PasswordExplained(n)'
    BY <1>2, <1>4, <2>3 DEF PasswordExplained, Stores
  <2>6. ASSUME NEW d \in Calls, Done(d, n, {"create"})'
        PROVE  KeepsItsPassword(d, n)'
    <3>1. ~Done(d, n, {"create"})
      BY <1>4 DEF DirectoryInv, PasswordsExplained, KeepsItsPassword
    <3>2. d = c
      BY <2>3, <2>6, <3>1 DEF Stores
    <3>. QED
      BY <1>4, <2>3, <3>2 DEF Stores, KeepsItsPassword
  <2>. QED
    BY <2>3, <2>4, <2>5, <2>6, StoreInv
<1>5. op.num \in Numbers
  BY <1>2 DEF Op
<1>. QED
  BY <1>3, <1>4, <1>5 DEF Insert


LEMMA WriteInv ==
    ASSUME DirectoryInv, NEW c \in Calls, Write(c)
    PROVE  DirectoryInv'
<1>. DEFINE op == calls[c].op
<1>1. /\ calls[c] \in Call /\ WellFormed(calls[c]) /\ calls[c].pc = "write"
      /\ units' = units
  BY DEF DirectoryInv, TypeOK, Write, At
<1>2. op \in Op /\ op \in Ops /\ op.type \in {"update", "remove"} /\ Exists(op.num)
  BY <1>1, DirectoryAssumption DEF Call, WellFormed
<1>3. CASE Ends(c, "500") /\ UNCHANGED users
  BY <1>1, <1>3, EndsInv
<1>4. ASSUME NEW n \in Numbers, n = op.num, NEW row,
             \/ op.type = "update" /\ UnitExists(op.unit) /\ row = Updated(c, users[n], op)
             \/ op.type = "remove" /\ row = [users[n] EXCEPT !.deleted = TRUE],
             users' = [users EXCEPT ![n] = row], Commits(c)
      PROVE  DirectoryInv'
  <2>1. /\ Exists(n) /\ users[n] \in Row
        /\ RowExplained(n) /\ PasswordExplained(n)
        /\ ~Taken(users[n].email, n) /\ UnitExists(users[n].unit)
        /\ users[n].manager # NoOne => Exists(users[n].manager)
    BY <1>2, <1>4 DEF DirectoryInv, TypeOK, RowsExplained, PasswordsExplained, Exists
  <2>2. /\ row \in Row
        /\ row.email = users[n].email /\ row.manager = users[n].manager
        /\ row.synced = users[n].synced
        /\ \/ row.unit = users[n].unit
           \/ op.type = "update" /\ row.unit = op.unit /\ UnitExists(op.unit)
        /\ \/ row.password = users[n].password
           \/ op.type = "update" /\ op.password /\ row.password = c
    <3>1. CASE op.type = "update"
      <4>1. op.unit \in Units \cup {NoUnit} /\ op.roles \in SUBSET Roles /\ op.type # "remove"
        BY <1>2, <3>1 DEF Op
      <4>2. /\ UnitExists(op.unit)
            /\ row = [users[n] EXCEPT
                        !.password = IF op.password THEN c ELSE users[n].password,
                        !.unit     = IF op.unitId THEN op.unit ELSE users[n].unit,
                        !.roles    = IF op.roleIds THEN op.roles ELSE users[n].roles]
        BY <1>4, <4>1 DEF Updated
      <4>. HIDE DEF op
      <4>3. row \in Row
        BY <2>1, <4>1, <4>2 DEF Row
      <4>. QED
        BY <2>1, <3>1, <4>2, <4>3 DEF Row
    <3>2. CASE op.type = "remove"
      BY <1>4, <2>1, <3>2 DEF Row
    <3>. QED
      BY <1>2, <3>1, <3>2
  <2>3. TypeOK' /\ Stores(c, n, row)
    BY <1>1, <1>4, <2>1, <2>2, SuccessStep
  <2>4. RowExplained(n)'
    <3>1. users'[n] = row
      BY <2>3 DEF Stores
    <3>2. row.synced = NoSync =>
             /\ row.manager = NoOne
             /\ \E d \in Calls : Done(d, n, {"create"})' /\ calls'[d].op.email = row.email
      BY <2>1, <2>2, <2>3 DEF RowExplained, Stores
    <3>3. row.synced # NoSync =>
             /\ row.email = row.synced.email
             /\ row.manager \in {row.synced.boss, NoOne}
             /\ \E d \in Calls : Done(d, n, {"sync"})' /\ calls'[d].op = row.synced
      BY <2>1, <2>2, <2>3 DEF RowExplained, Stores
    <3>4. row.unit # NoUnit =>
             \/ row.synced # NoSync /\ row.unit = row.synced.unit
             \/ \E d \in Calls : /\ Done(d, n, {"create", "update"})'
                                /\ calls'[d].op.unit = row.unit
      BY <2>1, <2>2, <2>3 DEF RowExplained, Stores
    <3>. QED
      BY <3>1, <3>2, <3>3, <3>4 DEF RowExplained
  <2>5. PasswordExplained(n)'
    <3>1. CASE row.password = c /\ op.type = "update" /\ op.password
      BY <3>1, <2>3 DEF PasswordExplained, Stores
    <3>2. CASE row.password = users[n].password
      <4>1. users[n].password \in Calls
        BY <2>1 DEF Row
      <4>. QED
        BY <2>1, <2>3, <3>2, <4>1 DEF PasswordExplained, Stores
    <3>. QED
      BY <2>2, <3>1, <3>2
  <2>6. ASSUME NEW d \in Calls, Done(d, n, {"create"})'
        PROVE  KeepsItsPassword(d, n)'
    <3>1. Done(d, n, {"create"})
      BY <1>2, <2>3, <2>6 DEF Stores
    <3>2. KeepsItsPassword(d, n) /\ users[n].password \in Calls
      BY <2>1, <3>1 DEF DirectoryInv, PasswordsExplained, Row
    <3>. QED
      BY <2>2, <2>3, <3>2 DEF Stores, KeepsItsPassword
  <2>. QED
    BY <2>3, <2>4, <2>5, <2>6, StoreInv
<1>5. op.num \in Numbers
  BY <1>2 DEF Op
<1>. QED
  BY <1>3, <1>4, <1>5 DEF Write

LEMMA UpsertInv ==
    ASSUME DirectoryInv, NEW c \in Calls, Upsert(c)
    PROVE  DirectoryInv'
<1>. DEFINE op == calls[c].op
<1>1. /\ calls[c] \in Call /\ WellFormed(calls[c]) /\ calls[c].pc = "upsert"
      /\ units' = units
  BY DEF DirectoryInv, TypeOK, Upsert, At
<1>2. op \in Op /\ op \in Ops /\ op.type = "sync" /\ op.num \in Numbers
  BY <1>1, DirectoryAssumption DEF Call, WellFormed, Op
<1>3. CASE Ends(c, "500") /\ UNCHANGED users
  BY <1>1, <1>3, EndsInv
<1>4. ASSUME NEW n \in Numbers, n = op.num, NEW old, NEW row,
             old = IF Exists(n) THEN users[n] ELSE Blank(c),
             row = Synced(old, calls[c]),
             ~Taken(op.email, n), users' = [users EXCEPT ![n] = row], Commits(c)
      PROVE  DirectoryInv'
  <2>1. op.email \in Emails /\ op # NoSync
    BY <1>2, DirectoryAssumption DEF Op, ValidSync
  <2>2. old \in Row
    <3>1. Blank(c) \in Row
      BY <2>1 DEF Blank, Row
    <3>. QED
      BY <1>4, <3>1 DEF DirectoryInv, TypeOK, Exists
  <2>3. /\ row \in Row
        /\ row.email = op.email /\ row.synced = op
        /\ row.unit = calls[c].unit /\ row.manager = calls[c].manager
        /\ row.password = old.password
    <3>1. /\ calls[c].unit \in Units \cup {NoUnit}
          /\ calls[c].manager \in Numbers \cup {NoOne}
          /\ calls[c].copy \in Row \cup {NoRow}
          /\ calls[c].op = op /\ op \in Ops
      BY <1>1, <1>2 DEF Call
    <3>2. (IF calls[c].copy = NoRow THEN {} ELSE calls[c].copy.positions) \in SUBSET Positions
      BY <3>1 DEF Row
    <3>3. row = [old EXCEPT !.email = op.email, !.unit = calls[c].unit,
                            !.manager = calls[c].manager,
                            !.positions = IF calls[c].copy = NoRow THEN {}
                                          ELSE calls[c].copy.positions,
                            !.synced = op]
      BY <1>4, <3>1 DEF Synced
    <3>. HIDE DEF op
    <3>4. row \in Row
      BY <2>1, <2>2, <3>1, <3>2, <3>3 DEF Row
    <3>. QED
      BY <2>2, <3>3, <3>4 DEF Row
  <2>4. /\ UnitExists(row.unit) /\ row.unit \in {op.unit, NoUnit}
        /\ row.manager # NoOne => Exists(row.manager)
        /\ row.manager \in {op.boss, NoOne}
    BY <1>1, <2>3 DEF WellFormed, UnitExists
  <2>5. TypeOK' /\ Stores(c, n, row)
    BY <1>1, <1>4, <2>3, <2>4, SuccessStep
  <2>6. RowExplained(n)'
    BY <1>2, <2>1, <2>3, <2>4, <2>5 DEF RowExplained, Stores
  <2>7. PasswordExplained(n)'
    <3>1. CASE Exists(n)
      <4>1. PasswordExplained(n) /\ users[n].password \in Calls /\ old = users[n]
        BY <1>4, <2>2, <3>1 DEF DirectoryInv, PasswordsExplained, Row
      <4>. QED
        BY <2>3, <2>5, <4>1 DEF PasswordExplained, Stores
    <3>2. CASE ~Exists(n)
      <4>1. row.password = c
        BY <1>4, <2>3, <3>2 DEF Blank
      <4>. QED
        BY <1>2, <2>5, <4>1 DEF PasswordExplained, Stores
    <3>. QED
      BY <3>1, <3>2
  <2>8. ASSUME NEW d \in Calls, Done(d, n, {"create"})'
        PROVE  KeepsItsPassword(d, n)'
    <3>1. Done(d, n, {"create"})
      BY <1>2, <2>5, <2>8 DEF Stores
    <3>2. KeepsItsPassword(d, n)
      BY <3>1 DEF DirectoryInv, PasswordsExplained
    <3>3. users[n].password \in Calls /\ old = users[n]
      BY <1>4, <2>2, <3>2 DEF KeepsItsPassword, Row
    <3>. QED
      BY <2>3, <2>5, <3>2, <3>3 DEF Stores, KeepsItsPassword
  <2>. QED
    BY <2>5, <2>6, <2>7, <2>8, StoreInv
<1>. QED
  BY <1>2, <1>3, <1>4 DEF Upsert

LEMMA EditPayloadInv ==
    ASSUME DirectoryInv, NEW n \in Numbers, NEW held \in SUBSET Positions,
           EditPayload(n, held)
    PROVE  DirectoryInv'
<1>1. users[n] \in Row /\ Exists(n)
  BY DEF DirectoryInv, TypeOK, EditPayload, Exists
<1>. DEFINE new == [users[n] EXCEPT !.positions = held]
<1>2. new \in Row /\ new # NoRow
  BY <1>1, DirectoryAssumption DEF Row
<1>3. /\ users' \in [Numbers -> Row \cup {NoRow}]
      /\ \A m \in Numbers : users'[m] = IF m = n THEN new ELSE users[m]
  BY <1>2 DEF DirectoryInv, TypeOK, EditPayload
<1>4. \A m \in Numbers : Exists(m)' <=> Exists(m)
  BY <1>1, <1>2, <1>3 DEF Exists
<1>5. ASSUME NEW m \in Numbers, Exists(m)
      PROVE  /\ users'[m].email = users[m].email /\ users'[m].unit = users[m].unit
             /\ users'[m].manager = users[m].manager
             /\ users'[m].synced = users[m].synced
             /\ users'[m].password = users[m].password
  BY <1>1, <1>3 DEF Row
<1>. HIDE DEF new
<1>6. calls' = calls /\ units' = units
  BY DEF EditPayload
<1>7. \A d \in Calls : WellFormed(calls[d])'
  <2>. SUFFICES ASSUME NEW d \in Calls PROVE WellFormed(calls[d])'
    OBVIOUS
  <2>1. /\ calls[d] \in Call /\ WellFormed(calls[d])
        /\ calls[d].manager \in Numbers \cup {NoOne} /\ calls[d].op.num \in Numbers
    BY DirectoryAssumption DEF DirectoryInv, TypeOK, Call, Op
  <2>. QED
    BY <1>4, <1>6, <2>1 DEF WellFormed
<1>8. ASSUME NEW m \in Numbers, Exists(m)'
      PROVE  /\ ~Taken(users[m].email, m)'
             /\ UnitExists(users[m].unit)'
             /\ users'[m].manager # NoOne => Exists(users[m].manager)'
  <2>1. Exists(m) /\ users[m].manager \in Numbers \cup {NoOne}
    BY <1>4, <1>8 DEF DirectoryInv, TypeOK, Exists, Row
  <2>2. ~Taken(users[m].email, m)'
    BY <1>4, <1>5, <2>1 DEF DirectoryInv, TypeOK, Taken
  <2>. QED
    BY <1>4, <1>5, <1>6, <2>1, <2>2 DEF DirectoryInv, TypeOK, UnitExists
<1>9. TypeOK'
  BY <1>3, <1>6, <1>7, <1>8 DEF DirectoryInv, TypeOK
<1>10. RowsExplained'
  BY <1>4, <1>5, <1>6 DEF DirectoryInv, RowsExplained, RowExplained, Done
<1>11. PasswordsExplained'
  BY <1>4, <1>5, <1>6 DEF DirectoryInv, PasswordsExplained, PasswordExplained,
                          KeepsItsPassword, Done
<1>. QED
  BY <1>9, <1>10, <1>11 DEF DirectoryInv

LEMMA CreateUnitInv ==
    ASSUME DirectoryInv, NEW u \in Units, CreateUnit(u)
    PROVE  DirectoryInv'
<1>1. units \subseteq units' /\ units' \subseteq Units
  BY DEF CreateUnit, DirectoryInv, TypeOK
<1>2. \A n \in Numbers : Exists(n)' <=> Exists(n)
  BY DEF CreateUnit, Exists
<1>3. TypeOK'
  BY <1>1, <1>2 DEF CreateUnit, DirectoryInv, TypeOK, WellFormed, Exists, Taken, UnitExists
<1>4. RowsExplained' /\ PasswordsExplained'
  BY DEF CreateUnit, DirectoryInv, RowsExplained, RowExplained, PasswordsExplained,
         PasswordExplained, KeepsItsPassword, Done, Exists
<1>. QED
  BY <1>3, <1>4 DEF DirectoryInv

LEMMA StutterInv ==
    ASSUME DirectoryInv, UNCHANGED vars
    PROVE  DirectoryInv'
  BY DEF vars, DirectoryInv, TypeOK, WellFormed, Exists, Taken, UnitExists, RowsExplained,
         RowExplained, PasswordsExplained, PasswordExplained, KeepsItsPassword, Done

LEMMA NextInv ==
    ASSUME DirectoryInv, [Next]_vars
    PROVE  DirectoryInv'
<1>1. ASSUME NEW c \in Calls, NEW op \in Ops, Start(c, op) PROVE DirectoryInv'
  BY <1>1, StartInv
<1>2. ASSUME NEW c \in Calls, Continue(c) PROVE DirectoryInv'
  BY <1>2, InsertInv, WriteInv, LookupInv, UpsertInv DEF Continue
<1>3. ASSUME NEW c \in Calls, Fail(c) PROVE DirectoryInv'
  BY <1>3, EndsInv DEF Fail
<1>7. ASSUME NEW c \in Calls, LoseAcknowledgement(c) PROVE DirectoryInv'
  BY <1>7, LoseAcknowledgementInv
<1>4. ASSUME NEW n \in Numbers, NEW held \in SUBSET Positions, EditPayload(n, held)
      PROVE  DirectoryInv'
  BY <1>4, EditPayloadInv
<1>5. ASSUME NEW u \in Units, CreateUnit(u) PROVE DirectoryInv'
  BY <1>5, CreateUnitInv
<1>6. CASE UNCHANGED vars
  BY <1>6, StutterInv
<1>. QED
  BY <1>1, <1>2, <1>3, <1>4, <1>5, <1>6, <1>7 DEF Next

\* The three invariants are inductive together.
THEOREM DirectoryAlwaysHolds == Spec => []DirectoryInv
  BY InitInv, NextInv, PTL DEF Spec

\* The types, the unique e-mails, the foreign keys and the shape of a call.
THEOREM TypeCorrect == Spec => []TypeOK
  BY DirectoryAlwaysHolds, PTL DEF DirectoryInv

\* A row is that of one sync or of its create, whatever races on it.
THEOREM RowsAlwaysExplained == Spec => []RowsExplained
  BY DirectoryAlwaysHolds, PTL DEF DirectoryInv

\* Syncs preserve passwords, and no two creates of an employee are committed.
THEOREM PasswordsAlwaysExplained == Spec => []PasswordsExplained
  BY DirectoryAlwaysHolds, PTL DEF DirectoryInv

-----------------------------------------------------------------------------

\* A call at its upsert is ended only by that upsert or by a failure.
LEMMA UpsertEnds ==
    ASSUME TypeOK, [Next]_vars, NEW c \in Calls, At(c, "upsert"), At(c, "done")'
    PROVE  Upsert(c) \/ UNCHANGED users
<1>1. calls[c].pc = "upsert" /\ calls'[c].pc = "done"
  BY DEF At
<1>2. ASSUME NEW d \in Calls, NEW op \in Ops, Start(d, op) PROVE UNCHANGED users
  BY <1>2 DEF Start, Create, Find, CheckEmail
<1>3. ASSUME NEW d \in Calls, Continue(d) PROVE Upsert(c) \/ UNCHANGED users
  <2>1. d # c => calls'[c] = calls[c]
    BY <1>3 DEF TypeOK, Continue, Insert, Write, FindUnit, FindManager, ReadPayload, Upsert, Ends, Commits, Ended
  <2>2. d = c
    BY <1>1, <2>1
  <2>. QED
    BY <1>1, <1>3, <2>2 DEF Continue, Insert, Write, FindUnit, FindManager, ReadPayload, At
<1>4. ASSUME NEW n \in Numbers, NEW held \in SUBSET Positions, EditPayload(n, held)
      PROVE  FALSE
  BY <1>1, <1>4 DEF EditPayload
<1>. QED
  BY <1>2, <1>3, <1>4 DEF Next, LoseAcknowledgement, Fail, CreateUnit, vars

LEMMA UpsertKeeps ==
    ASSUME TypeOK, NEW c \in Calls, Upsert(c), NEW n \in Numbers, n = calls[c].op.num, Exists(n)
    PROVE  /\ calls[c].copy # NoRow /\ calls[c].copy.positions = users[n].positions
                 => users'[n].positions = users[n].positions
           /\ users'[n].password = users[n].password
           /\ users'[n].roles = users[n].roles
           /\ users'[n].deleted = users[n].deleted
<1>1. users[n] \in Row
  BY DEF TypeOK, Exists
<1>2. CASE UNCHANGED users
  BY <1>2
<1>3. CASE users' = [users EXCEPT ![n] = Synced(users[n], calls[c])]
  <2>1. users'[n] = Synced(users[n], calls[c])
    BY <1>3 DEF TypeOK
  <2>. QED
    BY <1>1, <2>1 DEF Synced, Row
<1>. QED
  BY <1>2, <1>3 DEF Upsert

\* However a sync interleaves with the other writers, it leaves the password,
\* the roles and the deletion of the row alone, and the positions it has read.
THEOREM SyncAlwaysKeeps == Spec => SyncKeepsWhatItRead
<1>. DEFINE Kept ==
       \A c \in Calls : At(c, "upsert") /\ At(c, "done")' =>
          LET n == calls[c].op.num IN
          Exists(n) =>
              /\ calls[c].copy # NoRow /\ calls[c].copy.positions = users[n].positions
                    => users'[n].positions = users[n].positions
              /\ users'[n].password = users[n].password
              /\ users'[n].roles = users[n].roles
              /\ users'[n].deleted = users[n].deleted
<1>1. ASSUME TypeOK, [Next]_vars PROVE Kept
  <2>. SUFFICES ASSUME NEW c \in Calls, At(c, "upsert"), At(c, "done")',
                       NEW n \in Numbers, n = calls[c].op.num, Exists(n)
                PROVE  /\ calls[c].copy # NoRow /\ calls[c].copy.positions = users[n].positions
                             => users'[n].positions = users[n].positions
                       /\ users'[n].password = users[n].password
                       /\ users'[n].roles = users[n].roles
                       /\ users'[n].deleted = users[n].deleted
    BY <1>1, DirectoryAssumption DEF TypeOK, Call, Op
  <2>1. CASE Upsert(c)
    BY <1>1, <2>1, UpsertKeeps
  <2>2. CASE UNCHANGED users
    BY <2>2
  <2>. QED
    BY <1>1, <2>1, <2>2, UpsertEnds
<1>2. [][TypeOK /\ [Next]_vars]_vars => SyncKeepsWhatItRead
  BY <1>1, PTL DEF SyncKeepsWhatItRead
<1>. QED
  BY <1>2, TypeCorrect, PTL DEF Spec

-----------------------------------------------------------------------------

\* What a PATCH or DELETE is about to write was a row that was not deleted
\* when it was found.
FoundAlive ==
    \A c \in Calls : At(c, "write") => calls[c].copy \in Row /\ ~calls[c].copy.deleted

\* A call that is not at its write after a step need not have found anything.
LEMMA FoundAliveElsewhere ==
    ASSUME FoundAlive, NEW c \in Calls, \A d \in Calls \ {c} : calls'[d] = calls[d],
           calls'[c].pc = "write" => calls'[c].copy \in Row /\ ~calls'[c].copy.deleted
    PROVE  FoundAlive'
BY DEF FoundAlive, At

LEMMA NextFoundAlive ==
    ASSUME TypeOK, FoundAlive, [Next]_vars
    PROVE  FoundAlive'
<1>1. ASSUME NEW c \in Calls, NEW op \in Ops, Start(c, op) PROVE FoundAlive'
  <2>1. ASSUME NEW code, Refuses(c, op, code) PROVE FoundAlive'
    <3>1. PICK call : call = [calls[c] EXCEPT !.pc = "done", !.op = op, !.answer = code]
      OBVIOUS
    <3>2. calls' = [calls EXCEPT ![c] = call]
      BY <2>1, <3>1 DEF Refuses
    <3>3. call.pc = "done"
      BY <3>1 DEF TypeOK, Call
    <3>. QED
      BY <3>2, <3>3, FoundAliveElsewhere DEF TypeOK
  <2>2. ASSUME NEW pc, NEW copy, Begins(c, op, pc, copy),
               pc = "write" => copy \in Row /\ ~copy.deleted
        PROVE  FoundAlive'
    <3>1. PICK call : call = [calls[c] EXCEPT !.pc = pc, !.op = op, !.copy = copy]
      OBVIOUS
    <3>2. calls' = [calls EXCEPT ![c] = call]
      BY <2>2, <3>1 DEF Begins
    <3>3. call.pc = pc /\ call.copy = copy
      BY <3>1 DEF TypeOK, Call
    <3>. QED
      BY <2>2, <3>2, <3>3, FoundAliveElsewhere DEF TypeOK
  <2>3. Exists(op.num) => users[op.num] \in Row
    BY DirectoryAssumption DEF TypeOK, Exists, Op
  <2>4. CASE Create(c, op)
    BY <2>1, <2>2, <2>4 DEF Create
  <2>5. CASE Find(c, op)
    BY <2>1, <2>2, <2>3, <2>5 DEF Find
  <2>6. CASE CheckEmail(c, op)
    BY <2>1, <2>2, <2>6 DEF CheckEmail
  <2>. QED
    BY <1>1, <2>4, <2>5, <2>6 DEF Start
<1>2. ASSUME NEW c \in Calls, Continue(c) \/ Fail(c) PROVE FoundAlive'
  <2>1. ASSUME NEW code, NEW stored, calls' = [calls EXCEPT ![c] = Ended(calls[c], code, stored)]
        PROVE  FoundAlive'
    <3>1. Ended(calls[c], code, stored).pc = "done"
      BY DEF TypeOK, Call, Ended
    <3>. QED
      BY <2>1, <3>1, FoundAliveElsewhere DEF TypeOK
  <2>2. CASE FindUnit(c) \/ FindManager(c) \/ ReadPayload(c)
    <3>1. \A d \in Calls \ {c} : calls'[d] = calls[d]
      BY <2>2 DEF TypeOK, FindUnit, FindManager, ReadPayload
    <3>2. calls'[c].pc \in {"manager", "payload", "upsert"}
      BY <2>2 DEF TypeOK, Call, FindUnit, FindManager, ReadPayload
    <3>. QED
      BY <3>1, <3>2, FoundAliveElsewhere
  <2>3. CASE Insert(c) \/ Write(c) \/ Upsert(c) \/ Fail(c)
    BY <2>1, <2>3 DEF Insert, Write, Upsert, Fail, Ends, Commits
  <2>. QED
    BY <1>2, <2>2, <2>3 DEF Continue
<1>4. ASSUME NEW c \in Calls, LoseAcknowledgement(c) PROVE FoundAlive'
  <2>1. /\ \A d \in Calls \ {c} : calls'[d] = calls[d]
        /\ calls'[c].pc = calls[c].pc /\ calls'[c].copy = calls[c].copy
    BY <1>4 DEF TypeOK, Call, LoseAcknowledgement
  <2>. QED
    BY <2>1, FoundAliveElsewhere DEF FoundAlive, At
<1>3. CASE UNCHANGED calls
  BY <1>3 DEF FoundAlive, At
<1>. QED
  BY <1>1, <1>2, <1>3, <1>4 DEF Next, EditPayload, CreateUnit, vars

THEOREM AlwaysFoundAlive == Spec => []FoundAlive
<1>1. Init => FoundAlive
  BY DEF Init, IdleCall, FoundAlive, At
<1>2. TypeOK /\ FoundAlive /\ [Next]_vars => FoundAlive'
  BY NextFoundAlive
<1>. QED
  BY <1>1, <1>2, TypeCorrect, PTL DEF Spec

\* No writer brings a soft-deleted employee back, and the only writes that
\* still change the roles or the password are those of a PATCH that had found
\* the row in use (DeletedIsQuiet): a sync never does.
THEOREM DeletedAlwaysQuiet == Spec => DeletedIsQuiet
<1>1. ASSUME TypeOK, FoundAlive, [Next]_vars PROVE [DeletedStaysQuiet]_vars
  <2>. SUFFICES ASSUME Next, NEW n \in Numbers, Exists(n), users[n].deleted
       PROVE  /\ users'[n].deleted
              /\ users'[n].roles # users[n].roles \/ users'[n].password # users[n].password =>
                    \E c \in Calls :
                       /\ At(c, "write") /\ calls[c].op.num = n
                       /\ ~calls[c].copy.deleted
    BY <1>1 DEF DeletedStaysQuiet
  <2>. DEFINE Untouched == /\ users'[n].deleted
                           /\ users'[n].roles = users[n].roles
                           /\ users'[n].password = users[n].password
  <2>1. users[n] \in Row
    BY <1>1 DEF TypeOK, Exists
  <2>2. CASE UNCHANGED users
    BY <2>2
  <2>3. ASSUME NEW c \in Calls, Insert(c) PROVE Untouched
    <3>1. CASE UNCHANGED users
      BY <3>1
    <3>2. CASE calls[c].op.num # n /\ \E new : users' = [users EXCEPT ![calls[c].op.num] = new]
      BY <1>1, <3>2 DEF TypeOK
    <3>. QED
      BY <2>3, <3>1, <3>2 DEF Insert
  <2>4. ASSUME NEW c \in Calls, Upsert(c) PROVE Untouched
    <3>1. PICK m \in Numbers : m = calls[c].op.num
      BY <1>1, DirectoryAssumption DEF TypeOK, Call, Op
    <3>2. CASE UNCHANGED users
      BY <3>2
    <3>3. CASE m # n /\ \E new : users' = [users EXCEPT ![m] = new]
      BY <1>1, <3>3 DEF TypeOK
    <3>4. CASE m = n
      BY <1>1, <2>4, <3>1, <3>4, UpsertKeeps
    <3>. QED
      BY <2>4, <3>1, <3>2, <3>3, <3>4 DEF Upsert
  <2>5. ASSUME NEW c \in Calls, Write(c), calls[c].op.num = n
        PROVE  /\ users'[n].deleted
               /\ At(c, "write") /\ ~calls[c].copy.deleted
    <3>1. At(c, "write") /\ ~calls[c].copy.deleted
      BY <1>1, <2>5 DEF Write, FoundAlive
    <3>2. CASE UNCHANGED users
      BY <3>1, <3>2
    <3>3. CASE users' = [users EXCEPT ![n] = Updated(c, users[n], calls[c].op)]
      <4>1. users'[n] = Updated(c, users[n], calls[c].op)
        BY <1>1, <3>3 DEF TypeOK
      <4>2. users'[n].deleted = users[n].deleted
        BY <2>1, <4>1 DEF Updated, Row
      <4>. QED
        BY <3>1, <4>2
    <3>4. CASE users' = [users EXCEPT ![n].deleted = TRUE]
      <4>1. users'[n] = [users[n] EXCEPT !.deleted = TRUE]
        BY <1>1, <3>4 DEF TypeOK
      <4>2. users'[n].deleted
        BY <2>1, <4>1 DEF Row
      <4>. QED
        BY <3>1, <4>2
    <3>. QED
      BY <2>5, <3>2, <3>3, <3>4 DEF Write
  <2>6. ASSUME NEW c \in Calls, Write(c), calls[c].op.num # n PROVE Untouched
    <3>1. UNCHANGED users \/ \E new : users' = [users EXCEPT ![calls[c].op.num] = new]
      BY <2>6 DEF Write
    <3>. QED
      BY <1>1, <2>6, <3>1 DEF TypeOK
  <2>7. ASSUME NEW m \in Numbers, NEW held \in SUBSET Positions, EditPayload(m, held)
        PROVE  Untouched
    <3>1. CASE m = n
      <4>1. users'[n] = [users[n] EXCEPT !.positions = held]
        BY <1>1, <2>7, <3>1 DEF EditPayload, TypeOK
      <4>. QED
        BY <2>1, <4>1 DEF Row
    <3>2. CASE m # n
      BY <1>1, <2>7, <3>2 DEF EditPayload, TypeOK
    <3>. QED
      BY <3>1, <3>2
  <2>. HIDE DEF Untouched
  <2>8. Untouched => /\ users'[n].deleted
                     /\ users'[n].roles = users[n].roles
                     /\ users'[n].password = users[n].password
    BY DEF Untouched
  <2>. QED
    BY <2>2, <2>3, <2>4, <2>5, <2>6, <2>7, <2>8
    DEF Next, Start, Create, Find, CheckEmail, Continue, FindUnit, FindManager,
        ReadPayload, LoseAcknowledgement, Fail, CreateUnit
<1>2. [][TypeOK /\ FoundAlive /\ [Next]_vars]_vars => DeletedIsQuiet
  BY <1>1, PTL DEF DeletedIsQuiet
<1>. QED
  BY <1>2, TypeCorrect, AlwaysFoundAlive, PTL DEF Spec
=============================================================================
