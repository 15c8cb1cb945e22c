---------------------------- MODULE UserDirectory ----------------------------
(***************************************************************************)
(* The users table as its two writers keep it: UsersService (src/users) and *)
(* the Darwinbox sync of ProfilesService (src/profiles), while HR           *)
(* administration edits the payload and units are created.                  *)
(*                                                                         *)
(* Handlers are cut at their database round trips.  The sync makes four     *)
(* reads before its transaction, which then replaces the whole payload.     *)
(* employeeId is unique and immutable and rows are never removed, so an     *)
(* employee number also stands for the id of its row.  Names, status and    *)
(* the details of a profile are left out: each is only ever replaced along  *)
(* with the e-mail (sync) or the roles (PATCH).                             *)
(***************************************************************************)
EXTENDS Naturals

CONSTANTS
    Numbers,      \* employee numbers
    Emails,
    Units,        \* units, by their code
    Positions,    \* position ids
    Roles,
    Calls,        \* requests being served, each used once
    Ops,          \* what they may ask for, a bound
    NoOne,        \* no manager, or none named
    NoUnit,
    NoEmail,
    NoSync,       \* the payload of a row that was never synced
    NoRow

VARIABLES
    users,        \* the table
    units,        \* the units created so far
    calls

vars == <<users, units, calls>>

\* A request: the DTO as far as the rows depend on it.  For a sync, unit is
\* the department code and boss the number of the reporting manager; unitId,
\* roleIds and password tell whether the DTO has them: a unit may be null.
Op == [type     : {"create", "update", "remove", "sync"},
       num      : Numbers,
       email    : Emails \cup {NoEmail},
       unitId   : BOOLEAN,
       unit     : Units \cup {NoUnit},
       boss     : Numbers \cup {NoOne},
       roleIds  : BOOLEAN,
       roles    : SUBSET Roles,
       password : BOOLEAN]

\* password: the call whose hash is stored; positions (none when the key is
\* absent) and synced (what the last sync put there) are the payload.
Row == [email     : Emails,
        password  : Calls,
        unit      : Units \cup {NoUnit},
        manager   : Numbers \cup {NoOne},
        roles     : SUBSET Roles,
        deleted   : BOOLEAN,
        positions : SUBSET Positions,
        synced    : Ops \cup {NoSync}]

\* unit and manager: what a sync has looked up; copy: the row last read;
\* answer: what the caller was told; stored, a history variable, that the
\* write was committed, whatever the caller was told.
Call == [pc      : {"idle", "insert", "write", "unit", "manager", "payload",
                    "upsert", "done"},
         op      : Ops,
         unit    : Units \cup {NoUnit},
         manager : Numbers \cup {NoOne},
         copy    : Row \cup {NoRow},
         answer  : {"none", "200", "404", "409", "500"},
         stored  : BOOLEAN]

IdleCall == [pc |-> "idle", op |-> CHOOSE op \in Ops : TRUE, unit |-> NoUnit,
             manager |-> NoOne, copy |-> NoRow, answer |-> "none",
             stored |-> FALSE]

\* What the DTOs let through: a create must have an e-mail and a password, an
\* update cannot name an e-mail, a removal names nothing else, and a sync must
\* have an e-mail and has no roles and no password.  Only a sync names a manager.
ValidCreate(op) ==
    op.type = "create" => op.email # NoEmail /\ op.password /\ op.boss = NoOne

ValidUpdate(op) ==
    /\ op.type \in {"update", "remove"} => op.email = NoEmail /\ op.boss = NoOne
    /\ op.type = "remove" => ~op.unitId /\ ~op.roleIds /\ ~op.password

ValidSync(op) ==
    op.type = "sync" => op.email # NoEmail /\ ~op.roleIds /\ ~op.password

ASSUME DirectoryAssumption ==
    /\ Ops \subseteq Op /\ Ops # {}
    /\ \A op \in Ops :
          /\ ValidCreate(op) /\ ValidUpdate(op) /\ ValidSync(op)
          /\ ~op.unitId => op.unit = NoUnit
          /\ ~op.roleIds => op.roles = {}
    /\ NoOne \notin Numbers /\ NoUnit \notin Units /\ NoEmail \notin Emails
    /\ NoSync \notin Ops /\ NoRow \notin Row

Exists(n) == users[n] # NoRow

At(c, pc) == calls[c].pc = pc

Begins(c, op, pc, copy) ==
    calls' = [calls EXCEPT ![c] = [@ EXCEPT !.pc = pc, !.op = op, !.copy = copy]]

Refuses(c, op, code) ==
    calls' = [calls EXCEPT ![c] = [@ EXCEPT !.pc = "done", !.op = op, !.answer = code]]

Goes(c, pc) == calls' = [calls EXCEPT ![c].pc = pc]

\* The call is over, and answered with code unless its caller has already
\* been told of an error.
Ended(call, code, stored) ==
    [call EXCEPT !.pc = "done", !.copy = NoRow, !.stored = stored,
                 !.answer = IF call.answer = "none" THEN code ELSE call.answer]

Ends(c, code) == calls' = [calls EXCEPT ![c] = Ended(calls[c], code, FALSE)]

Commits(c) == calls' = [calls EXCEPT ![c] = Ended(calls[c], "200", TRUE)]

\* The unique index on email: another row already has it.
Taken(email, n) == \E m \in Numbers \ {n} : Exists(m) /\ users[m].email = email

\* The foreign key on unit_id.
UnitExists(u) == u # NoUnit => u \in units

-----------------------------------------------------------------------------
(* UsersService.create(): two lookups, sent together and taken as one step, *)
(* and an insert that the unique indexes and foreign keys may still refuse. *)

Create(c, op) ==
    /\ At(c, "idle") /\ op.type = "create"
    /\ \/ (Exists(op.num) \/ Taken(op.email, op.num)) /\ Refuses(c, op, "409")
       \/ ~Exists(op.num) /\ ~Taken(op.email, op.num) /\ Begins(c, op, "insert", NoRow)
    /\ UNCHANGED <<users, units>>

InsertTrustingTheCheck(c) ==
    LET op == calls[c].op IN
    /\ At(c, "insert")
    /\ users' = [users EXCEPT ![op.num] =
           [email |-> op.email, password |-> c, unit |-> op.unit, manager |-> NoOne,
            roles |-> op.roles, deleted |-> FALSE, positions |-> {}, synced |-> NoSync]]
    /\ Commits(c)
    /\ UNCHANGED units

Insert(c) ==
    LET op == calls[c].op
        new == [email |-> op.email, password |-> c, unit |-> op.unit, manager |-> NoOne,
                roles |-> op.roles, deleted |-> FALSE,
                positions |-> {}, synced |-> NoSync]
    IN /\ At(c, "insert")
       /\ \/ /\ Exists(op.num) \/ Taken(op.email, op.num) \/ ~UnitExists(op.unit)
             /\ Ends(c, "500")
             /\ UNCHANGED users
          \/ /\ ~Exists(op.num) /\ ~Taken(op.email, op.num) /\ UnitExists(op.unit)
             /\ users' = [users EXCEPT ![op.num] = new]
             /\ Commits(c)
       /\ UNCHANGED units

-----------------------------------------------------------------------------
(* UsersService.update() and remove(): findOne, then a write by id alone.   *)

FindEvenDeleted(c, op) ==
    /\ At(c, "idle") /\ op.type \in {"update", "remove"}
    /\ \/ ~Exists(op.num) /\ Refuses(c, op, "404")
       \/ Exists(op.num) /\ Begins(c, op, "write", users[op.num])
    /\ UNCHANGED <<users, units>>

Find(c, op) ==
    /\ At(c, "idle") /\ op.type \in {"update", "remove"}
    /\ \/ ~Exists(op.num) /\ Refuses(c, op, "404")
       \/ Exists(op.num) /\ users[op.num].deleted /\ Refuses(c, op, "404")
       \/ /\ Exists(op.num) /\ ~users[op.num].deleted
          /\ Begins(c, op, "write", users[op.num])
    /\ UNCHANGED <<users, units>>

\* Only the columns that the PATCH names are set, the unit to null if the
\* PATCH says so; roles are replaced.
Updated(c, row, op) ==
    [row EXCEPT !.password = IF op.password THEN c ELSE @,
                !.unit     = IF op.unitId THEN op.unit ELSE @,
                !.roles    = IF op.roleIds THEN op.roles ELSE @]

Write(c) ==
    LET op == calls[c].op IN
    /\ At(c, "write")
    /\ \/ /\ op.type = "update" /\ ~UnitExists(op.unit)
          /\ Ends(c, "500")
          /\ UNCHANGED users
       \/ /\ op.type = "update" /\ UnitExists(op.unit)
          /\ users' = [users EXCEPT ![op.num] = Updated(c, @, op)]
          /\ Commits(c)
       \/ /\ op.type = "remove"
          /\ users' = [users EXCEPT ![op.num].deleted = TRUE]
          /\ Commits(c)
    /\ UNCHANGED units

-----------------------------------------------------------------------------
(* ProfilesService.syncDarwinboxProfile(): e-mail conflict, unit, manager   *)
(* and payload are read one after the other.                                *)

CheckEmail(c, op) ==
    /\ At(c, "idle") /\ op.type = "sync"
    /\ \/ Taken(op.email, op.num) /\ Refuses(c, op, "409")
       \/ ~Taken(op.email, op.num) /\ Begins(c, op, "unit", NoRow)
    /\ UNCHANGED <<users, units>>

\* A unit that does not exist yet does not block the sync.
FindUnit(c) ==
    /\ At(c, "unit")
    /\ calls' = [calls EXCEPT ![c].pc = "manager",
                              ![c].unit = IF calls[c].op.unit \in units
                                          THEN calls[c].op.unit ELSE NoUnit]
    /\ UNCHANGED <<users, units>>

FindManagerAmongSynced(c) ==
    LET boss == calls[c].op.boss IN
    /\ At(c, "manager")
    /\ calls' = [calls EXCEPT ![c].pc = "payload",
                              ![c].manager = IF boss # NoOne /\ Exists(boss)
                                                /\ users[boss].synced # NoSync
                                             THEN boss ELSE NoOne]
    /\ UNCHANGED <<users, units>>

\* Nor does a manager who has no row; a soft-deleted one is found.
FindManager(c) ==
    LET boss == calls[c].op.boss IN
    /\ At(c, "manager")
    /\ calls' = [calls EXCEPT ![c].pc = "payload",
                              ![c].manager = IF boss # NoOne /\ Exists(boss)
                                             THEN boss ELSE NoOne]
    /\ UNCHANGED <<users, units>>

ReadPayload(c) ==
    /\ At(c, "payload")
    /\ calls' = [calls EXCEPT ![c].pc = "upsert", ![c].copy = users[calls[c].op.num]]
    /\ UNCHANGED <<users, units>>

SyncedKeepingManager(row, call) ==
    [row EXCEPT !.email     = call.op.email,
                !.unit      = call.unit,
                !.manager   = IF call.manager = NoOne THEN @ ELSE call.manager,
                !.positions = IF call.copy = NoRow THEN {} ELSE call.copy.positions,
                !.synced    = call.op]

SyncedWithoutPositions(row, call) ==
    [row EXCEPT !.email     = call.op.email,
                !.unit      = call.unit,
                !.manager   = call.manager,
                !.positions = {},
                !.synced    = call.op]

\* The rebuilt payload takes the positionIds of the copy, and nothing else.
Synced(row, call) ==
    [row EXCEPT !.email     = call.op.email,
                !.unit      = call.unit,
                !.manager   = call.manager,
                !.positions = IF call.copy = NoRow THEN {} ELSE call.copy.positions,
                !.synced    = call.op]

\* A first sync: a random password, no roles, and the synced columns.
Blank(c) ==
    [email |-> calls[c].op.email, password |-> c, unit |-> NoUnit, manager |-> NoOne,
     roles |-> {}, deleted |-> FALSE, positions |-> {},
     synced |-> NoSync]

UpsertOfEveryColumn(c) ==
    LET call == calls[c]
        n == call.op.num
    IN /\ At(c, "upsert")
       /\ \/ Taken(call.op.email, n) /\ Ends(c, "500") /\ UNCHANGED users
          \/ /\ ~Taken(call.op.email, n)
             /\ users' = [users EXCEPT ![n] = Synced(Blank(c), call)]
             /\ Commits(c)
       /\ UNCHANGED units

\* The $transaction: upsert and manager_id together.
Upsert(c) ==
    LET call == calls[c]
        n == call.op.num
    IN /\ At(c, "upsert")
       /\ \/ Taken(call.op.email, n) /\ Ends(c, "500") /\ UNCHANGED users
          \/ /\ ~Taken(call.op.email, n)
             /\ users' = [users EXCEPT ![n] = Synced(IF Exists(n) THEN @ ELSE Blank(c), call)]
             /\ Commits(c)
       /\ UNCHANGED units

\* The write has been sent and its acknowledgement does not come back: the
\* promise is rejected and the caller told of an error, while the database
\* may still store the row, then or later (the write's own action), or not
\* (Fail).
LoseAcknowledgement(c) ==
    /\ calls[c].pc \in {"insert", "write", "upsert"} /\ calls[c].answer = "none"
    /\ calls' = [calls EXCEPT ![c].answer = "500"]
    /\ UNCHANGED <<users, units>>

\* A round trip fails, the transaction rolls back, or the process dies.
Fail(c) ==
    /\ calls[c].pc \notin {"idle", "done"}
    /\ Ends(c, "500")
    /\ UNCHANGED <<users, units>>

-----------------------------------------------------------------------------
(* Other writers.                                                           *)

\* HR administration, outside src/, sets the positions of an employee.
EditPayload(n, held) ==
    /\ Exists(n)
    /\ users' = [users EXCEPT ![n].positions = held]
    /\ UNCHANGED <<units, calls>>

\* UsersService and the sync depend on UnitsService.create() only by this.
CreateUnit(u) ==
    /\ u \notin units
    /\ units' = units \cup {u}
    /\ UNCHANGED <<users, calls>>

-----------------------------------------------------------------------------

Init ==
    /\ users = [n \in Numbers |-> NoRow]
    /\ units = {}
    /\ calls = [c \in Calls |-> IdleCall]

Start(c, op) == Create(c, op) \/ Find(c, op) \/ CheckEmail(c, op)

Continue(c) ==
    \/ Insert(c) \/ Write(c)
    \/ FindUnit(c) \/ FindManager(c) \/ ReadPayload(c) \/ Upsert(c)

Next ==
    \/ \E c \in Calls :
          \/ \E op \in Ops : Start(c, op)
          \/ Continue(c)
          \/ LoseAcknowledgement(c)
          \/ Fail(c)
    \/ \E n \in Numbers, held \in SUBSET Positions : EditPayload(n, held)
    \/ \E u \in Units : CreateUnit(u)

Spec == Init /\ [][Next]_vars

\* Every round trip ends and the event loop runs its continuation, unless a
\* failure ends the call first: nothing makes Fail happen.
Fairness == \A c \in Calls : WF_vars(Continue(c))

FairSpec == Spec /\ Fairness
-----------------------------------------------------------------------------

\* A call is at a step of its own handler, is answered when it is done, or
\* told of an error while its write is under way, told of success only if the
\* write was committed, and has looked up what its request names, or nothing.
WellFormed(call) ==
    /\ call.pc = "insert" => call.op.type = "create"
    /\ call.pc = "write" => call.op.type \in {"update", "remove"} /\ Exists(call.op.num)
    /\ call.pc \in {"unit", "manager", "payload", "upsert"} => call.op.type = "sync"
    /\ call.pc = "idle" => call.unit = NoUnit /\ call.manager = NoOne
    /\ call.unit # NoUnit => call.unit = call.op.unit /\ call.unit \in units
    /\ call.manager # NoOne => call.manager = call.op.boss /\ Exists(call.manager)
    /\ call.pc = "done" => call.answer # "none"
    /\ call.answer # "none" => call.pc \in {"insert", "write", "upsert", "done"}
    /\ call.stored => call.pc = "done"
    /\ call.answer = "200" => call.stored

\* Every variable stays in its type and every call is well formed; e-mails are
\* unique, and links lead to rows and units that exist.
TypeOK ==
    /\ users \in [Numbers -> Row \cup {NoRow}]
    /\ units \subseteq Units
    /\ calls \in [Calls -> Call]
    /\ \A n \in Numbers : Exists(n) =>
          /\ ~Taken(users[n].email, n)
          /\ UnitExists(users[n].unit)
          /\ users[n].manager # NoOne => Exists(users[n].manager)
    /\ \A c \in Calls : WellFormed(calls[c])

\* The write of call c was committed, and it was such a request for n.
Done(c, n, types) ==
    calls[c].stored /\ calls[c].op.num = n /\ calls[c].op.type \in types

RowExplained(n) ==
    LET row == users[n] IN
    /\ row.synced = NoSync =>
          /\ row.manager = NoOne
          /\ \E c \in Calls : Done(c, n, {"create"}) /\ calls[c].op.email = row.email
    /\ row.synced # NoSync =>
          /\ row.email = row.synced.email
          /\ row.manager \in {row.synced.boss, NoOne}
          /\ \E c \in Calls : Done(c, n, {"sync"}) /\ calls[c].op = row.synced
    /\ row.unit # NoUnit =>
          \/ row.synced # NoSync /\ row.unit = row.synced.unit
          \/ \E c \in Calls : Done(c, n, {"create", "update"}) /\ calls[c].op.unit = row.unit

\* Whatever syncs, creates and PATCHes race on an employee, and whether or not
\* their acknowledgements arrive, the row is that of one committed sync or of
\* the create, never a mixture: e-mail and manager are those of
\* the payload's sync, or of no manager if none had a row, and the unit is that
\* of this sync or was set by a POST or PATCH.
RowsExplained == \A n \in Numbers : Exists(n) => RowExplained(n)

PasswordExplained(n) ==
    LET c == users[n].password IN
    /\ Done(c, n, {"create", "update", "sync"})
    /\ calls[c].op.type = "update" => calls[c].op.password

KeepsItsPassword(c, n) ==
    Exists(n) /\ (users[n].password = c \/ calls[users[n].password].op.type = "update")

\* "preserve existing passwordHash": the password of a row is that of the
\* create that made it, of a PATCH of it that was committed, or, for a row
\* that a sync made, the random one; and a POST that stored a row, even one
\* whose caller was told of an error, made this row, so no two of them did,
\* and its password is replaced only by a PATCH.
PasswordsExplained ==
    /\ \A n \in Numbers : Exists(n) => PasswordExplained(n)
    /\ \A c \in Calls, n \in Numbers : Done(c, n, {"create"}) => KeepsItsPassword(c, n)

DeletedStaysQuiet ==
    \A n \in Numbers : Exists(n) /\ users[n].deleted =>
        /\ users'[n].deleted
        /\ <<users'[n].roles, users'[n].password>> # <<users[n].roles, users[n].password>> =>
              \E c \in Calls :
                 /\ At(c, "write") /\ calls[c].op.num = n
                 /\ ~calls[c].copy.deleted

\* A soft-deleted row stays deleted, and its roles and password change only by
\* a call that had found the row before it was deleted.
DeletedIsQuiet == [][DeletedStaysQuiet]_vars

\* A sync changes positions only if HR administration changed them after it
\* had read the payload, and leaves password, roles and deletion alone.
SyncKeepsWhatItRead ==
    [][\A c \in Calls : At(c, "upsert") /\ At(c, "done")' =>
          LET n == calls[c].op.num IN
          Exists(n) =>
              /\ calls[c].copy # NoRow /\ calls[c].copy.positions = users[n].positions
                    => users'[n].positions = users[n].positions
              /\ users'[n].password = users[n].password
              /\ users'[n].roles = users[n].roles
              /\ users'[n].deleted = users[n].deleted]_vars

\* "Re-syncing the employee after the manager's record is created will
\* correctly link them": a sync that looks for a manager who has a row stores
\* nothing or stores the link.
ManagersFound ==
    \A c \in Calls :
        At(c, "unit") /\ calls[c].op.boss # NoOne /\ Exists(calls[c].op.boss)
        ~> At(c, "done") /\ (calls[c].stored => calls[c].manager = calls[c].op.boss)
=============================================================================
