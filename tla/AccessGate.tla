----------------------------- MODULE AccessGate -----------------------------
(***************************************************************************)
(* Who may read whose data: JwtStrategy, PermissionsGuard, the abilities of *)
(* CaslAbilityFactory with their two-level cache, and the resolution,       *)
(* tenant check and ability check at the head of every view of the leave,   *)
(* attendance and profile services.                                        *)
(*                                                                         *)
(* A read is cut at its awaits.  It asks the factory twice, in the guard    *)
(* and in the service, and each time the list of permissions may come from  *)
(* the memory of its pod, from Redis or from the database, where roles and  *)
(* users change meanwhile.                                                 *)
(*                                                                         *)
(* Time is counted in ticks.  past, which no step reads, remembers what the *)
(* database held in which tick.                                            *)
(***************************************************************************)
EXTENDS Integers, FiniteSets

CONSTANTS
    Users,
    Callers,      \* the users who send requests
    Pods,         \* processes of the service, each with its own memory
    Calls,        \* reads, each used once
    Names,        \* what a caller may give as user_id, or Absent
    Services,     \* of leave, attendance and profile, those in use
    Profiles,     \* the user rows, as far as a read looks at them
    Starts,       \* what the users table holds at first
    Lists,        \* the lists of permissions that roles can add up to
    SourceOf,     \* of a user: payload.darwinbox.source_employee_id ...
    EmployeeOf,   \* ... and employeeId
    Absent,       \* an absent column, name or entry
    TTL,          \* ABILITY_CACHE_TTL_MS, in ticks
    MaxCall,      \* bound: ticks that a call may take
    MaxTick,      \* bound: the last tick
    MaxChanges    \* bound: rows and lists that are new within their tick

VARIABLES now, users, lists, redis, memory, calls, past

vars == <<now, users, lists, redis, memory, calls, past>>

Subjects == {"LeaveBalance", "AttendanceRecord", "User", "all"}

SubjectOf == [leave |-> "LeaveBalance", attendance |-> "AttendanceRecord", profile |-> "User"]

\* The placeholder of a condition and the field it is compared with: a
\* condition is the set of fields that must equal the reader's own.
Fields == {"unit", "company"}

Permission == [action : {"read", "manage", "create"}, subject : Subjects,
               same : SUBSET Fields]

\* What stands for a placeholder that resolves to nothing; no column holds it.
Unresolved == "__CASL_UNRESOLVED__"

Column == (STRING \ {Unresolved}) \cup {Absent}

\* deleted_at is set, and status is ACTIVE: a suspended user is neither.
Row == [deleted : BOOLEAN, active : BOOLEAN, unit : Column, company : Column]

\* A row of raw SQL: its columns are named as in the database, unit_id and not
\* unitId, so no condition finds them; the payload, with the company, it has.
RawRow == [deleted : BOOLEAN, active : BOOLEAN, company : Column]

RawColumns == {"deleted", "active", "company"}

Columns == RawColumns \cup {"unit"}

ASSUME AccessAssumption ==
    /\ Services \subseteq DOMAIN SubjectOf
    /\ Profiles \subseteq Row
    /\ Starts \subseteq [Users -> Row]
    /\ Lists \subseteq SUBSET Permission
    /\ TTL \in Nat /\ MaxCall \in Nat /\ MaxTick \in Nat /\ MaxChanges \in Nat
    /\ Callers \subseteq Users
    /\ Absent \notin Users /\ Absent # Unresolved

\* An entry of either cache: the list, and the tick after which it is expired.
Entry == [list : Lists, expires : Nat]

Call == [pc      : {"idle", "get", "query", "set", "reader", "source", "number", "id", "done"},
         gate    : {"guard", "service"},    \* which of the two asks the factory
         service : Services \cup {Absent},
         pod     : Pods \cup {Absent},
         by      : Callers \cup {Absent},
         name    : Names \cup {Absent},
         began   : Nat,
         me      : Row \cup {Absent},       \* request.user, or as read again
         target  : Users \cup {Absent},
         them    : Row \cup RawRow \cup {Absent},
         list    : Lists \cup {Absent},
         answer  : {"none", "200", "401", "403", "404", "500"}]

MayEnter(row) == row.active /\ ~row.deleted

-----------------------------------------------------------------------------
(* Abilities.                                                              *)

\* interpolateConditions(): a placeholder that resolves to nothing becomes
\* Unresolved.
Interpolated(perm, me) ==
    [f \in perm.same |-> IF me[f] = Absent THEN Unresolved ELSE me[f]]

\* ability.can(action, "Subject") of buildAbility(): conditions only count
\* against an object.
CanByName(list, action, subject) ==
    \E perm \in list : perm.action \in {action, "manage"} /\ perm.subject \in {subject, "all"}

\* ability.can(action, object): the subject of an object is what
\* detectSubjectType makes of it.  It looks for the name under a symbol and
\* under __typename; subject() stores it under __caslSubjectType__, so it finds
\* neither, and takes the object for an "all".
DetectedSubject(object) == "all"

CanOnObject(list, action, object, me) ==
    \E perm \in list :
        /\ perm.action \in {action, "manage"}
        /\ perm.subject \in {DetectedSubject(object), "all"}
        /\ \A f \in perm.same : f \in DOMAIN object /\ Interpolated(perm, me)[f] = object[f]

\* The profile service passes {id}; the others pass the row they found.
ObjectOf(call) ==
    IF call.service = "profile" THEN [id |-> call.target] ELSE call.them

-----------------------------------------------------------------------------
(* The cache: CacheModule's two stores.                                     *)

FreshForGood(entry) == entry # Absent

Fresh(entry) == entry # Absent /\ now <= entry.expires

\* cache.get(): the memory of the pod first, then Redis.
Cached(pod, u) ==
    IF Fresh(memory[pod][u]) THEN memory[pod][u].list
    ELSE IF Fresh(redis[u]) THEN redis[u].list ELSE Absent

StoreForGood(pod, u, list) ==
    LET entry == [list |-> list, expires |-> MaxTick] IN
    /\ memory' = [memory EXCEPT ![pod][u] = entry]
    /\ redis' = [redis EXCEPT ![u] = entry]

\* cache.set(): both stores, with the same time to live.
Store(pod, u, list) ==
    LET entry == [list |-> list, expires |-> now + TTL] IN
    /\ memory' = [memory EXCEPT ![pod][u] = entry]
    /\ redis' = [redis EXCEPT ![u] = entry]

\* An entry goes: the memory is full or short-lived, a pod or Redis restarts, or
\* invalidateCache() deletes it, here and there, for whoever should call it.
Evict ==
    /\ \/ \E pod \in Pods, u \in Callers :
             /\ memory[pod][u] # Absent
             /\ memory' = [memory EXCEPT ![pod][u] = Absent] /\ UNCHANGED redis
       \/ \E u \in Callers :
             /\ redis[u] # Absent
             /\ redis' = [redis EXCEPT ![u] = Absent] /\ UNCHANGED memory
    /\ UNCHANGED <<now, users, lists, calls, past>>

-----------------------------------------------------------------------------
(* A read.                                                                 *)

At(c, pc) == calls[c].pc = pc

Goes(c, next) == calls' = [calls EXCEPT ![c] = next]

\* A call that is over: the model keeps what it was judged by and, if it was
\* given data, whose.
Answered(call, code) ==
    LET Given(field) == IF code = "200" THEN field ELSE Absent IN
    [pc |-> "done", answer |-> code, by |-> call.by, began |-> call.began, list |-> call.list,
     service |-> Given(call.service), name |-> Given(call.name), target |-> Given(call.target),
     gate |-> "guard", pod |-> Absent, me |-> Absent, them |-> Absent]

\* JwtStrategy.validate(): the row of the token's user becomes request.user.
Begin(c, service, pod, u, name) ==
    /\ At(c, "idle")
    /\ LET call == [pc |-> "get", gate |-> "guard", service |-> service, pod |-> pod, by |-> u,
                    name |-> name, began |-> now, me |-> users[u], target |-> Absent,
                    them |-> Absent, list |-> Absent, answer |-> "none"]
       IN Goes(c, IF MayEnter(users[u]) THEN call ELSE Answered(call, "401"))
    /\ UNCHANGED <<now, users, lists, redis, memory, past>>

\* What becomes of call c with the list it is judged by.  PermissionsGuard
\* asks for read on the name of the subject; the service asks for the object,
\* and answers with the target's data.
Judged(c, list) ==
    LET call == [calls[c] EXCEPT !.list = list] IN
    IF call.gate = "guard" /\ CanByName(list, "read", SubjectOf[call.service])
    THEN [call EXCEPT !.pc = IF call.service = "leave" THEN "reader" ELSE "source",
                      !.gate = "service"]
    ELSE Answered(call, IF /\ call.gate = "service"
                           /\ CanOnObject(list, "read", ObjectOf(call), call.me)
                        THEN "200" ELSE "403")

\* createForUser(): the cached list, ...
GetList(c) ==
    /\ At(c, "get")
    /\ LET list == Cached(calls[c].pod, calls[c].by) IN
       Goes(c, IF list = Absent THEN [calls[c] EXCEPT !.pc = "query"] ELSE Judged(c, list))
    /\ UNCHANGED <<now, users, lists, redis, memory, past>>

\* ... or on a miss queryPermissions(): the set of what the roles grant, ...
QueryList(c) ==
    /\ At(c, "query")
    /\ Goes(c, [calls[c] EXCEPT !.pc = "set", !.list = lists[calls[c].by]])
    /\ UNCHANGED <<now, users, lists, redis, memory, past>>

\* ... which is stored before it is used.
SetList(c) ==
    /\ At(c, "set")
    /\ Store(calls[c].pod, calls[c].by, calls[c].list)
    /\ Goes(c, Judged(c, calls[c].list))
    /\ UNCHANGED <<now, users, lists, past>>

\* The leave views read the reader's row again, whatever became of it.
ReadReader(c) ==
    /\ At(c, "reader")
    /\ Goes(c, [calls[c] EXCEPT !.pc = "source", !.me = users[calls[c].by]])
    /\ UNCHANGED <<now, users, lists, redis, memory, past>>

\* assertSameTenant(), in the leave and attendance services: a company that is
\* absent or empty is that of everybody.
OtherTenant(me, them) ==
    /\ me.company \notin {Absent, ""} /\ them.company \notin {Absent, ""}
    /\ me.company # them.company

Found(call, u, row) == [call EXCEPT !.target = u, !.them = row]

\* The user found is of another tenant, or oneself, or one to ask the factory about.
Resolved(call, u, row) ==
    LET found == Found(call, u, row) IN
    IF call.service # "profile" /\ OtherTenant(call.me, row) THEN Answered(found, "403")
    ELSE IF u = call.by THEN Answered(found, "200")
    ELSE [found EXCEPT !.pc = "get"]

Everybody == Users

\* The passes of resolveTargetUser() look for a row that is not deleted, of
\* whatever status.
Undeleted == {u \in Users : ~users[u].deleted}

\* One pass, over the rows of that moment, which has the columns in its hands.
Pass(c, pc, matching, columns, otherwise) ==
    /\ At(c, pc) /\ calls[c].name # Absent
    /\ \/ \E u \in matching \cap Undeleted :
             Goes(c, Resolved(calls[c], u, [f \in columns |-> users[u][f]]))
       \/ matching \cap Undeleted = {} /\ Goes(c, otherwise)
    /\ UNCHANGED <<now, users, lists, redis, memory, past>>

\* Nobody named: oneself.
ResolveSelf(c) ==
    /\ At(c, "source") /\ calls[c].name = Absent
    /\ Goes(c, Answered(Found(calls[c], calls[c].by, calls[c].me), "200"))
    /\ UNCHANGED <<now, users, lists, redis, memory, past>>

\* By source_employee_id in raw SQL, ...
FindBySource(c) ==
    Pass(c, "source", {u \in Users : SourceOf[u] = calls[c].name}, RawColumns,
         [calls[c] EXCEPT !.pc = "number"])

\* ... then by employeeId, ...
FindByNumber(c) ==
    Pass(c, "number", {u \in Users : EmployeeOf[u] = calls[c].name}, Columns,
         [calls[c] EXCEPT !.pc = "id"])

\* ... then by id.
FindById(c) ==
    Pass(c, "id", {u \in Users : u = calls[c].name}, Columns, Answered(calls[c], "404"))

\* A round trip fails, or the pod dies.
Fail(c) ==
    /\ calls[c].pc \notin {"idle", "done"}
    /\ Goes(c, Answered(calls[c], "500"))
    /\ UNCHANGED <<now, users, lists, redis, memory, past>>

-----------------------------------------------------------------------------
(* Meanwhile.                                                              *)

\* What the database holds is remembered with the tick.
Snapshot(t, us, ls) ==
    {[at |-> t, user |-> u, row |-> us[u], list |-> IF u \in Callers THEN ls[u] ELSE {}] :
        u \in Users}

\* What was remembered beside the start of each tick.
Changes == Cardinality(past) - Cardinality(Users) * (now + 1)

\* UsersService re-assigns roles, or an administrator edits what a role grants.
SetRoles(u, list) ==
    /\ Changes < MaxChanges
    /\ list # lists[u]
    /\ lists' = [lists EXCEPT ![u] = list]
    /\ past' = past \cup Snapshot(now, users, lists')
    /\ UNCHANGED <<now, users, redis, memory, calls>>

\* A user is deleted, suspended, moved or synced.
SetUser(u, row) ==
    /\ Changes < MaxChanges
    /\ row # users[u]
    /\ users' = [users EXCEPT ![u] = row]
    /\ past' = past \cup Snapshot(now, users', lists)
    /\ UNCHANGED <<now, lists, redis, memory, calls>>

\* Time passes; no call is older than MaxCall ticks.
Tick ==
    /\ now < MaxTick
    /\ \A c \in Calls : calls[c].pc \notin {"idle", "done"} => now - calls[c].began < MaxCall
    /\ now' = now + 1
    /\ past' = past \cup Snapshot(now + 1, users, lists)
    /\ UNCHANGED <<users, lists, redis, memory, calls>>

Init ==
    /\ now = 0
    /\ users \in Starts
    /\ lists \in [Callers -> Lists]
    /\ redis = [u \in Callers |-> Absent]
    /\ memory = [p \in Pods |-> [u \in Callers |-> Absent]]
    /\ calls = [c \in Calls |->
          [pc |-> "idle", gate |-> "guard", service |-> Absent,
           pod |-> Absent, by |-> Absent, name |-> Absent,
           began |-> 0, me |-> Absent, target |-> Absent, them |-> Absent,
           list |-> Absent, answer |-> "none"]]
    /\ past = Snapshot(0, users, lists)

Next ==
    \/ \E c \in Calls :
          \/ \E service \in Services, pod \in Pods, u \in Callers, name \in Names :
                Begin(c, service, pod, u, name)
          \/ GetList(c) \/ QueryList(c) \/ SetList(c)
          \/ ReadReader(c) \/ ResolveSelf(c)
          \/ FindBySource(c) \/ FindByNumber(c) \/ FindById(c) \/ Fail(c)
    \/ Evict
    \/ \E u \in Callers, list \in Lists : SetRoles(u, list)
    \/ \E u \in Users, row \in Profiles : SetUser(u, row)
    \/ Tick

Spec == Init /\ [][Next]_vars

-----------------------------------------------------------------------------
(* Properties.                                                             *)

\* Every variable stays in its type, and no entry outlives its time to live,
\* whatever races to store it.
TypeOK ==
    /\ now \in 0..MaxTick
    /\ users \in [Users -> Row]
    /\ lists \in [Callers -> Lists]
    /\ redis \in [Callers -> Entry \cup {Absent}]
    /\ memory \in [Pods -> [Callers -> Entry \cup {Absent}]]
    /\ calls \in [Calls -> Call]
    /\ \A u \in Callers : \A entry \in {redis[u]} \cup {memory[p][u] : p \in Pods} :
          entry # Absent => entry.expires <= now + TTL

\* What was so for user u at some moment of tick t or later.
Since(u, t) == {s \in past : s.user = u /\ s.at >= t}

\* A list that was queried by one call, stored when that call got to it, and
\* found by another as late as its entry allows is this old.
Oldest(call) == call.began - TTL - MaxCall

\* "Without this, stale abilities remain live until the TTL expires": nobody is
\* judged by a list that is older than the time to live and the time the call
\* that stored it took; least of all by that of another user.
JudgedByRecentList ==
    \A c \in Calls : calls[c].list # Absent =>
        \E s \in Since(calls[c].by, Oldest(calls[c])) : s.list = calls[c].list

\* The permission in words: it grants reading the service's subject to a
\* reader whose fields, all known, are those of the target.
Grants(list, service, me, them) ==
    \E perm \in list :
        /\ perm.action \in {"read", "manage"}
        /\ perm.subject \in {SubjectOf[service], "all"}
        /\ \A f \in perm.same : me[f] # Absent /\ me[f] = them[f]

\* Whatever roles, rows and entries change on the way, a read of somebody
\* else's data is answered only if, while it was under way, its reader was an
\* active user, and its target was one of that name that was not deleted, not of
\* a known other company, and such that a list that the reader recently had
\* grants it.
AnsweredWasEntitled ==
    \A c \in Calls : calls[c].answer = "200" =>
        LET call == calls[c] IN
        /\ \E s \in Since(call.by, call.began) : MayEnter(s.row)
        /\ \/ call.target = call.by
           \/ /\ call.name \in {SourceOf[call.target], EmployeeOf[call.target], call.target}
              /\ \E me \in Since(call.by, call.began), them \in Since(call.target, call.began) :
                    /\ ~them.row.deleted
                    /\ call.service # "profile" => ~OtherTenant(me.row, them.row)
                    /\ \E s \in Since(call.by, Oldest(call)) :
                          Grants(s.list, call.service, me.row, them.row)
=============================================================================
