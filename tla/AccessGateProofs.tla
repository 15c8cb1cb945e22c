--------------------------- MODULE AccessGateProofs ---------------------------
(***************************************************************************)
(* Theorems about AccessGate, for any users, processes, calls and lists,   *)
(* and any times: how old a list of permissions may be that somebody is    *)
(* judged by, and who is answered about whom.                               *)
(*                                                                         *)
(* The argument follows a list on its way.  A call that is about to store  *)
(* it has queried it since it began; an entry is therefore no older than    *)
(* its time to live and one call; and so is what another call finds there. *)
(***************************************************************************)
EXTENDS AccessGate, TLAPS

Answers == {"none", "200", "401", "403", "404", "500"}

-----------------------------------------------------------------------------
(* The inductive invariant.                                                *)

\* What the database holds is remembered, and every memory has its tick.
PastHoldsPresent ==
    /\ Snapshot(now, users, lists) \subseteq past
    /\ \A s \in past : s.at \in Nat

\* The list was so for user u at some moment of tick t or later.
ListSince(u, t, list) == \E s \in Since(u, t) : s.list = list

\* The list of an entry for u was queried by the call that stored it.
EntryRecent(u, entry) ==
    entry # Absent => ListSince(u, entry.expires - TTL - MaxCall, entry.list)

EntriesRecent ==
    \A u \in Callers :
        /\ EntryRecent(u, redis[u])
        /\ \A p \in Pods : EntryRecent(u, memory[p][u])

ListRecent(call) ==
    call.list # Absent => ListSince(call.by, Oldest(call), call.list)

\* The rows of the reader and of the target that the call works with are such
\* as they had while it was under way, and the target is another one of the
\* name that was asked for.
ReaderSeen(call) ==
    /\ \E s \in Since(call.by, call.began) : MayEnter(s.row)
    /\ \E s \in Since(call.by, call.began) : s.row = call.me

TargetSeen(call) ==
    /\ call.target \in Users
    /\ call.name \in {SourceOf[call.target], EmployeeOf[call.target], call.target}
    /\ \E s \in Since(call.target, call.began) :
          /\ s.row \in Row /\ ~s.row.deleted
          /\ call.service # "profile" => ~OtherTenant(call.me, s.row)
          /\ call.them \in {s.row, [f \in RawColumns |-> s.row[f]]}

\* A call that is under way.
UnderWay(call) ==
    /\ call.service \in Services /\ call.by \in Callers /\ call.pod \in Pods
    /\ call.me \in Row
    /\ call.began <= now /\ now <= call.began + MaxCall
    /\ ReaderSeen(call)
    /\ call.pc = "set" => call.list \in Lists /\ ListSince(call.by, call.began, call.list)
    /\ call.pc \in {"get", "query", "set"} /\ call.gate = "service" => TargetSeen(call)

\* What AnsweredWasEntitled says of a call that was answered with data.
Entitlement(call) ==
    /\ \E s \in Since(call.by, call.began) : MayEnter(s.row)
    /\ \/ call.target = call.by
       \/ /\ call.name \in {SourceOf[call.target], EmployeeOf[call.target], call.target}
          /\ \E me \in Since(call.by, call.began), them \in Since(call.target, call.began) :
                /\ ~them.row.deleted
                /\ call.service # "profile" => ~OtherTenant(me.row, them.row)
                /\ \E s \in Since(call.by, Oldest(call)) :
                      Grants(s.list, call.service, me.row, them.row)

Entitled(call) == call.answer = "200" => Entitlement(call)

CallInv(call) ==
    /\ call \in Call
    /\ ListRecent(call)
    /\ Entitled(call)
    /\ call.pc = "idle" => /\ call.list = Absent /\ call.answer = "none"
                           /\ call.gate = "guard"
    /\ call.pc \notin {"idle", "done"} => call.answer = "none" /\ UnderWay(call)

\* The part of the invariant about everything but calls.
StoreInv ==
    /\ now \in 0..MaxTick
    /\ users \in [Users -> Row]
    /\ lists \in [Callers -> Lists]
    /\ redis \in [Callers -> Entry \cup {Absent}]
    /\ memory \in [Pods -> [Callers -> Entry \cup {Absent}]]
    /\ \A u \in Callers : \A entry \in {redis[u]} \cup {memory[p][u] : p \in Pods} :
          entry # Absent => entry.expires <= now + TTL
    /\ PastHoldsPresent
    /\ EntriesRecent

AccessInv ==
    /\ StoreInv
    /\ calls \in [Calls -> Call]
    /\ \A c \in Calls : CallInv(calls[c])

-----------------------------------------------------------------------------
(* What was so remains remembered.                                         *)

LEMMA SinceGrows ==
    ASSUME past \subseteq past', NEW u, NEW t
    PROVE  Since(u, t) \subseteq Since(u, t)'
BY DEF Since

LEMMA SinceEarlier ==
    ASSUME PastHoldsPresent, NEW u, NEW t \in Int, NEW t0 \in Int, t0 <= t
    PROVE  Since(u, t) \subseteq Since(u, t0)
BY DEF Since, PastHoldsPresent

LEMMA ListSinceGrows ==
    ASSUME past \subseteq past', NEW u, NEW t, NEW list, ListSince(u, t, list)
    PROVE  ListSince(u, t, list)'
BY SinceGrows DEF ListSince

\* What the database holds now is something it held since any tick so far.
LEMMA PresentSince ==
    ASSUME StoreInv, NEW u \in Users, NEW t \in Int, t <= now
    PROVE  \E s \in Since(u, t) : /\ s.row = users[u]
                                  /\ u \in Callers => s.list = lists[u]
<1>. DEFINE s == [at |-> now, user |-> u, row |-> users[u],
                  list |-> IF u \in Callers THEN lists[u] ELSE {}]
<1>1. s \in past
  BY DEF StoreInv, PastHoldsPresent, Snapshot
<1>2. s \in Since(u, t)
  BY <1>1 DEF Since, StoreInv
<1>. QED
  BY <1>2

\* A call keeps what it has while others write, and time passes as far as its
\* own bound allows.
LEMMA CallInvGrows ==
    ASSUME NEW call, CallInv(call), past \subseteq past',
           call.pc \notin {"idle", "done"} => call.began <= now' /\ now' <= call.began + MaxCall
    PROVE  CallInv(call)'
<1>1. \A u, t : Since(u, t) \subseteq Since(u, t)'
  BY SinceGrows
<1>2. ListRecent(call)'
  BY <1>1 DEF CallInv, ListRecent, ListSince, Oldest
<1>3. Entitled(call)'
  BY <1>1 DEF CallInv, Entitled, Entitlement, Oldest
<1>4. ASSUME call.pc \notin {"idle", "done"}
      PROVE  UnderWay(call)'
  <2>1. UnderWay(call)
    BY <1>4 DEF CallInv
  <2>2. ReaderSeen(call)'
    BY <1>1, <2>1 DEF UnderWay, ReaderSeen
  <2>3. TargetSeen(call) => TargetSeen(call)'
    BY <1>1 DEF TargetSeen
  <2>4. call.pc = "set" => ListSince(call.by, call.began, call.list)'
    BY <1>1, <2>1 DEF UnderWay, ListSince
  <2>. QED
    BY <1>4, <2>1, <2>2, <2>3, <2>4 DEF UnderWay
<1>. QED
  BY <1>2, <1>3, <1>4 DEF CallInv

-----------------------------------------------------------------------------
(* A step of one call.                                                     *)

LEMMA AnsweredInv ==
    ASSUME NEW call \in Call, ListRecent(call), NEW code \in Answers \ {"none"},
           code = "200" => Entitlement(call)
    PROVE  CallInv(Answered(call, code))
<1>. DEFINE over == Answered(call, code)
<1>1. /\ over \in Call /\ over.pc = "done" /\ over.answer = code
      /\ over.list = call.list /\ over.by = call.by /\ over.began = call.began
  BY DEF Answered, Call, Answers
<1>2. code = "200" => /\ over.service = call.service /\ over.name = call.name
                      /\ over.target = call.target
  BY DEF Answered
<1>. HIDE DEF over
<1>3. ListRecent(over)
  BY <1>1 DEF ListRecent, Oldest
<1>4. Entitled(over)
  BY <1>1, <1>2 DEF Entitled, Entitlement, Oldest
<1>. QED
  BY <1>1, <1>3, <1>4 DEF CallInv, over

\* A call that goes on changes nothing but itself.
LEMMA GoesInv ==
    ASSUME AccessInv, StoreInv', UNCHANGED <<now, users, lists, past>>,
           NEW c \in Calls, NEW next, CallInv(next), Goes(c, next)
    PROVE  AccessInv'
<1>1. calls' = [calls EXCEPT ![c] = next] /\ next \in Call
  BY DEF Goes, CallInv
<1>2. calls' \in [Calls -> Call]
  BY <1>1 DEF AccessInv
<1>3. \A call : CallInv(call) => CallInv(call)'
  BY DEF CallInv, ListRecent, Entitled, Entitlement, UnderWay, ReaderSeen, TargetSeen,
         ListSince, Since
<1>4. \A d \in Calls : CallInv(calls'[d])
  BY <1>1 DEF AccessInv
<1>5. \A d \in Calls : CallInv(calls[d])'
  BY <1>3, <1>4
<1>. QED
  BY <1>2, <1>5 DEF AccessInv

\* The permission that the ability finds for the object found is one for the
\* row it was made of.
LEMMA GrantedByName ==
    ASSUME NEW call, call.service \in DOMAIN SubjectOf, call.me \in Row,
           NEW row \in Row,
           call.them \in {row, [f \in RawColumns |-> row[f]]},
           NEW list \in Lists,
           CanOnObject(list, "read", ObjectOf(call), call.me)
    PROVE  Grants(list, call.service, call.me, row)
<1>. DEFINE object == ObjectOf(call)
<1>1. PICK perm \in list :
           /\ perm.action \in {"read", "manage"} /\ perm.subject = "all"
           /\ \A f \in perm.same :
                 f \in DOMAIN object /\ Interpolated(perm, call.me)[f] = object[f]
  BY DEF CanOnObject, DetectedSubject
<1>2. perm.same \subseteq {"unit", "company"}
  BY AccessAssumption DEF Permission, Fields
<1>3. ASSUME NEW f \in perm.same
      PROVE  call.me[f] # Absent /\ call.me[f] = row[f]
  <2>1. f \in DOMAIN object /\ Interpolated(perm, call.me)[f] = object[f]
    BY <1>1, <1>3
  <2>2. object[f] = row[f]
    BY <1>2, <1>3, <2>1 DEF ObjectOf, Row, RawColumns
  <2>3. row[f] # Unresolved
    BY <1>2, <1>3, AccessAssumption DEF Row, Column
  <2>4. Interpolated(perm, call.me)[f] = IF call.me[f] = Absent THEN Unresolved ELSE call.me[f]
    BY <1>3 DEF Interpolated
  <2>. QED
    BY <2>1, <2>2, <2>3, <2>4
<1>. QED
  BY <1>1, <1>3 DEF Grants

-----------------------------------------------------------------------------
(* The handlers.                                                           *)

LEMMA StoreUnchanged ==
    ASSUME StoreInv, UNCHANGED <<now, users, lists, redis, memory, past>>
    PROVE  StoreInv'
BY DEF StoreInv, PastHoldsPresent, EntriesRecent, EntryRecent, ListSince, Since, Snapshot

LEMMA BeginInv ==
    ASSUME AccessInv, NEW c \in Calls, NEW service \in Services, NEW pod \in Pods,
           NEW u \in Callers, NEW name \in Names, Begin(c, service, pod, u, name)
    PROVE  AccessInv'
<1>. DEFINE call == [pc |-> "get", gate |-> "guard", service |-> service, pod |-> pod,
                     by |-> u, name |-> name, began |-> now, me |-> users[u],
                     target |-> Absent, them |-> Absent, list |-> Absent, answer |-> "none"]
<1>1. /\ u \in Users /\ users[u] \in Row /\ now \in Nat
      /\ MaxCall \in Nat
  BY AccessAssumption DEF AccessInv, StoreInv
<1>2. /\ call \in Call /\ call.pc = "get" /\ call.service = service /\ call.pod = pod
      /\ call.by = u /\ call.began = now /\ call.me = users[u] /\ call.gate = "guard"
      /\ call.list = Absent /\ call.answer = "none"
  BY <1>1 DEF Call
<1>3. Goes(c, IF MayEnter(users[u]) THEN call ELSE Answered(call, "401"))
  BY DEF Begin
<1>4. UNCHANGED <<now, users, lists, redis, memory, past>>
  BY DEF Begin
<1>. HIDE DEF call
<1>5. ListRecent(call)
  BY <1>2 DEF ListRecent
<1>6. CASE MayEnter(users[u])
  <2>1. \E s \in Since(u, now) : s.row = users[u]
    BY <1>1, PresentSince DEF AccessInv
  <2>2. ReaderSeen(call)
    BY <1>2, <1>6, <2>1 DEF ReaderSeen
  <2>3. UnderWay(call)
    BY <1>1, <1>2, <2>2 DEF UnderWay
  <2>4. CallInv(call)
    BY <1>2, <1>5, <2>3 DEF CallInv, Entitled
  <2>. QED
    BY <1>3, <1>4, <1>6, <2>4, GoesInv, StoreUnchanged DEF AccessInv
<1>7. CASE ~MayEnter(users[u])
  <2>1. CallInv(Answered(call, "401"))
    BY <1>2, <1>5, AnsweredInv DEF Answers
  <2>. QED
    BY <1>3, <1>4, <1>7, <2>1, GoesInv, StoreUnchanged DEF AccessInv
<1>. QED
  BY <1>6, <1>7

\* A call that is judged by a list that is recent enough.
LEMMA JudgedInv ==
    ASSUME AccessInv, NEW c \in Calls, calls[c].pc \in {"get", "set"},
           NEW list \in Lists, ListSince(calls[c].by, Oldest(calls[c]), list)
    PROVE  CallInv(Judged(c, list))
<1>. DEFINE old == calls[c]
            call == [old EXCEPT !.list = list]
            passed == [call EXCEPT !.pc = IF call.service = "leave" THEN "reader" ELSE "source",
                                   !.gate = "service"]
<1>1. /\ old \in Call /\ old.answer = "none" /\ UnderWay(old)
      /\ old.gate = "service" => TargetSeen(old)
  BY DEF AccessInv, CallInv, UnderWay
<1>2. /\ call \in Call /\ call.list = list /\ call.gate = old.gate
      /\ call.service = old.service /\ call.by = old.by /\ call.pod = old.pod
      /\ call.name = old.name /\ call.began = old.began /\ call.me = old.me
      /\ call.target = old.target /\ call.them = old.them /\ call.answer = "none"
  BY <1>1 DEF Call
<1>3. ListRecent(call)
  BY <1>2 DEF ListRecent, Oldest
<1>4. ReaderSeen(call)
  BY <1>1, <1>2 DEF UnderWay, ReaderSeen
<1>5. CASE old.gate = "guard" /\ CanByName(list, "read", SubjectOf[old.service])
  <2>1. Judged(c, list) = passed
    BY <1>2, <1>5 DEF Judged
  <2>. DEFINE pc == IF call.service = "leave" THEN "reader" ELSE "source"
  <2>2. passed = [call EXCEPT !.pc = pc, !.gate = "service"] /\ pc \in {"reader", "source"}
    OBVIOUS
  <2>. HIDE DEF call, passed, pc
  <2>3. /\ passed \in Call /\ passed.pc \in {"reader", "source"}
        /\ passed.list = list /\ passed.service = old.service /\ passed.by = old.by
        /\ passed.pod = old.pod /\ passed.began = old.began /\ passed.me = old.me
        /\ passed.answer = "none"
    BY <1>2, <2>2 DEF Call
  <2>4. ListRecent(passed) /\ ReaderSeen(passed)
    BY <1>2, <1>3, <1>4, <2>3 DEF ListRecent, Oldest, ReaderSeen
  <2>5. UnderWay(passed)
    BY <1>1, <2>3, <2>4 DEF UnderWay
  <2>. QED
    BY <2>1, <2>3, <2>4, <2>5 DEF CallInv, Entitled
<1>6. CASE old.gate = "service" /\ CanOnObject(list, "read", ObjectOf(call), call.me)
  <2>1. Judged(c, list) = Answered(call, "200")
    BY <1>2, <1>6 DEF Judged
  <2>2. TargetSeen(call)
    BY <1>1, <1>2, <1>6 DEF TargetSeen
  <2>3. PICK them \in Since(call.target, call.began) :
             /\ them.row \in Row /\ ~them.row.deleted
             /\ call.service # "profile" => ~OtherTenant(call.me, them.row)
             /\ call.them \in {them.row, [f \in RawColumns |-> them.row[f]]}
    BY <2>2 DEF TargetSeen
  <2>4. PICK me \in Since(call.by, call.began) : me.row = call.me
    BY <1>1, <1>2 DEF UnderWay, ReaderSeen
  <2>5. PICK s \in Since(call.by, Oldest(call)) : s.list = list
    BY <1>2 DEF ListSince, Oldest
  <2>6. call.service \in DOMAIN SubjectOf /\ call.me \in Row
    BY <1>1, <1>2, AccessAssumption DEF UnderWay
  <2>7. Grants(list, call.service, call.me, them.row)
    BY <1>6, <2>3, <2>6, GrantedByName
  <2>8. \E t \in Since(call.by, call.began) : MayEnter(t.row)
    BY <1>1, <1>2 DEF UnderWay, ReaderSeen
  <2>. HIDE DEF call
  <2>9. Entitlement(call)
    BY <2>2, <2>3, <2>4, <2>5, <2>7, <2>8 DEF Entitlement, TargetSeen
  <2>. QED
    BY <1>2, <1>3, <2>1, <2>9, AnsweredInv DEF Answers
<1>7. CASE /\ ~(old.gate = "guard" /\ CanByName(list, "read", SubjectOf[old.service]))
           /\ ~(old.gate = "service" /\ CanOnObject(list, "read", ObjectOf(call), call.me))
  <2>1. Judged(c, list) = Answered(call, "403")
    BY <1>2, <1>7 DEF Judged
  <2>. HIDE DEF call
  <2>. QED
    BY <1>2, <1>3, <2>1, AnsweredInv DEF Answers
<1>. QED
  BY <1>5, <1>6, <1>7

LEMMA GetListInv ==
    ASSUME AccessInv, NEW c \in Calls, GetList(c)
    PROVE  AccessInv'
<1>. DEFINE old == calls[c]
            list == Cached(old.pod, old.by)
            asking == [old EXCEPT !.pc = "query"]
<1>1. /\ old \in Call /\ old.pc = "get" /\ old.answer = "none" /\ UnderWay(old)
      /\ ListRecent(old)
  BY DEF AccessInv, CallInv, GetList, At
<1>2. Goes(c, IF list = Absent THEN asking ELSE Judged(c, list))
  BY DEF GetList
<1>3. StoreInv'
  BY StoreUnchanged DEF GetList, AccessInv
<1>4. CASE list = Absent
  <2>1. /\ asking \in Call /\ asking.pc = "query" /\ asking.gate = old.gate
        /\ asking.list = old.list
        /\ asking.service = old.service /\ asking.by = old.by /\ asking.pod = old.pod
        /\ asking.name = old.name /\ asking.began = old.began /\ asking.me = old.me
        /\ asking.target = old.target /\ asking.them = old.them /\ asking.answer = "none"
    BY <1>1 DEF Call
  <2>. HIDE DEF asking
  <2>2. UnderWay(asking)
    BY <1>1, <2>1 DEF UnderWay, ReaderSeen, TargetSeen
  <2>3. CallInv(asking)
    BY <1>1, <2>1, <2>2 DEF CallInv, ListRecent, Oldest, Entitled
  <2>. QED
    BY <1>2, <1>3, <1>4, <2>3, GoesInv DEF GetList
<1>5. CASE list # Absent
  <2>1. old.pod \in Pods /\ old.by \in Callers /\ old.began \in Nat /\ old.began <= now
    BY <1>1 DEF UnderWay, Call
  <2>2. PICK entry \in {redis[old.by], memory[old.pod][old.by]} :
             Fresh(entry) /\ list = entry.list
    BY <1>5 DEF Cached
  <2>3. entry \in Entry /\ EntryRecent(old.by, entry)
    BY <2>1, <2>2 DEF AccessInv, StoreInv, EntriesRecent, Fresh
  <2>4. old.began <= entry.expires /\ now \in Nat /\ entry.expires \in Nat
    BY <2>1, <2>2, <2>3 DEF Fresh, Entry, AccessInv, StoreInv
  <2>5. Since(old.by, entry.expires - TTL - MaxCall) \subseteq Since(old.by, Oldest(old))
    BY <2>1, <2>4, SinceEarlier, AccessAssumption DEF Oldest, AccessInv, StoreInv
  <2>6. ListSince(old.by, Oldest(old), list)
    BY <2>2, <2>3, <2>5 DEF EntryRecent, ListSince, Fresh
  <2>7. list \in Lists
    BY <2>2, <2>3 DEF Entry
  <2>. HIDE DEF list
  <2>8. CallInv(Judged(c, list))
    BY <1>1, <2>6, <2>7, JudgedInv
  <2>. QED
    BY <1>2, <1>3, <1>5, <2>8, GoesInv DEF GetList
<1>. QED
  BY <1>4, <1>5

LEMMA QueryListInv ==
    ASSUME AccessInv, NEW c \in Calls, QueryList(c)
    PROVE  AccessInv'
<1>. DEFINE old == calls[c]
            next == [old EXCEPT !.pc = "set", !.list = lists[old.by]]
<1>1. /\ old \in Call /\ old.pc = "query" /\ old.answer = "none" /\ UnderWay(old)
  BY DEF AccessInv, CallInv, QueryList, At
<1>2. /\ old.by \in Callers /\ old.by \in Users /\ lists[old.by] \in Lists
      /\ old.began \in Nat /\ old.began <= now
  BY <1>1, AccessAssumption DEF UnderWay, Call, AccessInv, StoreInv
<1>3. ListSince(old.by, old.began, lists[old.by])
  BY <1>2, PresentSince DEF AccessInv, ListSince
<1>4. /\ next \in Call /\ next.pc = "set" /\ next.gate = old.gate
      /\ next.list = lists[old.by]
      /\ next.service = old.service /\ next.by = old.by /\ next.pod = old.pod
      /\ next.name = old.name /\ next.began = old.began /\ next.me = old.me
      /\ next.target = old.target /\ next.them = old.them /\ next.answer = "none"
  <2>1. PICK list \in Lists : list = lists[old.by]
    BY <1>2
  <2>2. PICK new : new = [old EXCEPT !.pc = "set", !.list = list]
    OBVIOUS
  <2>3. new = next
    BY <2>1, <2>2
  <2>. HIDE DEF next
  <2>4. /\ new \in Call /\ new.pc = "set" /\ new.gate = old.gate /\ new.list = list
        /\ new.service = old.service /\ new.by = old.by /\ new.pod = old.pod
        /\ new.name = old.name /\ new.began = old.began /\ new.me = old.me
        /\ new.target = old.target /\ new.them = old.them /\ new.answer = old.answer
    BY <1>1, <2>2 DEF Call
  <2>. QED
    BY <1>1, <2>1, <2>3, <2>4
<1>5. Goes(c, next)
  BY DEF QueryList
<1>. HIDE DEF next
<1>6. Since(old.by, old.began) \subseteq Since(old.by, Oldest(old))
  BY <1>2, SinceEarlier, AccessAssumption DEF Oldest, AccessInv, StoreInv
<1>7. ListRecent(next)
  BY <1>3, <1>4, <1>6 DEF ListRecent, ListSince, Oldest
<1>8. UnderWay(next)
  BY <1>1, <1>2, <1>3, <1>4 DEF UnderWay, ReaderSeen, TargetSeen
<1>9. CallInv(next)
  BY <1>4, <1>7, <1>8 DEF CallInv, Entitled
<1>. QED
  BY <1>5, <1>9, GoesInv, StoreUnchanged DEF QueryList, AccessInv

LEMMA SetListInv ==
    ASSUME AccessInv, NEW c \in Calls, SetList(c)
    PROVE  AccessInv'
<1>. DEFINE old == calls[c]
            entry == [list |-> old.list, expires |-> now + TTL]
<1>1. /\ old \in Call /\ old.pc = "set" /\ old.list \in Lists /\ UnderWay(old)
      /\ ListSince(old.by, old.began, old.list)
  BY DEF AccessInv, CallInv, UnderWay, SetList, At
<1>2. /\ old.by \in Callers /\ old.pod \in Pods /\ old.began \in Nat
      /\ old.began <= now /\ now <= old.began + MaxCall
      /\ now \in Nat /\ TTL \in Nat /\ MaxCall \in Nat
  BY <1>1, AccessAssumption DEF UnderWay, Call, AccessInv, StoreInv
<1>3. /\ memory' = [memory EXCEPT ![old.pod][old.by] = entry]
      /\ redis' = [redis EXCEPT ![old.by] = entry]
      /\ Goes(c, Judged(c, old.list))
      /\ UNCHANGED <<now, users, lists, past>>
  BY DEF SetList, Store
<1>4. entry \in Entry /\ entry.expires = now + TTL /\ entry.list = old.list
  BY <1>1, <1>2 DEF Entry
<1>. HIDE DEF entry
<1>5. Since(old.by, old.began) \subseteq Since(old.by, entry.expires - TTL - MaxCall)
  BY <1>2, <1>4, SinceEarlier DEF AccessInv, StoreInv
<1>6. EntryRecent(old.by, entry)
  BY <1>1, <1>4, <1>5 DEF EntryRecent, ListSince
<1>7. StoreInv'
  <2>1. /\ redis' \in [Callers -> Entry \cup {Absent}]
        /\ \A u \in Callers : redis'[u] \in {redis[u], entry}
        /\ \A u \in Callers : redis'[u] # redis[u] => u = old.by /\ redis'[u] = entry
    BY <1>2, <1>3, <1>4 DEF AccessInv, StoreInv
  <2>2. /\ memory' \in [Pods -> [Callers -> Entry \cup {Absent}]]
        /\ \A p \in Pods, u \in Callers :
              memory'[p][u] # memory[p][u] => u = old.by /\ memory'[p][u] = entry
    BY <1>2, <1>3, <1>4 DEF AccessInv, StoreInv
  <2>3. \A u \in Callers : \A e \in {redis'[u]} \cup {memory'[p][u] : p \in Pods} :
            e # Absent => e.expires <= now + TTL
    BY <1>2, <1>4, <2>1, <2>2 DEF AccessInv, StoreInv
  <2>4. EntriesRecent'
    <3>1. \A u, e : EntryRecent(u, e) <=> EntryRecent(u, e)'
      BY <1>3 DEF EntryRecent, ListSince, Since
    <3>2. \A u \in Callers : /\ EntryRecent(u, redis'[u])
                             /\ \A p \in Pods : EntryRecent(u, memory'[p][u])
      BY <1>6, <2>1, <2>2 DEF AccessInv, StoreInv, EntriesRecent
    <3>. QED
      BY <3>1, <3>2 DEF EntriesRecent
  <2>5. PastHoldsPresent'
    BY <1>3 DEF AccessInv, StoreInv, PastHoldsPresent, Snapshot
  <2>. QED
    BY <1>3, <2>1, <2>2, <2>3, <2>4, <2>5 DEF AccessInv, StoreInv
<1>8. Since(old.by, old.began) \subseteq Since(old.by, Oldest(old))
  BY <1>2, SinceEarlier DEF Oldest, AccessInv, StoreInv
<1>9. CallInv(Judged(c, old.list))
  BY <1>1, <1>8, JudgedInv DEF ListSince
<1>. QED
  BY <1>3, <1>7, <1>9, GoesInv

LEMMA ReadReaderInv ==
    ASSUME AccessInv, NEW c \in Calls, ReadReader(c)
    PROVE  AccessInv'
<1>. DEFINE old == calls[c]
            next == [old EXCEPT !.pc = "source", !.me = users[old.by]]
<1>1. /\ old \in Call /\ old.pc = "reader" /\ old.answer = "none" /\ UnderWay(old)
      /\ ListRecent(old)
  BY DEF AccessInv, CallInv, ReadReader, At
<1>2. /\ old.by \in Callers /\ old.by \in Users /\ users[old.by] \in Row
      /\ old.began \in Nat /\ old.began <= now
  BY <1>1, AccessAssumption DEF UnderWay, Call, AccessInv, StoreInv
<1>3. /\ next \in Call /\ next.pc = "source" /\ next.me = users[old.by]
      /\ next.list = old.list /\ next.service = old.service /\ next.by = old.by
      /\ next.pod = old.pod /\ next.began = old.began /\ next.answer = "none"
  <2>1. PICK row \in Row : row = users[old.by]
    BY <1>2
  <2>2. PICK new : new = [old EXCEPT !.pc = "source", !.me = row]
    OBVIOUS
  <2>3. new = next
    BY <2>1, <2>2
  <2>. HIDE DEF next
  <2>4. /\ new \in Call /\ new.pc = "source" /\ new.me = row
        /\ new.list = old.list /\ new.service = old.service /\ new.by = old.by
        /\ new.pod = old.pod /\ new.began = old.began /\ new.answer = old.answer
    BY <1>1, <2>2 DEF Call
  <2>. QED
    BY <1>1, <2>1, <2>3, <2>4
<1>4. Goes(c, next)
  BY DEF ReadReader
<1>. HIDE DEF next
<1>5. \E s \in Since(old.by, old.began) : s.row = users[old.by]
  BY <1>2, PresentSince DEF AccessInv
<1>6. ReaderSeen(next)
  BY <1>1, <1>3, <1>5 DEF UnderWay, ReaderSeen
<1>7. UnderWay(next)
  BY <1>1, <1>2, <1>3, <1>6 DEF UnderWay
<1>8. CallInv(next)
  BY <1>1, <1>3, <1>7 DEF CallInv, ListRecent, Oldest, Entitled
<1>. QED
  BY <1>4, <1>8, GoesInv, StoreUnchanged DEF ReadReader, AccessInv

LEMMA FailInv ==
    ASSUME AccessInv, NEW c \in Calls, Fail(c)
    PROVE  AccessInv'
<1>1. CallInv(Answered(calls[c], "500"))
  BY AnsweredInv DEF AccessInv, CallInv, Answers
<1>. QED
  BY <1>1, GoesInv, StoreUnchanged DEF Fail, AccessInv

\* A call that has found somebody.
LEMMA FoundIsCall ==
    ASSUME NEW call \in Call, NEW u \in Users, NEW row \in Row \cup RawRow
    PROVE  LET found == Found(call, u, row) IN
           /\ found \in Call /\ found.target = u /\ found.them = row
           /\ found.list = call.list /\ found.service = call.service /\ found.by = call.by
           /\ found.pod = call.pod /\ found.began = call.began /\ found.me = call.me
           /\ found.name = call.name /\ found.answer = call.answer
<1>1. PICK found : found = [call EXCEPT !.target = u, !.them = row]
  OBVIOUS
<1>2. /\ found \in Call /\ found.target = u /\ found.them = row
      /\ found.list = call.list /\ found.service = call.service /\ found.by = call.by
      /\ found.pod = call.pod /\ found.began = call.began /\ found.me = call.me
      /\ found.name = call.name /\ found.answer = call.answer
  BY <1>1 DEF Call
<1>. QED
  BY <1>1, <1>2 DEF Found

\* A row has the columns of a row.
LEMMA WholeRow ==
    ASSUME NEW row \in Row
    PROVE  [f \in Columns |-> row[f]] = row
BY DEF Row, Columns, RawColumns

\* What becomes of a call that has found somebody of the name it asks for.
LEMMA ResolvedInv ==
    ASSUME AccessInv, NEW c \in Calls, calls[c].pc \in {"source", "number", "id"},
           NEW u \in Users, ~users[u].deleted,
           calls[c].name \in {SourceOf[u], EmployeeOf[u], u},
           NEW row, row \in {users[u], [f \in RawColumns |-> users[u][f]]}
    PROVE  CallInv(Resolved(calls[c], u, row))
<1>. DEFINE old == calls[c]
            found == Found(old, u, row)
            asking == [found EXCEPT !.pc = "get"]
<1>1. /\ old \in Call /\ old.answer = "none" /\ UnderWay(old) /\ ListRecent(old)
  BY DEF AccessInv, CallInv
<1>2. /\ old.began \in Nat /\ old.began <= now
      /\ \E s \in Since(old.by, old.began) : MayEnter(s.row)
  BY <1>1 DEF UnderWay, ReaderSeen, Call
<1>3. users[u] \in Row /\ row \in Row \cup RawRow /\ row.company = users[u].company
  <2>1. PICK whole \in Row : whole = users[u]
    BY DEF AccessInv, StoreInv
  <2>2. [f \in RawColumns |-> whole[f]] \in RawRow
    BY <2>1 DEF Row, RawRow, RawColumns
  <2>3. [f \in RawColumns |-> whole[f]].company = whole.company
    BY DEF RawColumns
  <2>. QED
    BY <2>1, <2>2, <2>3
<1>4. /\ found \in Call /\ found.target = u /\ found.them = row
      /\ found.list = old.list /\ found.service = old.service /\ found.by = old.by
      /\ found.pod = old.pod /\ found.began = old.began /\ found.me = old.me
      /\ found.name = old.name /\ found.answer = "none"
  BY <1>1, <1>3, FoundIsCall
<1>5. ListRecent(found)
  BY <1>1, <1>4 DEF ListRecent, Oldest
<1>6. CASE old.service # "profile" /\ OtherTenant(old.me, row)
  <2>1. Resolved(old, u, row) = Answered(found, "403")
    BY <1>6 DEF Resolved
  <2>. HIDE DEF found
  <2>. QED
    BY <1>4, <1>5, <2>1, AnsweredInv DEF Answers
<1>7. CASE ~(old.service # "profile" /\ OtherTenant(old.me, row)) /\ u = old.by
  <2>1. Resolved(old, u, row) = Answered(found, "200")
    BY <1>7 DEF Resolved
  <2>. HIDE DEF found
  <2>2. Entitlement(found)
    BY <1>2, <1>4, <1>7 DEF Entitlement
  <2>. QED
    BY <1>4, <1>5, <2>1, <2>2, AnsweredInv DEF Answers
<1>8. CASE ~(old.service # "profile" /\ OtherTenant(old.me, row)) /\ u # old.by
  <2>1. Resolved(old, u, row) = asking
    BY <1>8 DEF Resolved
  <2>. HIDE DEF found
  <2>2. /\ asking \in Call /\ asking.pc = "get" /\ asking.target = u
        /\ asking.them = row
        /\ asking.list = old.list /\ asking.service = old.service /\ asking.by = old.by
        /\ asking.pod = old.pod /\ asking.began = old.began /\ asking.me = old.me
        /\ asking.name = old.name /\ asking.answer = "none"
    BY <1>4 DEF Call
  <2>. HIDE DEF asking
  <2>3. PICK s \in Since(u, old.began) : s.row = users[u]
    BY <1>2, PresentSince DEF AccessInv
  <2>4. TargetSeen(asking)
    <3>1. old.service # "profile" => ~OtherTenant(old.me, s.row)
      BY <1>3, <1>8, <2>3 DEF OtherTenant
    <3>2. row \in {s.row, [f \in RawColumns |-> s.row[f]]}
      BY <2>3
    <3>3. s \in Since(asking.target, asking.began) /\ s.row \in Row /\ ~s.row.deleted
      BY <1>3, <2>2, <2>3
    <3>4. /\ asking.target \in Users
          /\ asking.name \in {SourceOf[asking.target], EmployeeOf[asking.target],
                              asking.target}
      BY <2>2
    <3>. QED
      BY <2>2, <3>1, <3>2, <3>3, <3>4 DEF TargetSeen
  <2>5. UnderWay(asking)
    BY <1>1, <2>2, <2>4 DEF UnderWay, ReaderSeen
  <2>6. CallInv(asking)
    BY <1>1, <2>2, <2>5 DEF CallInv, ListRecent, Oldest, Entitled
  <2>. QED
    BY <2>1, <2>6
<1>. QED
  BY <1>6, <1>7, <1>8

LEMMA ResolveSelfInv ==
    ASSUME AccessInv, NEW c \in Calls, ResolveSelf(c)
    PROVE  AccessInv'
<1>. DEFINE old == calls[c]
            found == Found(old, old.by, old.me)
<1>1. /\ old \in Call /\ old.answer = "none" /\ UnderWay(old) /\ ListRecent(old)
  BY DEF AccessInv, CallInv, ResolveSelf, At
<1>2. old.by \in Users /\ old.me \in Row
  BY <1>1, AccessAssumption DEF UnderWay
<1>3. /\ found \in Call /\ found.target = old.by /\ found.list = old.list
      /\ found.by = old.by /\ found.began = old.began
  BY <1>1, <1>2, FoundIsCall
<1>4. Goes(c, Answered(found, "200"))
  BY DEF ResolveSelf
<1>. HIDE DEF found
<1>5. Entitlement(found)
  BY <1>1, <1>3 DEF Entitlement, UnderWay, ReaderSeen
<1>6. ListRecent(found)
  BY <1>1, <1>3 DEF ListRecent, Oldest
<1>7. CallInv(Answered(found, "200"))
  BY <1>3, <1>5, <1>6, AnsweredInv DEF Answers
<1>. QED
  BY <1>4, <1>7, GoesInv, StoreUnchanged DEF ResolveSelf, AccessInv

\* A pass that goes on with another one, or with a 404, when it finds nobody.
LEMMA PassInv ==
    ASSUME AccessInv, NEW c \in Calls, NEW pc \in {"source", "number", "id"},
           NEW matching \in SUBSET Users, NEW columns \in {RawColumns, Columns},
           \A u \in matching : calls[c].name \in {SourceOf[u], EmployeeOf[u], u},
           NEW otherwise, CallInv(otherwise),
           Pass(c, pc, matching, columns, otherwise)
    PROVE  AccessInv'
<1>1. /\ calls[c].pc = pc /\ UNCHANGED <<now, users, lists, redis, memory, past>>
      /\ StoreInv'
  BY StoreUnchanged DEF Pass, At, AccessInv
<1>2. ASSUME NEW u \in matching \cap Undeleted,
             Goes(c, Resolved(calls[c], u, [f \in columns |-> users[u][f]]))
      PROVE  AccessInv'
  <2>1. u \in Users /\ ~users[u].deleted /\ users[u] \in Row
    BY <1>2 DEF Undeleted, AccessInv, StoreInv
  <2>2. PICK row : row = [f \in columns |-> users[u][f]]
    OBVIOUS
  <2>3. row \in {users[u], [f \in RawColumns |-> users[u][f]]}
    BY <2>1, <2>2, WholeRow
  <2>4. calls[c].name \in {SourceOf[u], EmployeeOf[u], u}
    BY <1>2
  <2>5. CallInv(Resolved(calls[c], u, row))
    BY <1>1, <2>1, <2>3, <2>4, ResolvedInv
  <2>6. Goes(c, Resolved(calls[c], u, row))
    BY <1>2, <2>2
  <2>. QED
    BY <1>1, <2>5, <2>6, GoesInv
<1>3. CASE Goes(c, otherwise)
  BY <1>1, <1>3, GoesInv
<1>. QED
  BY <1>2, <1>3 DEF Pass

\* A call that takes the next pass.
LEMMA NextPassInv ==
    ASSUME NEW call, CallInv(call), call.pc \in {"source", "number"}, NEW pc \in {"number", "id"}
    PROVE  CallInv([call EXCEPT !.pc = pc])
<1>1. /\ call \in Call /\ call.answer = "none" /\ UnderWay(call) /\ ListRecent(call)
  BY DEF CallInv
<1>2. PICK next : next = [call EXCEPT !.pc = pc]
  OBVIOUS
<1>3. /\ next \in Call /\ next.pc = pc /\ next.list = call.list /\ next.service = call.service
      /\ next.by = call.by /\ next.pod = call.pod /\ next.began = call.began
      /\ next.me = call.me /\ next.answer = "none"
  BY <1>1, <1>2 DEF Call
<1>4. UnderWay(next)
  BY <1>1, <1>3 DEF UnderWay, ReaderSeen
<1>5. CallInv(next)
  BY <1>1, <1>3, <1>4 DEF CallInv, ListRecent, Oldest, Entitled
<1>. QED
  BY <1>2, <1>5

LEMMA FindInv ==
    ASSUME AccessInv, NEW c \in Calls, FindBySource(c) \/ FindByNumber(c) \/ FindById(c)
    PROVE  AccessInv'
<1>1. CallInv(calls[c])
  BY DEF AccessInv
<1>2. CASE FindBySource(c)
  <2>1. CallInv([calls[c] EXCEPT !.pc = "number"])
    BY <1>1, <1>2, NextPassInv DEF FindBySource, Pass, At
  <2>. QED
    BY <1>2, <2>1, PassInv DEF FindBySource
<1>3. CASE FindByNumber(c)
  <2>1. CallInv([calls[c] EXCEPT !.pc = "id"])
    BY <1>1, <1>3, NextPassInv DEF FindByNumber, Pass, At
  <2>. QED
    BY <1>3, <2>1, PassInv DEF FindByNumber
<1>4. CASE FindById(c)
  <2>1. CallInv(Answered(calls[c], "404"))
    BY <1>1, AnsweredInv DEF CallInv, Answers
  <2>. QED
    BY <1>4, <2>1, PassInv DEF FindById
<1>. QED
  BY <1>2, <1>3, <1>4

-----------------------------------------------------------------------------
(* What happens meanwhile.                                                 *)

LEMMA EvictInv ==
    ASSUME AccessInv, Evict
    PROVE  AccessInv'
<1>1. UNCHANGED <<now, users, lists, calls, past>>
  BY DEF Evict
<1>2. /\ redis' \in [Callers -> Entry \cup {Absent}]
      /\ \A u \in Callers : redis'[u] \in {redis[u], Absent}
  BY DEF Evict, AccessInv, StoreInv
<1>3. /\ memory' \in [Pods -> [Callers -> Entry \cup {Absent}]]
      /\ \A p \in Pods, u \in Callers : memory'[p][u] \in {memory[p][u], Absent}
  <2>1. memory \in [Pods -> [Callers -> Entry \cup {Absent}]]
    BY DEF AccessInv, StoreInv
  <2>2. CASE UNCHANGED memory
    BY <2>1, <2>2
  <2>3. ASSUME NEW pod \in Pods, NEW u \in Callers,
               memory' = [memory EXCEPT ![pod][u] = Absent]
        PROVE  /\ memory' \in [Pods -> [Callers -> Entry \cup {Absent}]]
               /\ \A p \in Pods, v \in Callers : memory'[p][v] \in {memory[p][v], Absent}
    BY <2>1, <2>3
  <2>. QED
    BY <2>2, <2>3 DEF Evict
<1>4. \A u, e : EntryRecent(u, e) => EntryRecent(u, e)'
  BY <1>1 DEF EntryRecent, ListSince, Since
<1>5. EntriesRecent'
  <2>1. \A u \in Callers : EntryRecent(u, Absent)
    BY DEF EntryRecent
  <2>2. \A u \in Callers : /\ EntryRecent(u, redis'[u])
                           /\ \A p \in Pods : EntryRecent(u, memory'[p][u])
    BY <1>2, <1>3, <2>1 DEF AccessInv, StoreInv, EntriesRecent
  <2>. QED
    BY <1>4, <2>2 DEF EntriesRecent
<1>6. \A u \in Callers : \A e \in {redis'[u]} \cup {memory'[p][u] : p \in Pods} :
          e # Absent => e.expires <= now + TTL
  BY <1>2, <1>3 DEF AccessInv, StoreInv
<1>7. PastHoldsPresent'
  BY <1>1 DEF AccessInv, StoreInv, PastHoldsPresent, Snapshot
<1>8. StoreInv'
  BY <1>1, <1>2, <1>3, <1>5, <1>6, <1>7 DEF AccessInv, StoreInv
<1>9. ASSUME NEW c \in Calls
      PROVE  CallInv(calls[c])'
  <2>1. CallInv(calls[c])
    BY DEF AccessInv
  <2>. QED
    BY <1>1, <2>1 DEF CallInv, ListRecent, Entitled, Entitlement, UnderWay, ReaderSeen,
       TargetSeen, ListSince, Since
<1>. QED
  BY <1>1, <1>8, <1>9 DEF AccessInv

\* Steps that leave calls and entries alone, and remember what they change.
LEMMA RemembersInv ==
    ASSUME AccessInv, UNCHANGED <<redis, memory, calls>>,
           now' \in 0..MaxTick, now <= now',
           users' \in [Users -> Row], lists' \in [Callers -> Lists],
           past' = past \cup Snapshot(now, users, lists)',
           \A c \in Calls : calls[c].pc \notin {"idle", "done"} =>
               now' <= calls[c].began + MaxCall
    PROVE  AccessInv'
<1>1. past \subseteq past' /\ now \in Nat /\ TTL \in Nat
  BY AccessAssumption DEF AccessInv, StoreInv
<1>2. PastHoldsPresent'
  BY DEF PastHoldsPresent, Snapshot, AccessInv, StoreInv
<1>3. EntriesRecent'
  <2>1. \A u, e : EntryRecent(u, e) => EntryRecent(u, e)'
    BY <1>1, ListSinceGrows DEF EntryRecent
  <2>. QED
    BY <2>1 DEF EntriesRecent, AccessInv, StoreInv
<1>4. \A u \in Callers : \A e \in {redis[u]} \cup {memory[p][u] : p \in Pods} :
          e # Absent => e.expires <= now' + TTL
  <2>. SUFFICES ASSUME NEW u \in Callers,
                       NEW e \in {redis[u]} \cup {memory[p][u] : p \in Pods}, e # Absent
       PROVE  e.expires <= now' + TTL
    OBVIOUS
  <2>1. e \in Entry /\ e.expires <= now + TTL
    BY DEF AccessInv, StoreInv
  <2>. QED
    BY <1>1, <2>1 DEF Entry
<1>5. StoreInv'
  BY <1>2, <1>3, <1>4 DEF AccessInv, StoreInv
<1>6. ASSUME NEW c \in Calls
      PROVE  CallInv(calls[c])'
  <2>. DEFINE call == calls[c]
  <2>1. CallInv(call)
    BY DEF AccessInv
  <2>2. call.pc \notin {"idle", "done"} => call.began <= now' /\ now' <= call.began + MaxCall
    <3>1. ASSUME call.pc \notin {"idle", "done"}
          PROVE  call.began <= now'
      <4>1. call.began \in Nat /\ call.began <= now
        BY <2>1, <3>1 DEF CallInv, UnderWay, Call
      <4>. QED
        BY <1>1, <4>1
    <3>. QED
      BY <3>1
  <2>3. ASSUME NEW old, CallInv(old),
               old.pc \notin {"idle", "done"} => old.began <= now' /\ now' <= old.began + MaxCall
        PROVE  CallInv(old)'
    BY <1>1, <2>3, CallInvGrows
  <2>. QED
    BY <2>1, <2>2, <2>3
<1>. QED
  BY <1>5, <1>6 DEF AccessInv

LEMMA SetRolesInv ==
    ASSUME AccessInv, NEW u \in Callers, NEW list \in Lists, SetRoles(u, list)
    PROVE  AccessInv'
<1>1. \A c \in Calls : calls[c].pc \notin {"idle", "done"} => now <= calls[c].began + MaxCall
  BY DEF AccessInv, CallInv, UnderWay
<1>. QED
  BY <1>1, RemembersInv DEF SetRoles, AccessInv, StoreInv, Snapshot

LEMMA SetUserInv ==
    ASSUME AccessInv, NEW u \in Users, NEW row \in Profiles, SetUser(u, row)
    PROVE  AccessInv'
<1>1. \A c \in Calls : calls[c].pc \notin {"idle", "done"} => now <= calls[c].began + MaxCall
  BY DEF AccessInv, CallInv, UnderWay
<1>2. users' \in [Users -> Row]
  BY AccessAssumption DEF SetUser, AccessInv, StoreInv
<1>. QED
  BY <1>1, <1>2, RemembersInv DEF SetUser, AccessInv, StoreInv, Snapshot

LEMMA TickInv ==
    ASSUME AccessInv, Tick
    PROVE  AccessInv'
<1>1. now \in Nat /\ MaxCall \in Nat /\ MaxTick \in Nat
  BY AccessAssumption DEF AccessInv, StoreInv
<1>2. \A c \in Calls : calls[c].pc \notin {"idle", "done"} => now' <= calls[c].began + MaxCall
  BY <1>1 DEF Tick, AccessInv, Call
<1>3. now' \in 0..MaxTick /\ now <= now'
  BY <1>1 DEF Tick, AccessInv, StoreInv
<1>4. past' = past \cup Snapshot(now, users, lists)'
  BY DEF Tick, Snapshot
<1>. QED
  BY <1>2, <1>3, <1>4, RemembersInv DEF Tick, AccessInv, StoreInv

LEMMA InitInv == Init => AccessInv
<1>. SUFFICES ASSUME Init PROVE AccessInv
  OBVIOUS
<1>1. /\ now \in 0..MaxTick /\ users \in [Users -> Row] /\ lists \in [Callers -> Lists]
      /\ redis \in [Callers -> Entry \cup {Absent}]
      /\ memory \in [Pods -> [Callers -> Entry \cup {Absent}]]
  BY AccessAssumption DEF Init
<1>2. \A u \in Callers : redis[u] = Absent /\ \A p \in Pods : memory[p][u] = Absent
  BY DEF Init
<1>3. PastHoldsPresent
  BY DEF Init, PastHoldsPresent, Snapshot
<1>4. EntriesRecent
  BY <1>2 DEF EntriesRecent, EntryRecent
<1>5. StoreInv
  BY <1>1, <1>2, <1>3, <1>4 DEF StoreInv
<1>6. \A c \in Calls : calls[c] \in Call /\ CallInv(calls[c])
  BY DEF Init, CallInv, Call, ListRecent, Entitled
<1>7. calls \in [Calls -> Call]
  BY <1>6 DEF Init
<1>. QED
  BY <1>5, <1>6, <1>7 DEF AccessInv

LEMMA NextInv == AccessInv /\ [Next]_vars => AccessInv'
<1>. SUFFICES ASSUME AccessInv, [Next]_vars PROVE AccessInv'
  OBVIOUS
<1>1. ASSUME NEW c \in Calls, NEW service \in Services, NEW pod \in Pods, NEW u \in Callers,
             NEW name \in Names, Begin(c, service, pod, u, name)
      PROVE  AccessInv'
  BY <1>1, BeginInv
<1>2. ASSUME NEW c \in Calls,
             \/ GetList(c) \/ QueryList(c) \/ SetList(c)
             \/ ReadReader(c) \/ ResolveSelf(c)
             \/ FindBySource(c) \/ FindByNumber(c) \/ FindById(c) \/ Fail(c)
      PROVE  AccessInv'
  BY <1>2, GetListInv, QueryListInv, SetListInv, ReadReaderInv, ResolveSelfInv,
     FindInv, FailInv
<1>3. CASE Evict
  BY <1>3, EvictInv
<1>4. ASSUME NEW u \in Callers, NEW list \in Lists, SetRoles(u, list)
      PROVE  AccessInv'
  BY <1>4, SetRolesInv
<1>5. ASSUME NEW u \in Users, NEW row \in Profiles, SetUser(u, row)
      PROVE  AccessInv'
  BY <1>5, SetUserInv
<1>6. CASE Tick
  BY <1>6, TickInv
<1>7. CASE UNCHANGED vars
  <2>1. StoreInv'
    BY <1>7, StoreUnchanged DEF vars, AccessInv
  <2>2. ASSUME NEW c \in Calls
        PROVE  CallInv(calls[c])'
    <3>1. CallInv(calls[c])
      BY DEF AccessInv
    <3>. QED
      BY <1>7, <3>1 DEF vars, CallInv, ListRecent, Entitled, Entitlement, UnderWay,
         ReaderSeen, TargetSeen, ListSince, Since
  <2>. QED
    BY <1>7, <2>1, <2>2 DEF vars, AccessInv
<1>. QED
  BY <1>1, <1>2, <1>3, <1>4, <1>5, <1>6, <1>7 DEF Next

-----------------------------------------------------------------------------

\* Every reachable state satisfies the inductive invariant.
THEOREM AccessInvariant == Spec => []AccessInv
<1>. QED
  BY InitInv, NextInv, PTL DEF Spec

\* Type correctness, and no entry of either cache outlives its time to live,
\* whatever races to store it.
THEOREM TypeCorrect == Spec => []TypeOK
<1>1. AccessInv => TypeOK
  BY DEF AccessInv, StoreInv, TypeOK
<1>. QED
  BY <1>1, AccessInvariant, PTL

\* Staleness is bounded: for any number of processes and calls, and whatever
\* entries are lost, nobody is judged by a list older than the time to live of
\* an entry and the time that the call took which stored it, and nobody by the
\* list of another user.
THEOREM AlwaysJudgedByRecentList == Spec => []JudgedByRecentList
<1>1. AccessInv => JudgedByRecentList
  BY DEF AccessInv, CallInv, ListRecent, ListSince, JudgedByRecentList
<1>. QED
  BY <1>1, AccessInvariant, PTL

\* A read of somebody else's data is answered only if, while it was under way,
\* the reader was an active user and the target not deleted, the two not of two
\* known companies, and the reader had recently a list that grants it for those
\* two rows.
THEOREM AnsweredAlwaysWasEntitled == Spec => []AnsweredWasEntitled
<1>1. AccessInv => AnsweredWasEntitled
  BY DEF AccessInv, CallInv, Entitled, Entitlement, AnsweredWasEntitled
<1>. QED
  BY <1>1, AccessInvariant, PTL
=============================================================================
