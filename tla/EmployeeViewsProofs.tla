------------------------- MODULE EmployeeViewsProofs -------------------------
(***************************************************************************)
(* What the views answer while the tables are written, for any tables,     *)
(* requests, users, windows and replies, and any number of writes.         *)
(*                                                                         *)
(* A view reads its tables at several moments.  The invariant says of each *)
(* query that is over that it found what the tables held at one moment of  *)
(* those the view was under way, and of which queries those are.           *)
(***************************************************************************)
EXTENDS EmployeeViews, DataTheorems, SequenceTheorems, FunctionTheorems

-----------------------------------------------------------------------------
(* The inductive invariants.                                               *)

\* The fields that a view has before its first query.
Base == {"kind", "target", "unit", "from", "to", "skip", "take", "todo", "code"}

TypeInv ==
    /\ TypeOK
    /\ Base \subseteq DOMAIN view
    /\ view.kind = "none" => view.todo = << >>
    /\ db \in during

\* What a query has found is what the tables held at one moment, of those it
\* asks for.
PeersFound ==
    "peers" \in DOMAIN view /\ \E d \in during : view.peers = Peers(d, view.unit)

LeavesFound ==
    /\ "leaves" \in DOMAIN view
    /\ \E d \in during : view.leaves = Overlapping(d, view.peers, view.from, view.to)

HolidaysFound ==
    /\ "holidays" \in DOMAIN view
    /\ \E d \in during :
          view.holidays = {day \in d.holidays : view.peers # {} /\ day \in view.from..view.to}

ComingFound ==
    "coming" \in DOMAIN view /\ \E d \in during : view.coming = Coming(d, view.target)

\* How far the calendar of a team is.
TeamInv ==
    view.kind = "team" =>
        /\ view.from \in Int /\ view.to \in Int
        /\ \/ view.code = 400 /\ view.todo = << >>
           \/ view.todo = <<{"peers"}, {"leaves", "holidays"}>>
           \/ PeersFound /\ view.todo = <<{"leaves", "holidays"}>>
           \/ PeersFound /\ LeavesFound /\ view.todo = <<{"holidays"}>>
           \/ PeersFound /\ HolidaysFound /\ view.todo = <<{"leaves"}>>
           \/ PeersFound /\ LeavesFound /\ HolidaysFound /\ view.todo = << >>

\* How far the timeline of a person is.
TimelineInv ==
    view.kind = "upcoming" =>
        \/ view.code = 400 /\ view.todo = << >>
        \/ view.todo = <<{"holidays", "coming"}>>
        \/ view.todo = <<{"coming"}>>
        \/ ComingFound /\ view.todo \in {<<{"holidays"}>>, << >>}

MembersOf(d, of) == {u \in Users : Live(d.users, u) /\ d.users[u].unit = of}

RawOf(d, members) ==
    {r \in Of(d, members, Statuses \ {"NONE"}) : r.created >= Today - WindowDays}

MembersFound == "members" \in DOMAIN view /\ \E d \in during : view.members = MembersOf(d, view.unit)

\* The requests found are those of members found before, if any were.
RawFound ==
    /\ "raw" \in DOMAIN view
    /\ \E before, after \in during : view.raw = RawOf(after, MembersOf(before, view.unit))

\* How far the analysis is: it ends early with the empty report, or with shares
\* made of a reply.
AnalysisInv ==
    view.kind = "analysis" =>
        \/ view.code \notin {0, 200} /\ view.todo = << >>
        \/ view.todo = <<{"division"}, {"members"}, {"raw"}, {"reply"}>> /\ "reply" \notin DOMAIN view
        \/ view.todo = <<{"members"}, {"raw"}, {"reply"}>> /\ "reply" \notin DOMAIN view
        \/ MembersFound /\ view.todo = <<{"raw"}, {"reply"}>> /\ "reply" \notin DOMAIN view
        \/ RawFound /\ view.raw # {} /\ view.todo = <<{"reply"}>>
        \/ /\ RawFound /\ view.raw # {} /\ view.todo = << >>
           /\ {"reply", "shares"} \subseteq DOMAIN view
           /\ view.reply \in Replies /\ view.shares \in Normalised(view.reply)
        \/ /\ RawFound /\ view.raw = {} /\ view.todo = << >>
           /\ "reply" \notin DOMAIN view /\ "shares" \in DOMAIN view
           /\ view.shares = EmptyShares

ServedInv == TypeInv /\ TeamInv /\ TimelineInv /\ AnalysisInv

-----------------------------------------------------------------------------
(* A query and its view.                                                   *)

\* Which stages are left after a query.
StagesAfter(todo, query) ==
    LET left == Head(todo) \ {query}
    IN IF left = {} THEN Tail(todo) ELSE <<left>> \o Tail(todo)

LEMMA KeepName ==
    ASSUME NEW name, NEW value, NEW v
    PROVE  /\ DOMAIN Keep(name, value, v) = {name} \cup DOMAIN v
           /\ Keep(name, value, v)[name] = value
  BY DEF Keep

LEMMA KeepOthers ==
    ASSUME NEW name, NEW value, NEW v, NEW f \in DOMAIN v, f # name
    PROVE  Keep(name, value, v)[f] = v[f]
  BY DEF Keep

\* w has the fields of v, but for those named.
SameBut(v, w, changed) == \A f \in DOMAIN v \ changed : w[f] = v[f]

LEMMA FoundFields ==
    ASSUME NEW query, NEW value, query \notin Base, Base \subseteq DOMAIN view
    PROVE  /\ DOMAIN Found(query, value) = {query} \cup DOMAIN view
           /\ Found(query, value)[query] = value
           /\ Found(query, value).todo = StagesAfter(view.todo, query)
           /\ Found(query, value).code =
                 IF StagesAfter(view.todo, query) = << >> THEN 200 ELSE 0
           /\ SameBut(view, Found(query, value), {query, "todo", "code"})
<1>1. PICK todo : todo = StagesAfter(view.todo, query)
  OBVIOUS
<1>2. PICK code : code = IF todo = << >> THEN 200 ELSE 0
  OBVIOUS
<1>3. PICK answer : answer = [view EXCEPT !.todo = todo, !.code = code]
  OBVIOUS
<1>4. Found(query, value) = Keep(query, value, answer)
  BY <1>1, <1>2, <1>3, Zenon DEF Found, StagesAfter
<1>5. /\ DOMAIN answer = DOMAIN view
      /\ answer.todo = todo /\ answer.code = code
  BY <1>3 DEF Base
<1>6. ASSUME NEW f \in DOMAIN view \ {query, "todo", "code"}
      PROVE  Found(query, value)[f] = view[f]
  <2>1. f \in DOMAIN answer /\ answer[f] = view[f]
    BY <1>3
  <2>. QED
    BY <1>4, <2>1, KeepOthers
<1>7. DOMAIN Found(query, value) = {query} \cup DOMAIN view /\ Found(query, value)[query] = value
  <2>1. DOMAIN Keep(query, value, answer) = {query} \cup DOMAIN answer
    BY KeepName
  <2>2. Keep(query, value, answer)[query] = value
    BY KeepName
  <2>. QED
    BY <1>4, <1>5, <2>1, <2>2, Zenon
<1>8. Found(query, value).todo = todo /\ Found(query, value).code = code
  BY <1>4, <1>5, KeepOthers DEF Base
<1>. QED
  BY <1>1, <1>2, <1>6, <1>7, <1>8, Zenon DEF SameBut

\* A query keeps what the view has found and was asked.
LEMMA LearnFields ==
    ASSUME NEW query, NEW value, query \notin Base, TypeInv, Learn(query, value)
    PROVE  /\ UNCHANGED <<db, changes, during>>
           /\ view.code = 0 /\ view.todo # << >> /\ query \in Head(view.todo)
           /\ DOMAIN view' = {query} \cup DOMAIN view
           /\ view'[query] = value
           /\ view'.todo = StagesAfter(view.todo, query)
           /\ view'.code = IF StagesAfter(view.todo, query) = << >> THEN 200 ELSE 0
           /\ SameBut(view, view', {query, "todo", "code"})
<1>1. /\ UNCHANGED <<db, changes, during>>
      /\ view.code = 0 /\ view.todo # << >> /\ query \in Head(view.todo)
      /\ view' = Found(query, value)
  BY DEF Learn, Issued
<1>2. Base \subseteq DOMAIN view
  BY DEF TypeInv
<1>3. SameBut(view, Found(query, value), {query, "todo", "code"})
  BY <1>2, FoundFields
<1>4. /\ DOMAIN view' = {query} \cup DOMAIN view
      /\ view'[query] = value
      /\ view'.todo = StagesAfter(view.todo, query)
      /\ view'.code = IF StagesAfter(view.todo, query) = << >> THEN 200 ELSE 0
  BY <1>1, <1>2, FoundFields
<1>. QED
  BY <1>1, <1>3, <1>4, Zenon

\* A refused view asks for nothing more.
LEMMA RefusedFields ==
    ASSUME TypeInv, NEW code, Refuse(code)
    PROVE  /\ UNCHANGED <<db, changes, during>>
           /\ DOMAIN view' = DOMAIN view
           /\ view'.code = code /\ view'.todo = << >>
           /\ view'.kind = view.kind /\ view'.target = view.target
           /\ SameBut(view, view', {"todo", "code"})
  BY DEF TypeInv, Base, SameBut, Refuse

\* The stages that are left, of the views that the invariant is about.
LEMMA StageIsOver ==
    ASSUME NEW q
    PROVE  /\ StagesAfter(<<{q}>>, q) = << >>
           /\ \A rest : StagesAfter(<<{q}, rest>>, q) = <<rest>>
           /\ \A rest, last : StagesAfter(<<{q}, rest, last>>, q) = <<rest, last>>
<1>1. {q} \ {q} = {}
  OBVIOUS
<1>2. Head(<<{q}>>) = {q} /\ Tail(<<{q}>>) = << >>
  OBVIOUS
<1>3. \A rest : Head(<<{q}, rest>>) = {q} /\ Tail(<<{q}, rest>>) = <<rest>>
  OBVIOUS
<1>4. \A rest, last : /\ Head(<<{q}, rest, last>>) = {q}
                      /\ Tail(<<{q}, rest, last>>) = <<rest, last>>
  OBVIOUS
<1>. QED
  BY <1>1, <1>2, <1>3, <1>4, Zenon DEF StagesAfter

LEMMA FirstStageIsOver ==
    ASSUME NEW q, NEW second, NEW third, NEW fourth
    PROVE  StagesAfter(<<{q}, second, third, fourth>>, q) = <<second, third, fourth>>
<1>1. {q} \ {q} = {}
  OBVIOUS
<1>2. PICK todo : todo = <<{q}, second, third, fourth>>
  OBVIOUS
<1>3. Head(todo) = {q} /\ Tail(todo) = <<second, third, fourth>>
  BY <1>2
<1>. QED
  BY <1>1, <1>2, <1>3, Zenon DEF StagesAfter

LEMMA StageGoesOn ==
    ASSUME NEW p, NEW q, p # q
    PROVE  StagesAfter(<<{p, q}>>, p) = <<{q}>> /\ StagesAfter(<<{q, p}>>, p) = <<{q}>>
<1>1. {p, q} \ {p} = {q} /\ {q, p} \ {p} = {q} /\ {q} # {}
  OBVIOUS
<1>2. /\ Head(<<{p, q}>>) = {p, q} /\ Tail(<<{p, q}>>) = << >>
      /\ Head(<<{q, p}>>) = {q, p} /\ Tail(<<{q, p}>>) = << >>
  OBVIOUS
<1>3. <<{q}>> \o << >> = <<{q}>>
  OBVIOUS
<1>. QED
  BY <1>1, <1>2, <1>3, Zenon DEF StagesAfter

LEMMA StagesLeft ==
    /\ StagesAfter(<<{"peers"}, {"leaves", "holidays"}>>, "peers") = <<{"leaves", "holidays"}>>
    /\ StagesAfter(<<{"leaves", "holidays"}>>, "leaves") = <<{"holidays"}>>
    /\ StagesAfter(<<{"leaves", "holidays"}>>, "holidays") = <<{"leaves"}>>
    /\ StagesAfter(<<{"holidays", "coming"}>>, "holidays") = <<{"coming"}>>
    /\ StagesAfter(<<{"holidays", "coming"}>>, "coming") = <<{"holidays"}>>
    /\ StagesAfter(<<{"leaves"}>>, "leaves") = << >>
    /\ StagesAfter(<<{"holidays"}>>, "holidays") = << >>
    /\ StagesAfter(<<{"coming"}>>, "coming") = << >>
    /\ StagesAfter(<<{"division"}, {"members"}, {"raw"}, {"reply"}>>, "division")
          = <<{"members"}, {"raw"}, {"reply"}>>
    /\ StagesAfter(<<{"members"}, {"raw"}, {"reply"}>>, "members") = <<{"raw"}, {"reply"}>>
    /\ StagesAfter(<<{"raw"}, {"reply"}>>, "raw") = <<{"reply"}>>
    /\ StagesAfter(<<{"reply"}>>, "reply") = << >>
<1>1. /\ StagesAfter(<<{"leaves", "holidays"}>>, "leaves") = <<{"holidays"}>>
      /\ StagesAfter(<<{"leaves", "holidays"}>>, "holidays") = <<{"leaves"}>>
  BY StageGoesOn
<1>2. /\ StagesAfter(<<{"holidays", "coming"}>>, "holidays") = <<{"coming"}>>
      /\ StagesAfter(<<{"holidays", "coming"}>>, "coming") = <<{"holidays"}>>
  BY StageGoesOn
<1>3. /\ StagesAfter(<<{"leaves"}>>, "leaves") = << >>
      /\ StagesAfter(<<{"holidays"}>>, "holidays") = << >>
      /\ StagesAfter(<<{"coming"}>>, "coming") = << >>
      /\ StagesAfter(<<{"reply"}>>, "reply") = << >>
  BY StageIsOver, Zenon
<1>4. StagesAfter(<<{"peers"}, {"leaves", "holidays"}>>, "peers") = <<{"leaves", "holidays"}>>
  <2>1. PICK rest : rest = {"leaves", "holidays"}
    OBVIOUS
  <2>. QED
    BY <2>1, StageIsOver, Zenon
<1>5. StagesAfter(<<{"raw"}, {"reply"}>>, "raw") = <<{"reply"}>>
  BY StageIsOver, Zenon
<1>6. StagesAfter(<<{"members"}, {"raw"}, {"reply"}>>, "members") = <<{"raw"}, {"reply"}>>
  <2>1. \A rest, last : StagesAfter(<<{"members"}, rest, last>>, "members") = <<rest, last>>
    BY StageIsOver
  <2>. QED
    BY <2>1, Zenon
<1>7. StagesAfter(<<{"division"}, {"members"}, {"raw"}, {"reply"}>>, "division")
      = <<{"members"}, {"raw"}, {"reply"}>>
  <2>1. \A second, third, fourth :
           StagesAfter(<<{"division"}, second, third, fourth>>, "division") = <<second, third, fourth>>
    BY FirstStageIsOver
  <2>. QED
    BY <2>1, Zenon
<1>. QED
  BY <1>1, <1>2, <1>3, <1>4, <1>5, <1>6, <1>7, Zenon

-----------------------------------------------------------------------------
(* Types.                                                                  *)

\* A view that goes on as it was asked keeps its type.
LEMMA AnswerType ==
    ASSUME TypeInv, UNCHANGED <<db, changes, during>>,
           Base \subseteq DOMAIN view',
           view'.kind = view.kind, view'.target = view.target,
           view.kind # "none",
           view'.code \in {0, 200, 404, 500, 503, 504},
           view'.code = 0 <=> view'.todo # << >>
    PROVE  TypeInv'
<1>1. db' = db /\ changes' = changes /\ during' = during
  OBVIOUS
<1>2. /\ changes' \in 0..MaxChanges /\ \A d \in {db'} \cup during' : IsDatabase(d)
      /\ view'.kind \in DOMAIN Stages \cup {"none"} /\ view'.target \in Users \cup {Nobody}
  <2>1. TypeOK
    BY DEF TypeInv
  <2>2. /\ changes \in 0..MaxChanges
        /\ \A d \in {db} \cup during : IsDatabase(d)
    BY <2>1 DEF TypeOK
  <2>3. view.kind \in DOMAIN Stages \cup {"none"} /\ view.target \in Users \cup {Nobody}
    BY <2>1 DEF TypeOK
  <2>4. {db'} \cup during' = {db} \cup during
    BY <1>1
  <2>5. changes' \in 0..MaxChanges /\ \A d \in {db'} \cup during' : IsDatabase(d)
    BY <1>1, <2>2, <2>4
  <2>6. view'.kind \in DOMAIN Stages \cup {"none"} /\ view'.target \in Users \cup {Nobody}
    BY <2>3
  <2>. QED
    BY <2>5, <2>6
<1>3. view'.code \in {0, 200, 400, 404, 500, 503, 504}
  OBVIOUS
<1>4. TypeOK'
  BY <1>2, <1>3 DEF TypeOK
<1>5. db' \in during'
  BY <1>1 DEF TypeInv
<1>6. Base \subseteq DOMAIN view' /\ view'.kind # "none"
  OBVIOUS
<1>. QED
  BY <1>4, <1>5, <1>6 DEF TypeInv

LEMMA LearnType ==
    ASSUME TypeInv, NEW query, NEW value, query \notin Base, Learn(query, value)
    PROVE  TypeInv'
<1>1. /\ UNCHANGED <<db, changes, during>> /\ view.code = 0 /\ view.todo # << >>
      /\ DOMAIN view' = {query} \cup DOMAIN view
      /\ view'.todo = StagesAfter(view.todo, query)
      /\ view'.code = IF StagesAfter(view.todo, query) = << >> THEN 200 ELSE 0
      /\ SameBut(view, view', {query, "todo", "code"})
  BY LearnFields
<1>2. view'.kind = view.kind /\ view'.target = view.target
  BY <1>1 DEF SameBut, TypeInv, Base
<1>3. Base \subseteq DOMAIN view' /\ view.kind # "none"
  BY <1>1 DEF TypeInv, TypeOK
<1>4. /\ view'.code \in {0, 200, 404, 500, 503, 504}
      /\ view'.code = 0 <=> view'.todo # << >>
  BY <1>1
<1>. QED
  BY <1>1, <1>2, <1>3, <1>4, AnswerType, Zenon

LEMMA RefuseType ==
    ASSUME TypeInv, NEW query, Issued(query), NEW code \in {404, 500, 503, 504}, Refuse(code)
    PROVE  TypeInv'
<1>1. view.code = 0 /\ view.todo # << >>
  BY DEF Issued
<1>2. /\ UNCHANGED <<db, changes, during>>
      /\ DOMAIN view' = DOMAIN view /\ view'.code = code /\ view'.todo = << >>
      /\ view'.kind = view.kind /\ view'.target = view.target
  BY RefusedFields
<1>3. Base \subseteq DOMAIN view' /\ view.kind # "none"
  BY <1>1, <1>2 DEF TypeInv, TypeOK
<1>4. /\ view'.code \in {0, 200, 404, 500, 503, 504}
      /\ view'.code = 0 <=> view'.todo # << >>
  BY <1>2
<1>. QED
  BY <1>1, <1>2, <1>3, <1>4, AnswerType, Zenon

\* The analysis ends with the empty report.
EndsEmpty ==
    /\ UNCHANGED <<db, changes, during>>
    /\ view.code = 0 /\ view.todo # << >>
    /\ view'.code = 200 /\ view'.todo = << >>
    /\ Base \cup {"raw", "shares"} \subseteq DOMAIN view'
    /\ "reply" \in DOMAIN view' => "reply" \in DOMAIN view
    /\ view'.kind = view.kind /\ view'.target = view.target /\ view'.unit = view.unit
    /\ view'.raw = {} /\ view'.shares = EmptyShares

LEMMA WithoutDataFields ==
    ASSUME NEW v, Base \subseteq DOMAIN v
    PROVE  /\ DOMAIN WithoutData(v) = {"shares"} \cup DOMAIN v
           /\ WithoutData(v).shares = EmptyShares
           /\ WithoutData(v).todo = << >> /\ WithoutData(v).code = 200
           /\ SameBut(v, WithoutData(v), {"shares", "todo", "code"})
<1>1. PICK w : w = [v EXCEPT !.todo = << >>, !.code = 200]
  OBVIOUS
<1>2. WithoutData(v) = Keep("shares", EmptyShares, w)
  BY <1>1, Zenon DEF WithoutData
<1>3. DOMAIN w = DOMAIN v /\ w.todo = << >> /\ w.code = 200
  BY <1>1 DEF Base
<1>4. ASSUME NEW f \in DOMAIN v \ {"shares", "todo", "code"}
      PROVE  WithoutData(v)[f] = v[f]
  <2>1. f \in DOMAIN w /\ w[f] = v[f]
    BY <1>1
  <2>. QED
    BY <1>2, <2>1, KeepOthers
<1>5. WithoutData(v).todo = << >> /\ WithoutData(v).code = 200
  BY <1>2, <1>3, KeepOthers DEF Base
<1>6. DOMAIN Keep("shares", EmptyShares, w) = {"shares"} \cup DOMAIN w
  BY KeepName
<1>7. Keep("shares", EmptyShares, w)["shares"] = EmptyShares
  BY KeepName
<1>. QED
  BY <1>2, <1>3, <1>4, <1>5, <1>6, <1>7, Zenon DEF SameBut

\* What WithoutData() makes of a view after a query on members or requests.
LEMMA EndsEmptyFields ==
    ASSUME TypeInv, NEW query \in {"members", "raw"}, NEW value,
           Issued(query), UNCHANGED <<db, changes, during>>,
           DOMAIN view' = {"raw"} \cup DOMAIN WithoutData(Found(query, value)),
           view'.raw = {},
           SameBut(WithoutData(Found(query, value)), view', {"raw"})
    PROVE  EndsEmpty
<1>. DEFINE found == Found(query, value)
<1>1. /\ DOMAIN found = {query} \cup DOMAIN view
      /\ SameBut(view, found, {query, "todo", "code"})
  BY FoundFields DEF TypeInv, Base
<1>2. Base \subseteq DOMAIN view /\ Base \subseteq DOMAIN found
  BY <1>1 DEF TypeInv
<1>. HIDE DEF found
<1>3. /\ DOMAIN WithoutData(found) = {"shares"} \cup DOMAIN found
      /\ WithoutData(found).shares = EmptyShares
      /\ WithoutData(found).todo = << >> /\ WithoutData(found).code = 200
      /\ SameBut(found, WithoutData(found), {"shares", "todo", "code"})
  BY <1>2, WithoutDataFields
<1>4. /\ found.kind = view.kind /\ found.target = view.target /\ found.unit = view.unit
  BY <1>1, <1>2 DEF SameBut, Base
<1>5. /\ WithoutData(found).kind = view.kind /\ WithoutData(found).target = view.target
      /\ WithoutData(found).unit = view.unit
  BY <1>2, <1>3, <1>4 DEF SameBut, Base
<1>6. SameBut(WithoutData(found), view', {"raw"})
  BY Zenon DEF found
<1>7. DOMAIN view' = {"raw"} \cup DOMAIN WithoutData(found) /\ view'.raw = {}
  BY Zenon DEF found
<1>8. /\ view'.kind = view.kind /\ view'.target = view.target /\ view'.unit = view.unit
      /\ view'.todo = << >> /\ view'.code = 200 /\ view'.shares = EmptyShares
  BY <1>2, <1>3, <1>5, <1>6 DEF SameBut, Base
<1>9. /\ Base \cup {"raw", "shares"} \subseteq DOMAIN view'
      /\ "reply" \in DOMAIN view' => "reply" \in DOMAIN view
  BY <1>1, <1>2, <1>3, <1>7
<1>10. view.code = 0 /\ view.todo # << >>
  BY DEF Issued
<1>. QED
  BY <1>7, <1>8, <1>9, <1>10 DEF EndsEmpty

LEMMA MembersStep ==
    ASSUME TypeInv, ReadMembers
    PROVE  \/ Learn("members", MembersOf(db, view.unit))
           \/ MembersOf(db, view.unit) = {} /\ EndsEmpty
<1>. DEFINE members == MembersOf(db, view.unit)
            end == WithoutData(Found("members", members))
<1>1. /\ Issued("members") /\ UNCHANGED <<db, changes, during>>
      /\ view' = IF members = {} THEN Keep("raw", {}, end) ELSE Found("members", members)
  BY Zenon DEF ReadMembers, MembersOf
<1>. HIDE DEF members
<1>2. CASE members # {}
  BY <1>1, <1>2, Zenon DEF Learn, members
<1>3. CASE members = {}
  <2>. HIDE DEF end
  <2>1. view' = Keep("raw", {}, end)
    BY <1>1, <1>3, Zenon
  <2>2. DOMAIN Keep("raw", {}, end) = {"raw"} \cup DOMAIN end
    BY KeepName
  <2>3. Keep("raw", {}, end)["raw"] = {}
    BY KeepName
  <2>4. SameBut(end, Keep("raw", {}, end), {"raw"})
    BY KeepOthers DEF SameBut
  <2>5. /\ DOMAIN view' = {"raw"} \cup DOMAIN end
        /\ view'.raw = {} /\ SameBut(end, view', {"raw"})
    BY <2>1, <2>2, <2>3, <2>4, Zenon
  <2>6. EndsEmpty
    BY <1>1, <2>5, EndsEmptyFields DEF end
  <2>. QED
    BY <1>3, <2>6 DEF members
<1>. QED
  BY <1>2, <1>3

LEMMA RawStep ==
    ASSUME TypeInv, ReadRaw
    PROVE  \/ RawOf(db, view.members) # {} /\ Learn("raw", RawOf(db, view.members))
           \/ RawOf(db, view.members) = {} /\ EndsEmpty
<1>. DEFINE raw == RawOf(db, view.members)
            found == Found("raw", raw)
<1>1. /\ Issued("raw") /\ UNCHANGED <<db, changes, during>>
      /\ view' = IF raw = {} THEN WithoutData(found) ELSE found
  BY Zenon DEF ReadRaw, RawOf
<1>. HIDE DEF raw
<1>2. CASE raw # {}
  BY <1>1, <1>2, Zenon DEF Learn, raw
<1>3. CASE raw = {}
  <2>1. DOMAIN found = {"raw"} \cup DOMAIN view /\ found["raw"] = raw
    BY FoundFields DEF TypeInv, Base
  <2>2. Base \subseteq DOMAIN found
    BY <2>1 DEF TypeInv
  <2>. HIDE DEF found
  <2>3. /\ DOMAIN WithoutData(found) = {"shares"} \cup DOMAIN found
        /\ SameBut(found, WithoutData(found), {"shares", "todo", "code"})
    BY <2>2, WithoutDataFields
  <2>4. view' = WithoutData(found)
    BY <1>1, <1>3, Zenon
  <2>5. WithoutData(found).raw = {}
    BY <1>3, <2>1, <2>3 DEF SameBut
  <2>6. DOMAIN WithoutData(found) = {"raw"} \cup DOMAIN WithoutData(found)
    BY <2>1, <2>3
  <2>7. SameBut(WithoutData(found), WithoutData(found), {"raw"})
    BY DEF SameBut
  <2>8. /\ DOMAIN view' = {"raw"} \cup DOMAIN WithoutData(found)
        /\ view'.raw = {} /\ SameBut(WithoutData(found), view', {"raw"})
    BY <2>4, <2>5, <2>6, <2>7, Zenon
  <2>9. EndsEmpty
    BY <1>1, <2>8, EndsEmptyFields DEF found
  <2>. QED
    BY <1>3, <2>9 DEF raw
<1>. QED
  BY <1>2, <1>3

\* A reply that was used.
Replied(reply, shares) ==
    /\ UNCHANGED <<db, changes, during>>
    /\ view.code = 0 /\ view.todo # << >> /\ "reply" \in Head(view.todo)
    /\ DOMAIN view' = {"reply", "shares"} \cup DOMAIN view
    /\ view'.reply = reply /\ view'.shares = shares
    /\ view'.todo = StagesAfter(view.todo, "reply")
    /\ view'.code = IF StagesAfter(view.todo, "reply") = << >> THEN 200 ELSE 0
    /\ SameBut(view, view', {"reply", "shares", "todo", "code"})

LEMMA ModelStep ==
    ASSUME TypeInv, AskModel
    PROVE  \/ \E code \in {500, 503, 504} : Issued("reply") /\ Refuse(code)
           \/ \E reply \in Replies : \E shares \in Normalised(reply) : Replied(reply, shares)
<1>1. CASE \E code \in {500, 503, 504} : Refuse(code)
  BY <1>1 DEF AskModel
<1>2. CASE \E reply \in Replies : \E shares \in Normalised(reply) :
             /\ view' = Keep("shares", shares, Found("reply", reply))
             /\ UNCHANGED <<db, changes, during>>
  <2>1. PICK reply \in Replies : \E shares \in Normalised(reply) :
             /\ view' = Keep("shares", shares, Found("reply", reply))
             /\ UNCHANGED <<db, changes, during>>
    BY <1>2
  <2>2. PICK shares \in Normalised(reply) :
             /\ view' = Keep("shares", shares, Found("reply", reply))
             /\ UNCHANGED <<db, changes, during>>
    BY <2>1
  <2>. DEFINE found == Found("reply", reply)
  <2>3. /\ DOMAIN found = {"reply"} \cup DOMAIN view
        /\ found["reply"] = reply
        /\ found.todo = StagesAfter(view.todo, "reply")
        /\ found.code = IF StagesAfter(view.todo, "reply") = << >> THEN 200 ELSE 0
        /\ SameBut(view, found, {"reply", "todo", "code"})
    BY FoundFields DEF TypeInv, Base
  <2>. HIDE DEF found
  <2>4. view' = Keep("shares", shares, found)
    BY <2>2, Zenon DEF found
  <2>5. DOMAIN Keep("shares", shares, found) = {"shares"} \cup DOMAIN found
    BY KeepName
  <2>6. Keep("shares", shares, found)["shares"] = shares
    BY KeepName
  <2>7. ASSUME NEW f \in DOMAIN found, f # "shares"
        PROVE  view'[f] = found[f]
    BY <2>4, <2>7, KeepOthers
  <2>8. DOMAIN view' = {"reply", "shares"} \cup DOMAIN view /\ view'.shares = shares
    <3>1. DOMAIN view' = {"shares"} \cup DOMAIN found /\ view'.shares = shares
      BY <2>4, <2>5, <2>6, Zenon
    <3>. QED
      BY <2>3, <3>1
  <2>9. Base \subseteq DOMAIN found
    BY <2>3 DEF TypeInv
  <2>10. /\ view'.reply = reply /\ view'.todo = found.todo /\ view'.code = found.code
    BY <2>3, <2>7, <2>9 DEF Base
  <2>11. SameBut(view, view', {"reply", "shares", "todo", "code"})
    BY <2>3, <2>7 DEF SameBut
  <2>12. view.code = 0 /\ view.todo # << >> /\ "reply" \in Head(view.todo)
    BY DEF AskModel, Issued
  <2>13. UNCHANGED <<db, changes, during>>
    BY <2>2
  <2>14. /\ view'.todo = StagesAfter(view.todo, "reply")
         /\ view'.code = IF StagesAfter(view.todo, "reply") = << >> THEN 200 ELSE 0
    BY <2>3, <2>10
  <2>15. Replied(reply, shares)
    BY <2>8, <2>10, <2>11, <2>12, <2>13, <2>14 DEF Replied
  <2>. QED
    BY <2>15
<1>3. \/ \E code \in {500, 503, 504} : Refuse(code)
      \/ \E reply \in Replies : \E shares \in Normalised(reply) :
             /\ view' = Keep("shares", shares, Found("reply", reply))
             /\ UNCHANGED <<db, changes, during>>
  BY Zenon DEF AskModel
<1>. QED
  BY <1>1, <1>2, <1>3, Zenon

LEMMA AnalysisStepType ==
    ASSUME TypeInv, ReadMembers \/ ReadRaw \/ AskModel
    PROVE  TypeInv'
<1>1. ASSUME EndsEmpty PROVE TypeInv'
  <2>1. view.kind # "none" /\ Base \subseteq DOMAIN view'
    BY <1>1 DEF EndsEmpty, TypeInv
  <2>. QED
    BY <1>1, <2>1, AnswerType DEF EndsEmpty
<1>2. CASE ReadMembers
  BY <1>1, <1>2, MembersStep, LearnType DEF Base
<1>3. CASE ReadRaw
  BY <1>1, <1>3, RawStep, LearnType DEF Base
<1>4. ASSUME NEW reply, NEW shares, Replied(reply, shares)
      PROVE  TypeInv'
  <2>1. view'.kind = view.kind /\ view'.target = view.target
    BY <1>4 DEF Replied, SameBut, TypeInv, Base
  <2>2. view.kind # "none" /\ Base \subseteq DOMAIN view'
    BY <1>4 DEF Replied, TypeInv
  <2>. QED
    BY <1>4, <2>1, <2>2, AnswerType DEF Replied
<1>5. CASE AskModel
  BY <1>4, <1>5, ModelStep, RefuseType
<1>. QED
  BY <1>2, <1>3, <1>5

-----------------------------------------------------------------------------
(* The view is asked for, and the tables are written.                       *)

LEMMA StagesOf ==
    ASSUME NEW kind \in DOMAIN Stages
    PROVE  Stages[kind] # << >> /\ kind # "none"
  BY DEF Stages

\* What a view is at first.
Asked(kind, u, unit, window) ==
    /\ view.kind = "none" /\ UNCHANGED <<db, changes>> /\ during' = {db}
    /\ DOMAIN view' = Base
    /\ view'.kind = kind /\ view'.target = u /\ view'.unit = unit
    /\ view'.from = window.from /\ view'.to = window.to
    /\ view'.skip \in Nat /\ view'.take \in Nat
    /\ \/ view'.todo = Stages[kind] /\ view'.code = 0
       \/ view'.todo = << >> /\ view'.code = 400

LEMMA AskedFields ==
    ASSUME TypeInv, NEW kind \in DOMAIN Stages, NEW u \in Users, NEW bySource \in BOOLEAN,
           NEW window \in Windows, NEW page \in Pages, Ask(kind, u, bySource, window, page)
    PROVE  Asked(kind, u, UnitFound(u, bySource), window)
<1>1. PICK stages : stages = Stages[kind]
  OBVIOUS
<1>2. PICK unit : unit = UnitFound(u, bySource)
  OBVIOUS
<1>3. PICK asked : asked = [NoView EXCEPT !.kind = kind, !.target = u, !.unit = unit,
                                          !.from = window.from, !.to = window.to,
                                          !.skip = page.skip, !.take = page.take,
                                          !.todo = stages]
  OBVIOUS
<1>4. /\ DOMAIN asked = Base
      /\ asked.kind = kind /\ asked.target = u /\ asked.unit = unit
      /\ asked.from = window.from /\ asked.to = window.to
      /\ asked.skip = page.skip /\ asked.take = page.take
      /\ asked.todo = stages /\ asked.code = 0
  BY <1>3 DEF NoView, Base
<1>5. PICK refused : refused = [asked EXCEPT !.code = 400, !.todo = << >>]
  OBVIOUS
<1>6. /\ DOMAIN refused = Base
      /\ refused.kind = kind /\ refused.target = u /\ refused.unit = unit
      /\ refused.from = window.from /\ refused.to = window.to
      /\ refused.skip = page.skip /\ refused.take = page.take
      /\ refused.todo = << >> /\ refused.code = 400
  BY <1>4, <1>5 DEF Base
<1>7. view' = asked \/ view' = refused
  BY <1>1, <1>2, <1>3, <1>5, Zenon DEF Ask
<1>8. view.kind = "none" /\ UNCHANGED <<db, changes>> /\ during' = {db}
  BY DEF Ask
<1>9. page.skip \in Nat /\ page.take \in Nat
  BY EmployeeViewsAssumption
<1>10. CASE view' = asked
  BY <1>1, <1>2, <1>4, <1>8, <1>9, <1>10 DEF Asked
<1>11. CASE view' = refused
  BY <1>2, <1>6, <1>8, <1>9, <1>11 DEF Asked
<1>. QED
  BY <1>7, <1>10, <1>11

ThisDay == [from |-> Today, to |-> Today]

LEMMA AskedForAnalysis ==
    ASSUME TypeInv, NEW unit, AskAnalysis(unit)
    PROVE  Asked("analysis", Nobody, unit, ThisDay)
<1>1. PICK stages : stages = Stages["analysis"]
  OBVIOUS
<1>2. view' = [NoView EXCEPT !.kind = "analysis", !.unit = unit, !.todo = stages]
  BY <1>1, Zenon DEF AskAnalysis
<1>3. /\ DOMAIN view' = Base
      /\ view'.kind = "analysis" /\ view'.target = Nobody /\ view'.unit = unit
      /\ view'.from = Today /\ view'.to = Today /\ view'.skip = 0 /\ view'.take = MaxReportees
      /\ view'.todo = stages /\ view'.code = 0
  BY <1>2 DEF NoView, Base
<1>4. ThisDay.from = Today /\ ThisDay.to = Today
  BY DEF ThisDay
<1>5. view.kind = "none" /\ UNCHANGED <<db, changes>> /\ during' = {db}
  BY DEF AskAnalysis
<1>. QED
  BY <1>1, <1>3, <1>4, <1>5, EmployeeViewsAssumption DEF Asked

LEMMA AskType ==
    ASSUME TypeInv, NEW kind \in DOMAIN Stages, NEW u \in Users \cup {Nobody}, NEW unit, NEW window,
           Asked(kind, u, unit, window)
    PROVE  TypeInv'
<1>1. Stages[kind] # << >> /\ kind # "none"
  BY StagesOf
<1>2. db' = db /\ changes' = changes /\ during' = {db}
  BY DEF Asked
<1>3. /\ changes \in 0..MaxChanges /\ IsDatabase(db)
  BY DEF TypeInv, TypeOK
<1>4. /\ view'.kind = kind /\ view'.target = u
      /\ view'.code \in {0, 400}
      /\ view'.code = 0 <=> view'.todo # << >>
      /\ Base \subseteq DOMAIN view'
  BY <1>1 DEF Asked
<1>5. \A d \in {db'} \cup during' : IsDatabase(d)
  BY <1>2, <1>3
<1>6. TypeOK'
  <2>1. changes' \in 0..MaxChanges
    BY <1>2, <1>3
  <2>2. /\ view'.kind \in DOMAIN Stages \cup {"none"}
        /\ view'.target \in Users \cup {Nobody}
        /\ view'.code \in {0, 200, 400, 404, 500, 503, 504}
    <3>1. kind \in DOMAIN Stages \cup {"none"} /\ u \in Users \cup {Nobody}
      OBVIOUS
    <3>2. view'.code \in {0, 200, 400, 404, 500, 503, 504}
      BY <1>4
    <3>. QED
      BY <1>4, <3>1, <3>2, Zenon
  <2>3. view'.code = 0 <=> view'.todo # << >>
    BY <1>4
  <2>. QED
    BY <1>5, <2>1, <2>2, <2>3 DEF TypeOK
<1>. QED
  BY <1>1, <1>2, <1>4, <1>6, Zenon DEF TypeInv

\* What a write does, whatever it writes.
Writes ==
    /\ UNCHANGED view
    /\ during \subseteq during'
    /\ TypeInv'

LEMMA WriteKeeps ==
    ASSUME TypeInv, NEW next, IsDatabase(next), Write(next)
    PROVE  Writes
<1>1. /\ changes < MaxChanges /\ db' = next /\ changes' = changes + 1
      /\ during' = during \cup {next} /\ view' = view
  BY DEF Write
<1>2. changes \in 0..MaxChanges /\ \A d \in {db} \cup during : IsDatabase(d)
  BY DEF TypeInv, TypeOK
<1>3. changes' \in 0..MaxChanges
  BY <1>1, <1>2, EmployeeViewsAssumption
<1>4. \A d \in {db'} \cup during' : IsDatabase(d)
  BY <1>1, <1>2
<1>5. TypeOK'
  <2>1. /\ view.kind \in DOMAIN Stages \cup {"none"} /\ view.target \in Users \cup {Nobody}
        /\ view.code \in {0, 200, 400, 404, 500, 503, 504}
        /\ view.kind # "none" => (view.code = 0 <=> view.todo # << >>)
    BY Zenon DEF TypeInv, TypeOK
  <2>2. /\ view'.kind \in DOMAIN Stages \cup {"none"} /\ view'.target \in Users \cup {Nobody}
        /\ view'.code \in {0, 200, 400, 404, 500, 503, 504}
        /\ view'.kind # "none" => (view'.code = 0 <=> view'.todo # << >>)
    BY <1>1, <2>1
  <2>. QED
    BY <1>3, <1>4, <2>2, Zenon DEF TypeOK
<1>6. TypeInv'
  BY <1>1, <1>5, Zenon DEF TypeInv
<1>. QED
  BY <1>1, <1>6 DEF Writes

Sheets(b) ==
    /\ b = [u \in Users |-> [type \in DOMAIN b[u] |-> b[u][type]]]
    /\ \A u \in Users : DOMAIN b[u] \subseteq LeaveTypes
    /\ \A u \in Users : \A type \in DOMAIN b[u] : b[u][type] \in Balance

\* The tables, each on its own.
LEMMA Tables ==
    ASSUME NEW d
    PROVE  IsDatabase(d) <=>
              /\ d \in [users : [Users -> UserRow], status : [Requests -> Statuses],
                        holidays : SUBSET Feasts, balances : {d.balances}]
              /\ Sheets(d.balances)
  BY DEF IsDatabase, Sheets

\* A table that is written is one of its type.
LEMMA NextTables ==
    ASSUME NEW d, IsDatabase(d)
    PROVE  /\ \A next \in [Users -> UserRow] : IsDatabase([d EXCEPT !.users = next])
           /\ \A next \in [Requests -> Statuses] : IsDatabase([d EXCEPT !.status = next])
           /\ \A next \in SUBSET Feasts : IsDatabase([d EXCEPT !.holidays = next])
           /\ \A next : Sheets(next) => IsDatabase([d EXCEPT !.balances = next])
<1>1. /\ d \in [users : [Users -> UserRow], status : [Requests -> Statuses],
                 holidays : SUBSET Feasts, balances : {d.balances}]
      /\ Sheets(d.balances)
  BY Tables
<1>2. ASSUME NEW next \in [Users -> UserRow] PROVE IsDatabase([d EXCEPT !.users = next])
  <2>1. PICK e : e = [d EXCEPT !.users = next]
    OBVIOUS
  <2>2. /\ e \in [users : [Users -> UserRow], status : [Requests -> Statuses],
                   holidays : SUBSET Feasts, balances : {e.balances}]
        /\ e.balances = d.balances
    BY <1>1, <2>1
  <2>3. IsDatabase(e)
    BY <1>1, <2>2, Tables
  <2>. QED
    BY <2>1, <2>3
<1>3. ASSUME NEW next \in [Requests -> Statuses] PROVE IsDatabase([d EXCEPT !.status = next])
  <2>1. PICK e : e = [d EXCEPT !.status = next]
    OBVIOUS
  <2>2. /\ e \in [users : [Users -> UserRow], status : [Requests -> Statuses],
                   holidays : SUBSET Feasts, balances : {e.balances}]
        /\ e.balances = d.balances
    BY <1>1, <2>1
  <2>3. IsDatabase(e)
    BY <1>1, <2>2, Tables
  <2>. QED
    BY <2>1, <2>3
<1>4. ASSUME NEW next \in SUBSET Feasts PROVE IsDatabase([d EXCEPT !.holidays = next])
  <2>1. PICK e : e = [d EXCEPT !.holidays = next]
    OBVIOUS
  <2>2. /\ e \in [users : [Users -> UserRow], status : [Requests -> Statuses],
                   holidays : SUBSET Feasts, balances : {e.balances}]
        /\ e.balances = d.balances
    BY <1>1, <2>1
  <2>3. IsDatabase(e)
    BY <1>1, <2>2, Tables
  <2>. QED
    BY <2>1, <2>3
<1>5. ASSUME NEW next, Sheets(next) PROVE IsDatabase([d EXCEPT !.balances = next])
  <2>1. PICK e : e = [d EXCEPT !.balances = next]
    OBVIOUS
  <2>2. /\ e \in [users : [Users -> UserRow], status : [Requests -> Statuses],
                   holidays : SUBSET Feasts, balances : {e.balances}]
        /\ e.balances = next
    BY <1>1, <2>1
  <2>3. IsDatabase(e)
    BY <1>5, <2>2, Tables
  <2>. QED
    BY <2>1, <2>3
<1>. QED
  BY <1>2, <1>3, <1>4, <1>5, Zenon

LEMMA RequestWrites ==
    ASSUME TypeInv, NEW r \in Requests, WriteRequest(r)
    PROVE  Writes
<1>1. IsDatabase(db) /\ db.status \in [Requests -> Statuses]
  BY Tables DEF TypeInv, TypeOK
<1>2. PICK s \in NextStatus[db.status[r]] : Write([db EXCEPT !.status[r] = s])
  BY DEF WriteRequest
<1>3. s \in Statuses
  <2>1. PICK old \in Statuses : old = db.status[r]
    BY <1>1
  <2>2. NextStatus[old] \subseteq Statuses
    <3>1. NextStatus[old] \subseteq {"DRAFT", "PENDING_APPROVAL", "APPROVED", "REJECTED", "CANCELLED"}
      BY <2>1 DEF NextStatus
    <3>. QED
      BY <3>1 DEF Statuses, Waiting
  <2>. QED
    BY <1>2, <2>1, <2>2
<1>4. PICK next : next = [db.status EXCEPT ![r] = s]
  OBVIOUS
<1>5. next \in [Requests -> Statuses]
  BY <1>1, <1>3, <1>4
<1>6. [db EXCEPT !.status[r] = s] = [db EXCEPT !.status = next]
  BY <1>4
<1>7. Write([db EXCEPT !.status = next])
  BY <1>2, <1>6, Zenon
<1>8. IsDatabase([db EXCEPT !.status = next])
  BY <1>1, <1>5, NextTables
<1>. QED
  BY <1>7, <1>8, WriteKeeps

LEMMA UserWrites ==
    ASSUME TypeInv, NEW u \in Users, WriteUser(u)
    PROVE  Writes
<1>1. IsDatabase(db) /\ db.users \in [Users -> UserRow]
  BY Tables DEF TypeInv, TypeOK
<1>2. PICK row \in UserRows[u] : Write([db EXCEPT !.users[u] = row])
  BY DEF WriteUser
<1>3. row \in UserRow
  BY EmployeeViewsAssumption
<1>4. PICK next : next = [db.users EXCEPT ![u] = row]
  OBVIOUS
<1>5. next \in [Users -> UserRow]
  BY <1>1, <1>3, <1>4
<1>6. [db EXCEPT !.users[u] = row] = [db EXCEPT !.users = next]
  BY <1>4
<1>7. Write([db EXCEPT !.users = next])
  BY <1>2, <1>6, Zenon
<1>8. IsDatabase([db EXCEPT !.users = next])
  BY <1>1, <1>5, NextTables
<1>. QED
  BY <1>7, <1>8, WriteKeeps

LEMMA HolidayWrites ==
    ASSUME TypeInv, NEW day \in Feasts, WriteHoliday(day)
    PROVE  Writes
<1>1. IsDatabase(db) /\ db.holidays \subseteq Feasts
  BY Tables DEF TypeInv, TypeOK
<1>2. PICK next : next = db.holidays \cup {day}
  OBVIOUS
<1>3. next \in SUBSET Feasts
  BY <1>1, <1>2
<1>4. Write([db EXCEPT !.holidays = next])
  BY <1>2, Zenon DEF WriteHoliday
<1>5. IsDatabase([db EXCEPT !.holidays = next])
  BY <1>1, <1>3, NextTables
<1>. QED
  BY <1>4, <1>5, WriteKeeps

LEMMA BalanceWrites ==
    ASSUME TypeInv, NEW u \in Users, NEW type \in LeaveTypes, WriteBalance(u, type)
    PROVE  Writes
<1>1. IsDatabase(db) /\ Sheets(db.balances)
  BY Tables DEF TypeInv, TypeOK
<1>2. PICK row \in BalanceRows : Write([db EXCEPT !.balances[u][type] = row])
  BY DEF WriteBalance
<1>3. row \in Balance /\ type \in DOMAIN db.balances[u]
  BY EmployeeViewsAssumption DEF WriteBalance
<1>4. PICK sheet : sheet = [db.balances[u] EXCEPT ![type] = row]
  OBVIOUS
<1>5. PICK next : next = [db.balances EXCEPT ![u] = sheet]
  OBVIOUS
<1>6. /\ sheet = [t \in DOMAIN sheet |-> sheet[t]]
      /\ DOMAIN sheet = DOMAIN db.balances[u]
      /\ \A t \in DOMAIN sheet : sheet[t] \in Balance
  BY <1>1, <1>3, <1>4 DEF Sheets
<1>7. Sheets(next)
  <2>1. next = [v \in Users |-> IF v = u THEN sheet ELSE db.balances[v]]
    BY <1>1, <1>5 DEF Sheets
  <2>2. ASSUME NEW v \in Users
        PROVE  /\ next[v] = [t \in DOMAIN next[v] |-> next[v][t]]
               /\ DOMAIN next[v] \subseteq LeaveTypes
               /\ \A t \in DOMAIN next[v] : next[v][t] \in Balance
    <3>1. CASE v = u
      BY <1>1, <1>6, <2>1, <3>1 DEF Sheets
    <3>2. CASE v # u
      <4>1. next[v] = db.balances[v]
        BY <2>1, <3>2
      <4>2. db.balances[v] = [t \in DOMAIN db.balances[v] |-> db.balances[v][t]]
        BY <1>1 DEF Sheets
      <4>. QED
        BY <1>1, <4>1, <4>2 DEF Sheets
    <3>. QED
      BY <3>1, <3>2
  <2>3. next = [v \in Users |-> [t \in DOMAIN next[v] |-> next[v][t]]]
    BY <2>1, <2>2
  <2>. QED
    BY <2>2, <2>3, Zenon DEF Sheets
<1>8. [db EXCEPT !.balances[u][type] = row] = [db EXCEPT !.balances = next]
  BY <1>4, <1>5
<1>9. Write([db EXCEPT !.balances = next])
  BY <1>2, <1>8, Zenon
<1>10. IsDatabase([db EXCEPT !.balances = next])
  BY <1>1, <1>7, NextTables
<1>. QED
  BY <1>9, <1>10, WriteKeeps

-----------------------------------------------------------------------------
(* What was found stays found.                                             *)

\* A step that changes no more than these fields.
Goes(changed) ==
    /\ during \subseteq during'
    /\ Base \subseteq DOMAIN view /\ DOMAIN view \subseteq DOMAIN view'
    /\ changed \cap {"kind", "target", "unit", "from", "to"} = {}
    /\ SameBut(view, view', changed)

LEMMA GoesAsAsked ==
    ASSUME NEW changed, Goes(changed)
    PROVE  /\ view'.kind = view.kind /\ view'.target = view.target /\ view'.unit = view.unit
           /\ view'.from = view.from /\ view'.to = view.to
  BY DEF Goes, SameBut, Base

LEMMA LearnGoes ==
    ASSUME TypeInv, NEW query, NEW value, query \notin Base, Learn(query, value)
    PROVE  Goes({query, "todo", "code"})
<1>1. /\ UNCHANGED <<db, changes, during>>
      /\ DOMAIN view' = {query} \cup DOMAIN view
      /\ SameBut(view, view', {query, "todo", "code"})
  BY LearnFields
<1>. QED
  BY <1>1 DEF Goes, TypeInv, Base

LEMMA WritesGo ==
    ASSUME TypeInv, Writes
    PROVE  Goes({})
  BY DEF Writes, Goes, SameBut, TypeInv

LEMMA FoundStays ==
    ASSUME NEW changed, Goes(changed)
    PROVE  /\ PeersFound /\ "peers" \notin changed => PeersFound'
           /\ PeersFound /\ LeavesFound /\ changed \cap {"peers", "leaves"} = {} => LeavesFound'
           /\ PeersFound /\ HolidaysFound /\ changed \cap {"peers", "holidays"} = {}
                 => HolidaysFound'
           /\ ComingFound /\ "coming" \notin changed => ComingFound'
           /\ MembersFound /\ "members" \notin changed => MembersFound'
           /\ RawFound /\ "raw" \notin changed => RawFound'
<1>1. /\ during \subseteq during' /\ DOMAIN view \subseteq DOMAIN view'
      /\ \A f \in DOMAIN view \ changed : view'[f] = view[f]
  BY DEF Goes, SameBut
<1>2. /\ view'.kind = view.kind /\ view'.target = view.target /\ view'.unit = view.unit
      /\ view'.from = view.from /\ view'.to = view.to
  BY GoesAsAsked
<1>3. ASSUME PeersFound, "peers" \notin changed
      PROVE  PeersFound' /\ view'.peers = view.peers
  <2>1. "peers" \in DOMAIN view /\ "peers" \in DOMAIN view' /\ view'.peers = view.peers
    BY <1>1, <1>3 DEF PeersFound
  <2>2. PICK d \in during : view.peers = Peers(d, view.unit)
    BY <1>3 DEF PeersFound
  <2>3. d \in during' /\ view'.peers = Peers(d, view'.unit)
    BY <1>1, <1>2, <2>1, <2>2
  <2>. QED
    BY <2>1, <2>3 DEF PeersFound
<1>4. ASSUME PeersFound, LeavesFound, changed \cap {"peers", "leaves"} = {}
      PROVE  LeavesFound'
  <2>1. "leaves" \in DOMAIN view' /\ view'.leaves = view.leaves /\ view'.peers = view.peers
    BY <1>1, <1>3, <1>4 DEF LeavesFound
  <2>2. PICK d \in during : view.leaves = Overlapping(d, view.peers, view.from, view.to)
    BY <1>4 DEF LeavesFound
  <2>3. d \in during' /\ view'.leaves = Overlapping(d, view'.peers, view'.from, view'.to)
    BY <1>1, <1>2, <2>1, <2>2
  <2>. QED
    BY <2>1, <2>3 DEF LeavesFound
<1>5. ASSUME PeersFound, HolidaysFound, changed \cap {"peers", "holidays"} = {}
      PROVE  HolidaysFound'
  <2>1. "holidays" \in DOMAIN view' /\ view'.holidays = view.holidays /\ view'.peers = view.peers
    BY <1>1, <1>3, <1>5 DEF HolidaysFound
  <2>2. PICK d \in during :
          view.holidays = {day \in d.holidays : view.peers # {} /\ day \in view.from..view.to}
    BY <1>5 DEF HolidaysFound
  <2>3. /\ d \in during'
        /\ view'.holidays = {day \in d.holidays : view'.peers # {} /\ day \in view'.from..view'.to}
    BY <1>1, <1>2, <2>1, <2>2
  <2>. QED
    BY <2>1, <2>3 DEF HolidaysFound
<1>6. ASSUME ComingFound, "coming" \notin changed
      PROVE  ComingFound'
  <2>1. "coming" \in DOMAIN view' /\ view'.coming = view.coming
    BY <1>1, <1>6 DEF ComingFound
  <2>2. PICK d \in during : view.coming = Coming(d, view.target)
    BY <1>6 DEF ComingFound
  <2>. QED
    BY <1>1, <1>2, <2>1, <2>2 DEF ComingFound
<1>7. ASSUME MembersFound, "members" \notin changed
      PROVE  MembersFound'
  <2>1. "members" \in DOMAIN view' /\ view'.members = view.members
    BY <1>1, <1>7 DEF MembersFound
  <2>2. PICK d \in during : view.members = MembersOf(d, view.unit)
    BY <1>7 DEF MembersFound
  <2>. QED
    BY <1>1, <1>2, <2>1, <2>2 DEF MembersFound
<1>8. ASSUME RawFound, "raw" \notin changed
      PROVE  RawFound'
  <2>1. "raw" \in DOMAIN view' /\ view'.raw = view.raw
    BY <1>1, <1>8 DEF RawFound
  <2>2. PICK before \in during, after \in during :
          view.raw = RawOf(after, MembersOf(before, view.unit))
    BY <1>8 DEF RawFound
  <2>. QED
    BY <1>1, <1>2, <2>1, <2>2 DEF RawFound
<1>. QED
  BY <1>3, <1>4, <1>5, <1>6, <1>7, <1>8

\* A write leaves the view as it is.
LEMMA WritesServed ==
    ASSUME ServedInv, Writes
    PROVE  ServedInv'
<1>1. TypeInv' /\ view' = view
  BY DEF Writes
<1>2. Goes({})
  BY WritesGo DEF ServedInv
<1>3. /\ PeersFound => PeersFound'
      /\ PeersFound /\ LeavesFound => LeavesFound'
      /\ PeersFound /\ HolidaysFound => HolidaysFound'
      /\ ComingFound => ComingFound'
      /\ MembersFound => MembersFound'
      /\ RawFound => RawFound'
  BY <1>2, FoundStays
<1>4. TeamInv'
  BY <1>1, <1>3, Zenon DEF ServedInv, TeamInv
<1>5. TimelineInv'
  BY <1>1, <1>3, Zenon DEF ServedInv, TimelineInv
<1>6. AnalysisInv'
  BY <1>1, <1>3, Zenon DEF ServedInv, AnalysisInv
<1>. QED
  BY <1>1, <1>4, <1>5, <1>6 DEF ServedInv

\* A view that has just been asked for has found nothing.
LEMMA AskedServed ==
    ASSUME ServedInv, NEW kind \in DOMAIN Stages, NEW u \in Users \cup {Nobody}, NEW unit,
           NEW window \in Windows \cup {ThisDay}, Asked(kind, u, unit, window)
    PROVE  ServedInv'
<1>1. TypeInv'
  BY AskType DEF ServedInv
<1>2. /\ view'.kind = kind /\ DOMAIN view' = Base
      /\ view'.from = window.from /\ view'.to = window.to
      /\ \/ view'.todo = Stages[kind] /\ view'.code = 0
         \/ view'.todo = << >> /\ view'.code = 400
  BY DEF Asked
<1>3. window.from \in Int /\ window.to \in Int
  <2>1. ThisDay.from \in Int /\ ThisDay.to \in Int
    BY LeaveViewsAssumption DEF ThisDay, Year
  <2>. QED
    BY <2>1, EmployeeViewsAssumption
<1>4. TeamInv'
  BY <1>2, <1>3 DEF TeamInv, Stages
<1>5. TimelineInv'
  BY <1>2 DEF TimelineInv, Stages
<1>6. AnalysisInv'
  BY <1>2 DEF AnalysisInv, Stages, Base
<1>. QED
  BY <1>1, <1>4, <1>5, <1>6 DEF ServedInv

-----------------------------------------------------------------------------
(* The queries.                                                            *)

\* What a query finds, of those the invariant is about.
Finds(query, value) ==
    /\ query = "peers" => value = Peers(db, view.unit)
    /\ query = "leaves" => value = Overlapping(db, view.peers, view.from, view.to)
    /\ query = "holidays" /\ view.kind = "team" =>
          value = {day \in db.holidays : view.peers # {} /\ day \in view.from..view.to}
    /\ query = "coming" => value = Coming(db, view.target)
    /\ query = "members" => value = MembersOf(db, view.unit)
    /\ query = "raw" => value = RawOf(db, view.members) /\ value # {}

LEMMA TeamLearns ==
    ASSUME TypeInv, TeamInv, view.kind = "team",
           NEW query, NEW value, query \notin Base, Learn(query, value), Finds(query, value)
    PROVE  TeamInv'
<1>1. /\ db' = db /\ during' = during /\ db \in during
      /\ view.code = 0 /\ view.todo # << >> /\ query \in Head(view.todo)
      /\ query \in DOMAIN view' /\ view'[query] = value
      /\ view'.todo = StagesAfter(view.todo, query)
  BY LearnFields DEF TypeInv
<1>2. Goes({query, "todo", "code"})
  BY LearnGoes
<1>3. /\ view'.kind = view.kind /\ view'.unit = view.unit
      /\ view'.from = view.from /\ view'.to = view.to
  BY <1>2, GoesAsAsked
<1>4. view.from \in Int /\ view.to \in Int
  BY DEF TeamInv
<1>5. /\ PeersFound /\ query # "peers" => PeersFound' /\ view'.peers = view.peers
      /\ PeersFound /\ LeavesFound /\ query \notin {"peers", "leaves"} => LeavesFound'
      /\ PeersFound /\ HolidaysFound /\ query \notin {"peers", "holidays"} => HolidaysFound'
  <2>1. PeersFound /\ query # "peers" => view'.peers = view.peers
    BY <1>2 DEF Goes, SameBut, PeersFound
  <2>. QED
    BY <1>2, <2>1, FoundStays
<1>6. CASE view.todo = <<{"peers"}, {"leaves", "holidays"}>>
  <2>1. query = "peers"
    BY <1>1, <1>6
  <2>2. view'.todo = <<{"leaves", "holidays"}>>
    BY <1>1, <1>6, <2>1, StagesLeft
  <2>3. PeersFound'
    <3>1. view'.peers = Peers(db, view'.unit)
      BY <1>1, <1>3, <2>1 DEF Finds
    <3>. QED
      BY <1>1, <2>1, <3>1 DEF PeersFound
  <2>. QED
    BY <1>3, <1>4, <2>2, <2>3 DEF TeamInv
<1>7. CASE PeersFound /\ view.todo = <<{"leaves", "holidays"}>>
  <2>1. query \in {"leaves", "holidays"}
    BY <1>1, <1>7
  <2>2. PeersFound' /\ view'.peers = view.peers
    BY <1>5, <1>7, <2>1
  <2>3. CASE query = "leaves"
    <3>1. view'.todo = <<{"holidays"}>>
      BY <1>1, <1>7, <2>3, StagesLeft
    <3>2. LeavesFound'
      BY <1>1, <1>3, <2>2, <2>3 DEF LeavesFound, Finds
    <3>. QED
      BY <1>3, <1>4, <2>2, <3>1, <3>2 DEF TeamInv
  <2>4. CASE query = "holidays"
    <3>1. view'.todo = <<{"leaves"}>>
      BY <1>1, <1>7, <2>4, StagesLeft
    <3>2. HolidaysFound'
      BY <1>1, <1>3, <2>2, <2>4 DEF HolidaysFound, Finds
    <3>. QED
      BY <1>3, <1>4, <2>2, <3>1, <3>2 DEF TeamInv
  <2>. QED
    BY <2>1, <2>3, <2>4
<1>8. CASE PeersFound /\ LeavesFound /\ view.todo = <<{"holidays"}>>
  <2>1. query = "holidays"
    BY <1>1, <1>8
  <2>2. PeersFound' /\ view'.peers = view.peers /\ LeavesFound'
    BY <1>5, <1>8, <2>1
  <2>3. view'.todo = << >>
    BY <1>1, <1>8, <2>1, StagesLeft
  <2>4. HolidaysFound'
    BY <1>1, <1>3, <2>1, <2>2 DEF HolidaysFound, Finds
  <2>. QED
    BY <1>3, <1>4, <2>2, <2>3, <2>4 DEF TeamInv
<1>9. CASE PeersFound /\ HolidaysFound /\ view.todo = <<{"leaves"}>>
  <2>1. query = "leaves"
    BY <1>1, <1>9
  <2>2. PeersFound' /\ view'.peers = view.peers /\ HolidaysFound'
    BY <1>5, <1>9, <2>1
  <2>3. view'.todo = << >>
    BY <1>1, <1>9, <2>1, StagesLeft
  <2>4. LeavesFound'
    BY <1>1, <1>3, <2>1, <2>2 DEF LeavesFound, Finds
  <2>. QED
    BY <1>3, <1>4, <2>2, <2>3, <2>4 DEF TeamInv
<1>. QED
  BY <1>1, <1>6, <1>7, <1>8, <1>9 DEF TeamInv

LEMMA TimelineLearns ==
    ASSUME TypeInv, TimelineInv, view.kind = "upcoming",
           NEW query, NEW value, query \notin Base, Learn(query, value), Finds(query, value)
    PROVE  TimelineInv'
<1>1. /\ db' = db /\ during' = during /\ db \in during
      /\ view.code = 0 /\ view.todo # << >> /\ query \in Head(view.todo)
      /\ query \in DOMAIN view' /\ view'[query] = value
      /\ view'.todo = StagesAfter(view.todo, query)
  BY LearnFields DEF TypeInv
<1>2. Goes({query, "todo", "code"})
  BY LearnGoes
<1>3. view'.target = view.target
  BY <1>2, GoesAsAsked
<1>4. ComingFound /\ query # "coming" => ComingFound'
  BY <1>2, FoundStays
<1>5. query = "coming" => ComingFound'
  BY <1>1, <1>3 DEF Finds, ComingFound
<1>6. CASE view.todo = <<{"holidays", "coming"}>>
  <2>1. query = "holidays" \/ query = "coming"
    BY <1>1, <1>6
  <2>2. CASE query = "holidays"
    <3>1. view'.todo = <<{"coming"}>>
      BY <1>1, <1>6, <2>2, StagesLeft
    <3>. QED
      BY <3>1 DEF TimelineInv
  <2>3. CASE query = "coming"
    <3>1. view'.todo = <<{"holidays"}>>
      BY <1>1, <1>6, <2>3, StagesLeft
    <3>. QED
      BY <1>5, <2>3, <3>1 DEF TimelineInv
  <2>. QED
    BY <2>1, <2>2, <2>3
<1>7. CASE view.todo = <<{"coming"}>>
  <2>1. query = "coming"
    BY <1>1, <1>7
  <2>2. view'.todo = << >>
    BY <1>1, <1>7, <2>1, StagesLeft
  <2>. QED
    BY <1>5, <2>1, <2>2 DEF TimelineInv
<1>8. CASE ComingFound /\ view.todo = <<{"holidays"}>>
  <2>1. query = "holidays"
    BY <1>1, <1>8
  <2>2. view'.todo = << >>
    BY <1>1, <1>8, <2>1, StagesLeft
  <2>. QED
    BY <1>4, <1>8, <2>1, <2>2 DEF TimelineInv
<1>. QED
  BY <1>1, <1>6, <1>7, <1>8 DEF TimelineInv

LEMMA AnalysisLearns ==
    ASSUME TypeInv, AnalysisInv, view.kind = "analysis",
           NEW query, NEW value, query \notin Base \cup {"reply"},
           Learn(query, value), Finds(query, value)
    PROVE  AnalysisInv'
<1>1. /\ db' = db /\ during' = during /\ db \in during
      /\ view.code = 0 /\ view.todo # << >> /\ query \in Head(view.todo)
      /\ DOMAIN view' = {query} \cup DOMAIN view /\ view'[query] = value
      /\ view'.todo = StagesAfter(view.todo, query)
  BY LearnFields DEF TypeInv
<1>2. Goes({query, "todo", "code"})
  BY LearnGoes
<1>3. view'.unit = view.unit
  BY <1>2, GoesAsAsked
<1>7. CASE /\ view.todo = <<{"division"}, {"members"}, {"raw"}, {"reply"}>> /\ "reply" \notin DOMAIN view
  <2>1. query = "division"
    BY <1>1, <1>7
  <2>2. view'.todo = <<{"members"}, {"raw"}, {"reply"}>>
    BY <1>1, <1>7, <2>1, StagesLeft
  <2>. QED
    BY <1>1, <1>7, <2>1, <2>2 DEF AnalysisInv
<1>4. CASE /\ view.todo = <<{"members"}, {"raw"}, {"reply"}>> /\ "reply" \notin DOMAIN view
  <2>1. query = "members"
    BY <1>1, <1>4
  <2>2. view'.todo = <<{"raw"}, {"reply"}>>
    BY <1>1, <1>4, <2>1, StagesLeft
  <2>3. MembersFound'
    BY <1>1, <1>3, <2>1 DEF Finds, MembersFound
  <2>. QED
    BY <1>1, <1>4, <2>1, <2>2, <2>3 DEF AnalysisInv
<1>5. CASE MembersFound /\ view.todo = <<{"raw"}, {"reply"}>> /\ "reply" \notin DOMAIN view
  <2>1. query = "raw"
    BY <1>1, <1>5
  <2>2. view'.todo = <<{"reply"}>>
    BY <1>1, <1>5, <2>1, StagesLeft
  <2>3. PICK before \in during : view.members = MembersOf(before, view.unit)
    BY <1>5 DEF MembersFound
  <2>4. view'.raw = RawOf(db, MembersOf(before, view'.unit)) /\ view'.raw # {}
    BY <1>1, <1>3, <2>1, <2>3 DEF Finds
  <2>5. RawFound'
    BY <1>1, <2>1, <2>3, <2>4 DEF RawFound
  <2>. QED
    BY <2>2, <2>4, <2>5 DEF AnalysisInv
<1>6. CASE view.todo = <<{"reply"}>>
  <2>1. query = "reply"
    BY <1>1, <1>6
  <2>. QED
    BY <2>1
<1>. QED
  BY <1>1, <1>4, <1>5, <1>6, <1>7 DEF AnalysisInv

\* Every query that does no more than to find something.
LEMMA LearnServed ==
    ASSUME ServedInv, NEW query, NEW value, query \notin Base \cup {"reply"},
           Learn(query, value), Finds(query, value)
    PROVE  ServedInv'
<1>1. TypeInv'
  BY LearnType DEF ServedInv
<1>2. view'.kind = view.kind
  BY LearnGoes, GoesAsAsked DEF ServedInv
<1>3. TeamInv'
  BY <1>2, TeamLearns DEF ServedInv, TeamInv
<1>4. TimelineInv'
  BY <1>2, TimelineLearns DEF ServedInv, TimelineInv
<1>5. AnalysisInv'
  BY <1>2, AnalysisLearns DEF ServedInv, AnalysisInv
<1>. QED
  BY <1>1, <1>3, <1>4, <1>5 DEF ServedInv

LEMMA KindOfQuery ==
    ASSUME ServedInv, NEW query \in {"division", "members", "raw", "reply", "row"}, Issued(query)
    PROVE  view.kind \notin {"team", "upcoming"}
<1>1. view.code = 0 /\ view.todo # << >> /\ query \in Head(view.todo)
  BY DEF Issued
<1>2. ASSUME view.kind = "team" PROVE FALSE
  <2>1. view.todo \in {<<{"peers"}, {"leaves", "holidays"}>>, <<{"leaves", "holidays"}>>,
                       <<{"holidays"}>>, <<{"leaves"}>>}
    BY <1>1, <1>2 DEF ServedInv, TeamInv
  <2>. QED
    BY <1>1, <2>1
<1>3. ASSUME view.kind = "upcoming" PROVE FALSE
  BY <1>1, <1>3 DEF ServedInv, TimelineInv
<1>. QED
  BY <1>2, <1>3

LEMMA EndsEmptyServed ==
    ASSUME ServedInv, EndsEmpty, TypeInv', view.kind \notin {"team", "upcoming"},
           "reply" \notin DOMAIN view,
           NEW before \in during, RawOf(db, MembersOf(before, view.unit)) = {}
    PROVE  ServedInv'
<1>1. /\ view'.kind = view.kind /\ view'.unit = view.unit /\ during' = during
      /\ view'.todo = << >> /\ view'.raw = {} /\ view'.shares = EmptyShares
      /\ {"raw", "shares"} \subseteq DOMAIN view' /\ "reply" \notin DOMAIN view'
  BY DEF EndsEmpty
<1>2. db \in during
  BY DEF ServedInv, TypeInv
<1>3. RawFound'
  BY <1>1, <1>2 DEF RawFound
<1>4. AnalysisInv'
  BY <1>1, <1>3 DEF AnalysisInv
<1>5. TeamInv' /\ TimelineInv'
  BY <1>1 DEF TeamInv, TimelineInv
<1>. QED
  BY <1>4, <1>5 DEF ServedInv

\* A view that is refused has nothing more to show.
LEMMA RefuseServed ==
    ASSUME ServedInv, NEW query, Issued(query), NEW code \in {404, 500, 503, 504}, Refuse(code),
           view.kind \notin {"team", "upcoming"}
    PROVE  ServedInv'
<1>1. TypeInv'
  BY RefuseType DEF ServedInv
<1>2. view'.kind = view.kind /\ view'.code = code /\ view'.todo = << >>
  BY RefusedFields DEF ServedInv
<1>3. AnalysisInv'
  BY <1>2 DEF AnalysisInv
<1>4. TeamInv' /\ TimelineInv'
  BY <1>2 DEF TeamInv, TimelineInv
<1>. QED
  BY <1>1, <1>3, <1>4 DEF ServedInv

LEMMA RepliedServed ==
    ASSUME ServedInv, TypeInv', NEW reply \in Replies, NEW shares \in Normalised(reply),
           Replied(reply, shares), view.kind \notin {"team", "upcoming"}
    PROVE  ServedInv'
<1>1. /\ UNCHANGED <<db, changes, during>>
      /\ view.code = 0 /\ view.todo # << >> /\ "reply" \in Head(view.todo)
      /\ DOMAIN view' = {"reply", "shares"} \cup DOMAIN view
      /\ view'.reply = reply /\ view'.shares = shares
      /\ view'.todo = StagesAfter(view.todo, "reply")
      /\ SameBut(view, view', {"reply", "shares", "todo", "code"})
  BY DEF Replied
<1>2. Goes({"reply", "shares", "todo", "code"})
  BY <1>1 DEF Goes, ServedInv, TypeInv
<1>3. view'.kind = view.kind
  BY <1>2, GoesAsAsked
<1>4. CASE view.kind = "analysis"
  <2>1. RawFound /\ view.raw # {} /\ view.todo = <<{"reply"}>>
    BY <1>1, <1>4 DEF ServedInv, AnalysisInv
  <2>2. RawFound'
    BY <1>2, <2>1, FoundStays
  <2>3. view'.raw = view.raw
    BY <1>1, <2>1 DEF SameBut, RawFound
  <2>4. view'.todo = << >>
    BY <1>1, <2>1, StagesLeft
  <2>5. AnalysisInv'
    BY <1>1, <2>1, <2>2, <2>3, <2>4 DEF AnalysisInv
  <2>. QED
    BY <1>3, <2>5 DEF ServedInv, TeamInv, TimelineInv
<1>5. CASE view.kind # "analysis"
  BY <1>3, <1>5 DEF ServedInv, TeamInv, TimelineInv, AnalysisInv
<1>. QED
  BY <1>4, <1>5

LEMMA AnalysisStepServed ==
    ASSUME ServedInv, ReadMembers \/ ReadRaw \/ AskModel
    PROVE  ServedInv'
<1>. TypeInv /\ TypeInv'
  BY AnalysisStepType DEF ServedInv
<1>1. CASE ReadMembers
  <2>1. Issued("members")
    BY <1>1 DEF ReadMembers
  <2>2. CASE Learn("members", MembersOf(db, view.unit))
    <3>1. Finds("members", MembersOf(db, view.unit))
      BY DEF Finds
    <3>. QED
      BY <2>2, <3>1, LearnServed DEF Base
  <2>3. CASE MembersOf(db, view.unit) = {} /\ EndsEmpty
    <3>1. view.kind \notin {"team", "upcoming"}
      BY <2>1, KindOfQuery
    <3>2. CASE view.kind = "analysis"
      <4>1. "reply" \notin DOMAIN view
        BY <2>1, <3>2 DEF ServedInv, AnalysisInv, Issued
      <4>2. RawOf(db, MembersOf(db, view.unit)) = {} /\ db \in during
        BY <2>3 DEF RawOf, Of, TypeInv
      <4>. QED
        BY <2>3, <3>1, <4>1, <4>2, EndsEmptyServed
    <3>3. CASE view.kind # "analysis"
      BY <2>3, <3>1, <3>3 DEF EndsEmpty, ServedInv, TeamInv, TimelineInv, AnalysisInv
    <3>. QED
      BY <3>2, <3>3
  <2>. QED
    BY <1>1, <2>2, <2>3, MembersStep
<1>2. CASE ReadRaw
  <2>1. Issued("raw")
    BY <1>2 DEF ReadRaw
  <2>2. CASE RawOf(db, view.members) # {} /\ Learn("raw", RawOf(db, view.members))
    <3>1. Finds("raw", RawOf(db, view.members))
      BY <2>2 DEF Finds
    <3>. QED
      BY <2>2, <3>1, LearnServed DEF Base
  <2>3. CASE RawOf(db, view.members) = {} /\ EndsEmpty
    <3>1. view.kind \notin {"team", "upcoming"}
      BY <2>1, KindOfQuery
    <3>2. CASE view.kind = "analysis"
      <4>1. "reply" \notin DOMAIN view /\ MembersFound
        <5>1. /\ view.todo # <<{"division"}, {"members"}, {"raw"}, {"reply"}>>
              /\ view.todo # <<{"members"}, {"raw"}, {"reply"}>>
              /\ view.todo # <<{"reply"}>>
          <6>1. /\ Head(<<{"division"}, {"members"}, {"raw"}, {"reply"}>>) = {"division"}
                /\ Head(<<{"members"}, {"raw"}, {"reply"}>>) = {"members"}
                /\ Head(<<{"reply"}>>) = {"reply"}
            OBVIOUS
          <6>2. "raw" \in Head(view.todo)
            BY <2>1 DEF Issued
          <6>3. "raw" \notin {"division"} /\ "raw" \notin {"members"} /\ "raw" \notin {"reply"}
            OBVIOUS
          <6>. QED
            BY <6>1, <6>2, <6>3, Zenon
        <5>. QED
          BY <2>1, <3>2, <5>1 DEF ServedInv, AnalysisInv, Issued
      <4>2. PICK before \in during : view.members = MembersOf(before, view.unit)
        BY <4>1 DEF MembersFound
      <4>. QED
        BY <2>3, <3>1, <4>1, <4>2, EndsEmptyServed
    <3>3. CASE view.kind # "analysis"
      BY <2>3, <3>1, <3>3 DEF EndsEmpty, ServedInv, TeamInv, TimelineInv, AnalysisInv
    <3>. QED
      BY <3>2, <3>3
  <2>. QED
    BY <1>2, <2>2, <2>3, RawStep
<1>3. CASE AskModel
  <2>1. Issued("reply")
    BY <1>3 DEF AskModel
  <2>2. view.kind \notin {"team", "upcoming"}
    BY <2>1, KindOfQuery
  <2>. QED
    BY <1>3, <2>1, <2>2, ModelStep, RefuseServed, RepliedServed
<1>. QED
  BY <1>1, <1>2, <1>3

\* A user is looked for by the views of the profile service alone.
LEMMA ReadRowServed ==
    ASSUME ServedInv, ReadRow
    PROVE  ServedInv'
<1>1. CASE Live(db.users, view.target)
  <2>1. Learn("row", view.target)
    BY <1>1 DEF ReadRow
  <2>2. Finds("row", view.target)
    BY DEF Finds
  <2>. QED
    BY <2>1, <2>2, LearnServed DEF Base
<1>2. CASE ~Live(db.users, view.target)
  <2>1. Issued("row") /\ Refuse(404)
    BY <1>2 DEF ReadRow
  <2>2. view.kind \notin {"team", "upcoming"}
    BY <2>1, KindOfQuery
  <2>. QED
    BY <2>1, <2>2, RefuseServed
<1>. QED
  BY <1>1, <1>2

\* And a unit by the analysis.
LEMMA ReadDivisionServed ==
    ASSUME ServedInv, ReadDivision
    PROVE  ServedInv'
<1>1. CASE view.unit \in Units
  <2>1. Learn("division", view.unit)
    BY <1>1 DEF ReadDivision
  <2>2. Finds("division", view.unit)
    BY DEF Finds
  <2>. QED
    BY <2>1, <2>2, LearnServed DEF Base
<1>2. CASE view.unit \notin Units
  <2>1. Issued("division") /\ Refuse(404)
    BY <1>2 DEF ReadDivision
  <2>2. view.kind \notin {"team", "upcoming"}
    BY <2>1, KindOfQuery
  <2>. QED
    BY <2>1, <2>2, RefuseServed
<1>. QED
  BY <1>1, <1>2

LEMMA QueryServed ==
    ASSUME ServedInv, Query
    PROVE  ServedInv'
<1>1. CASE ReadBalances \/ ReadPending \/ ReadActive \/ ReadApproved
  BY <1>1, LearnServed
  DEF ReadBalances, ReadPending, ReadActive, ReadApproved, Finds, Base
<1>10. CASE ReadLatest
  <2>1. PICK latest : Learn("latest", latest)
    BY <1>10, Zenon DEF ReadLatest
  <2>2. Finds("latest", latest)
    BY DEF Finds
  <2>. QED
    BY <2>1, <2>2, LearnServed DEF Base
<1>11. CASE ReadDivision
  BY <1>11, ReadDivisionServed
<1>2. CASE ReadComing
  BY <1>2, LearnServed DEF ReadComing, Finds, Base
<1>3. CASE ReadPeers
  BY <1>3, LearnServed DEF ReadPeers, Finds, Base
<1>4. CASE ReadLeaves
  BY <1>4, LearnServed DEF ReadLeaves, Finds, Base
<1>5. CASE ReadHolidays
  <2>. DEFINE days == {day \in db.holidays :
                          IF view.kind = "upcoming" THEN day >= Today
                          ELSE view.peers # {} /\ day \in view.from..view.to}
  <2>1. Learn("holidays", days)
    BY <1>5, Zenon DEF ReadHolidays
  <2>2. view.kind = "team" =>
          days = {day \in db.holidays : view.peers # {} /\ day \in view.from..view.to}
    OBVIOUS
  <2>. HIDE DEF days
  <2>3. Finds("holidays", days)
    BY <2>2 DEF Finds
  <2>. QED
    BY <2>1, <2>3, LearnServed DEF Base
<1>6. CASE ReadPerson \/ ReadManagerId \/ ReadCount \/ ReadTree \/ ReadPage
  BY <1>6, LearnServed DEF ReadPerson, ReadManagerId, ReadCount, ReadTree, ReadPage, Finds, Base
<1>7. CASE ReadReports \/ ReadManager
  BY <1>7, LearnServed DEF ReadReports, ReadManager, Finds, Base
<1>8. CASE ReadRow
  BY <1>8, ReadRowServed
<1>9. CASE ReadMembers \/ ReadRaw \/ AskModel
  BY <1>9, AnalysisStepServed
<1>. QED
  BY <1>1, <1>2, <1>3, <1>4, <1>5, <1>6, <1>7, <1>8, <1>9, <1>10, <1>11 DEF Query

LEMMA InitServed == Init => ServedInv
<1>. SUFFICES ASSUME Init PROVE ServedInv
  OBVIOUS
<1>1. db \in Starts /\ changes = 0 /\ during = {db} /\ view = NoView
  BY DEF Init
<1>2. /\ view.kind = "none" /\ view.target = Nobody /\ view.code = 0 /\ view.todo = << >>
      /\ DOMAIN view = Base
  BY <1>1 DEF NoView, Base
<1>3. \A d \in {db} \cup during : IsDatabase(d)
  BY <1>1, EmployeeViewsAssumption
<1>4. changes \in 0..MaxChanges
  BY <1>1, EmployeeViewsAssumption
<1>5. TypeOK
  <2>1. /\ view.kind \in DOMAIN Stages \cup {"none"} /\ view.target \in Users \cup {Nobody}
        /\ view.code \in {0, 200, 400, 404, 500, 503, 504}
        /\ view.kind # "none" => (view.code = 0 <=> view.todo # << >>)
    BY <1>2
  <2>. QED
    BY <1>3, <1>4, <2>1, Zenon DEF TypeOK
<1>6. TypeInv
  BY <1>1, <1>2, <1>5 DEF TypeInv
<1>. QED
  BY <1>2, <1>6 DEF ServedInv, TeamInv, TimelineInv, AnalysisInv

LEMMA NextServed == ServedInv /\ [Next]_vars => ServedInv'
<1>. SUFFICES ASSUME ServedInv, [Next]_vars PROVE ServedInv'
  OBVIOUS
<1>. TypeInv
  BY DEF ServedInv
<1>1. ASSUME NEW kind \in DOMAIN Stages, NEW u \in Users, NEW bySource \in BOOLEAN,
             NEW window \in Windows, NEW page \in Pages, Ask(kind, u, bySource, window, page)
      PROVE  ServedInv'
  BY <1>1, AskedFields, AskedServed
<1>8. ASSUME NEW unit, AskAnalysis(unit)
      PROVE  ServedInv'
  <2>1. "analysis" \in DOMAIN Stages
    BY DEF Stages
  <2>. QED
    BY <1>8, <2>1, AskedForAnalysis, AskedServed
<1>2. CASE Query
  BY <1>2, QueryServed
<1>3. ASSUME NEW r \in Requests, WriteRequest(r)
      PROVE  ServedInv'
  BY <1>3, RequestWrites, WritesServed
<1>4. ASSUME NEW u \in Users, WriteUser(u)
      PROVE  ServedInv'
  BY <1>4, UserWrites, WritesServed
<1>5. ASSUME NEW u \in Users, NEW type \in LeaveTypes, WriteBalance(u, type)
      PROVE  ServedInv'
  BY <1>5, BalanceWrites, WritesServed
<1>6. ASSUME NEW day \in Feasts, WriteHoliday(day)
      PROVE  ServedInv'
  BY <1>6, HolidayWrites, WritesServed
<1>7. CASE UNCHANGED vars
  <2>1. db' = db /\ changes' = changes /\ during' = during /\ view' = view
    BY <1>7 DEF vars
  <2>2. TypeInv'
    <3>1. TypeOK /\ Base \subseteq DOMAIN view /\ (view.kind = "none" => view.todo = << >>) /\ db \in during
      BY DEF TypeInv
    <3>2. TypeOK'
      BY <2>1, <3>1 DEF TypeOK
    <3>. QED
      BY <2>1, <3>1, <3>2 DEF TypeInv
  <2>3. Writes
    BY <2>1, <2>2 DEF Writes
  <2>. QED
    BY <2>3, WritesServed
<1>. QED
  BY <1>1, <1>2, <1>3, <1>4, <1>5, <1>6, <1>7, <1>8, Zenon DEF Next

\* Every view that is under way has found, of each query that is over, what the
\* tables held at one moment.
THEOREM ServedInvariant == Spec => []ServedInv
<1>1. Init => ServedInv
  BY InitServed
<1>2. ServedInv /\ [Next]_vars => ServedInv'
  BY NextServed
<1>. QED
  BY <1>1, <1>2, PTL DEF Spec

\* The tables keep their types, and no view that waits for a query is answered
\* or refused.
THEOREM TypeCorrect == Spec => []TypeOK
<1>1. ServedInv => TypeOK
  BY DEF ServedInv, TypeInv
<1>. QED
  BY <1>1, ServedInvariant, PTL

-----------------------------------------------------------------------------
(* The calendars.                                                          *)

AwayOn(v, day, type) == {r.user : r \in {l \in v.leaves : l.type = type /\ day \in ClampedDays(v, l)}}

HolidayBlocks(v, day) ==
    {[type |-> "holiday", title |-> "holiday", users |-> v.peers] : h \in v.holidays \cap {day}}

LeaveBlocks(v, day) ==
    {[type |-> "leave", title |-> type, users |-> AwayOn(v, day, type) \cap v.peers] :
        type \in {t \in LeaveTypes : AwayOn(v, day, t) \cap v.peers # {}}}

LEMMA BlocksOfTheDay ==
    ASSUME NEW v, NEW day \in v.from..v.to
    PROVE  TeamStatus(v)[day] = IF HolidayBlocks(v, day) \cup LeaveBlocks(v, day) = {}
                                THEN {[type |-> "", title |-> "", users |-> {}]}
                                ELSE HolidayBlocks(v, day) \cup LeaveBlocks(v, day)
  BY Zenon DEF TeamStatus, HolidayBlocks, LeaveBlocks, AwayOn

\* A person is in a block of a type of leave if it is a peer with such a leave on
\* that day.
LEMMA ShownOnLeave ==
    ASSUME NEW v, NEW day \in v.from..v.to, NEW type \in LeaveTypes, NEW u
    PROVE  (\E b \in TeamStatus(v)[day] : b.title = type /\ u \in b.users)
           <=> /\ u \in v.peers
               /\ \E l \in v.leaves : l.type = type /\ day \in ClampedDays(v, l) /\ l.user = u
<1>1. type # "holiday" /\ type # ""
  BY DEF LeaveTypes
<1>2. ASSUME NEW b \in TeamStatus(v)[day], b.title = type, u \in b.users
      PROVE  u \in v.peers /\ u \in AwayOn(v, day, type)
  <2>1. \/ b = [type |-> "", title |-> "", users |-> {}]
        \/ b \in HolidayBlocks(v, day)
        \/ b \in LeaveBlocks(v, day)
    BY <1>2, BlocksOfTheDay, Zenon
  <2>2. b # [type |-> "", title |-> "", users |-> {}]
    <3>1. SUFFICES ASSUME b = [type |-> "", title |-> "", users |-> {}] PROVE FALSE
      OBVIOUS
    <3>2. b.title = ""
      BY <3>1
    <3>3. b.title = type
      BY <1>2
    <3>. QED
      BY <1>1, <3>2, <3>3, Zenon
  <2>3. b \notin HolidayBlocks(v, day)
    <3>1. SUFFICES ASSUME b \in HolidayBlocks(v, day) PROVE FALSE
      OBVIOUS
    <3>2. b.title = "holiday"
      BY <3>1 DEF HolidayBlocks
    <3>3. b.title = type
      BY <1>2
    <3>. QED
      BY <1>1, <3>2, <3>3, Zenon
  <2>4. b \in LeaveBlocks(v, day)
    BY <2>1, <2>2, <2>3
  <2>. QED
    BY <1>2, <2>4 DEF LeaveBlocks
<1>3. ASSUME u \in v.peers, u \in AwayOn(v, day, type)
      PROVE  \E b \in TeamStatus(v)[day] : b.title = type /\ u \in b.users
  <2>1. PICK b : b = [type |-> "leave", title |-> type, users |-> AwayOn(v, day, type) \cap v.peers]
    OBVIOUS
  <2>2. b \in LeaveBlocks(v, day)
    BY <1>3, <2>1 DEF LeaveBlocks
  <2>3. b \in TeamStatus(v)[day]
    BY <2>2, BlocksOfTheDay
  <2>. QED
    BY <1>3, <2>1, <2>3
<1>4. u \in AwayOn(v, day, type)
      <=> \E l \in v.leaves : l.type = type /\ day \in ClampedDays(v, l) /\ l.user = u
  BY DEF AwayOn
<1>. QED
  BY <1>2, <1>3, <1>4

LEMMA ShownOnHoliday ==
    ASSUME NEW v, NEW day \in v.from..v.to, day \in v.holidays, NEW u \in v.peers
    PROVE  \E b \in TeamStatus(v)[day] : b.title = "holiday" /\ u \in b.users
<1>1. PICK b : b = [type |-> "holiday", title |-> "holiday", users |-> v.peers]
  OBVIOUS
<1>2. b \in HolidayBlocks(v, day)
  BY <1>1 DEF HolidayBlocks
<1>3. b \in TeamStatus(v)[day]
  BY <1>2, BlocksOfTheDay
<1>. QED
  BY <1>1, <1>3

\* A request and its days are what they are said to be.
LEMMA RequestType ==
    ASSUME NEW r \in Requests
    PROVE  /\ r.user \in Users /\ r.type \in LeaveTypes
           /\ r.from \in Int /\ r.to \in Int /\ r.from <= r.to /\ r.created \in Int
           /\ r.days \in Nat
<1>1. r \in Request /\ r.from <= r.to
  BY LeaveViewsAssumption
<1>. QED
  BY <1>1, EmployeeViewsAssumption DEF Request

LEMMA DaysInTheWindow ==
    ASSUME NEW v, v.from \in Int, v.to \in Int, NEW r \in Requests, NEW day \in v.from..v.to
    PROVE  day \in ClampedDays(v, r) <=> r.from <= day /\ day <= r.to
<1>1. PICK from \in Int, to \in Int : from = v.from /\ to = v.to
  OBVIOUS
<1>2. PICK first \in Int, last \in Int : first = r.from /\ last = r.to
  BY RequestType
<1>3. Later(first, from) \in Int /\ Earlier(last, to) \in Int
  BY DEF Later, Earlier
<1>4. day \in Int /\ from <= day /\ day <= to
  BY <1>1
<1>5. day \in Later(first, from)..Earlier(last, to) <=> first <= day /\ day <= last
  BY <1>3, <1>4 DEF Later, Earlier
<1>. QED
  BY <1>1, <1>2, <1>5 DEF ClampedDays

LEMMA TeamAnswer ==
    ASSUME ServedInv, Answered("team")
    PROVE  /\ view.from \in Int /\ view.to \in Int
           /\ PeersFound /\ LeavesFound /\ HolidaysFound
<1>1. view.kind = "team" /\ view.code = 200
  BY DEF Answered
<1>2. view.todo = << >>
  BY <1>1 DEF ServedInv, TypeInv, TypeOK
<1>. QED
  BY <1>1, <1>2 DEF ServedInv, TeamInv

LEMMA TeamCalendar ==
    ASSUME ServedInv, Answered("team"), NEW day \in view.from..view.to, NEW u \in Users
    PROVE  /\ \A type \in LeaveTypes :
                 LET leaves == {r \in Requests : r.user = u /\ r.type = type} IN
                 /\ u \in Shown(day, type) =>
                       /\ \E d \in during : PeerIn(d, u)
                       /\ \E d \in during : \E r \in leaves : ApprovedOn(d, r, day)
                 /\ /\ \A d \in during : PeerIn(d, u)
                    /\ \E r \in leaves : \A d \in during : ApprovedOn(d, r, day)
                    => u \in Shown(day, type)
           /\ (\A d \in during : PeerIn(d, u) /\ day \in d.holidays) => u \in Shown(day, "holiday")
<1>1. /\ view.from \in Int /\ view.to \in Int
      /\ PeersFound /\ LeavesFound /\ HolidaysFound
  BY TeamAnswer
<1>2. PICK p \in during : view.peers = Peers(p, view.unit)
  BY <1>1 DEF PeersFound
<1>3. PICK l \in during : view.leaves = Overlapping(l, view.peers, view.from, view.to)
  BY <1>1 DEF LeavesFound
<1>4. PICK h \in during :
         view.holidays = {d \in h.holidays : view.peers # {} /\ d \in view.from..view.to}
  BY <1>1 DEF HolidaysFound
<1>5. u \in view.peers <=> PeerIn(p, u)
  BY <1>2 DEF Peers, PeerIn
<1>6. \A title : u \in Shown(day, title) <=> \E b \in TeamStatus(view)[day] : b.title = title /\ u \in b.users
  BY DEF Shown
<1>7. ASSUME NEW type \in LeaveTypes
      PROVE  u \in Shown(day, type)
             <=> /\ PeerIn(p, u)
                 /\ \E r \in Requests : r.user = u /\ r.type = type /\ ApprovedOn(l, r, day)
  <2>1. u \in Shown(day, type)
        <=> /\ u \in view.peers
            /\ \E r \in view.leaves : r.type = type /\ day \in ClampedDays(view, r) /\ r.user = u
    BY <1>6, ShownOnLeave
  <2>2. ASSUME NEW r, u \in view.peers
        PROVE  r \in view.leaves /\ r.type = type /\ day \in ClampedDays(view, r) /\ r.user = u
               <=> r \in Requests /\ r.user = u /\ r.type = type /\ ApprovedOn(l, r, day)
    <3>1. r \in view.leaves <=> /\ r \in Requests /\ r.user \in view.peers
                               /\ l.status[r] = "APPROVED"
                               /\ r.from <= view.to /\ view.from <= r.to
      BY <1>3 DEF Overlapping, Of
    <3>2. CASE r \notin Requests
      BY <3>1, <3>2
    <3>3. CASE r \in Requests
      <4>1. day \in ClampedDays(view, r) <=> r.from <= day /\ day <= r.to
        BY <1>1, <3>3, DaysInTheWindow
      <4>2. r.from <= day /\ day <= r.to => r.from <= view.to /\ view.from <= r.to
        BY <1>1, <3>3, RequestType
      <4>. QED
        BY <2>2, <3>1, <3>3, <4>1, <4>2 DEF ApprovedOn
    <3>. QED
      BY <3>2, <3>3
  <2>. QED
    BY <1>5, <2>1, <2>2
<1>8. ASSUME \A d \in during : PeerIn(d, u) /\ day \in d.holidays
      PROVE  u \in Shown(day, "holiday")
  <2>1. u \in view.peers
    BY <1>5, <1>8
  <2>2. day \in view.holidays
    BY <1>4, <1>8, <2>1
  <2>. QED
    BY <1>6, <2>1, <2>2, ShownOnHoliday
<1>9. ASSUME NEW type \in LeaveTypes, u \in Shown(day, type)
      PROVE  /\ \E d \in during : PeerIn(d, u)
             /\ \E d \in during : \E r \in {q \in Requests : q.user = u /\ q.type = type} :
                   ApprovedOn(d, r, day)
  BY <1>7, <1>9
<1>10. ASSUME NEW type \in LeaveTypes, \A d \in during : PeerIn(d, u),
              \E r \in {q \in Requests : q.user = u /\ q.type = type} :
                 \A d \in during : ApprovedOn(d, r, day)
       PROVE  u \in Shown(day, type)
  BY <1>7, <1>10
<1>. QED
  BY <1>8, <1>9, <1>10

LEMMA PersonTimeline ==
    ASSUME ServedInv, Answered("upcoming"), NEW r \in Requests
    PROVE  LET entry == [kind |-> "leave", date |-> r.from, request |-> r] IN
           /\ entry \in Timeline(view) =>
                 \E d \in during : r.user = view.target /\ r.to >= Today /\ ApprovedOn(d, r, r.from)
           /\ /\ r.user = view.target /\ r.from >= Today
              /\ \A d \in during : ApprovedOn(d, r, r.from)
              => entry \in Timeline(view)
<1>1. view.kind = "upcoming" /\ view.code = 200
  BY DEF Answered
<1>2. view.todo = << >>
  BY <1>1 DEF ServedInv, TypeInv, TypeOK
<1>3. PICK d \in during : view.coming = Coming(d, view.target)
  BY <1>1, <1>2 DEF ServedInv, TimelineInv, ComingFound
<1>4. r \in view.coming
      <=> r.user = view.target /\ d.status[r] = "APPROVED" /\ r.from >= Today
  BY <1>3 DEF Coming, Of
<1>5. PICK entry : entry = [kind |-> "leave", date |-> r.from, request |-> r]
  OBVIOUS
<1>6. entry \in Timeline(view) <=> r \in view.coming
  <2>1. \A day : entry # [kind |-> "holiday", date |-> day]
    BY <1>5
  <2>2. \A q : entry = [kind |-> "leave", date |-> q.from, request |-> q] => q = r
    BY <1>5
  <2>. QED
    BY <1>5, <2>1, <2>2 DEF Timeline
<1>7. Today \in Int
  BY LeaveViewsAssumption DEF Year
<1>8. r.from \in Int /\ r.to \in Int /\ r.from <= r.to
  BY RequestType
<1>9. r \in view.coming => r.to >= Today /\ ApprovedOn(d, r, r.from)
  BY <1>4, <1>7, <1>8 DEF ApprovedOn
<1>10. (\A e \in during : ApprovedOn(e, r, r.from)) => d.status[r] = "APPROVED"
  BY DEF ApprovedOn
<1>. QED
  BY <1>4, <1>5, <1>6, <1>9, <1>10

\* However the tables are written while it is answered, a calendar shows every
\* absence that was there throughout, and none that never was.
THEOREM CalendarsAlwaysHoldEveryAbsence == Spec => []CalendarsHoldEveryAbsence
<1>1. ServedInv => CalendarsHoldEveryAbsence
  <2>. SUFFICES ASSUME ServedInv PROVE CalendarsHoldEveryAbsence
    OBVIOUS
  <2>1. DOMAIN TeamStatus(view) = view.from..view.to
    BY DEF TeamStatus
  <2>. QED
    BY <2>1, TeamCalendar, PersonTimeline, Zenon DEF CalendarsHoldEveryAbsence
<1>. QED
  BY <1>1, ServedInvariant, PTL

-----------------------------------------------------------------------------
(* The report on a unit.                                                   *)

LEMMA AnalysisAnswer ==
    ASSUME ServedInv, Answered("analysis")
    PROVE  /\ RawFound
           /\ \/ /\ view.raw # {} /\ "reply" \in DOMAIN view
                 /\ view.reply \in Replies /\ view.shares \in Normalised(view.reply)
              \/ /\ view.raw = {} /\ "reply" \notin DOMAIN view
                 /\ view.shares = EmptyShares
<1>1. view.kind = "analysis" /\ view.code = 200
  BY DEF Answered
<1>2. view.todo = << >>
  BY <1>1 DEF ServedInv, TypeInv, TypeOK
<1>. QED
  BY <1>1, <1>2 DEF ServedInv, AnalysisInv

\* The requests of the report.
LEMMA RawIsOfTheUnit ==
    ASSUME ServedInv, RawFound, NEW r \in Requests
    PROVE  /\ r \in view.raw => \E d \in during : d.users[r.user].unit = view.unit
           /\ /\ r.created >= Today - WindowDays
              /\ \A d \in during : d.status[r] # "NONE" /\ d.users[r.user].live
                                                       /\ d.users[r.user].unit = view.unit
              => r \in view.raw
<1>1. PICK before \in during, after \in during :
         view.raw = RawOf(after, MembersOf(before, view.unit))
  BY DEF RawFound
<1>2. r.user \in Users
  BY RequestType
<1>3. after.status[r] \in Statuses
  <2>1. IsDatabase(after)
    BY DEF ServedInv, TypeInv, TypeOK
  <2>2. after.status \in [Requests -> Statuses]
    BY <2>1 DEF IsDatabase
  <2>. QED
    BY <2>2
<1>4. r \in view.raw <=> /\ Live(before.users, r.user) /\ before.users[r.user].unit = view.unit
                         /\ after.status[r] \in Statuses \ {"NONE"}
                         /\ r.created >= Today - WindowDays
  BY <1>1, <1>2 DEF RawOf, MembersOf, Of
<1>5. r \in view.raw => before.users[r.user].unit = view.unit
  BY <1>4
<1>6. ASSUME r.created >= Today - WindowDays,
             \A d \in during : d.status[r] # "NONE" /\ d.users[r.user].live
                                                  /\ d.users[r.user].unit = view.unit
      PROVE  r \in view.raw
  <2>1. Live(before.users, r.user) /\ before.users[r.user].unit = view.unit
    BY <1>2, <1>6, Zenon DEF Live
  <2>2. after.status[r] # "NONE"
    BY <1>6
  <2>. QED
    BY <1>3, <1>4, <1>6, <2>1, <2>2
<1>. QED
  BY <1>5, <1>6

\* What the code makes of a share that reads as a number.
LEMMA ScaledShare ==
    ASSUME NEW share \in Share, NEW total \in Share, Positive(total), NEW p \in Scaled(share, total)
    PROVE  /\ ~ReadsAsNumber(share) => p = NaN
           /\ ReadsAsNumber(share) =>
                 \E n \in Int : /\ p = Number(n * Grain) /\ p # NaN
                                /\ 2 * n * total.value - 200 * share.value <= total.value
                                /\ -total.value <= 2 * n * total.value - 200 * share.value
<1>1. total.value \in Nat \ {0} /\ share.value \in Int
  BY DEF Positive, Share
<1>2. ASSUME ReadsAsNumber(share)
      PROVE  \E n \in Int : /\ p = Number(n * Grain) /\ p # NaN
                            /\ 2 * n * total.value - 200 * share.value <= total.value
                            /\ -total.value <= 2 * n * total.value - 200 * share.value
  <2>1. PICK n \in Rounded(share.value, total.value) : p = Number(n * Grain)
    BY <1>2 DEF Scaled
  <2>2. PICK below \in Int : below = (100 * share.value) \div total.value
    BY <1>1
  <2>3. /\ n \in {below, below + 1}
        /\ 2 * n * total.value - 200 * share.value \in (-total.value)..total.value
    BY <2>1, <2>2, Zenon DEF Rounded
  <2>4. n \in Int
    BY <2>2, <2>3
  <2>5. 2 * n * total.value - 200 * share.value \in Int
    BY <1>1, <2>4
  <2>6. p # NaN
    BY <2>1 DEF Number, NaN
  <2>. QED
    BY <1>1, <2>1, <2>3, <2>4, <2>5, <2>6
<1>3. ~ReadsAsNumber(share) => p = NaN
  BY DEF Scaled
<1>. QED
  BY <1>2, <1>3

LEMMA TotalIsAShare ==
    ASSUME NEW reply \in Reply
    PROVE  Total(reply) \in Share
<1>1. Sum(reply) \in Int
  BY DEF Sum, Reply, Share
<1>. QED
  BY <1>1 DEF Total, Reply, Share, Number

\* What is reported is what was given, or two shares scaled to a hundred and the
\* rest of it.
LEMMA SharesOfAReply ==
    ASSUME NEW reply \in Reply, NEW shares \in Normalised(reply), NEW total, total = Total(reply),
           Positive(total)
    PROVE  \/ shares = Given(reply) /\ Close(total)
           \/ \E p \in Scaled(reply.positive, total), q \in Scaled(reply.neutral, total) :
                 shares = [positive |-> p, neutral |-> q, negative |-> Remainder(p, q)]
  BY DEF Normalised

\* A bound on a distance, in parts of a percent.
LEMMA Scaling ==
    ASSUME NEW t \in Nat, NEW d \in Int, NEW g \in Nat, -t <= d, d <= t
    PROVE  -(t * g) <= d * g /\ d * g <= t * g
<1>1. t - d \in Nat /\ t + d \in Nat
  OBVIOUS
<1>2. (t - d) * g \in Nat /\ (t + d) * g \in Nat
  BY <1>1
<1>3. (t - d) * g = t * g - d * g /\ (t + d) * g = t * g + d * g
  OBVIOUS
<1>4. t * g \in Int /\ d * g \in Int
  OBVIOUS
<1>. QED
  BY <1>2, <1>3, <1>4

\* The first two of the shares read as numbers: numbers are reported, within a
\* hundredth of the answer.
LEMMA SharesAddUp ==
    ASSUME NEW reply \in Reply, NEW shares, NEW total, total = Total(reply), Positive(total),
           NEW p \in Scaled(reply.positive, total), NEW q \in Scaled(reply.neutral, total),
           shares = [positive |-> p, neutral |-> q, negative |-> Remainder(p, q)],
           ReadsAsNumber(reply.positive), ReadsAsNumber(reply.neutral)
    PROVE  /\ \A key \in Keys : shares[key].kind = "number"
           /\ Sum(shares) = 100 * Grain
           /\ (\A key \in Keys : reply[key].kind = "number") =>
                 /\ 2 * Size(shares.positive.value * total.value - 100 * Grain * reply.positive.value)
                       <= total.value * Grain
                 /\ 2 * Size(shares.neutral.value * total.value - 100 * Grain * reply.neutral.value)
                       <= total.value * Grain
                 /\ Size(shares.negative.value * total.value - 100 * Grain * reply.negative.value)
                       <= total.value * Grain
<1>1. /\ reply.positive \in Share /\ reply.neutral \in Share /\ reply.negative \in Share
      /\ total \in Share /\ Grain \in Nat \ {0}
  BY TotalIsAShare, AnalysisAssumption DEF Reply
<1>2. PICK a \in Int, b \in Int, c \in Int, t \in Int :
         /\ reply.positive.value = a /\ reply.neutral.value = b /\ reply.negative.value = c
         /\ total.value = t /\ t > 0
  BY <1>1 DEF Share, Positive
<1>3. PICK m \in Int : /\ p = Number(m * Grain) /\ p # NaN
                       /\ 2 * m * t - 200 * a <= t /\ -t <= 2 * m * t - 200 * a
  BY <1>1, <1>2, ScaledShare
<1>4. PICK n \in Int : /\ q = Number(n * Grain) /\ q # NaN
                       /\ 2 * n * t - 200 * b <= t /\ -t <= 2 * n * t - 200 * b
  BY <1>1, <1>2, ScaledShare
<1>5. PICK x \in Int, y \in Int : x = m * Grain /\ y = n * Grain
  BY <1>1, <1>3, <1>4
<1>6. /\ shares.positive = [kind |-> "number", value |-> x]
      /\ shares.neutral = [kind |-> "number", value |-> y]
      /\ shares.negative = [kind |-> "number", value |-> 100 * Grain - x - y]
  BY <1>3, <1>4, <1>5 DEF Remainder, Number
<1>7. \A key \in Keys : shares[key].kind = "number"
  BY <1>6 DEF Keys
<1>8. Sum(shares) = 100 * Grain
  BY <1>1, <1>5, <1>6 DEF Sum
<1>9. ASSUME \A key \in Keys : reply[key].kind = "number"
      PROVE  /\ 2 * Size(x * t - 100 * Grain * a) <= t * Grain
             /\ 2 * Size(y * t - 100 * Grain * b) <= t * Grain
             /\ Size((100 * Grain - x - y) * t - 100 * Grain * c) <= t * Grain
  <2>1. t = a + b + c
    <3>1. ~Joins(reply)
      BY <1>9 DEF Joins, Keys
    <3>. QED
      BY <1>2, <3>1 DEF Total, Number, Sum
  <2>2. PICK g \in Nat : g = Grain
    BY <1>1
  <2>3. PICK d \in Int, e \in Int : d = 2 * m * t - 200 * a /\ e = 2 * n * t - 200 * b
    BY <1>2, <1>3, <1>4
  <2>4. -t <= d /\ d <= t /\ -t <= e /\ e <= t
    BY <1>3, <1>4, <2>3
  <2>5. /\ -(t * g) <= d * g /\ d * g <= t * g
        /\ -(t * g) <= e * g /\ e * g <= t * g
    BY <1>2, <2>2, <2>3, <2>4, Scaling
  <2>6. PICK k \in Int, i \in Int, j \in Int : k = t * g /\ i = d * g /\ j = e * g
    BY <1>2, <2>2, <2>3
  <2>7. 2 * (x * t - 100 * g * a) = i
    BY <1>2, <1>3, <1>5, <2>2, <2>3, <2>6
  <2>8. 2 * (y * t - 100 * g * b) = j
    BY <1>2, <1>4, <1>5, <2>2, <2>3, <2>6
  <2>9. (100 * g - x - y) * t - 100 * g * c = -(x * t - 100 * g * a) - (y * t - 100 * g * b)
    BY <1>2, <1>5, <2>1, <2>2
  <2>10. PICK v \in Int, w \in Int : v = x * t - 100 * g * a /\ w = y * t - 100 * g * b
    BY <1>2, <1>5, <2>2
  <2>11. /\ 2 * Size(v) <= k /\ 2 * Size(w) <= k /\ Size(-v - w) <= k
    BY <2>5, <2>6, <2>7, <2>8, <2>10 DEF Size
  <2>. QED
    BY <2>2, <2>6, <2>9, <2>10, <2>11
<1>. QED
  BY <1>2, <1>6, <1>7, <1>8, <1>9

\* A report that is answered with is about the requests of the unit, and its
\* shares are those of the reply of the model, or of the empty report.
THEOREM ReportAlwaysIsOfTheUnit == Spec => []ReportIsOfTheUnit
<1>1. ServedInv => ReportIsOfTheUnit
  <2>. SUFFICES ASSUME ServedInv, Answered("analysis")
                PROVE  ReportIsOfTheUnit
    BY Zenon DEF ReportIsOfTheUnit
  <2>1. RawFound
    BY AnalysisAnswer
  <2>2. view.raw \subseteq Requests
    BY <2>1 DEF RawFound, RawOf, Of
  <2>3. \A r \in view.raw : \E d \in during : d.users[r.user].unit = view.unit
    BY <2>1, <2>2, RawIsOfTheUnit
  <2>4. \A r \in Requests :
           /\ r.created >= Today - WindowDays
           /\ \A d \in during : d.status[r] # "NONE" /\ d.users[r.user].live
                                                    /\ d.users[r.user].unit = view.unit
           => r \in view.raw
    BY <2>1, RawIsOfTheUnit
  <2>5. view.raw = {} <=> view.shares = EmptyShares /\ "reply" \notin DOMAIN view
    BY AnalysisAnswer, Zenon
  <2>6. ASSUME view.raw # {}, NEW reply, reply = view.reply, NEW total, total = Total(reply), Positive(total)
        PROVE  /\ (\A key \in Keys \ {"negative"} : ReadsAsNumber(reply[key])) =>
                     \/ view.shares = Given(reply) /\ Close(total)
                     \/ /\ \A key \in Keys : view.shares[key].kind = "number"
                        /\ Sum(view.shares) = 100 * Grain
               /\ ~Close(total) /\ (\A key \in Keys : reply[key].kind = "number") =>
                     /\ 2 * Size(view.shares["positive"].value * total.value - 100 * Grain * reply["positive"].value)
                           <= total.value * Grain
                     /\ 2 * Size(view.shares["neutral"].value * total.value - 100 * Grain * reply["neutral"].value)
                           <= total.value * Grain
                     /\ Size(view.shares["negative"].value * total.value - 100 * Grain * reply["negative"].value)
                           <= total.value * Grain
    <3>1. PICK shares : shares = view.shares
      OBVIOUS
    <3>2. reply \in Reply /\ shares \in Normalised(reply)
      BY <2>6, <3>1, AnalysisAnswer, AnalysisAssumption
    <3>3. CASE shares = Given(reply) /\ Close(total)
      BY <3>1, <3>3
    <3>4. ASSUME NEW p \in Scaled(reply.positive, total), NEW q \in Scaled(reply.neutral, total),
                 shares = [positive |-> p, neutral |-> q, negative |-> Remainder(p, q)],
                 \A key \in Keys \ {"negative"} : ReadsAsNumber(reply[key])
          PROVE  /\ \A key \in Keys : shares[key].kind = "number"
                 /\ Sum(shares) = 100 * Grain
                 /\ (\A key \in Keys : reply[key].kind = "number") =>
                       /\ 2 * Size(shares.positive.value * total.value - 100 * Grain * reply.positive.value)
                             <= total.value * Grain
                       /\ 2 * Size(shares.neutral.value * total.value - 100 * Grain * reply.neutral.value)
                             <= total.value * Grain
                       /\ Size(shares.negative.value * total.value - 100 * Grain * reply.negative.value)
                             <= total.value * Grain
      <4>1. ReadsAsNumber(reply.positive) /\ ReadsAsNumber(reply.neutral)
        BY <3>4 DEF Keys
      <4>. QED
        BY <2>6, <3>2, <3>4, <4>1, SharesAddUp
    <3>5. (\A key \in Keys : reply[key].kind = "number") =>
             \A key \in Keys \ {"negative"} : ReadsAsNumber(reply[key])
      BY DEF Keys, ReadsAsNumber
    <3>6. \/ shares = Given(reply) /\ Close(total)
          \/ \E p \in Scaled(reply.positive, total), q \in Scaled(reply.neutral, total) :
                shares = [positive |-> p, neutral |-> q, negative |-> Remainder(p, q)]
      BY <2>6, <3>2, SharesOfAReply
    <3>. QED
      BY <3>1, <3>3, <3>4, <3>5, <3>6
  <2>. QED
    BY <2>3, <2>4, <2>5, <2>6, Zenon DEF ReportIsOfTheUnit
<1>. QED
  BY <1>1, ServedInvariant, PTL

-----------------------------------------------------------------------------
(* The views that look up rows of one person.                              *)

\* What these views ask for.
Asks == [common  |-> {"person", "balances", "pending"},
         leaves  |-> {"balances", "pending", "active"},
         pattern |-> {"balances", "approved"},
         status  |-> {"latest"},
         chart   |-> {"row", "managerId", "page", "count", "manager", "reports"},
         lens    |-> {"row", "count", "tree"},
         profile |-> {"row", "managerId", "manager"},
         details |-> {"row", "count", "page", "reports"}]

\* What is yet to be asked.
Left(todo) == UNION {todo[i] : i \in 1..Len(todo)}

Precedes(todo, p, q) ==
    \A i \in 1..Len(todo) : p \in todo[i] => \E j \in 1..Len(todo) : i < j /\ q \in todo[j]

\* No query is asked twice, and none before the one whose answer it needs.
Staged(todo) ==
    /\ \A i, j \in 1..Len(todo) : i # j => todo[i] \cap todo[j] = {}
    /\ Precedes(todo, "page", "reports")
    /\ Precedes(todo, "managerId", "manager")

\* What a query of a view has found is what the tables held.
AsOf(d, v, query) ==
    /\ query = "balances" => v.balances = d.balances[v.target]
    /\ query = "pending" => v.pending = Pending(d, v.target)
    /\ query = "active" => v.active = Active(d, v.target)
    /\ query = "latest" => v.latest \in Latest(d, v.target)
    /\ query = "approved" => v.approved = Overlapping(d, {v.target}, Min(Year), Max(Year))
    /\ query = "managerId" => v.managerId = d.users[v.target].manager
    /\ query = "count" => v.count = Cardinality(Reports(d.users, v.target))
    /\ query = "tree" => v.tree = TeamSize(d.users, v.target)
    /\ query = "page" => v.page = Page(d.users, v.target, v.skip, v.take)
    /\ query = "reports" => "page" \in DOMAIN v /\ v.reports = Hydrated(d.users, v.page)
    /\ query = "manager" => "managerId" \in DOMAIN v /\ v.manager = Hydrated(d.users, {v.managerId})

LookInv ==
    view.kind \in DOMAIN Asks /\ view.code \in {0, 200} =>
        /\ view.target \in Users /\ view.skip \in Nat /\ view.take \in Nat
        /\ view.todo \in Seq(SUBSET Asks[view.kind]) /\ Staged(view.todo)
        /\ DOMAIN view = Base \cup (Asks[view.kind] \ Left(view.todo))
        /\ \A query \in DOMAIN view : \E d \in during : AsOf(d, view, query)

\* The stages after a query: that of the query is over, or the others are left in it.
Moved(after, todo, q) ==
    \E shift \in {0, 1} :
        /\ Len(after) = Len(todo) - shift
        /\ shift = 1 => todo[1] = {q}
        /\ \A i \in 1..Len(after) : after[i] = todo[i + shift] \ {q}

\* A query takes its name out of the stages.
LEMMA StagesMove ==
    ASSUME NEW Q, NEW todo \in Seq(SUBSET Q), todo # << >>, Staged(todo), NEW q \in Head(todo)
    PROVE  /\ StagesAfter(todo, q) \in Seq(SUBSET Q)
           /\ Moved(StagesAfter(todo, q), todo, q)
<1>. DEFINE left == Head(todo) \ {q}
            after == StagesAfter(todo, q)
<1>1. /\ Head(todo) = todo[1] /\ Len(todo) \in Nat \ {0} /\ todo[1] \in SUBSET Q
      /\ Tail(todo) \in Seq(SUBSET Q) /\ Len(Tail(todo)) = Len(todo) - 1
      /\ \A i \in 1..Len(Tail(todo)) : Tail(todo)[i] = todo[i + 1]
  OBVIOUS
<1>2. \A i \in 2..Len(todo) : q \notin todo[i]
  BY <1>1 DEF Staged
<1>3. CASE left = {}
  <2>1. after = Tail(todo)
    BY <1>3, Zenon DEF StagesAfter
  <2>2. todo[1] = {q}
    BY <1>1, <1>3
  <2>3. \A i \in 1..Len(Tail(todo)) : Tail(todo)[i] = todo[i + 1] \ {q}
    BY <1>1, <1>2
  <2>4. Moved(Tail(todo), todo, q)
    BY <1>1, <2>2, <2>3 DEF Moved
  <2>. QED
    BY <1>1, <2>1, <2>4, Zenon
<1>4. CASE left # {}
  <2>1. after = <<left>> \o Tail(todo)
    BY <1>4, Zenon DEF StagesAfter
  <2>2. left \in SUBSET Q
    BY <1>1
  <2>. HIDE DEF left
  <2>3. PICK first : first = <<left>>
    OBVIOUS
  <2>4. PICK rest : rest = Tail(todo)
    OBVIOUS
  <2>5. first \in Seq(SUBSET Q) /\ Len(first) = 1 /\ first[1] = left
    BY <2>2, <2>3
  <2>6. /\ rest \in Seq(SUBSET Q) /\ Len(rest) = Len(todo) - 1
        /\ \A i \in 1..Len(rest) : rest[i] = todo[i + 1]
    BY <1>1, <2>4
  <2>7. PICK whole : whole = first \o rest
    OBVIOUS
  <2>8. after = whole
    BY <2>1, <2>3, <2>4, <2>7, Zenon
  <2>. HIDE DEF after
  <2>9. /\ first \o rest \in Seq(SUBSET Q)
        /\ Len(first \o rest) = Len(first) + Len(rest)
        /\ \A i \in 1..Len(first) + Len(rest) :
              (first \o rest)[i] = IF i <= Len(first) THEN first[i] ELSE rest[i - Len(first)]
    <3>1. first \in Seq(SUBSET Q) /\ rest \in Seq(SUBSET Q)
      BY <2>5, <2>6
    <3>. QED
      BY <3>1, ConcatProperties, Zenon
  <2>10. /\ whole \in Seq(SUBSET Q) /\ Len(whole) = 1 + Len(rest)
         /\ \A i \in 1..1 + Len(rest) :
               whole[i] = IF i <= 1 THEN first[i] ELSE rest[i - 1]
    <3>1. /\ whole \in Seq(SUBSET Q) /\ Len(whole) = Len(first) + Len(rest)
          /\ \A i \in 1..Len(first) + Len(rest) :
                whole[i] = IF i <= Len(first) THEN first[i] ELSE rest[i - Len(first)]
      BY <2>7, <2>9, Zenon
    <3>. QED
      BY <2>5, <3>1, Zenon
  <2>11. whole[1] = left /\ Len(whole) = Len(todo)
    <3>1. Len(rest) = Len(todo) - 1 /\ Len(todo) \in Nat \ {0}
      BY <1>1, <2>6
    <3>2. 1 \in 1..1 + Len(rest) /\ 1 + Len(rest) = Len(todo) /\ 1 <= 1
      BY <3>1
    <3>. QED
      BY <2>5, <2>10, <3>2, Zenon
  <2>12. ASSUME NEW i \in 2..Len(todo)
         PROVE  whole[i] = todo[i]
    <3>1. i \in 1..1 + Len(rest) /\ ~(i <= 1) /\ i - 1 \in 1..Len(rest) /\ (i - 1) + 1 = i
      BY <1>1, <2>6
    <3>. QED
      BY <2>6, <2>10, <3>1
  <2>13. after \in Seq(SUBSET Q) /\ Len(after) = Len(todo)
    BY <2>8, <2>10, <2>11
  <2>14. after[1] = left /\ \A i \in 2..Len(todo) : after[i] = todo[i]
    BY <2>8, <2>11, <2>12
  <2>15. \A i \in 1..Len(after) : after[i] = todo[i] \ {q}
    BY <1>1, <1>2, <2>13, <2>14 DEF left
  <2>16. \A i \in 1..Len(after) : after[i + 0] = todo[i + 0] \ {q} /\ i + 0 = i
    BY <2>15
  <2>17. Len(after) = Len(todo) - 0
    BY <1>1, <2>13
  <2>18. Moved(after, todo, q)
    BY <2>16, <2>17 DEF Moved
  <2>. QED
    BY <2>13, <2>18 DEF after
<1>. QED
  BY <1>3, <1>4

LEMMA PrecedesStill ==
    ASSUME NEW Q, NEW todo \in Seq(SUBSET Q), NEW after \in Seq(SUBSET Q), NEW q, q \in todo[1],
           Len(todo) # 0,
           \A i, j \in 1..Len(todo) : i # j => todo[i] \cap todo[j] = {},
           NEW shift \in {0, 1}, Len(after) = Len(todo) - shift,
           \A i \in 1..Len(after) : after[i] = todo[i + shift] \ {q},
           NEW p, NEW s, Precedes(todo, p, s)
    PROVE  Precedes(after, p, s)
<1>. SUFFICES ASSUME NEW i \in 1..Len(after), p \in after[i]
     PROVE  \E j \in 1..Len(after) : i < j /\ s \in after[j]
  BY DEF Precedes
<1>1. i + shift \in 1..Len(todo) /\ p \in todo[i + shift]
  OBVIOUS
<1>2. PICK j \in 1..Len(todo) : i + shift < j /\ s \in todo[j]
  BY <1>1 DEF Precedes
<1>3. s # q
  <2>1. 1 \in 1..Len(todo) /\ j # 1
    BY <1>2
  <2>2. todo[1] \cap todo[j] = {}
    BY <2>1
  <2>. QED
    BY <1>2, <2>2
<1>4. j - shift \in 1..Len(after) /\ i < j - shift /\ (j - shift) + shift = j
  BY <1>2
<1>5. s \in after[j - shift]
  BY <1>2, <1>3, <1>4
<1>. QED
  BY <1>4, <1>5

LEMMA StagedStill ==
    ASSUME NEW Q, NEW todo \in Seq(SUBSET Q), todo # << >>, Staged(todo), NEW q \in Head(todo)
    PROVE  /\ StagesAfter(todo, q) \in Seq(SUBSET Q)
           /\ Staged(StagesAfter(todo, q))
           /\ q \in Left(todo)
           /\ Left(StagesAfter(todo, q)) = Left(todo) \ {q}
<1>1. PICK after \in Seq(SUBSET Q) : after = StagesAfter(todo, q)
  BY StagesMove
<1>2. PICK shift \in {0, 1} :
         /\ Len(after) = Len(todo) - shift
         /\ shift = 1 => todo[1] = {q}
         /\ \A i \in 1..Len(after) : after[i] = todo[i + shift] \ {q}
  <2>1. Moved(after, todo, q)
    BY <1>1, StagesMove
  <2>. QED
    BY <2>1, Zenon DEF Moved
<1>3. Head(todo) = todo[1] /\ Len(todo) \in Nat /\ Len(todo) # 0 /\ q \in todo[1] /\ Len(after) \in Nat
  OBVIOUS
<1>4. \A i, j \in 1..Len(todo) : i # j => todo[i] \cap todo[j] = {}
  BY DEF Staged
<1>5. \A i, j \in 1..Len(after) : i # j => after[i] \cap after[j] = {}
  <2>. SUFFICES ASSUME NEW i \in 1..Len(after), NEW j \in 1..Len(after), i # j
       PROVE  after[i] \cap after[j] = {}
    OBVIOUS
  <2>1. i + shift \in 1..Len(todo) /\ j + shift \in 1..Len(todo) /\ i + shift # j + shift
    BY <1>2, <1>3
  <2>2. todo[i + shift] \cap todo[j + shift] = {}
    BY <1>4, <2>1
  <2>. QED
    BY <1>2, <2>2
<1>6. Precedes(after, "page", "reports") /\ Precedes(after, "managerId", "manager")
  BY <1>2, <1>3, <1>4, PrecedesStill DEF Staged
<1>7. q \in Left(todo)
  BY <1>3 DEF Left
<1>8. ASSUME NEW x \in Left(after) PROVE x \in Left(todo) /\ x # q
  <2>1. PICK i \in 1..Len(after) : x \in after[i]
    BY <1>8 DEF Left
  <2>2. i + shift \in 1..Len(todo)
    BY <1>2, <1>3
  <2>3. x \in todo[i + shift] /\ x # q
    BY <1>2, <2>1
  <2>. QED
    BY <2>2, <2>3 DEF Left
<1>9. ASSUME NEW x \in Left(todo), x # q PROVE x \in Left(after)
  <2>1. PICK j \in 1..Len(todo) : x \in todo[j]
    BY <1>9 DEF Left
  <2>2. ~(shift = 1 /\ j = 1)
    BY <1>2, <1>9, <2>1
  <2>3. j - shift \in 1..Len(after) /\ (j - shift) + shift = j
    BY <1>2, <1>3, <2>2
  <2>4. x \in after[j - shift]
    BY <1>2, <1>9, <2>1, <2>3
  <2>. QED
    BY <2>3, <2>4 DEF Left
<1>10. Left(after) = Left(todo) \ {q}
  BY <1>8, <1>9
<1>. QED
  BY <1>1, <1>5, <1>6, <1>7, <1>10 DEF Staged

LEMMA AsOfStays ==
    ASSUME NEW d, NEW v, NEW w, NEW changed, SameBut(v, w, changed),
           changed \cap DOMAIN v \subseteq {"todo", "code"},
           {"target", "skip", "take"} \subseteq DOMAIN v, DOMAIN v \subseteq DOMAIN w,
           NEW query \in DOMAIN v, AsOf(d, v, query)
    PROVE  AsOf(d, w, query)
<1>1. w.target = v.target /\ w.skip = v.skip /\ w.take = v.take
  BY DEF SameBut
<1>2. /\ "page" \in DOMAIN v => "page" \in DOMAIN w /\ w.page = v.page
      /\ "managerId" \in DOMAIN v => "managerId" \in DOMAIN w /\ w.managerId = v.managerId
  BY DEF SameBut
<1>3. query \notin {"todo", "code"} => w[query] = v[query]
  BY DEF SameBut
<1>4. /\ query = "balances" => w.balances = d.balances[w.target]
      /\ query = "pending" => w.pending = Pending(d, w.target)
      /\ query = "active" => w.active = Active(d, w.target)
      /\ query = "latest" => w.latest \in Latest(d, w.target)
      /\ query = "approved" => w.approved = Overlapping(d, {w.target}, Min(Year), Max(Year))
  BY <1>1, <1>3 DEF AsOf
<1>5. /\ query = "managerId" => w.managerId = d.users[w.target].manager
      /\ query = "count" => w.count = Cardinality(Reports(d.users, w.target))
      /\ query = "tree" => w.tree = TeamSize(d.users, w.target)
      /\ query = "page" => w.page = Page(d.users, w.target, w.skip, w.take)
  BY <1>1, <1>3 DEF AsOf
<1>6. query = "reports" => "page" \in DOMAIN w /\ w.reports = Hydrated(d.users, w.page)
  BY <1>2, <1>3 DEF AsOf
<1>7. query = "manager" => "managerId" \in DOMAIN w /\ w.manager = Hydrated(d.users, {w.managerId})
  BY <1>2, <1>3 DEF AsOf
<1>. QED
  BY <1>4, <1>5, <1>6, <1>7 DEF AsOf

\* What a query needs has been found.
LEMMA NeedsAreFound ==
    ASSUME LookInv, view.kind \in DOMAIN Asks, NEW q, Issued(q)
    PROVE  /\ view.todo # << >> /\ q \in Head(view.todo) /\ q \in Asks[view.kind]
           /\ q \notin Base => q \notin DOMAIN view
           /\ q = "reports" => "page" \in DOMAIN view
           /\ q = "manager" => "managerId" \in DOMAIN view
<1>1. /\ view.code = 0 /\ view.todo # << >> /\ q \in Head(view.todo)
  BY DEF Issued
<1>2. /\ view.todo \in Seq(SUBSET Asks[view.kind]) /\ Staged(view.todo)
      /\ DOMAIN view = Base \cup (Asks[view.kind] \ Left(view.todo))
  BY <1>1 DEF LookInv
<1>3. /\ Head(view.todo) = view.todo[1] /\ Len(view.todo) \in Nat /\ Len(view.todo) # 0
      /\ q \in view.todo[1] /\ q \in Asks[view.kind]
  BY <1>1, <1>2
<1>4. ASSUME NEW p, Precedes(view.todo, p, q), p \in Asks[view.kind]
      PROVE  p \in DOMAIN view
  <2>1. SUFFICES ASSUME p \in Left(view.todo) PROVE FALSE
    BY <1>2, <1>4
  <2>2. PICK i \in 1..Len(view.todo) : p \in view.todo[i]
    BY <2>1 DEF Left
  <2>3. PICK j \in 1..Len(view.todo) : i < j /\ q \in view.todo[j]
    BY <1>4, <2>2 DEF Precedes
  <2>4. 1 \in 1..Len(view.todo) /\ j # 1
    BY <1>3, <2>3
  <2>5. view.todo[1] \cap view.todo[j] = {}
    BY <1>2, <2>4 DEF Staged
  <2>. QED
    BY <1>3, <2>3, <2>5
<1>5. q \in Left(view.todo)
  BY <1>3 DEF Left
<1>6. q = "reports" => "page" \in Asks[view.kind]
  BY <1>3 DEF Asks
<1>7. q = "manager" => "managerId" \in Asks[view.kind]
  BY <1>3 DEF Asks
<1>. QED
  BY <1>1, <1>2, <1>3, <1>4, <1>5, <1>6, <1>7 DEF Staged

LEMMA LearnLooks ==
    ASSUME TypeInv, LookInv, NEW query, query \notin Base, NEW value, Learn(query, value),
           view.kind \in DOMAIN Asks => AsOf(db, view', query)
    PROVE  LookInv'
<1>. SUFFICES ASSUME view'.kind \in DOMAIN Asks
     PROVE  /\ view'.target \in Users /\ view'.skip \in Nat /\ view'.take \in Nat
            /\ view'.todo \in Seq(SUBSET Asks[view'.kind]) /\ Staged(view'.todo)
            /\ DOMAIN view' = Base \cup (Asks[view'.kind] \ Left(view'.todo))
            /\ \A q \in DOMAIN view' : \E d \in during' : AsOf(d, view', q)
  BY DEF LookInv
<1>1. /\ UNCHANGED <<db, changes, during>>
      /\ view.code = 0 /\ view.todo # << >> /\ query \in Head(view.todo)
      /\ DOMAIN view' = {query} \cup DOMAIN view
      /\ view'.todo = StagesAfter(view.todo, query)
      /\ SameBut(view, view', {query, "todo", "code"})
  BY LearnFields
<1>2. Base \subseteq DOMAIN view /\ db \in during
  BY DEF TypeInv
<1>3. /\ view'.kind = view.kind /\ view'.target = view.target
      /\ view'.skip = view.skip /\ view'.take = view.take
  BY <1>1, <1>2 DEF SameBut, Base
<1>4. /\ view.target \in Users /\ view.skip \in Nat /\ view.take \in Nat
      /\ view.todo \in Seq(SUBSET Asks[view.kind]) /\ Staged(view.todo)
      /\ DOMAIN view = Base \cup (Asks[view.kind] \ Left(view.todo))
      /\ \A q \in DOMAIN view : \E d \in during : AsOf(d, view, q)
  BY <1>1, <1>3 DEF LookInv
<1>5. query \in Asks[view.kind] /\ query \notin DOMAIN view
  BY <1>3, NeedsAreFound DEF Learn
<1>6. /\ view'.todo \in Seq(SUBSET Asks[view.kind]) /\ Staged(view'.todo)
      /\ Left(view'.todo) = Left(view.todo) \ {query}
  <2>1. PICK todo : todo = view.todo
    OBVIOUS
  <2>2. PICK asks : asks = Asks[view.kind]
    OBVIOUS
  <2>3. todo \in Seq(SUBSET asks) /\ todo # << >> /\ Staged(todo) /\ query \in Head(todo)
    BY <1>1, <1>4, <2>1, <2>2
  <2>4. /\ StagesAfter(todo, query) \in Seq(SUBSET asks)
        /\ Staged(StagesAfter(todo, query))
        /\ Left(StagesAfter(todo, query)) = Left(todo) \ {query}
    BY <2>3, StagedStill
  <2>. QED
    BY <1>1, <2>1, <2>2, <2>4, Zenon
<1>7. DOMAIN view' = Base \cup (Asks[view'.kind] \ Left(view'.todo))
  <2>1. PICK asks, left : asks = Asks[view.kind] /\ left = Left(view.todo)
    OBVIOUS
  <2>2. {query} \cup (Base \cup (asks \ left)) = Base \cup (asks \ (left \ {query}))
    BY <1>5, <2>1
  <2>. QED
    BY <1>1, <1>3, <1>4, <1>6, <2>1, <2>2, Zenon
<1>8. ASSUME NEW q \in DOMAIN view' PROVE \E d \in during' : AsOf(d, view', q)
  <2>1. during' = during
    BY <1>1
  <2>2. CASE q = query
    BY <1>2, <1>3, <2>1, <2>2
  <2>3. CASE q # query
    <3>1. q \in DOMAIN view
      BY <1>1, <2>3
    <3>2. PICK d \in during : AsOf(d, view, q)
      BY <1>4, <3>1
    <3>3. AsOf(d, view', q)
      <4>1. {query, "todo", "code"} \cap DOMAIN view \subseteq {"todo", "code"}
        BY <1>5
      <4>2. {"target", "skip", "take"} \subseteq DOMAIN view /\ DOMAIN view \subseteq DOMAIN view'
        BY <1>1, <1>2 DEF Base
      <4>. QED
        BY <1>1, <3>1, <3>2, <4>1, <4>2, AsOfStays
    <3>. QED
      BY <2>1, <3>3
  <2>. QED
    BY <2>2, <2>3
<1>. QED
  BY <1>3, <1>4, <1>6, <1>7, <1>8

LEMMA WritesLook ==
    ASSUME LookInv, Writes
    PROVE  LookInv'
<1>1. view' = view /\ during \subseteq during'
  BY DEF Writes
<1>2. CASE view.kind \in DOMAIN Asks /\ view.code \in {0, 200}
  <2>1. \A query \in DOMAIN view : \E d \in during' : AsOf(d, view, query)
    BY <1>1, <1>2 DEF LookInv
  <2>2. \A query \in DOMAIN view' : \E d \in during' : AsOf(d, view', query)
    BY <1>1, <2>1, Zenon
  <2>3. /\ view.target \in Users /\ view.skip \in Nat /\ view.take \in Nat
        /\ view.todo \in Seq(SUBSET Asks[view.kind]) /\ Staged(view.todo)
        /\ DOMAIN view = Base \cup (Asks[view.kind] \ Left(view.todo))
    BY <1>2, Zenon DEF LookInv
  <2>. QED
    BY <1>1, <2>2, <2>3, Zenon DEF LookInv
<1>3. CASE ~(view.kind \in DOMAIN Asks /\ view.code \in {0, 200})
  BY <1>1, <1>3, Zenon DEF LookInv
<1>. QED
  BY <1>2, <1>3

LEMMA StagesOfLooks ==
    ASSUME NEW kind \in DOMAIN Asks
    PROVE  /\ kind \in DOMAIN Stages
           /\ Stages[kind] \in Seq(SUBSET Asks[kind]) /\ Staged(Stages[kind])
           /\ Asks[kind] \subseteq Left(Stages[kind])
<1>1. CASE kind = "common"
  <2>1. PICK todo : todo = <<{"person"}, {"balances"}, {"pending"}>>
    OBVIOUS
  <2>2. Asks[kind] = {"person", "balances", "pending"} /\ Stages[kind] = todo
    BY <1>1, <2>1 DEF Asks, Stages
  <2>3. /\ todo \in Seq(SUBSET {"person", "balances", "pending"}) /\ Len(todo) = 3
        /\ todo[1] = {"person"} /\ todo[2] = {"balances"} /\ todo[3] = {"pending"}
    BY <2>1
  <2>4. Staged(todo)
    BY <2>3 DEF Staged, Precedes
  <2>5. {"person", "balances", "pending"} \subseteq Left(todo)
    BY <2>3 DEF Left
  <2>. QED
    BY <1>1, <2>2, <2>3, <2>4, <2>5 DEF Stages
<1>2. CASE kind = "leaves"
  <2>1. PICK todo : todo = <<{"balances", "pending", "active"}>>
    OBVIOUS
  <2>2. Asks[kind] = {"balances", "pending", "active"} /\ Stages[kind] = todo
    BY <1>2, <2>1 DEF Asks, Stages
  <2>3. /\ todo \in Seq(SUBSET {"balances", "pending", "active"}) /\ Len(todo) = 1
        /\ todo[1] = {"balances", "pending", "active"}
    BY <2>1
  <2>4. Staged(todo)
    BY <2>3 DEF Staged, Precedes
  <2>5. {"balances", "pending", "active"} \subseteq Left(todo)
    BY <2>3 DEF Left
  <2>. QED
    BY <1>2, <2>2, <2>3, <2>4, <2>5 DEF Stages
<1>3. CASE kind = "pattern"
  <2>1. PICK todo : todo = <<{"balances", "approved"}>>
    OBVIOUS
  <2>2. Asks[kind] = {"balances", "approved"} /\ Stages[kind] = todo
    BY <1>3, <2>1 DEF Asks, Stages
  <2>3. /\ todo \in Seq(SUBSET {"balances", "approved"}) /\ Len(todo) = 1
        /\ todo[1] = {"balances", "approved"}
    BY <2>1
  <2>4. Staged(todo)
    BY <2>3 DEF Staged, Precedes
  <2>5. {"balances", "approved"} \subseteq Left(todo)
    BY <2>3 DEF Left
  <2>. QED
    BY <1>3, <2>2, <2>3, <2>4, <2>5 DEF Stages
<1>4. CASE kind = "chart"
  <2>. DEFINE asks == {"row", "managerId", "page", "count", "manager", "reports"}
  <2>1. PICK todo : todo = <<{"row"}, {"managerId"}, {"page", "count"}, {"manager", "reports"}>>
    OBVIOUS
  <2>2. Asks[kind] = asks /\ Stages[kind] = todo
    BY <1>4, <2>1 DEF Asks, Stages
  <2>3. /\ todo \in Seq(SUBSET asks) /\ Len(todo) = 4
        /\ todo[1] = {"row"} /\ todo[2] = {"managerId"}
        /\ todo[3] = {"page", "count"} /\ todo[4] = {"manager", "reports"}
    BY <2>1
  <2>4. Staged(todo)
    <3>1. \A i, j \in 1..Len(todo) : i # j => todo[i] \cap todo[j] = {}
      BY <2>3
    <3>2. Precedes(todo, "page", "reports") /\ Precedes(todo, "managerId", "manager")
      BY <2>3 DEF Precedes
    <3>. QED
      BY <3>1, <3>2 DEF Staged
  <2>5. asks \subseteq Left(todo)
    <3>1. 1 \in 1..Len(todo) /\ 2 \in 1..Len(todo) /\ 3 \in 1..Len(todo) /\ 4 \in 1..Len(todo)
      BY <2>3
    <3>. QED
      BY <2>3, <3>1 DEF Left
  <2>. QED
    BY <1>4, <2>2, <2>3, <2>4, <2>5 DEF Stages
<1>5. CASE kind = "lens"
  <2>1. PICK todo : todo = <<{"row"}, {"count"}, {"tree"}>>
    OBVIOUS
  <2>2. Asks[kind] = {"row", "count", "tree"} /\ Stages[kind] = todo
    BY <1>5, <2>1 DEF Asks, Stages
  <2>3. /\ todo \in Seq(SUBSET {"row", "count", "tree"}) /\ Len(todo) = 3
        /\ todo[1] = {"row"} /\ todo[2] = {"count"} /\ todo[3] = {"tree"}
    BY <2>1
  <2>4. Staged(todo)
    BY <2>3 DEF Staged, Precedes
  <2>5. {"row", "count", "tree"} \subseteq Left(todo)
    BY <2>3 DEF Left
  <2>. QED
    BY <1>5, <2>2, <2>3, <2>4, <2>5 DEF Stages
<1>6. CASE kind = "profile"
  <2>1. PICK todo : todo = <<{"row"}, {"managerId"}, {"manager"}>>
    OBVIOUS
  <2>2. Asks[kind] = {"row", "managerId", "manager"} /\ Stages[kind] = todo
    BY <1>6, <2>1 DEF Asks, Stages
  <2>3. /\ todo \in Seq(SUBSET {"row", "managerId", "manager"}) /\ Len(todo) = 3
        /\ todo[1] = {"row"} /\ todo[2] = {"managerId"} /\ todo[3] = {"manager"}
    BY <2>1
  <2>4. Staged(todo)
    BY <2>3 DEF Staged, Precedes
  <2>5. {"row", "managerId", "manager"} \subseteq Left(todo)
    BY <2>3 DEF Left
  <2>. QED
    BY <1>6, <2>2, <2>3, <2>4, <2>5 DEF Stages
<1>7. CASE kind = "details"
  <2>. DEFINE asks == {"row", "count", "page", "reports"}
  <2>1. PICK todo : todo = <<{"row"}, {"count"}, {"page"}, {"reports"}>>
    OBVIOUS
  <2>2. Asks[kind] = asks /\ Stages[kind] = todo
    BY <1>7, <2>1 DEF Asks, Stages
  <2>3. /\ todo \in Seq(SUBSET asks) /\ Len(todo) = 4
        /\ todo[1] = {"row"} /\ todo[2] = {"count"} /\ todo[3] = {"page"} /\ todo[4] = {"reports"}
    BY <2>1
  <2>4. Staged(todo)
    BY <2>3 DEF Staged, Precedes
  <2>5. asks \subseteq Left(todo)
    <3>1. 1 \in 1..Len(todo) /\ 2 \in 1..Len(todo) /\ 3 \in 1..Len(todo) /\ 4 \in 1..Len(todo)
      BY <2>3
    <3>. QED
      BY <2>3, <3>1 DEF Left
  <2>. QED
    BY <1>7, <2>2, <2>3, <2>4, <2>5 DEF Stages
<1>8. CASE kind = "status"
  <2>1. PICK todo : todo = <<{"latest"}>>
    OBVIOUS
  <2>2. Asks[kind] = {"latest"} /\ Stages[kind] = todo
    BY <1>8, <2>1 DEF Asks, Stages
  <2>3. todo \in Seq(SUBSET {"latest"}) /\ Len(todo) = 1 /\ todo[1] = {"latest"}
    BY <2>1
  <2>4. Staged(todo)
    BY <2>3 DEF Staged, Precedes
  <2>5. {"latest"} \subseteq Left(todo)
    BY <2>3 DEF Left
  <2>. QED
    BY <1>8, <2>2, <2>3, <2>4, <2>5 DEF Stages
<1>. QED
  BY <1>1, <1>2, <1>3, <1>4, <1>5, <1>6, <1>7, <1>8 DEF Asks

LEMMA AskedLooks ==
    ASSUME TypeInv, NEW kind \in DOMAIN Stages, NEW u \in Users \cup {Nobody}, NEW unit, NEW window,
           kind \in DOMAIN Asks => u \in Users, Asked(kind, u, unit, window), db \in during'
    PROVE  LookInv'
<1>. SUFFICES ASSUME view'.kind \in DOMAIN Asks, view'.code \in {0, 200}
     PROVE  /\ view'.target \in Users /\ view'.skip \in Nat /\ view'.take \in Nat
            /\ view'.todo \in Seq(SUBSET Asks[view'.kind]) /\ Staged(view'.todo)
            /\ DOMAIN view' = Base \cup (Asks[view'.kind] \ Left(view'.todo))
            /\ \A q \in DOMAIN view' : \E d \in during' : AsOf(d, view', q)
  BY DEF LookInv
<1>1. /\ DOMAIN view' = Base /\ view'.kind = kind /\ view'.target = u
      /\ view'.skip \in Nat /\ view'.take \in Nat /\ view'.todo = Stages[kind]
  BY DEF Asked
<1>2. /\ view'.todo \in Seq(SUBSET Asks[kind]) /\ Staged(view'.todo)
      /\ Asks[kind] \subseteq Left(view'.todo)
  BY <1>1, StagesOfLooks
<1>3. \A q \in Base : AsOf(db, view', q)
  BY DEF AsOf, Base
<1>. QED
  BY <1>1, <1>2, <1>3

\* The steps that are no more than a query are not those of the analysis.
LEMMA NoAnalysis ==
    ASSUME TypeInv, LookInv, NEW query \in {"division", "members", "raw", "reply"}, Issued(query)
    PROVE  view.kind \notin DOMAIN Asks
<1>. SUFFICES ASSUME view.kind \in DOMAIN Asks PROVE FALSE
  OBVIOUS
<1>1. query \in Asks[view.kind]
  BY NeedsAreFound
<1>. QED
  BY <1>1 DEF Asks

LEMMA QueryLooks ==
    ASSUME TypeInv, LookInv, Query
    PROVE  LookInv'
<1>. DEFINE looks == view.kind \in DOMAIN Asks
<1>1. ASSUME NEW query, query \notin Base, NEW value, Learn(query, value),
             query \notin {"balances", "pending", "active", "latest", "approved", "managerId", "count", "tree",
                           "page", "reports", "manager"}
      PROVE  LookInv'
  <2>1. AsOf(db, view', query)
    BY <1>1 DEF AsOf
  <2>. QED
    BY <1>1, <2>1, LearnLooks
<1>2. ASSUME NEW query, query \notin Base, NEW value, Learn(query, value)
      PROVE  /\ view'[query] = value
             /\ view'.target = view.target /\ view'.skip = view.skip /\ view'.take = view.take
             /\ \A f \in DOMAIN view : f # query /\ f \notin Base => f \in DOMAIN view' /\ view'[f] = view[f]
  <2>1. /\ view'[query] = value /\ DOMAIN view' = {query} \cup DOMAIN view
        /\ SameBut(view, view', {query, "todo", "code"})
    BY <1>2, LearnFields
  <2>. QED
    BY <1>2, <2>1 DEF SameBut, TypeInv, Base
<1>3. CASE ReadBalances
  BY <1>2, <1>3, LearnLooks DEF ReadBalances, AsOf, Base
<1>4. CASE ReadPending
  BY <1>2, <1>4, LearnLooks DEF ReadPending, AsOf, Base
<1>5. CASE ReadApproved
  <2>1. PICK value : value = Overlapping(db, {view.target}, Min(Year), Max(Year))
    OBVIOUS
  <2>2. Learn("approved", value)
    BY <1>5, <2>1, Zenon DEF ReadApproved
  <2>3. view'.approved = value /\ view'.target = view.target
    BY <1>2, <2>2 DEF Base
  <2>4. view'.approved = Overlapping(db, {view'.target}, Min(Year), Max(Year))
    BY <2>1, <2>3, Zenon
  <2>5. AsOf(db, view', "approved")
    BY <2>4 DEF AsOf
  <2>. QED
    BY <2>2, <2>5, LearnLooks DEF Base
<1>6. CASE ReadManagerId
  BY <1>2, <1>6, LearnLooks DEF ReadManagerId, AsOf, Base
<1>7. CASE ReadCount
  BY <1>2, <1>7, LearnLooks DEF ReadCount, AsOf, Base
<1>8. CASE ReadTree
  BY <1>2, <1>8, LearnLooks DEF ReadTree, AsOf, Base
<1>9. CASE ReadPage
  BY <1>2, <1>9, LearnLooks DEF ReadPage, AsOf, Base
<1>10. CASE ReadReports
  <2>1. Issued("reports") /\ Learn("reports", Hydrated(db.users, view.page))
    BY <1>10 DEF ReadReports
  <2>2. looks => "page" \in DOMAIN view
    BY <2>1, NeedsAreFound
  <2>3. view'.reports = Hydrated(db.users, view.page)
    BY <1>2, <2>1 DEF Base
  <2>4. looks => "page" \in DOMAIN view' /\ view'.page = view.page
    BY <1>2, <2>1, <2>2 DEF Base
  <2>5. looks => AsOf(db, view', "reports")
    BY <2>3, <2>4 DEF AsOf
  <2>. QED
    BY <2>1, <2>5, LearnLooks DEF Base
<1>11. CASE ReadManager
  <2>1. Issued("manager") /\ Learn("manager", Hydrated(db.users, {view.managerId}))
    BY <1>11 DEF ReadManager
  <2>2. looks => "managerId" \in DOMAIN view
    BY <2>1, NeedsAreFound
  <2>3. view'.manager = Hydrated(db.users, {view.managerId})
    BY <1>2, <2>1 DEF Base
  <2>4. looks => "managerId" \in DOMAIN view' /\ view'.managerId = view.managerId
    BY <1>2, <2>1, <2>2 DEF Base
  <2>5. looks => AsOf(db, view', "manager")
    BY <2>3, <2>4 DEF AsOf
  <2>. QED
    BY <2>1, <2>5, LearnLooks DEF Base
<1>17. CASE ReadActive
  BY <1>2, <1>17, LearnLooks DEF ReadActive, AsOf, Base
<1>12. CASE ReadComing \/ ReadPeers \/ ReadLeaves \/ ReadPerson
  BY <1>1, <1>12 DEF ReadComing, ReadPeers, ReadLeaves, ReadPerson, Base
<1>13. CASE ReadHolidays
  <2>1. \E days : Learn("holidays", days)
    BY <1>13, Zenon DEF ReadHolidays
  <2>. QED
    BY <1>1, <2>1 DEF Base
<1>14. CASE ReadLatest
  <2>1. PICK latest \in Latest(db, view.target) : Learn("latest", latest)
    BY <1>14, Zenon DEF ReadLatest
  <2>2. view'.latest = latest /\ view'.target = view.target
    BY <1>2, <2>1 DEF Base
  <2>3. AsOf(db, view', "latest")
    BY <2>1, <2>2 DEF AsOf
  <2>. QED
    BY <2>1, <2>3, LearnLooks DEF Base
<1>18. CASE ReadDivision
  <2>1. CASE view.unit \in Units
    BY <1>1, <1>18, <2>1 DEF ReadDivision, Base
  <2>2. CASE view.unit \notin Units
    <3>1. Refuse(404)
      BY <1>18, <2>2 DEF ReadDivision
    <3>2. view'.code = 404
      BY <3>1, RefusedFields
    <3>. QED
      BY <3>2 DEF LookInv
  <2>. QED
    BY <2>1, <2>2
<1>15. CASE ReadRow
  <2>1. CASE Live(db.users, view.target)
    BY <1>1, <1>15, <2>1 DEF ReadRow, Base
  <2>2. CASE ~Live(db.users, view.target)
    <3>1. Refuse(404)
      BY <1>15, <2>2 DEF ReadRow
    <3>2. view'.code = 404
      BY <3>1, RefusedFields
    <3>. QED
      BY <3>2 DEF LookInv
  <2>. QED
    BY <2>1, <2>2
<1>16. CASE ReadMembers \/ ReadRaw \/ AskModel
  <2>1. \E query \in {"members", "raw", "reply"} : Issued(query)
    BY <1>16 DEF ReadMembers, ReadRaw, AskModel
  <2>2. view.kind \notin DOMAIN Asks
    BY <2>1, NoAnalysis
  <2>3. view'.kind = view.kind
    <3>1. ASSUME EndsEmpty PROVE view'.kind = view.kind
      BY <3>1 DEF EndsEmpty
    <3>2. ASSUME NEW reply, NEW shares, Replied(reply, shares) PROVE view'.kind = view.kind
      BY <3>2 DEF Replied, SameBut, TypeInv, Base
    <3>3. ASSUME NEW query \in {"members", "raw"}, NEW value, Learn(query, value)
          PROVE view'.kind = view.kind
      BY <3>3, LearnGoes, GoesAsAsked DEF Base
    <3>4. ASSUME NEW code, Refuse(code) PROVE view'.kind = view.kind
      BY <3>4, RefusedFields
    <3>. QED
      BY <1>16, <3>1, <3>2, <3>3, <3>4, MembersStep, RawStep, ModelStep
  <2>. QED
    BY <2>2, <2>3 DEF LookInv
<1>. QED
  BY <1>3, <1>4, <1>5, <1>6, <1>7, <1>8, <1>9, <1>10, <1>11, <1>12, <1>13, <1>14, <1>15, <1>16,
     <1>17, <1>18
  DEF Query

LEMMA NextLooks == ServedInv /\ LookInv /\ [Next]_vars => LookInv'
<1>. SUFFICES ASSUME ServedInv, LookInv, [Next]_vars PROVE LookInv'
  OBVIOUS
<1>. TypeInv
  BY DEF ServedInv
<1>1. ASSUME NEW kind \in DOMAIN Stages, NEW u \in Users, NEW bySource \in BOOLEAN,
             NEW window \in Windows, NEW page \in Pages, Ask(kind, u, bySource, window, page)
      PROVE  LookInv'
  <2>1. Asked(kind, u, UnitFound(u, bySource), window)
    BY <1>1, AskedFields
  <2>2. db \in during'
    BY <1>1 DEF Ask
  <2>. QED
    BY <2>1, <2>2, AskedLooks
<1>5. ASSUME NEW unit, AskAnalysis(unit)
      PROVE  LookInv'
  <2>1. Asked("analysis", Nobody, unit, ThisDay)
    BY <1>5, AskedForAnalysis
  <2>2. db \in during'
    BY <1>5 DEF AskAnalysis
  <2>3. "analysis" \in DOMAIN Stages /\ "analysis" \notin DOMAIN Asks
    BY DEF Stages, Asks
  <2>. QED
    BY <2>1, <2>2, <2>3, AskedLooks
<1>2. CASE Query
  BY <1>2, QueryLooks
<1>3. CASE \/ \E r \in Requests : WriteRequest(r)
           \/ \E u \in Users : WriteUser(u)
           \/ \E u \in Users, type \in LeaveTypes : WriteBalance(u, type)
           \/ \E day \in Feasts : WriteHoliday(day)
  BY <1>3, RequestWrites, UserWrites, BalanceWrites, HolidayWrites, WritesLook
<1>4. CASE UNCHANGED vars
  <2>1. db' = db /\ changes' = changes /\ during' = during /\ view' = view
    BY <1>4 DEF vars
  <2>2. ServedInv'
    BY NextServed
  <2>3. Writes
    BY <2>1, <2>2 DEF Writes, ServedInv
  <2>. QED
    BY <2>3, WritesLook
<1>. QED
  BY <1>1, <1>2, <1>3, <1>4, <1>5, Zenon DEF Next

\* Every view that looks up rows of one person has found, of each query that is
\* over, what the tables held at one moment; and answered, it has asked all.
THEOREM LookInvariant == Spec => []LookInv
<1>1. Init => LookInv
  <2>1. Init => view.kind = "none"
    BY DEF Init, NoView
  <2>2. "none" \notin DOMAIN Asks
    BY DEF Asks
  <2>. QED
    BY <2>1, <2>2 DEF LookInv
<1>2. ServedInv /\ LookInv /\ [Next]_vars => LookInv'
  BY NextLooks
<1>. QED
  BY <1>1, <1>2, ServedInvariant, PTL DEF Spec

\* An answered view has found all that it asked for.
LEMMA AnswerOfLook ==
    ASSUME TypeInv, LookInv, NEW kind \in DOMAIN Asks, Answered(kind), NEW query \in Asks[kind]
    PROVE  /\ view.target \in Users /\ view.skip \in Nat /\ view.take \in Nat
           /\ query \in DOMAIN view
           /\ \E d \in during : AsOf(d, view, query)
<1>1. view.kind = kind /\ view.code = 200
  BY DEF Answered
<1>2. view.todo = << >>
  <2>1. view.kind # "none"
    BY <1>1 DEF Asks
  <2>. QED
    BY <1>1, <2>1 DEF TypeInv, TypeOK
<1>3. Left(view.todo) = {}
  BY <1>2 DEF Left
<1>4. /\ view.target \in Users /\ view.skip \in Nat /\ view.take \in Nat
      /\ DOMAIN view = Base \cup (Asks[view.kind] \ Left(view.todo))
      /\ \A q \in DOMAIN view : \E d \in during : AsOf(d, view, q)
  BY <1>1 DEF LookInv
<1>5. query \in DOMAIN view
  BY <1>1, <1>3, <1>4
<1>. QED
  BY <1>4, <1>5

-----------------------------------------------------------------------------
(* Who is on leave today.                                                  *)

AwayIn(d, u) == {r \in Requests : r.user = u /\ ApprovedOn(d, r, Today)}

AwayThroughout(u) == {r \in Requests : \A d \in during : r \in AwayIn(d, u)}

LEMMA OnLeaveIsAway ==
    ASSUME NEW d, NEW u
    PROVE  Active(d, u) = AwayIn(d, u) /\ OnLeave(d, u) = AwayIn(d, u)
  BY DEF Active, OnLeave, AwayIn, ApprovedOn, Of

\* The status names a leave of one moment, begun no earlier than any of it.
LEMMA StatusOfToday ==
    ASSUME TypeInv, LookInv, Answered("status")
    PROVE  /\ AttendanceStatus(view).code = "working" => AwayThroughout(view.target) = {}
           /\ AttendanceStatus(view).code = "leave" =>
                 \E d \in during : \E r \in AwayIn(d, view.target) :
                    /\ AttendanceStatus(view).type = r.type /\ AttendanceStatus(view).till = r.to
                    /\ \A q \in AwayThroughout(view.target) : q.from <= r.from
<1>1. PICK d \in during : view.latest \in Latest(d, view.target)
  <2>1. "status" \in DOMAIN Asks /\ "latest" \in Asks["status"]
    BY DEF Asks
  <2>2. PICK d \in during : AsOf(d, view, "latest")
    BY <2>1, AnswerOfLook
  <2>. QED
    BY <2>2 DEF AsOf
<1>2. PICK away : away = AwayIn(d, view.target) /\ OnLeave(d, view.target) = away
  BY OnLeaveIsAway
<1>3. AwayThroughout(view.target) \subseteq away
  BY <1>1, <1>2 DEF AwayThroughout
<1>4. CASE away = {}
  <2>1. view.latest = {}
    BY <1>1, <1>2, <1>4 DEF Latest
  <2>2. AttendanceStatus(view).code = "working"
    BY <2>1 DEF AttendanceStatus
  <2>. QED
    BY <1>3, <1>4, <2>2
<1>5. CASE away # {}
  <2>1. PICK r \in away : view.latest = {r} /\ \A q \in away : q.from <= r.from
    BY <1>1, <1>2, <1>5 DEF Latest
  <2>2. PICK s : s = CHOOSE one \in view.latest : TRUE
    OBVIOUS
  <2>3. s = r
    BY <2>1, <2>2
  <2>4. AttendanceStatus(view) = [code |-> "leave", type |-> s.type, till |-> s.to]
    BY <2>1, <2>2 DEF AttendanceStatus
  <2>5. /\ AttendanceStatus(view).code = "leave"
        /\ AttendanceStatus(view).type = r.type /\ AttendanceStatus(view).till = r.to
    BY <2>3, <2>4
  <2>. QED
    BY <1>1, <1>2, <1>3, <2>1, <2>5
<1>. QED
  BY <1>4, <1>5

\* The gate of the sheet is shut for who is away, and else open wherever the card
\* has no restriction.
LEMMA GateFollowsCard ==
    ASSUME NEW v, NEW type \in DOMAIN v.balances
    PROVE  /\ (\E r \in v.active : r.type = type) => ~Sheet(v)[type].gate
           /\ Cards(v)[type].restriction = "none" /\ ~(\E r \in v.active : r.type = type)
              => Sheet(v)[type].gate
<1>1. Sheet(v)[type].gate <=> /\ ~(\E r \in v.active : r.type = type)
                              /\ \/ type = "UNPAID"
                                 \/ Remaining(v, type) > 0 /\ ~GenderBlocked(v, type)
  BY DEF Sheet
<1>2. Cards(v)[type].restriction = Restriction(v, type)
  BY DEF Cards
<1>3. ASSUME Restriction(v, type) = "none", type # "UNPAID"
      PROVE  Remaining(v, type) > 0 /\ ~GenderBlocked(v, type)
  <2>1. Remaining(v, type) # 0 /\ ~GenderBlocked(v, type)
    BY <1>3, Zenon DEF Restriction
  <2>2. Remaining(v, type) # 0 => Remaining(v, type) > 0
    BY DEF Remaining, Later
  <2>. QED
    BY <2>1, <2>2
<1>. QED
  BY <1>1, <1>2, <1>3

LEMMA GateOfToday ==
    ASSUME TypeInv, LookInv, Answered("leaves"), NEW type \in DOMAIN view.balances
    PROVE  /\ Sheet(view)[type].gate => \A r \in AwayThroughout(view.target) : r.type # type
           /\ Cards(view)[type].restriction = "none" /\ ~Sheet(view)[type].gate =>
                 \E d \in during : \E r \in AwayIn(d, view.target) : r.type = type
<1>1. PICK d \in during : view.active = AwayIn(d, view.target)
  <2>1. "leaves" \in DOMAIN Asks /\ "active" \in Asks["leaves"]
    BY DEF Asks
  <2>2. PICK d \in during : AsOf(d, view, "active")
    BY <2>1, AnswerOfLook
  <2>. QED
    BY <2>2, OnLeaveIsAway DEF AsOf
<1>2. AwayThroughout(view.target) \subseteq view.active
  BY <1>1 DEF AwayThroughout
<1>3. /\ (\E r \in view.active : r.type = type) => ~Sheet(view)[type].gate
      /\ Cards(view)[type].restriction = "none" /\ ~(\E r \in view.active : r.type = type)
         => Sheet(view)[type].gate
  BY GateFollowsCard
<1>. QED
  BY <1>1, <1>2, <1>3

\* However requests are decided meanwhile, overwritten ones too, who is on leave
\* throughout is told so by the status and by the sheet, and nobody else who was
\* not at some moment.
THEOREM AwayIsAlwaysToldByEveryView == Spec => []AwayIsToldByEveryView
<1>1. TypeInv /\ LookInv => AwayIsToldByEveryView
  <2>. SUFFICES ASSUME TypeInv, LookInv PROVE AwayIsToldByEveryView
    OBVIOUS
  <2>1. Answered("status") /\ AttendanceStatus(view).code = "working" => AwayThroughout(view.target) = {}
    BY StatusOfToday
  <2>2. Answered("status") /\ AttendanceStatus(view).code = "leave" =>
           \E d \in during : \E r \in AwayIn(d, view.target) :
              /\ AttendanceStatus(view).type = r.type /\ AttendanceStatus(view).till = r.to
              /\ \A q \in AwayThroughout(view.target) : q.from <= r.from
    BY StatusOfToday
  <2>3. Answered("leaves") =>
           \A type \in DOMAIN view.balances :
              /\ Sheet(view)[type].gate => \A r \in AwayThroughout(view.target) : r.type # type
              /\ Cards(view)[type].restriction = "none" /\ ~Sheet(view)[type].gate =>
                    \E d \in during : \E r \in AwayIn(d, view.target) : r.type = type
    BY GateOfToday
  <2>. QED
    BY <2>1, <2>2, <2>3, Zenon DEF AwayIsToldByEveryView, AwayIn, AwayThroughout
<1>2. ServedInv => TypeInv
  BY DEF ServedInv
<1>. QED
  BY <1>1, <1>2, ServedInvariant, LookInvariant, PTL

-----------------------------------------------------------------------------
(* What is available.                                                      *)

LEMMA DaysAreSum ==
    ASSUME NEW D, IsFiniteSet(D), NEW f, \A r \in D : f[r] = r.days
    PROVE  TotalDays(D) = SumOf(f, D)
<1>. DEFINE Eq(g) == g = [s \in SUBSET D |-> IF s = {} THEN 0
                                             ELSE AnyOf(s).days + g[s \ {AnyOf(s)}]]
            iter == CHOOSE g : Eq(g)
<1>1. TotalDays(D) = iter[D]
  BY DEF TotalDays, MapThenSumSet, MapThenFoldSet, AnyOf
<1>2. ASSUME NEW g
      PROVE  Eq(g) <=> SumSolves(f, D, g)
  <2>1. ASSUME NEW s \in SUBSET D
        PROVE  SumStep(f, g, s) = IF s = {} THEN 0
                                  ELSE AnyOf(s).days + g[s \ {AnyOf(s)}]
    <3>1. s # {} => f[AnyOf(s)] = AnyOf(s).days
      BY AnyOfIsIn
    <3>. QED
      BY <3>1, Zenon DEF SumStep
  <2>. QED
    BY <2>1 DEF SumSolves
<1>3. Eq(SumIter(f, D))
  BY <1>2, IterSolves
<1>4. Eq(iter)
  <2>. HIDE DEF Eq
  <2>. QED
    BY <1>3
<1>. QED
  BY <1>1, <1>2, <1>4, SolutionIsSum

\* Fewer requests have no more days.
LEMMA SumOfFewer ==
    ASSUME NEW D \in SUBSET Requests, NEW E \in SUBSET D
    PROVE  TotalDays(E) \in Nat /\ TotalDays(D) \in Nat /\ TotalDays(E) <= TotalDays(D)
<1>1. IsFiniteSet(D) /\ IsFiniteSet(E)
  BY LeaveViewsAssumption, FS_Subset
<1>2. PICK f : f = [r \in D |-> r.days]
  OBVIOUS
<1>3. \A r \in D : f[r] = r.days /\ f[r] \in Nat
  BY <1>2, RequestType
<1>4. TotalDays(D) = SumOf(f, D) /\ TotalDays(E) = SumOf(f, E)
  BY <1>1, <1>3, DaysAreSum
<1>5. SumOf(f, E) \in Nat /\ SumOf(f, E) <= SumOf(f, D)
  BY <1>1, <1>3, SumOfPart
<1>6. SumOf(f, D) \in Nat
  BY <1>1, <1>3, SumOfPart
<1>. QED
  BY <1>4, <1>5, <1>6

LEMMA NoDays == TotalDays({}) = 0
<1>1. PICK f : f = [r \in {} |-> r.days]
  OBVIOUS
<1>2. TotalDays({}) = SumOf(f, {})
  BY FS_EmptySet, DaysAreSum
<1>. QED
  BY <1>2, SumEmpty

\* "The stored pending column may lag": what is shown as available leaves room for
\* what was under way all along, and is held back by no more than what ever was.
THEOREM AvailableAlwaysLeavesRoom == Spec => []AvailableLeavesRoomForPending
<1>1. ASSUME TypeInv, LookInv PROVE AvailableLeavesRoomForPending
  <2>. DEFINE mine(type) == {r \in Requests : r.user = view.target /\ r.type = type /\ r.from \in Year}
              throughout(type) == {r \in mine(type) : \A d \in during : d.status[r] \in Waiting}
              ever(type) == {r \in mine(type) : \E d \in during : d.status[r] \in Waiting}
              left(row, pending) == Later(0, row.entitled + row.carried - row.used - pending)
  <2>. SUFFICES ASSUME Answered("common") \/ Answered("leaves"),
                       NEW type \in DOMAIN view.balances \ {"UNPAID"}
       PROVE  \E d \in during :
                 /\ Available(type) <= left(d.balances[view.target][type], TotalDays(throughout(type)))
                 /\ Available(type) >= left(d.balances[view.target][type],
                                            Later(TotalDays(ever(type)), d.balances[view.target][type].pending))
    BY Zenon DEF AvailableLeavesRoomForPending
  <2>1. PICK kind \in DOMAIN Asks : Answered(kind) /\ {"balances", "pending"} \subseteq Asks[kind]
    BY DEF Asks
  <2>2. view.target \in Users
    BY <1>1, <2>1, AnswerOfLook
  <2>3. PICK d \in during : AsOf(d, view, "balances")
    BY <1>1, <2>1, AnswerOfLook
  <2>4. PICK then \in during : AsOf(then, view, "pending")
    BY <1>1, <2>1, AnswerOfLook
  <2>5. view.balances = d.balances[view.target] /\ view.pending = Pending(then, view.target)
    BY <2>3, <2>4 DEF AsOf
  <2>6. PICK row : row = view.balances[type]
    OBVIOUS
  <2>7. row \in Balance
    <3>1. IsDatabase(d)
      BY <1>1 DEF TypeInv, TypeOK
    <3>. QED
      BY <2>2, <2>5, <2>6, <3>1 DEF IsDatabase
  <2>8. PICK found : found = {r \in view.pending : r.type = type}
    OBVIOUS
  <2>9. found = {r \in mine(type) : then.status[r] \in Waiting}
    BY <2>5, <2>8 DEF Pending, Of
  <2>10. PICK all, some : all = throughout(type) /\ some = ever(type)
    OBVIOUS
  <2>11. all \subseteq found /\ found \subseteq some /\ some \subseteq Requests
    BY <2>9, <2>10
  <2>12. /\ TotalDays(all) \in Nat /\ TotalDays(found) \in Nat /\ TotalDays(some) \in Nat
         /\ TotalDays(all) <= TotalDays(found) /\ TotalDays(found) <= TotalDays(some)
    BY <2>11, SumOfFewer
  <2>13. found = {} => TotalDays(all) = 0
    BY <2>11, NoDays
  <2>14. PICK pending : pending = LivePending(view, type)
    OBVIOUS
  <2>15. pending = IF found = {} THEN row.pending ELSE TotalDays(found)
    BY <2>6, <2>8, <2>14, Zenon DEF LivePending
  <2>16. /\ row.pending \in Nat /\ row.entitled \in Nat /\ row.carried \in Nat /\ row.used \in Nat
    BY <2>7 DEF Balance
  <2>17. Available(type) = Remaining(view, type)
    <3>1. Available(type) = IF view.kind = "common" THEN Cards(view)[type].available
                            ELSE Sheet(view)[type].available
      BY DEF Available
    <3>2. type \in DOMAIN view.balances /\ type # "UNPAID"
      OBVIOUS
    <3>3. Cards(view)[type].available = Remaining(view, type)
      BY <3>2 DEF Cards
    <3>4. Sheet(view)[type].available = Remaining(view, type)
      BY <3>2 DEF Sheet
    <3>. QED
      BY <3>1, <3>3, <3>4
  <2>18. Remaining(view, type) = left(row, pending)
    BY <2>6, <2>14, Zenon DEF Remaining
  <2>19. PICK a, f, s : a = TotalDays(all) /\ f = TotalDays(found) /\ s = TotalDays(some)
    OBVIOUS
  <2>20. /\ left(row, pending) <= left(row, a)
         /\ left(row, pending) >= left(row, Later(s, row.pending))
    <3>1. a \in Nat /\ f \in Nat /\ s \in Nat /\ a <= f /\ f <= s /\ (found = {} => a = 0)
      BY <2>12, <2>13, <2>19
    <3>2. (pending = row.pending /\ a = 0) \/ pending = f
      BY <2>15, <2>19, <3>1
    <3>3. pending \in Nat /\ a <= pending
      BY <2>16, <3>1, <3>2
    <3>4. PICK most \in Nat : most = Later(s, row.pending)
      BY <2>16, <3>1 DEF Later
    <3>5. pending <= most
      BY <2>16, <3>1, <3>2, <3>4 DEF Later
    <3>. QED
      BY <2>16, <3>1, <3>3, <3>4, <3>5 DEF Later
  <2>21. row = d.balances[view.target][type]
    BY <2>5, <2>6
  <2>22. /\ Available(type) <= left(d.balances[view.target][type], TotalDays(throughout(type)))
         /\ Available(type) >= left(d.balances[view.target][type],
                                    Later(TotalDays(ever(type)), d.balances[view.target][type].pending))
    <3>. HIDE DEF left, throughout, ever
    <3>. QED
      BY <2>10, <2>17, <2>18, <2>19, <2>20, <2>21
  <2>. QED
    BY <2>22
<1>. QED
  BY <1>1, LookInvariant, ServedInvariant, PTL DEF ServedInv

-----------------------------------------------------------------------------
(* The pattern of the year.                                                *)

\* No month begins before the first.
LEMMA MonthsInOrder ==
    ASSUME NEW m \in 1..(LastMonth + 1)
    PROVE  /\ LastMonth \in Nat \ {0} /\ MonthStart[1] \in Int /\ MonthStart[m] \in Int
           /\ MonthStart[1] <= MonthStart[m]
<1>. DEFINE good == {k \in 1..(LastMonth + 1) : MonthStart[1] <= MonthStart[k]}
<1>1. /\ LastMonth \in Nat /\ MonthStart \in [1..(LastMonth + 1) -> Int]
      /\ \A k \in Months : MonthStart[k] < MonthStart[k + 1]
      /\ Today \in Year
  BY LeaveViewsAssumption
<1>2. \A k \in 1..(LastMonth + 1) : MonthStart[k] \in Int
  BY <1>1
<1>3. LastMonth # 0
  <2>1. SUFFICES ASSUME LastMonth = 0 PROVE FALSE
    OBVIOUS
  <2>2. LastMonth + 1 = 1 /\ 1 \in 1..(LastMonth + 1)
    BY <2>1
  <2>3. Today \in MonthStart[1]..(MonthStart[1] - 1) /\ MonthStart[1] \in Int
    BY <1>1, <1>2, <2>2 DEF Year
  <2>. QED
    BY <2>3
<1>4. 1 \in 1..(LastMonth + 1) /\ MonthStart[1] \in Int
  BY <1>1, <1>2
<1>5. 1 \in good
  BY <1>4
<1>6. ASSUME NEW i \in 1..(LastMonth + 1), i \in good, i + 1 <= LastMonth + 1
      PROVE  i + 1 \in good
  <2>1. i \in Months /\ i + 1 \in 1..(LastMonth + 1)
    BY <1>1, <1>6 DEF Months
  <2>2. MonthStart[1] <= MonthStart[i] /\ MonthStart[i] < MonthStart[i + 1]
    BY <1>1, <1>6, <2>1
  <2>3. MonthStart[i] \in Int /\ MonthStart[i + 1] \in Int
    BY <1>2, <2>1
  <2>4. MonthStart[1] <= MonthStart[i + 1]
    BY <1>4, <2>2, <2>3
  <2>. QED
    BY <2>1, <2>4
<1>7. \A i \in 1..(LastMonth + 1) : i \in good
  <2>1. PICK n \in Nat : n = LastMonth + 1
    BY <1>1
  <2>2. 1 \in good /\ \A i \in 1..n : i \in good /\ i + 1 <= n => i + 1 \in good
    BY <1>5, <1>6, <2>1
  <2>. HIDE DEF good
  <2>3. \A i \in 1..n : i \in good
    BY <2>2, StepInduction
  <2>. QED
    BY <2>1, <2>3
<1>. QED
  BY <1>1, <1>2, <1>3, <1>4, <1>7

\* The days of a request before month k that are in the year.
DaysBefore(r, k) ==
    Later(0, Earlier(r.to, MonthStart[k] - 1) - Later(r.from, MonthStart[1]) + 1)

LEMMA OverlapIsAStep ==
    \A a, b, first, m, next \in Int :
        a <= b /\ first <= m /\ m < next =>
            Later(0, Earlier(b, next - 1) - Later(a, m) + 1)
            = Later(0, Earlier(b, next - 1) - Later(a, first) + 1)
              - Later(0, Earlier(b, m - 1) - Later(a, first) + 1)
  BY DEF Later, Earlier

DaysInYear(r) == Cardinality((r.from..r.to) \cap Year)

LEMMA YearBounds ==
    /\ Year = MonthStart[1]..(MonthStart[LastMonth + 1] - 1)
    /\ Min(Year) = MonthStart[1] /\ Max(Year) = MonthStart[LastMonth + 1] - 1
    /\ MonthStart[1] \in Int /\ MonthStart[LastMonth + 1] \in Int
    /\ MonthStart[1] <= MonthStart[LastMonth + 1]
<1>1. LastMonth \in Nat /\ LastMonth + 1 \in 1..(LastMonth + 1) /\ 1 \in 1..(LastMonth + 1)
  BY LeaveViewsAssumption
<1>2. PICK a \in Int, b \in Int : a = MonthStart[1] /\ b = MonthStart[LastMonth + 1] - 1
  BY <1>1, MonthsInOrder
<1>3. Year = a..b
  BY <1>2 DEF Year
<1>4. a <= b
  BY <1>2, <1>3, LeaveViewsAssumption
<1>5. Min(a..b) = a
  <2>1. Min(a..b) \in a..b /\ \A y \in a..b : Min(a..b) <= y
    <3>1. \E x \in a..b : \A y \in a..b : x <= y
      BY <1>4
    <3>. QED
      BY <3>1, Zenon DEF Min
  <2>. QED
    BY <1>4, <2>1
<1>6. Max(a..b) = b
  <2>1. Max(a..b) \in a..b /\ \A y \in a..b : Max(a..b) >= y
    <3>1. \E x \in a..b : \A y \in a..b : x >= y
      BY <1>4
    <3>. QED
      BY <3>1, Zenon DEF Max
  <2>. QED
    BY <1>4, <2>1
<1>. QED
  BY <1>1, <1>2, <1>3, <1>5, <1>6, MonthsInOrder

\* What is in the year of a request, counted.
LEMMA DaysInYearCounted ==
    ASSUME NEW r \in Requests
    PROVE  /\ DaysInYear(r) \in Nat
           /\ DaysInYear(r) = DaysBefore(r, LastMonth + 1)
           /\ DaysInYear(r) = 0 <=> ~(r.from <= Max(Year) /\ Min(Year) <= r.to)
<1>1. r.from \in Int /\ r.to \in Int /\ r.from <= r.to
  BY RequestType
<1>2. PICK a \in Int, b \in Int : /\ a = MonthStart[1] /\ b = MonthStart[LastMonth + 1] - 1
                                  /\ Year = a..b /\ Min(Year) = a /\ Max(Year) = b
                                  /\ a <= b
  <2>1. MonthStart[1] <= MonthStart[LastMonth + 1] - 1
    BY YearBounds, LeaveViewsAssumption
  <2>. QED
    BY <2>1, YearBounds
<1>3. PICK lo \in Int, hi \in Int : lo = Later(r.from, a) /\ hi = Earlier(r.to, b)
  BY <1>1, <1>2 DEF Later, Earlier
<1>4. (r.from..r.to) \cap Year = lo..hi
  BY <1>1, <1>2, <1>3 DEF Later, Earlier
<1>5. Cardinality(lo..hi) = IF lo > hi THEN 0 ELSE hi - lo + 1
  BY FS_Interval
<1>6. DaysInYear(r) = IF lo > hi THEN 0 ELSE hi - lo + 1
  BY <1>4, <1>5 DEF DaysInYear
<1>7. DaysBefore(r, LastMonth + 1) = Later(0, hi - lo + 1)
  BY <1>2, <1>3 DEF DaysBefore
<1>8. Later(0, hi - lo + 1) = IF lo > hi THEN 0 ELSE hi - lo + 1
  BY DEF Later
<1>9. lo > hi <=> ~(r.from <= b /\ a <= r.to)
  BY <1>1, <1>2, <1>3 DEF Later, Earlier
<1>. QED
  BY <1>2, <1>6, <1>7, <1>8, <1>9

\* The months take the days of the year apart.
LEMMA MonthsAddUp ==
    ASSUME NEW r \in Requests, NEW f, \A m \in Months : f[m] = Overlap(r, m)
    PROVE  SumOf(f, Months) = DaysInYear(r)
<1>1. LastMonth \in Nat \ {0} /\ LastMonth + 1 \in 1..(LastMonth + 1) /\ 1 \in 1..(LastMonth + 1)
  <2>1. 1 \in 1..(LastMonth + 1)
    BY LeaveViewsAssumption
  <2>. QED
    BY <2>1, MonthsInOrder
<1>2. r.from \in Int /\ r.to \in Int /\ r.from <= r.to
  BY RequestType
<1>3. PICK g : g = [k \in 1..(LastMonth + 1) |-> DaysBefore(r, k)]
  OBVIOUS
<1>4. \A k \in 1..(LastMonth + 1) : g[k] = DaysBefore(r, k) /\ DaysBefore(r, k) \in Int
  <2>1. \A k \in 1..(LastMonth + 1) : MonthStart[1] \in Int /\ MonthStart[k] \in Int
    BY MonthsInOrder
  <2>2. ASSUME NEW k \in 1..(LastMonth + 1) PROVE DaysBefore(r, k) \in Int
    <3>1. MonthStart[1] \in Int /\ MonthStart[k] \in Int
      BY <2>1
    <3>2. Earlier(r.to, MonthStart[k] - 1) \in Int /\ Later(r.from, MonthStart[1]) \in Int
      BY <1>2, <3>1 DEF Later, Earlier
    <3>. QED
      BY <3>2 DEF DaysBefore, Later
  <2>. QED
    BY <1>3, <2>2
<1>5. ASSUME NEW m \in 1..LastMonth
      PROVE  f[m] = g[m + 1] - g[m]
  <2>1. m \in 1..(LastMonth + 1) /\ m + 1 \in 1..(LastMonth + 1) /\ m \in Months
    BY <1>1 DEF Months
  <2>2. PICK first \in Int, this \in Int, next \in Int :
          /\ first = MonthStart[1] /\ this = MonthStart[m] /\ next = MonthStart[m + 1]
          /\ first <= this
    BY <2>1, MonthsInOrder
  <2>3. this < next
    BY <2>1, <2>2, LeaveViewsAssumption
  <2>4. f[m] = Later(0, Earlier(r.to, next - 1) - Later(r.from, this) + 1)
    BY <2>1, <2>2 DEF Overlap
  <2>5. g[m + 1] = Later(0, Earlier(r.to, next - 1) - Later(r.from, first) + 1)
    BY <1>4, <2>1, <2>2 DEF DaysBefore
  <2>6. g[m] = Later(0, Earlier(r.to, this - 1) - Later(r.from, first) + 1)
    BY <1>4, <2>1, <2>2 DEF DaysBefore
  <2>7. PICK p, q, s : /\ p = Later(0, Earlier(r.to, next - 1) - Later(r.from, this) + 1)
                        /\ q = Later(0, Earlier(r.to, next - 1) - Later(r.from, first) + 1)
                        /\ s = Later(0, Earlier(r.to, this - 1) - Later(r.from, first) + 1)
    OBVIOUS
  <2>8. p = q - s
    <3>1. PICK a \in Int, b \in Int : a = r.from /\ b = r.to /\ a <= b
      BY <1>2
    <3>2. Later(0, Earlier(b, next - 1) - Later(a, this) + 1)
            = Later(0, Earlier(b, next - 1) - Later(a, first) + 1)
              - Later(0, Earlier(b, this - 1) - Later(a, first) + 1)
      <4>1. a <= b /\ first <= this /\ this < next
        BY <2>2, <2>3, <3>1
      <4>. QED
        BY <4>1, OverlapIsAStep
    <3>. QED
      BY <2>7, <3>1, <3>2
  <2>. QED
    BY <2>4, <2>5, <2>6, <2>7, <2>8
<1>6. Steps(f, g, LastMonth)
  <2>1. g \in [1..(LastMonth + 1) -> Int]
    BY <1>3, <1>4
  <2>2. \A i \in 1..LastMonth : f[i] = g[i + 1] - g[i]
    BY <1>5, Zenon
  <2>. QED
    BY <2>1, <2>2, Zenon DEF Steps
<1>7. SumOf(f, 1..LastMonth) = g[LastMonth + 1] - g[1]
  BY <1>1, <1>6, SumOfSteps
<1>8. g[1] = 0
  <2>1. MonthStart[1] \in Int
    BY <1>1, MonthsInOrder
  <2>2. DaysBefore(r, 1) = 0
    BY <1>2, <2>1 DEF DaysBefore, Later, Earlier
  <2>. QED
    BY <1>1, <1>4, <2>2
<1>9. g[LastMonth + 1] = DaysInYear(r) /\ DaysInYear(r) \in Nat
  BY <1>1, <1>4, DaysInYearCounted
<1>. QED
  BY <1>7, <1>8, <1>9 DEF Months

\* The sums of the model as those of DataTheorems.
ShownIn(v, type, D) == MapThenSumSet(LAMBDA m : LeavePattern(v)[m][type], D)

LEMMA OverlapsAreSum ==
    ASSUME NEW m, NEW D, IsFiniteSet(D), NEW f, \A r \in D : f[r] = Overlap(r, m)
    PROVE  MapThenSumSet(LAMBDA r : Overlap(r, m), D) = SumOf(f, D)
<1>. DEFINE Eq(g) == g = [s \in SUBSET D |-> IF s = {} THEN 0
                                             ELSE Overlap(AnyOf(s), m) + g[s \ {AnyOf(s)}]]
            iter == CHOOSE g : Eq(g)
<1>1. MapThenSumSet(LAMBDA r : Overlap(r, m), D) = iter[D]
  BY DEF MapThenSumSet, MapThenFoldSet, AnyOf
<1>2. ASSUME NEW g
      PROVE  Eq(g) <=> SumSolves(f, D, g)
  <2>1. ASSUME NEW s \in SUBSET D
        PROVE  SumStep(f, g, s) = IF s = {} THEN 0
                                  ELSE Overlap(AnyOf(s), m) + g[s \ {AnyOf(s)}]
    <3>1. s # {} => f[AnyOf(s)] = Overlap(AnyOf(s), m)
      BY AnyOfIsIn
    <3>. QED
      BY <3>1, Zenon DEF SumStep
  <2>. QED
    BY <2>1 DEF SumSolves
<1>3. Eq(SumIter(f, D))
  BY <1>2, IterSolves
<1>4. Eq(iter)
  <2>. HIDE DEF Eq
  <2>. QED
    BY <1>3
<1>. QED
  BY <1>1, <1>2, <1>4, SolutionIsSum

LEMMA PatternIsSum ==
    ASSUME NEW v, NEW type, NEW D, IsFiniteSet(D), NEW f, \A m \in D : f[m] = LeavePattern(v)[m][type]
    PROVE  ShownIn(v, type, D) = SumOf(f, D)
<1>. DEFINE Eq(g) == g = [s \in SUBSET D |-> IF s = {} THEN 0
                                             ELSE LeavePattern(v)[AnyOf(s)][type] + g[s \ {AnyOf(s)}]]
            iter == CHOOSE g : Eq(g)
<1>1. ShownIn(v, type, D) = iter[D]
  BY DEF ShownIn, MapThenSumSet, MapThenFoldSet, AnyOf
<1>2. ASSUME NEW g
      PROVE  Eq(g) <=> SumSolves(f, D, g)
  <2>1. ASSUME NEW s \in SUBSET D
        PROVE  SumStep(f, g, s) = IF s = {} THEN 0
                                  ELSE LeavePattern(v)[AnyOf(s)][type] + g[s \ {AnyOf(s)}]
    <3>1. s # {} => f[AnyOf(s)] = LeavePattern(v)[AnyOf(s)][type]
      BY AnyOfIsIn
    <3>. QED
      BY <3>1, Zenon DEF SumStep
  <2>. QED
    BY <2>1 DEF SumSolves
<1>3. Eq(SumIter(f, D))
  BY <1>2, IterSolves
<1>4. Eq(iter)
  <2>. HIDE DEF Eq
  <2>. QED
    BY <1>3
<1>. QED
  BY <1>1, <1>2, <1>4, SolutionIsSum

LEMMA YearsAreSum ==
    ASSUME NEW D, IsFiniteSet(D), NEW f, \A r \in D : f[r] = DaysInYear(r)
    PROVE  MapThenSumSet(LAMBDA r : Cardinality((r.from..r.to) \cap Year), D) = SumOf(f, D)
<1>. DEFINE Eq(g) == g = [s \in SUBSET D |-> IF s = {} THEN 0
                                             ELSE DaysInYear(AnyOf(s)) + g[s \ {AnyOf(s)}]]
            iter == CHOOSE g : Eq(g)
<1>1. MapThenSumSet(LAMBDA r : Cardinality((r.from..r.to) \cap Year), D) = iter[D]
  BY DEF MapThenSumSet, MapThenFoldSet, AnyOf, DaysInYear
<1>2. ASSUME NEW g
      PROVE  Eq(g) <=> SumSolves(f, D, g)
  <2>1. ASSUME NEW s \in SUBSET D
        PROVE  SumStep(f, g, s) = IF s = {} THEN 0
                                  ELSE DaysInYear(AnyOf(s)) + g[s \ {AnyOf(s)}]
    <3>1. s # {} => f[AnyOf(s)] = DaysInYear(AnyOf(s))
      BY AnyOfIsIn
    <3>. QED
      BY <3>1, Zenon DEF SumStep
  <2>. QED
    BY <2>1 DEF SumSolves
<1>3. Eq(SumIter(f, D))
  BY <1>2, IterSolves
<1>4. Eq(iter)
  <2>. HIDE DEF Eq
  <2>. QED
    BY <1>3
<1>. QED
  BY <1>1, <1>2, <1>4, SolutionIsSum

\* One type in the pattern: all the days in the year of its requests.
LEMMA PatternOfTheYear ==
    ASSUME NEW v, NEW type \in DOMAIN v.balances,
           NEW A, A = {r \in v.approved : r.type = type}, A \subseteq Requests,
           NEW f, \A r \in A : f[r] = DaysInYear(r)
    PROVE  ShownIn(v, type, Months) = SumOf(f, A)
<1>1. IsFiniteSet(A) /\ IsFiniteSet(Months)
  <2>1. IsFiniteSet(A)
    BY LeaveViewsAssumption, FS_Subset
  <2>2. 1 \in Int /\ LastMonth \in Int
    BY LeaveViewsAssumption
  <2>3. IsFiniteSet(1..LastMonth)
    BY <2>2, FS_Interval
  <2>. QED
    BY <2>1, <2>3, Zenon DEF Months
<1>2. PICK col : col = [m \in Months |-> LeavePattern(v)[m][type]]
  OBVIOUS
<1>3. PICK table : table = [r \in A |-> [m \in Months |-> Overlap(r, m)]]
  OBVIOUS
<1>4. \A r \in A, m \in Months : table[r][m] = Overlap(r, m)
  BY <1>3
<1>5. ASSUME NEW r \in A, NEW m \in Months
      PROVE  Overlap(r, m) \in Int
  <2>1. r.from \in Int /\ r.to \in Int
    BY RequestType
  <2>2. m \in 1..(LastMonth + 1) /\ m + 1 \in 1..(LastMonth + 1)
    BY LeaveViewsAssumption DEF Months
  <2>3. MonthStart[m] \in Int /\ MonthStart[m + 1] \in Int
    BY <2>2, MonthsInOrder
  <2>. QED
    BY <2>1, <2>3 DEF Overlap, Later, Earlier
<1>6. \A r \in A : f[r] = SumOf(table[r], Months)
  <2>. SUFFICES ASSUME NEW r \in A
       PROVE  f[r] = SumOf(table[r], Months)
    OBVIOUS
  <2>1. PICK row : row = table[r]
    OBVIOUS
  <2>2. r \in Requests /\ \A m \in Months : row[m] = Overlap(r, m)
    BY <1>4, <2>1
  <2>3. SumOf(row, Months) = DaysInYear(r)
    BY <2>2, MonthsAddUp
  <2>. QED
    BY <2>1, <2>3
<1>7. \A m \in Months : col[m] = SumOf(Column(table, A, m), A)
  <2>. SUFFICES ASSUME NEW m \in Months
       PROVE  col[m] = SumOf(Column(table, A, m), A)
    OBVIOUS
  <2>1. PICK h : h = Column(table, A, m)
    OBVIOUS
  <2>2. \A r \in A : h[r] = Overlap(r, m)
    BY <1>4, <2>1 DEF Column
  <2>3. MapThenSumSet(LAMBDA r : Overlap(r, m), A) = SumOf(h, A)
    BY <1>1, <2>2, OverlapsAreSum
  <2>4. LeavePattern(v)[m][type] = MapThenSumSet(LAMBDA r : Overlap(r, m), A)
    BY DEF LeavePattern
  <2>. QED
    BY <1>2, <2>1, <2>3, <2>4
<1>8. SumOf(f, A) = SumOf(col, Months)
  <2>1. IsTable(table, A, Months)
    BY <1>4, <1>5 DEF IsTable
  <2>2. RowSums(f, table, A, Months)
    BY <1>6, Zenon DEF RowSums
  <2>3. ColumnSums(col, table, A, Months)
    BY <1>7, Zenon DEF ColumnSums
  <2>. QED
    BY <1>1, <2>1, <2>2, <2>3, SumSwap
<1>9. \A m \in Months : col[m] = LeavePattern(v)[m][type]
  BY <1>2
<1>10. ShownIn(v, type, Months) = SumOf(col, Months)
  BY <1>1, <1>9, PatternIsSum
<1>. QED
  BY <1>8, <1>10, Zenon

\* Each day of an approved leave in the year is counted in one month of the
\* pattern, wherever the months begin.
THEOREM PatternAlwaysCountsEachDay == Spec => []PatternCountsEachDay
<1>1. ASSUME TypeInv, LookInv PROVE PatternCountsEachDay
  <2>. SUFFICES ASSUME Answered("pattern"), NEW type \in DOMAIN view.balances,
                       NEW shown, shown = MapThenSumSet(LAMBDA m : LeavePattern(view)[m][type], Months),
                       NEW mine, mine = {r \in Requests : r.user = view.target /\ r.type = type},
                       NEW all, all = {r \in mine : \A d \in during : d.status[r] = "APPROVED"},
                       NEW some, some = {r \in mine : \E d \in during : d.status[r] = "APPROVED"}
       PROVE  /\ shown >= MapThenSumSet(LAMBDA r : Cardinality((r.from..r.to) \cap Year), all)
              /\ shown <= MapThenSumSet(LAMBDA r : Cardinality((r.from..r.to) \cap Year), some)
    BY Zenon DEF PatternCountsEachDay
  <2>1. "pattern" \in DOMAIN Asks /\ "approved" \in Asks["pattern"]
    BY DEF Asks
  <2>2. PICK d \in during : AsOf(d, view, "approved")
    BY <1>1, <2>1, AnswerOfLook
  <2>3. PICK A : A = {r \in view.approved : r.type = type}
    OBVIOUS
  <2>4. PICK at : at = {r \in mine : d.status[r] = "APPROVED"}
    OBVIOUS
  <2>5. A = {r \in at : r.from <= Max(Year) /\ Min(Year) <= r.to}
    <3>1. view.approved = Overlapping(d, {view.target}, Min(Year), Max(Year))
      BY <2>2 DEF AsOf
    <3>. QED
      BY <2>3, <2>4, <3>1 DEF Overlapping, Of
  <2>6. /\ all \subseteq at /\ A \subseteq at /\ A \subseteq some
        /\ at \subseteq mine /\ some \subseteq mine /\ mine \subseteq Requests
    BY <2>4, <2>5
  <2>7. /\ IsFiniteSet(mine) /\ IsFiniteSet(at) /\ IsFiniteSet(some) /\ IsFiniteSet(all)
        /\ IsFiniteSet(A)
    <3>1. IsFiniteSet(mine)
      BY <2>6, LeaveViewsAssumption, FS_Subset
    <3>. QED
      BY <2>6, <3>1, FS_Subset
  <2>8. PICK f : f = [r \in mine |-> DaysInYear(r)]
    OBVIOUS
  <2>9. \A r \in mine : f[r] = DaysInYear(r) /\ f[r] \in Nat
    BY <2>6, <2>8, DaysInYearCounted
  <2>10. shown = SumOf(f, A)
    <3>1. \A r \in A : f[r] = DaysInYear(r)
      BY <2>6, <2>9
    <3>2. A \subseteq Requests
      BY <2>6
    <3>3. ShownIn(view, type, Months) = SumOf(f, A)
      BY <2>3, <3>1, <3>2, PatternOfTheYear
    <3>. QED
      BY <3>3, Zenon DEF ShownIn
  <2>11. SumOf(f, A) = SumOf(f, at)
    <3>1. \A r \in at : f[r] \in Int
      BY <2>6, <2>9
    <3>2. \A r \in at \ A : f[r] = 0
      BY <2>5, <2>6, <2>9, DaysInYearCounted
    <3>. QED
      BY <2>6, <2>7, <3>1, <3>2, SumWithoutZeros
  <2>12. SumOf(f, all) \in Nat /\ SumOf(f, all) <= SumOf(f, at)
    <3>1. \A r \in at : f[r] \in Nat
      BY <2>6, <2>9
    <3>. QED
      BY <2>6, <2>7, <3>1, SumOfPart
  <2>13. SumOf(f, A) \in Nat /\ SumOf(f, A) <= SumOf(f, some)
    <3>1. \A r \in some : f[r] \in Nat
      BY <2>6, <2>9
    <3>. QED
      BY <2>6, <2>7, <3>1, SumOfPart
  <2>14. MapThenSumSet(LAMBDA r : Cardinality((r.from..r.to) \cap Year), all) = SumOf(f, all)
    <3>1. \A r \in all : f[r] = DaysInYear(r)
      BY <2>6, <2>9
    <3>. QED
      BY <2>7, <3>1, YearsAreSum
  <2>15. MapThenSumSet(LAMBDA r : Cardinality((r.from..r.to) \cap Year), some) = SumOf(f, some)
    <3>1. \A r \in some : f[r] = DaysInYear(r)
      BY <2>6, <2>9
    <3>. QED
      BY <2>7, <3>1, YearsAreSum
  <2>16. PICK n, low, high :
           /\ n = SumOf(f, A) /\ low = SumOf(f, all) /\ high = SumOf(f, some)
           /\ n \in Nat /\ low \in Nat /\ low <= n /\ n <= high
    BY <2>11, <2>12, <2>13
  <2>17. n >= low /\ n <= high
    BY <2>16
  <2>. QED
    BY <2>10, <2>14, <2>15, <2>16, <2>17, Zenon
<1>. QED
  BY <1>1, LookInvariant, ServedInvariant, PTL DEF ServedInv

-----------------------------------------------------------------------------
(* A page of the reports.                                                  *)

\* The place of r in the alphabet of R.
PlaceIn(R, r) == Cardinality({q \in R : RankOf[q] <= RankOf[r]})

\* The places of R are the numbers from one to as many as there are, each taken once.
LEMMA PlacesAreCounted ==
    ASSUME NEW R \in SUBSET Users
    PROVE  /\ IsFiniteSet(R) /\ Cardinality(R) \in Nat
           /\ \A r \in R : PlaceIn(R, r) \in 1..Cardinality(R)
           /\ \A p, r \in R : PlaceIn(R, p) = PlaceIn(R, r) => p = r
           /\ \A n \in 1..Cardinality(R) : \E r \in R : PlaceIn(R, r) = n
<1>. DEFINE upto(r) == {q \in R : RankOf[q] <= RankOf[r]}
            place == [r \in R |-> Cardinality(upto(r))]
            N == Cardinality(R)
<1>1. IsFiniteSet(R) /\ N \in Nat
  BY OrgViewsAssumption, FS_Subset, FS_CardinalityType
<1>2. /\ \A r \in R : RankOf[r] \in Int
      /\ \A p, r \in R : RankOf[p] = RankOf[r] => p = r
  BY OrgViewsAssumption DEF Injection, IsInjective
<1>3. ASSUME NEW r \in R
      PROVE  IsFiniteSet(upto(r)) /\ Cardinality(upto(r)) \in 1..N
  <2>. upto(r) \in SUBSET R
    OBVIOUS
  <2>1. IsFiniteSet(upto(r)) /\ Cardinality(upto(r)) <= N
    <3>. HIDE DEF upto
    <3>. QED
      BY <1>1, FS_Subset
  <2>2. r \in upto(r)
    BY <1>2
  <2>3. Cardinality(upto(r)) \in Nat /\ Cardinality(upto(r)) # 0
    <3>. HIDE DEF upto
    <3>. QED
      BY <2>1, <2>2, FS_CardinalityType, FS_EmptySet
  <2>. HIDE DEF upto
  <2>. QED
    BY <1>1, <2>1, <2>3
<1>4. ASSUME NEW p \in R, NEW r \in R, RankOf[p] <= RankOf[r], Cardinality(upto(p)) = Cardinality(upto(r))
      PROVE  p = r
  <2>1. upto(p) \in SUBSET upto(r)
    BY <1>2, <1>4
  <2>2. upto(p) = upto(r)
    <3>. HIDE DEF upto
    <3>. QED
      BY <1>3, <1>4, <2>1, FS_Subset
  <2>3. r \in upto(p)
    BY <1>2, <2>2
  <2>. QED
    BY <1>2, <1>4, <2>3
<1>5. \A p, r \in R : Cardinality(upto(p)) = Cardinality(upto(r)) => p = r
  <2>1. \A p, r \in R : RankOf[p] <= RankOf[r] \/ RankOf[r] <= RankOf[p]
    BY <1>2
  <2>. HIDE DEF upto
  <2>. QED
    BY <1>4, <2>1
<1>6. place \in Injection(R, 1..N)
  <2>. HIDE DEF upto
  <2>. QED
    BY <1>3, <1>5, Fun_IsInj
<1>7. IsFiniteSet(1..N) /\ Cardinality(1..N) = N
  BY <1>1, FS_Interval
<1>8. place \in Surjection(R, 1..N)
  <2>. HIDE DEF place
  <2>. QED
    BY <1>6, <1>7, FS_Injection
<1>9. \A n \in 1..N : \E r \in R : place[r] = n
  <2>. HIDE DEF place
  <2>. QED
    BY <1>8 DEF Surjection
<1>10. \A r \in R : PlaceIn(R, r) = Cardinality(upto(r)) /\ place[r] = PlaceIn(R, r)
  BY DEF PlaceIn
<1>. HIDE DEF upto, place
<1>. QED
  BY <1>1, <1>3, <1>5, <1>9, <1>10

\* A page: how many are on it, and who, when it is the first and large enough.
LEMMA PageOfReports ==
    ASSUME NEW us, NEW u, NEW skip \in Nat, NEW take \in Nat
    PROVE  LET R == Reports(us, u)
               page == Page(us, u, skip, take)
           IN /\ page \subseteq R /\ IsFiniteSet(page) /\ Cardinality(page) <= take
              /\ Cardinality(page) = (LET rest == IF Cardinality(R) - skip < 0 THEN 0 ELSE Cardinality(R) - skip
                                      IN IF take < rest THEN take ELSE rest)
              /\ skip = 0 /\ Cardinality(R) <= take => page = R
<1>. DEFINE R == Reports(us, u)
            N == Cardinality(R)
            page == Page(us, u, skip, take)
            place == [r \in page |-> PlaceIn(R, r)]
            last == IF skip + take < N THEN skip + take ELSE N
<1>1. R \in SUBSET Users
  BY DEF Reports
<1>2. page = {r \in R : PlaceIn(R, r) \in (skip + 1)..(skip + take)}
  BY DEF Page, PlaceIn
<1>. HIDE DEF R, page
<1>3. /\ IsFiniteSet(R) /\ N \in Nat
      /\ \A r \in R : PlaceIn(R, r) \in 1..N
      /\ \A p, r \in R : PlaceIn(R, p) = PlaceIn(R, r) => p = r
      /\ \A n \in 1..N : \E r \in R : PlaceIn(R, r) = n
  BY <1>1, PlacesAreCounted
<1>. HIDE DEF N
<1>4. last \in Nat /\ last <= N /\ last <= skip + take
  BY <1>3
<1>5. page \subseteq R /\ \A r \in page : PlaceIn(R, r) \in (skip + 1)..last
  BY <1>2, <1>3
<1>6. place \in Injection(page, (skip + 1)..last)
  BY <1>3, <1>5, Fun_IsInj
<1>7. \A n \in (skip + 1)..last : \E r \in page : place[r] = n
  <2>. SUFFICES ASSUME NEW n \in (skip + 1)..last PROVE \E r \in page : place[r] = n
    OBVIOUS
  <2>1. n \in 1..N /\ n \in (skip + 1)..(skip + take)
    BY <1>3, <1>4
  <2>2. PICK r \in R : PlaceIn(R, r) = n
    BY <1>3, <2>1
  <2>. QED
    BY <1>2, <2>1, <2>2
<1>8. place \in Surjection(page, (skip + 1)..last)
  BY <1>6, <1>7 DEF Injection, Surjection
<1>9. IsFiniteSet((skip + 1)..last) /\ Cardinality((skip + 1)..last) = (IF skip + 1 > last THEN 0 ELSE last - skip)
  <2>1. skip + 1 \in Int /\ last \in Int
    BY <1>4
  <2>. HIDE DEF last
  <2>2. /\ IsFiniteSet((skip + 1)..last)
        /\ Cardinality((skip + 1)..last) = IF skip + 1 > last THEN 0 ELSE last - (skip + 1) + 1
    BY <2>1, FS_Interval
  <2>. QED
    BY <2>1, <2>2
<1>10. IsFiniteSet(page) /\ Cardinality(page) = Cardinality((skip + 1)..last)
  <2>. HIDE DEF place, last
  <2>. QED
    BY <1>6, <1>8, <1>9, FS_Injection
<1>11. Cardinality(page) = (IF skip + 1 > last THEN 0 ELSE last - skip)
  BY <1>9, <1>10
<1>12. skip = 0 /\ N <= take => page = R
  BY <1>2, <1>3
<1>13. Cardinality(page) <= take
  BY <1>3, <1>4, <1>11
<1>14. Cardinality(page) = (LET rest == IF N - skip < 0 THEN 0 ELSE N - skip
                            IN IF take < rest THEN take ELSE rest)
  BY <1>3, <1>11
<1>. QED
  BY <1>5, <1>10, <1>12, <1>13, <1>14 DEF R, N, page

-----------------------------------------------------------------------------
(* The ways down from a user.                                              *)

\* A way down from u, over live users, of whom it meets none twice.
GoesDown(us, u, way) ==
    /\ \A i \in 1..Len(way) : way[i] \in Reports(us, IF i = 1 THEN u ELSE way[i - 1])
    /\ \A i, j \in 1..Len(way) : way[i] = way[j] => i = j

WaysOf(us, u) == {way \in Seq(Users) : way # << >> /\ GoesDown(us, u, way)}

Onwards(us, W) ==
    UNION {{Append(way, r) : r \in Reports(us, Last(way)) \ Range(way)} : way \in W}

\* The equation of the recursive query.
IsQuery(us, u, ways) ==
    ways = [n \in 1..Cardinality(Users) |->
              IF n = 1 THEN {<<r>> : r \in Reports(us, u)} ELSE Onwards(us, ways[n - 1])]

\* It has a solution, whose rows are those of the query.
LEMMA QueryExists ==
    ASSUME NEW us, NEW u, Users # {}
    PROVE  \E ways : IsQuery(us, u, ways) /\ WaysDown(us, u) = UNION {ways[n] : n \in 1..Cardinality(Users)}
<1>. DEFINE N == Cardinality(Users)
            X == SUBSET Seq(Users)
            first == {<<r>> : r \in Reports(us, u)}
            step == [W \in X |-> Onwards(us, W)]
<1>1. N \in Nat \ {0}
  BY OrgViewsAssumption, FS_CardinalityType, FS_EmptySet
<1>2. \A m : Reports(us, m) \subseteq Users
  BY DEF Reports
<1>3. first \in X
  BY <1>2
<1>4. \A x \in X : step[x] \in X
  <2>1. ASSUME NEW W \in X PROVE Onwards(us, W) \in X
    <3>1. ASSUME NEW way \in W, NEW r \in Reports(us, Last(way)) PROVE Append(way, r) \in Seq(Users)
      BY <1>2, AppendProperties
    <3>. QED
      BY <3>1 DEF Onwards
  <2>. QED
    BY <2>1
<1>5. PICK g \in [1..N -> X] : Follows(g, N, first, step)
  <2>. HIDE DEF N, X, first, step
  <2>. QED
    BY <1>1, <1>3, <1>4, StepsExist, Zenon
<1>6. IsQuery(us, u, g)
  <2>1. ASSUME NEW i \in 1..N
        PROVE  g[i] = IF i = 1 THEN first ELSE Onwards(us, g[i - 1])
    <3>1. i # 1 => g[i - 1] \in X
      <4>. HIDE DEF N, X
      <4>. QED
        BY <1>1
    <3>. HIDE DEF X, first, N
    <3>. QED
      BY <1>5, <2>1, <3>1 DEF Follows
  <2>. HIDE DEF first, N, X
  <2>2. g = [i \in 1..N |-> IF i = 1 THEN first ELSE Onwards(us, g[i - 1])]
    BY <2>1
  <2>. QED
    BY <2>2 DEF IsQuery, first, N
<1>7. PICK ways : ways = CHOOSE f : IsQuery(us, u, f)
  OBVIOUS
<1>8. IsQuery(us, u, ways)
  BY <1>6, <1>7
<1>9. WaysDown(us, u) = UNION {ways[n] : n \in DOMAIN ways}
  BY <1>7 DEF WaysDown, IsQuery, Onwards
<1>10. DOMAIN ways = 1..N
  BY <1>8 DEF IsQuery
<1>. QED
  BY <1>8, <1>9, <1>10

\* What a way is, at its ends.
LEMMA WayFacts ==
    ASSUME NEW us, NEW u, NEW way \in WaysOf(us, u)
    PROVE  /\ way \in Seq(Users) /\ Len(way) \in Nat \ {0} /\ way # << >>
           /\ \A i \in 1..Len(way) : way[i] \in Users
           /\ Range(way) = {way[i] : i \in 1..Len(way)}
           /\ Last(way) = way[Len(way)] /\ Len(way) <= Cardinality(Users)
<1>1. way \in Seq(Users) /\ way # << >> /\ GoesDown(us, u, way)
  BY DEF WaysOf
<1>2. Len(way) \in Nat \ {0} /\ \A i \in 1..Len(way) : way[i] \in Users
  BY <1>1, EmptySeq, ElementOfSeq
<1>3. Range(way) = {way[i] : i \in 1..Len(way)}
  BY <1>1, RangeEquality
<1>4. way \in [1..Len(way) -> Users]
  BY <1>1, LenProperties
<1>5. way \in Injection(1..Len(way), Users)
  BY <1>1, <1>4, Fun_IsInj DEF GoesDown
<1>6. Cardinality(1..Len(way)) <= Cardinality(Users)
  BY <1>5, OrgViewsAssumption, FS_Injection
<1>7. Cardinality(1..Len(way)) = Len(way)
  BY <1>2, FS_Interval
<1>8. Last(way) = way[Len(way)]
  BY DEF Last
<1>. QED
  BY <1>1, <1>2, <1>3, <1>6, <1>7, <1>8

\* What a way down begins with is one.
LEMMA WayBegins ==
    ASSUME NEW us, NEW u, NEW way \in WaysOf(us, u), NEW n \in 1..Len(way)
    PROVE  /\ SubSeq(way, 1, n) \in WaysOf(us, u)
           /\ Len(SubSeq(way, 1, n)) = n
           /\ \A i \in 1..n : SubSeq(way, 1, n)[i] = way[i]
<1>1. /\ way \in Seq(Users) /\ Len(way) \in Nat \ {0}
      /\ \A i \in 1..Len(way) : way[i] \in Users
  BY WayFacts
<1>2. PICK w : w = SubSeq(way, 1, n)
  OBVIOUS
<1>3. n \in Nat \ {0} /\ n \in Int /\ n <= Len(way) /\ \A i \in 1..n : i \in 1..Len(way)
  BY <1>1
<1>4. w \in Seq(Users) /\ Len(w) = n /\ \A i \in 1..n : w[i] = way[i]
  <2>1. \A i \in 1..n : way[i] \in Users
    BY <1>1, <1>3
  <2>2. /\ w \in Seq(Users) /\ Len(w) = (IF 1 <= n THEN n - 1 + 1 ELSE 0)
        /\ \A i \in 1..(n - 1 + 1) : w[i] = way[1 + i - 1]
    BY <1>2, <1>3, <2>1, SubSeqProperties
  <2>. QED
    BY <1>3, <2>2
<1>5. GoesDown(us, u, way)
  BY DEF WaysOf
<1>6. w # << >>
  BY <1>3, <1>4
<1>7. GoesDown(us, u, w)
  <2>1. ASSUME NEW i \in 1..n PROVE w[i] \in Reports(us, IF i = 1 THEN u ELSE w[i - 1])
    <3>1. i \in 1..Len(way) /\ w[i] = way[i] /\ way[i] \in Reports(us, IF i = 1 THEN u ELSE way[i - 1])
      BY <1>3, <1>4, <1>5 DEF GoesDown
    <3>2. i # 1 => w[i - 1] = way[i - 1]
      BY <1>3, <1>4
    <3>. QED
      BY <3>1, <3>2
  <2>2. \A i, j \in 1..n : w[i] = w[j] => i = j
    BY <1>3, <1>4, <1>5 DEF GoesDown
  <2>. QED
    BY <1>4, <2>1, <2>2 DEF GoesDown
<1>. QED
  BY <1>2, <1>4, <1>6, <1>7 DEF WaysOf

\* A way goes on to whoever reports to its end and is not on it.
LEMMA WayGoesOn ==
    ASSUME NEW us, NEW u, NEW way \in WaysOf(us, u), NEW r \in Reports(us, Last(way)) \ Range(way)
    PROVE  /\ Append(way, r) \in WaysOf(us, u)
           /\ Len(Append(way, r)) = Len(way) + 1 /\ Last(Append(way, r)) = r
<1>1. /\ way \in Seq(Users) /\ Len(way) \in Nat \ {0}
      /\ \A i \in 1..Len(way) : way[i] \in Users
      /\ Range(way) = {way[i] : i \in 1..Len(way)} /\ Last(way) = way[Len(way)]
  BY WayFacts
<1>2. r \in Users
  BY DEF Reports
<1>3. PICK w : w = Append(way, r)
  OBVIOUS
<1>4. /\ w \in Seq(Users) /\ w # << >> /\ Len(w) = Len(way) + 1
      /\ \A i \in 1..Len(way) : w[i] = way[i]
      /\ w[Len(way) + 1] = r
  BY <1>1, <1>2, <1>3, AppendProperties
<1>5. GoesDown(us, u, way)
  BY DEF WaysOf
<1>6. ASSUME NEW i \in 1..Len(w) PROVE w[i] \in Reports(us, IF i = 1 THEN u ELSE w[i - 1])
  <2>1. CASE i \in 1..Len(way)
    <3>1. way[i] \in Reports(us, IF i = 1 THEN u ELSE way[i - 1])
      BY <1>5, <2>1 DEF GoesDown
    <3>2. w[i] = way[i] /\ (i # 1 => w[i - 1] = way[i - 1])
      BY <1>1, <1>4, <2>1
    <3>. QED
      BY <3>1, <3>2
  <2>2. CASE i = Len(way) + 1
    <3>1. w[i] = r /\ i # 1 /\ w[i - 1] = way[Len(way)]
      BY <1>1, <1>4, <2>2
    <3>. QED
      BY <1>1, <3>1
  <2>. QED
    BY <1>1, <1>4, <2>1, <2>2
<1>7. ASSUME NEW i \in 1..Len(w), NEW j \in 1..Len(w), w[i] = w[j]
      PROVE  i = j
  <2>1. \A k \in 1..Len(way) : w[k] # r
    BY <1>1, <1>4
  <2>2. CASE i \in 1..Len(way) /\ j \in 1..Len(way)
    BY <1>4, <1>5, <1>7, <2>2 DEF GoesDown
  <2>3. CASE i = Len(way) + 1 \/ j = Len(way) + 1
    BY <1>1, <1>4, <1>7, <2>1, <2>3
  <2>. QED
    BY <1>1, <1>4, <2>2, <2>3
<1>8. GoesDown(us, u, w)
  BY <1>6, <1>7 DEF GoesDown
<1>9. w \in WaysOf(us, u)
  BY <1>4, <1>8 DEF WaysOf
<1>10. Last(w) = r
  BY <1>4 DEF Last
<1>. QED
  BY <1>3, <1>4, <1>9, <1>10

\* The way of one user is that of a report.
LEMMA WaysOfOne ==
    ASSUME NEW us, NEW u
    PROVE  {<<r>> : r \in Reports(us, u)} = {way \in WaysOf(us, u) : Len(way) = 1}
<1>1. ASSUME NEW r \in Reports(us, u)
      PROVE  <<r>> \in WaysOf(us, u) /\ Len(<<r>>) = 1
  <2>1. PICK w : w = <<r>>
    OBVIOUS
  <2>2. r \in Users
    BY DEF Reports
  <2>3. w \in Seq(Users) /\ Len(w) = 1 /\ w[1] = r /\ w # << >>
    BY <2>1, <2>2
  <2>4. GoesDown(us, u, w)
    BY <2>3 DEF GoesDown
  <2>. QED
    BY <2>1, <2>3, <2>4 DEF WaysOf
<1>2. ASSUME NEW way \in WaysOf(us, u), Len(way) = 1
      PROVE  \E r \in Reports(us, u) : way = <<r>>
  <2>1. way \in Seq(Users)
    BY WayFacts
  <2>2. way = <<way[1]>>
    BY <1>2, <2>1
  <2>3. way[1] \in Reports(us, u)
    BY <1>2 DEF WaysOf, GoesDown
  <2>. QED
    BY <2>2, <2>3
<1>. QED
  BY <1>1, <1>2

\* A longer way goes on from a way.
LEMMA WaysOfMore ==
    ASSUME NEW us, NEW u, NEW n \in Nat \ {0}
    PROVE  Onwards(us, {way \in WaysOf(us, u) : Len(way) = n}) = {way \in WaysOf(us, u) : Len(way) = n + 1}
<1>. DEFINE before == {way \in WaysOf(us, u) : Len(way) = n}
<1>1. ASSUME NEW w \in Onwards(us, before)
      PROVE  w \in WaysOf(us, u) /\ Len(w) = n + 1
  <2>1. PICK way \in before : \E r \in Reports(us, Last(way)) \ Range(way) : w = Append(way, r)
    BY <1>1 DEF Onwards
  <2>3. PICK r \in Reports(us, Last(way)) \ Range(way) : w = Append(way, r)
    BY <2>1
  <2>2. /\ Append(way, r) \in WaysOf(us, u)
        /\ Len(Append(way, r)) = Len(way) + 1
    BY WayGoesOn
  <2>. QED
    BY <2>2, <2>3
<1>2. ASSUME NEW w \in WaysOf(us, u), Len(w) = n + 1
      PROVE  w \in Onwards(us, before)
  <2>1. w \in Seq(Users) /\ \A i \in 1..Len(w) : w[i] \in Users
    BY WayFacts
  <2>2. n \in 1..Len(w) /\ n + 1 \in 1..Len(w)
    BY <1>2
  <2>3. PICK way : way = SubSeq(w, 1, n)
    OBVIOUS
  <2>4. way \in WaysOf(us, u) /\ Len(way) = n /\ \A i \in 1..n : way[i] = w[i]
    BY <2>2, <2>3, WayBegins
  <2>5. way \in Seq(Users) /\ Range(way) = {way[i] : i \in 1..Len(way)} /\ Last(way) = way[Len(way)]
    BY <2>4, WayFacts
  <2>6. PICK r \in Users : r = w[n + 1]
    BY <2>1, <2>2
  <2>7. GoesDown(us, u, w)
    BY DEF WaysOf
  <2>8. r \in Reports(us, Last(way))
    <3>1. w[n + 1] \in Reports(us, IF n + 1 = 1 THEN u ELSE w[n + 1 - 1])
      BY <2>2, <2>7 DEF GoesDown
    <3>2. Last(way) = w[n] /\ n + 1 # 1 /\ n + 1 - 1 = n
      BY <2>4, <2>5
    <3>. QED
      BY <2>6, <3>1, <3>2
  <2>9. r \notin Range(way)
    BY <1>2, <2>2, <2>4, <2>5, <2>6, <2>7 DEF GoesDown
  <2>10. w = Append(way, r)
    <3>1. PICK x : x = Append(way, r)
      OBVIOUS
    <3>2. /\ x \in Seq(Users) /\ Len(x) = n + 1
          /\ \A i \in 1..n : x[i] = way[i]
          /\ x[n + 1] = r
      BY <2>4, <2>5, <2>6, <3>1, AppendProperties
    <3>3. \A i \in 1..Len(w) : w[i] = x[i]
      BY <1>2, <2>4, <2>6, <3>2
    <3>. QED
      BY <1>2, <2>1, <3>1, <3>2, <3>3, SeqEqual
  <2>11. way \in before
    BY <2>4
  <2>. HIDE DEF before
  <2>. QED
    BY <2>8, <2>9, <2>10, <2>11 DEF Onwards
<1>3. Onwards(us, before) = {way \in WaysOf(us, u) : Len(way) = n + 1}
  <2>. HIDE DEF before
  <2>. QED
    BY <1>1, <1>2
<1>. QED
  BY <1>3

\* The rows of the recursive query are the ways down.
LEMMA WaysDownAreWays ==
    ASSUME NEW us, NEW u, Users # {}
    PROVE  WaysDown(us, u) = WaysOf(us, u)
<1>. DEFINE of(n) == {way \in WaysOf(us, u) : Len(way) = n}
<1>1. PICK N : N = Cardinality(Users)
  OBVIOUS
<1>2. N \in Nat \ {0}
  BY <1>1, OrgViewsAssumption, FS_CardinalityType, FS_EmptySet
<1>3. PICK ways : IsQuery(us, u, ways) /\ WaysDown(us, u) = UNION {ways[n] : n \in 1..N}
  BY <1>1, QueryExists
<1>4. \A n \in 1..N : ways[n] = IF n = 1 THEN {<<r>> : r \in Reports(us, u)} ELSE Onwards(us, ways[n - 1])
  BY <1>1, <1>3 DEF IsQuery
<1>. DEFINE good == {n \in 1..N : ways[n] = of(n)}
<1>5. 1 \in good
  <2>1. ways[1] = {<<r>> : r \in Reports(us, u)}
    <3>1. 1 \in 1..N
      BY <1>2
    <3>. QED
      BY <1>4, <3>1, Zenon
  <2>2. ways[1] = of(1)
    BY <2>1, WaysOfOne, Zenon
  <2>. QED
    BY <1>2, <2>2
<1>6. ASSUME NEW n \in 1..N, n \in good, n + 1 <= N
      PROVE  n + 1 \in good
  <2>1. n + 1 \in 1..N /\ n + 1 # 1 /\ (n + 1) - 1 = n /\ n \in Nat \ {0}
    BY <1>2, <1>6
  <2>2. ways[n + 1] = Onwards(us, ways[(n + 1) - 1])
    <3>. HIDE DEF good
    <3>. QED
      BY <1>4, <2>1
  <2>3. ways[n] = of(n)
    BY <1>6
  <2>4. Onwards(us, of(n)) = of(n + 1)
    BY <2>1, WaysOfMore
  <2>5. ways[n + 1] = of(n + 1)
    BY <2>1, <2>2, <2>3, <2>4, Zenon
  <2>. QED
    BY <2>1, <2>5
<1>7. \A n \in 1..N : n \in good
  <2>. HIDE DEF good
  <2>. QED
    BY <1>2, <1>5, <1>6, StepInduction
<1>8. \A n \in 1..N : ways[n] = of(n)
  BY <1>7
<1>9. \A way \in WaysOf(us, u) : Len(way) \in 1..N
  BY <1>1, <1>2, WayFacts
<1>10. UNION {ways[n] : n \in 1..N} = WaysOf(us, u)
  BY <1>8, <1>9
<1>. QED
  BY <1>3, <1>10

EndsOf(us, u) == {Last(way) : way \in WaysOf(us, u)}

\* There are finitely many ways: a way is the set of its places and who is there.
LEMMA WaysAreFinite ==
    ASSUME NEW us, NEW u
    PROVE  IsFiniteSet(WaysOf(us, u))
<1>. DEFINE N == Cardinality(Users)
            graph(way) == {<<i, way[i]>> : i \in 1..Len(way)}
            W == WaysOf(us, u)
            G == SUBSET ((1..N) \X Users)
            graphs == [way \in W |-> graph(way)]
<1>1. N \in Nat
  BY OrgViewsAssumption, FS_CardinalityType
<1>2. IsFiniteSet(G)
  <2>1. IsFiniteSet(1..N)
    BY <1>1, FS_Interval
  <2>2. IsFiniteSet((1..N) \X Users)
    BY <2>1, OrgViewsAssumption, FS_Product
  <2>. QED
    BY <2>2, FS_SUBSET
<1>3. ASSUME NEW way \in W PROVE graph(way) \in G
  <2>1. Len(way) \in Nat /\ Len(way) <= N /\ \A i \in 1..Len(way) : way[i] \in Users
    BY WayFacts
  <2>. HIDE DEF N
  <2>2. \A i \in 1..Len(way) : <<i, way[i]>> \in (1..N) \X Users
    BY <1>1, <2>1
  <2>. QED
    BY <2>2
<1>4. ASSUME NEW w \in W, NEW v \in W, graph(w) = graph(v)
      PROVE  w = v
  <2>1. /\ w \in Seq(Users) /\ Len(w) \in Nat \ {0}
        /\ v \in Seq(Users) /\ Len(v) \in Nat \ {0}
    BY WayFacts
  <2>2. ASSUME NEW i \in 1..Len(w) PROVE i \in 1..Len(v) /\ w[i] = v[i]
    <3>1. <<i, w[i]>> \in graph(v)
      BY <1>4
    <3>2. PICK j \in 1..Len(v) : <<i, w[i]>> = <<j, v[j]>>
      BY <3>1
    <3>. QED
      BY <3>2
  <2>3. ASSUME NEW i \in 1..Len(v) PROVE i \in 1..Len(w)
    <3>1. <<i, v[i]>> \in graph(w)
      BY <1>4
    <3>2. PICK j \in 1..Len(w) : <<i, v[i]>> = <<j, w[j]>>
      BY <3>1
    <3>. QED
      BY <3>2
  <2>4. Len(w) \in 1..Len(w) /\ Len(v) \in 1..Len(v)
    BY <2>1
  <2>5. Len(w) \in 1..Len(v) /\ Len(v) \in 1..Len(w)
    BY <2>2, <2>3, <2>4
  <2>6. Len(w) = Len(v)
    BY <2>1, <2>5
  <2>. HIDE DEF graph
  <2>. QED
    BY <2>1, <2>2, <2>6, SeqEqual
<1>5. graphs \in Injection(W, G)
  <2>. HIDE DEF W, G, graph
  <2>. QED
    BY <1>3, <1>4, Fun_IsInj
<1>. HIDE DEF graphs, G
<1>. QED
  BY <1>2, <1>5, FS_Injection

\* Whoever reports to the end of a way is the end of one.
LEMMA EndsGoOn ==
    ASSUME NEW us, NEW u, NEW above \in EndsOf(us, u), NEW r \in Reports(us, above)
    PROVE  r \in EndsOf(us, u)
<1>1. PICK way \in WaysOf(us, u) : above = Last(way)
  BY DEF EndsOf
<1>2. CASE r \in Range(way)
  <2>1. PICK n \in 1..Len(way) : r = way[n]
    BY <1>2, WayFacts
  <2>2. PICK w : w = SubSeq(way, 1, n)
    OBVIOUS
  <2>3. w \in WaysOf(us, u) /\ Len(w) = n /\ \A i \in 1..n : w[i] = way[i]
    BY <2>2, WayBegins
  <2>4. Len(w) \in Nat \ {0} /\ Last(w) = w[Len(w)]
    BY <2>3, WayFacts
  <2>5. Last(w) = r
    BY <2>1, <2>3, <2>4
  <2>. QED
    BY <2>3, <2>5 DEF EndsOf
<1>3. CASE r \notin Range(way)
  <2>1. Append(way, r) \in WaysOf(us, u) /\ Last(Append(way, r)) = r
    BY <1>1, <1>3, WayGoesOn
  <2>. QED
    BY <2>1 DEF EndsOf
<1>. QED
  BY <1>2, <1>3

\* Everybody on a way is the end of one, that of the first a report.
LEMMA OnAWay ==
    ASSUME NEW us, NEW u
    PROVE  /\ Reports(us, u) \subseteq EndsOf(us, u)
           /\ \A way \in WaysOf(us, u) : \A n \in 1..Len(way) : way[n] \in EndsOf(us, u)
<1>1. ASSUME NEW r \in Reports(us, u) PROVE r \in EndsOf(us, u)
  <2>1. PICK way \in WaysOf(us, u) : way = <<r>> /\ Len(way) = 1
    <3>1. <<r>> \in {way \in WaysOf(us, u) : Len(way) = 1}
      BY WaysOfOne, Zenon
    <3>. QED
      BY <3>1
  <2>2. Last(way) = r
    BY <2>1, WayFacts
  <2>. QED
    BY <2>2 DEF EndsOf
<1>2. ASSUME NEW way \in WaysOf(us, u), NEW n \in 1..Len(way) PROVE way[n] \in EndsOf(us, u)
  <2>1. PICK w : w = SubSeq(way, 1, n)
    OBVIOUS
  <2>2. w \in WaysOf(us, u) /\ Len(w) = n /\ \A i \in 1..n : w[i] = way[i]
    BY <2>1, WayBegins
  <2>3. Len(w) \in Nat \ {0} /\ Last(w) = w[Len(w)]
    BY <2>2, WayFacts
  <2>4. Last(w) = way[n]
    BY <2>2, <2>3
  <2>. QED
    BY <2>2, <2>4 DEF EndsOf
<1>. QED
  BY <1>1, <1>2

\* Unless the way comes back to u, there is one way to an end: up from there each
\* has one manager.
LEMMA OneWayToAnEnd ==
    ASSUME NEW us, NEW u, u \notin EndsOf(us, u), NEW w \in WaysOf(us, u), NEW v \in WaysOf(us, u),
           Last(w) = Last(v), Len(w) <= Len(v)
    PROVE  w = v
<1>1. /\ w \in Seq(Users) /\ Len(w) \in Nat \ {0} /\ Last(w) = w[Len(w)]
      /\ v \in Seq(Users) /\ Len(v) \in Nat \ {0} /\ Last(v) = v[Len(v)]
  BY WayFacts
<1>2. PICK n \in Nat \ {0} : n = Len(w)
  BY <1>1
<1>3. PICK more \in Nat : Len(v) = n + more
  <2>1. Len(v) - n \in Nat /\ Len(v) = n + (Len(v) - n)
    BY <1>1, <1>2
  <2>. QED
    BY <2>1
<1>4. /\ \A i \in 1..n : w[i] \in Reports(us, IF i = 1 THEN u ELSE w[i - 1])
      /\ \A i \in 1..(n + more) : v[i] \in Reports(us, IF i = 1 THEN u ELSE v[i - 1])
  BY <1>2, <1>3 DEF WaysOf, GoesDown
<1>5. /\ \A i \in 1..n : us[w[i]].manager = IF i = 1 THEN u ELSE w[i - 1]
      /\ \A i \in 1..(n + more) : us[v[i]].manager = IF i = 1 THEN u ELSE v[i - 1]
  BY <1>4 DEF Reports
<1>. DEFINE same(k) == w[n - k + 1] = v[n + more - k + 1]
            good == {k \in 1..n : same(k)}
<1>6. 1 \in good
  <2>1. n - 1 + 1 = n /\ n + more - 1 + 1 = n + more /\ 1 \in 1..n
    OBVIOUS
  <2>. QED
    BY <1>1, <1>2, <1>3, <2>1
<1>7. ASSUME NEW k \in 1..n, k \in good, k + 1 <= n
      PROVE  k + 1 \in good
  <2>1. PICK i, j : i = n - k + 1 /\ j = n + more - k + 1
    OBVIOUS
  <2>2. i \in 1..n /\ i # 1 /\ i - 1 = n - (k + 1) + 1
    BY <1>7, <2>1
  <2>3. j \in 1..(n + more) /\ j # 1 /\ j - 1 = n + more - (k + 1) + 1
    BY <1>7, <2>1
  <2>4. w[i] = v[j]
    BY <1>7, <2>1
  <2>5. us[w[i]].manager = w[i - 1] /\ us[v[j]].manager = v[j - 1]
    BY <1>5, <2>2, <2>3
  <2>6. w[i - 1] = v[j - 1]
    BY <2>4, <2>5
  <2>7. same(k + 1)
    BY <2>2, <2>3, <2>6
  <2>8. k + 1 \in 1..n
    BY <1>7
  <2>. QED
    BY <2>7, <2>8
<1>8. \A k \in 1..n : same(k)
  <2>1. \A k \in 1..n : k \in good
    <3>. HIDE DEF good
    <3>. QED
      BY <1>6, <1>7, StepInduction
  <2>. QED
    BY <2>1
<1>9. ASSUME NEW i \in 1..n PROVE w[i] = v[i + more]
  <2>1. PICK k \in 1..n : n - k + 1 = i /\ n + more - k + 1 = i + more
    <3>1. n - i + 1 \in 1..n /\ n - (n - i + 1) + 1 = i /\ n + more - (n - i + 1) + 1 = i + more
      OBVIOUS
    <3>. QED
      BY <3>1
  <2>. QED
    BY <1>8, <2>1
<1>10. more = 0
  <2>. SUFFICES ASSUME more # 0 PROVE FALSE
    OBVIOUS
  <2>1. 1 \in 1..n /\ 1 + more \in 1..(n + more) /\ 1 + more # 1 /\ (1 + more) - 1 = more /\ more \in 1..(n + more)
    OBVIOUS
  <2>2. w[1] = v[1 + more]
    BY <1>9, <2>1
  <2>3. us[w[1]].manager = u
    BY <1>5, <2>1
  <2>4. us[v[1 + more]].manager = v[more]
    BY <1>5, <2>1
  <2>5. v[more] \in EndsOf(us, u)
    BY <1>3, <2>1, OnAWay
  <2>. QED
    BY <2>2, <2>3, <2>4, <2>5
<1>11. Len(w) = Len(v) /\ \A i \in 1..Len(w) : w[i] = v[i]
  BY <1>2, <1>3, <1>9, <1>10
<1>. QED
  BY <1>1, <1>11, SeqEqual

-----------------------------------------------------------------------------
(* The team.                                                               *)

\* The live users that one of them manages.
Managed(us, above) == {r \in Users : Live(us, r) /\ us[r].manager \in above}

\* The equation of the team.
IsTeam(us, u, team) ==
    team = [n \in 0..Cardinality(Users) |->
              IF n = 0 THEN Managed(us, {u}) ELSE team[n - 1] \cup Managed(us, team[n - 1])]

\* The levels of a team, each with those before.
Levels(us, u, n, g) ==
    g[1] = Reports(us, u) /\ \A k \in 1..n : g[k + 1] = g[k] \cup Managed(us, g[k])

\* There are such levels, and the last is the team.
LEMMA TeamExists ==
    ASSUME NEW d, NEW u, Users # {}
    PROVE  \E g : /\ Team(d, u) = g[Cardinality(Users) + 1]
                  /\ Levels(d.users, u, Cardinality(Users), g)
<1>. DEFINE X == SUBSET Users
            step == [above \in X |-> above \cup Managed(d.users, above)]
<1>1. PICK N \in Nat \ {0} : N = Cardinality(Users)
  BY OrgViewsAssumption, FS_CardinalityType, FS_EmptySet
<1>2. PICK us : us = d.users
  OBVIOUS
<1>3. PICK first : first = Managed(us, {u})
  OBVIOUS
<1>4. first \in X /\ \A above \in X : step[above] \in X
  BY <1>3 DEF Managed
<1>5. PICK g \in [1..(N + 1) -> X] : Follows(g, N + 1, first, step)
  <2>1. N + 1 \in Nat \ {0}
    OBVIOUS
  <2>. HIDE DEF X, step
  <2>. QED
    BY <1>4, <2>1, StepsExist
<1>6. g[1] = first /\ \A k \in 1..N : g[k + 1] = g[k] \cup Managed(us, g[k])
  <2>1. g[1] = first /\ \A i \in 1..(N + 1) : i # 1 => g[i] = step[g[i - 1]]
    BY <1>5 DEF Follows
  <2>2. ASSUME NEW k \in 1..N PROVE g[k + 1] = g[k] \cup Managed(us, g[k])
    <3>1. k + 1 \in 1..(N + 1) /\ k + 1 # 1 /\ (k + 1) - 1 = k /\ k \in 1..(N + 1)
      OBVIOUS
    <3>2. g[k] \in X
      BY <3>1
    <3>3. g[k + 1] = step[g[k]]
      <4>. HIDE DEF step
      <4>. QED
        BY <2>1, <3>1
    <3>. QED
      BY <1>2, <3>2, <3>3
  <2>. QED
    BY <2>1, <2>2
<1>. DEFINE levels == [n \in 0..N |-> g[n + 1]]
<1>7. IsTeam(us, u, levels)
  <2>1. ASSUME NEW n \in 0..N
        PROVE  levels[n] = IF n = 0 THEN Managed(us, {u}) ELSE levels[n - 1] \cup Managed(us, levels[n - 1])
    <3>1. CASE n = 0
      <4>1. levels[0] = g[1]
        OBVIOUS
      <4>. HIDE DEF levels
      <4>. QED
        BY <1>3, <1>6, <3>1, <4>1
    <3>2. CASE n # 0
      <4>1. n \in 1..N /\ n - 1 \in 0..N /\ (n - 1) + 1 = n
        BY <3>2
      <4>2. levels[n] = g[n + 1] /\ levels[n - 1] = g[n]
        BY <4>1
      <4>. HIDE DEF levels
      <4>. QED
        BY <1>6, <3>2, <4>1, <4>2
    <3>. QED
      BY <3>1, <3>2
  <2>2. PICK team : team = levels
    OBVIOUS
  <2>3. team = [n \in 0..N |-> team[n]]
    BY <2>2
  <2>. HIDE DEF levels
  <2>4. team = [n \in 0..N |-> IF n = 0 THEN Managed(us, {u}) ELSE team[n - 1] \cup Managed(us, team[n - 1])]
    BY <2>1, <2>2, <2>3
  <2>. QED
    BY <1>1, <2>2, <2>4 DEF IsTeam
<1>8. PICK team : team = CHOOSE f : IsTeam(us, u, f)
  OBVIOUS
<1>9. IsTeam(us, u, team)
  <2>. HIDE DEF levels
  <2>. QED
    BY <1>7, <1>8
<1>10. Team(d, u) = team[N]
  BY <1>1, <1>2, <1>8 DEF Team, IsTeam, Managed
<1>11. \A n \in 0..N : team[n] = IF n = 0 THEN Managed(us, {u}) ELSE team[n - 1] \cup Managed(us, team[n - 1])
  BY <1>1, <1>9 DEF IsTeam
<1>12. PICK h : h = [k \in 1..(N + 1) |-> team[k - 1]]
  OBVIOUS
<1>13. h[N + 1] = team[N]
  <2>1. N + 1 \in 1..(N + 1) /\ (N + 1) - 1 = N
    OBVIOUS
  <2>. QED
    BY <1>12, <2>1
<1>14. h[1] = Managed(us, {u})
  <2>1. 1 \in 1..(N + 1) /\ 1 - 1 = 0 /\ 0 \in 0..N
    OBVIOUS
  <2>2. h[1] = team[0]
    BY <1>12, <2>1
  <2>3. team[0] = Managed(us, {u})
    BY <1>11, <2>1, Zenon
  <2>. QED
    BY <2>2, <2>3
<1>15. ASSUME NEW k \in 1..N PROVE h[k + 1] = h[k] \cup Managed(us, h[k])
  <2>1. k \in 1..(N + 1) /\ k + 1 \in 1..(N + 1) /\ (k + 1) - 1 = k /\ k \in 0..N /\ k # 0
    OBVIOUS
  <2>2. h[k + 1] = team[k] /\ h[k] = team[k - 1]
    BY <1>12, <2>1
  <2>3. team[k] = team[k - 1] \cup Managed(us, team[k - 1])
    BY <1>11, <2>1, Zenon
  <2>. QED
    BY <2>2, <2>3
<1>16. Managed(us, {u}) = Reports(us, u)
  BY DEF Managed, Reports
<1>17. Levels(us, u, N, h)
  BY <1>14, <1>15, <1>16 DEF Levels
<1>. QED
  BY <1>1, <1>2, <1>10, <1>13, <1>17

\* The team are those at the ends of the ways.
LEMMA TeamIsEnds ==
    ASSUME NEW d, NEW u, Users # {}
    PROVE  Team(d, u) = EndsOf(d.users, u)
<1>1. PICK N \in Nat \ {0} : N = Cardinality(Users)
  BY OrgViewsAssumption, FS_CardinalityType, FS_EmptySet
<1>2. PICK us : us = d.users
  OBVIOUS
<1>16. PICK g : Team(d, u) = g[N + 1] /\ Levels(us, u, N, g)
  BY <1>1, <1>2, TeamExists
<1>3. /\ Team(d, u) = g[N + 1] /\ g[1] = Reports(us, u)
      /\ \A k \in 1..N : g[k + 1] = g[k] \cup Managed(us, g[k])
  BY <1>16 DEF Levels
<1>4. PICK ends : ends = EndsOf(us, u)
  OBVIOUS
<1>. DEFINE inside == {k \in 1..(N + 1) : g[k] \subseteq ends}
            outside == {k \in 1..(N + 1) : \A way \in WaysOf(us, u) : \A i \in 1..Len(way) : i <= k => way[i] \in g[k]}
<1>5. 1 \in inside
  BY <1>3, <1>4, OnAWay
<1>6. ASSUME NEW k \in 1..(N + 1), k \in inside, k + 1 <= N + 1
      PROVE  k + 1 \in inside
  <2>1. g[k + 1] = g[k] \cup Managed(us, g[k]) /\ g[k] \subseteq ends
    BY <1>3, <1>6
  <2>2. ASSUME NEW r \in Managed(us, g[k]) PROVE r \in ends
    <3>1. us[r].manager \in ends /\ r \in Reports(us, us[r].manager)
      BY <2>1 DEF Managed, Reports
    <3>. QED
      BY <1>4, <3>1, EndsGoOn
  <2>3. k + 1 \in 1..(N + 1)
    BY <1>6
  <2>. QED
    BY <2>1, <2>2, <2>3
<1>7. N + 1 \in Nat /\ N + 1 \in 1..(N + 1)
  OBVIOUS
<1>8. N + 1 \in inside
  <2>. HIDE DEF inside
  <2>1. \A k \in 1..(N + 1) : k \in inside
    BY <1>5, <1>6, <1>7, StepInduction
  <2>. QED
    BY <1>7, <2>1
<1>9. \A way \in WaysOf(us, u) : \A i \in 1..Len(way) : way[i] \in Reports(us, IF i = 1 THEN u ELSE way[i - 1])
  BY DEF WaysOf, GoesDown
<1>10. 1 \in outside
  <2>1. ASSUME NEW way \in WaysOf(us, u), NEW i \in 1..Len(way), i <= 1 PROVE way[i] \in g[1]
    BY <1>3, <1>9, <2>1
  <2>. QED
    BY <1>7, <2>1
<1>11. ASSUME NEW k \in 1..(N + 1), k \in outside, k + 1 <= N + 1
       PROVE  k + 1 \in outside
  <2>1. g[k + 1] = g[k] \cup Managed(us, g[k])
    BY <1>3, <1>11
  <2>2. ASSUME NEW way \in WaysOf(us, u), NEW i \in 1..Len(way), i <= k + 1
        PROVE  way[i] \in g[k + 1]
    <3>1. CASE i <= k
      BY <1>11, <2>1, <3>1
    <3>2. CASE ~(i <= k)
      <4>1. i = k + 1 /\ i # 1 /\ k \in 1..Len(way) /\ i - 1 = k
        BY <2>2, <3>2
      <4>2. way[k] \in g[k]
        BY <1>11, <4>1
      <4>3. way[i] \in Reports(us, way[k])
        <5>1. way[i] \in Reports(us, IF i = 1 THEN u ELSE way[i - 1])
          BY <1>9
        <5>. QED
          BY <4>1, <5>1
      <4>4. way[i] \in Managed(us, g[k])
        BY <4>2, <4>3 DEF Managed, Reports
      <4>. QED
        BY <2>1, <4>4
    <3>. QED
      BY <3>1, <3>2
  <2>3. k + 1 \in 1..(N + 1)
    BY <1>11
  <2>. QED
    BY <2>2, <2>3
<1>12. N + 1 \in outside
  <2>. HIDE DEF outside
  <2>1. \A k \in 1..(N + 1) : k \in outside
    BY <1>7, <1>10, <1>11, StepInduction
  <2>. QED
    BY <1>7, <2>1
<1>13. ASSUME NEW way \in WaysOf(us, u) PROVE Last(way) \in g[N + 1]
  <2>1. Len(way) \in Nat \ {0} /\ Len(way) <= N /\ Last(way) = way[Len(way)]
    BY <1>1, WayFacts
  <2>2. Len(way) \in 1..Len(way) /\ Len(way) <= N + 1
    BY <2>1
  <2>. QED
    BY <1>12, <2>1, <2>2
<1>14. ends \subseteq g[N + 1]
  BY <1>4, <1>13 DEF EndsOf
<1>15. g[N + 1] \subseteq ends
  BY <1>8
<1>. QED
  BY <1>2, <1>3, <1>4, <1>14, <1>15

\* The rows of the recursive query are at least the team, and are it unless u is one of
\* its own team; and each report is one.
LEMMA TeamIsCounted ==
    ASSUME NEW d, NEW u, Users # {}
    PROVE  LET us == d.users
           IN /\ TeamSize(us, u) >= Cardinality(Team(d, u))
              /\ u \notin Team(d, u) => TeamSize(us, u) = Cardinality(Team(d, u))
              /\ Cardinality(Reports(us, u)) <= TeamSize(us, u)
<1>1. PICK us : us = d.users
  OBVIOUS
<1>2. PICK W : W = WaysOf(us, u)
  OBVIOUS
<1>3. PICK ends : ends = EndsOf(us, u)
  OBVIOUS
<1>4. TeamSize(us, u) = Cardinality(W) /\ Team(d, u) = ends
  BY <1>1, <1>2, <1>3, WaysDownAreWays, TeamIsEnds DEF TeamSize
<1>5. IsFiniteSet(W) /\ Cardinality(W) \in Nat
  BY <1>2, WaysAreFinite, FS_CardinalityType
<1>6. PICK last : last = [way \in W |-> Last(way)]
  OBVIOUS
<1>7. last \in Surjection(W, ends)
  <2>1. last \in [W -> ends] /\ \A e \in ends : \E way \in W : last[way] = e
    BY <1>2, <1>3, <1>6 DEF EndsOf
  <2>. QED
    BY <2>1, Fun_IsSurj
<1>8. /\ IsFiniteSet(ends) /\ Cardinality(ends) <= Cardinality(W)
      /\ Cardinality(ends) = Cardinality(W) <=> last \in Injection(W, ends)
  BY <1>5, <1>7, FS_Surjection
<1>9. Cardinality(ends) \in Nat
  BY <1>8, FS_CardinalityType
<1>10. ASSUME u \notin ends PROVE last \in Injection(W, ends)
  <2>1. ASSUME NEW w \in W, NEW v \in W, last[w] = last[v] PROVE w = v
    <3>1. Last(w) = Last(v)
      BY <1>6, <2>1
    <3>2. Len(w) \in Nat /\ Len(v) \in Nat
      BY <1>2, WayFacts
    <3>3. CASE Len(w) <= Len(v)
      BY <1>2, <1>3, <1>10, <3>1, <3>3, OneWayToAnEnd
    <3>4. CASE Len(v) <= Len(w)
      BY <1>2, <1>3, <1>10, <3>1, <3>4, OneWayToAnEnd
    <3>. QED
      BY <3>2, <3>3, <3>4
  <2>2. last \in [W -> ends]
    BY <1>7 DEF Surjection
  <2>. QED
    BY <2>1, <2>2, Fun_IsInj
<1>11. Cardinality(Reports(us, u)) <= Cardinality(W)
  <2>1. PICK one : one = [r \in Reports(us, u) |-> <<r>>]
    OBVIOUS
  <2>2. one \in [Reports(us, u) -> W]
    <3>1. {<<r>> : r \in Reports(us, u)} \subseteq W
      BY <1>2, WaysOfOne
    <3>. QED
      BY <2>1, <3>1
  <2>3. \A p, r \in Reports(us, u) : one[p] = one[r] => p = r
    BY <2>1
  <2>4. one \in Injection(Reports(us, u), W)
    BY <2>2, <2>3, Fun_IsInj
  <2>. QED
    BY <1>5, <2>4, FS_Injection
<1>. QED
  BY <1>1, <1>4, <1>5, <1>8, <1>9, <1>10, <1>11

-----------------------------------------------------------------------------
(* What the charts show.                                                   *)

\* What a view has seen of the tables are finitely many states of them.
LEMMA FiniteMoments == Spec => []IsFiniteSet(during)
<1>1. Init => IsFiniteSet(during)
  BY FS_Singleton DEF Init
<1>2. ASSUME IsFiniteSet(during), [Next]_vars PROVE IsFiniteSet(during)'
  <2>1. CASE Query
    <3>. SUFFICES during' = during
      BY <1>2
    <3>1. ASSUME NEW query, NEW value, Learn(query, value) PROVE during' = during
      BY <3>1 DEF Learn
    <3>2. ASSUME NEW code, Refuse(code) PROVE during' = during
      BY <3>2 DEF Refuse
    <3>3. CASE ReadBalances \/ ReadPending \/ ReadActive \/ ReadApproved \/ ReadComing \/ ReadPeers
      BY <3>1, <3>3 DEF ReadBalances, ReadPending, ReadActive, ReadApproved, ReadComing, ReadPeers
    <3>4. CASE ReadLeaves \/ ReadHolidays \/ ReadLatest \/ ReadPerson \/ ReadRow \/ ReadManagerId
      BY <3>1, <3>2, <3>4 DEF ReadLeaves, ReadHolidays, ReadLatest, ReadPerson, ReadRow, ReadManagerId
    <3>5. CASE ReadCount \/ ReadTree \/ ReadPage \/ ReadReports \/ ReadManager
      BY <3>1, <3>5 DEF ReadCount, ReadTree, ReadPage, ReadReports, ReadManager
    <3>6. CASE ReadMembers \/ ReadRaw \/ AskModel
      <4>1. ASSUME UNCHANGED <<db, changes, during>> PROVE during' = during
        BY <4>1
      <4>. QED
        BY <3>2, <3>6, <4>1 DEF ReadMembers, ReadRaw, AskModel
    <3>7. CASE ReadDivision
      BY <3>1, <3>2, <3>7 DEF ReadDivision
    <3>. QED
      BY <2>1, <3>3, <3>4, <3>5, <3>6, <3>7 DEF Query
  <2>2. ASSUME NEW kind, NEW u, NEW bySource, NEW window, NEW page, Ask(kind, u, bySource, window, page)
        PROVE  IsFiniteSet(during)'
    <3>1. during' = {db}
      BY <2>2 DEF Ask
    <3>. QED
      BY <3>1, FS_Singleton
  <2>6. ASSUME NEW unit, AskAnalysis(unit)
        PROVE  IsFiniteSet(during)'
    <3>1. during' = {db}
      BY <2>6 DEF AskAnalysis
    <3>. QED
      BY <3>1, FS_Singleton
  <2>3. ASSUME NEW next, Write(next) PROVE IsFiniteSet(during)'
    <3>1. during' = during \cup {next}
      BY <2>3 DEF Write
    <3>. QED
      BY <1>2, <3>1, FS_AddElement
  <2>4. CASE \/ \E r \in Requests : WriteRequest(r)
             \/ \E u \in Users : WriteUser(u)
             \/ \E u \in Users, type \in LeaveTypes : WriteBalance(u, type)
             \/ \E day \in Feasts : WriteHoliday(day)
    BY <2>3, <2>4, Zenon DEF WriteRequest, WriteUser, WriteBalance, WriteHoliday
  <2>5. CASE UNCHANGED vars
    BY <1>2, <2>5 DEF vars
  <2>. QED
    BY <1>2, <2>1, <2>2, <2>4, <2>5, <2>6, Zenon DEF Next
<1>. QED
  BY <1>1, <1>2, PTL DEF Spec

\* The lens counted reports and ways, each at one moment.
LEMMA LensLooks ==
    ASSUME TypeInv, LookInv, IsFiniteSet(during), Answered("lens")
    PROVE  /\ \E d \in during :
                 /\ view.tree >= Cardinality(Team(d, view.target))
                 /\ view.target \notin Team(d, view.target) => view.tree = Cardinality(Team(d, view.target))
           /\ Cardinality(during) = 1 => view.count <= view.tree
<1>. DEFINE u == view.target
<1>1. Users # {} /\ \A query \in {"count", "tree"} : \E d \in during : AsOf(d, view, query)
  <2>1. "lens" \in DOMAIN Asks /\ {"count", "tree"} \subseteq Asks["lens"]
    BY DEF Asks
  <2>2. ASSUME NEW query \in Asks["lens"] PROVE u \in Users /\ \E d \in during : AsOf(d, view, query)
    BY <2>1, AnswerOfLook
  <2>. QED
    BY <2>1, <2>2
<1>2. PICK d \in during : view.tree = TeamSize(d.users, u)
  BY <1>1 DEF AsOf
<1>3. PICK c \in during : view.count = Cardinality(Reports(c.users, u))
  BY <1>1 DEF AsOf
<1>4. /\ TeamSize(d.users, u) >= Cardinality(Team(d, u))
      /\ u \notin Team(d, u) => TeamSize(d.users, u) = Cardinality(Team(d, u))
      /\ Cardinality(Reports(d.users, u)) <= TeamSize(d.users, u)
  BY <1>1, TeamIsCounted
<1>5. Cardinality(during) = 1 => c = d
  BY FS_Singleton
<1>. QED
  BY <1>2, <1>3, <1>4, <1>5

\* A chart and the details show a page of the reports.
LEMMA ReportsShown ==
    ASSUME TypeInv, LookInv, IsFiniteSet(during), NEW kind \in {"chart", "details"}, Answered(kind)
    PROVE  /\ \A r \in view.reports : \E d \in during : r \in Reports(d.users, view.target)
           /\ \E d \in during : view.count = Cardinality(Reports(d.users, view.target))
           /\ Cardinality(view.reports) <= view.take
           /\ Cardinality(during) = 1 =>
                 Cardinality(view.reports) = Earlier(view.take, Later(0, view.count - view.skip))
           /\ \A r \in Users :
                 /\ \A d \in during : r \in Reports(d.users, view.target)
                 /\ view.skip = 0
                 /\ \A d \in during : Cardinality(Reports(d.users, view.target)) <= view.take
                 => r \in view.reports
<1>. DEFINE u == view.target
<1>1. /\ view.skip \in Nat /\ view.take \in Nat
      /\ \A query \in {"count", "page", "reports"} : \E d \in during : AsOf(d, view, query)
  <2>1. kind \in DOMAIN Asks /\ {"count", "page", "reports"} \subseteq Asks[kind]
    BY DEF Asks
  <2>2. ASSUME NEW query \in Asks[kind]
        PROVE  view.skip \in Nat /\ view.take \in Nat /\ \E d \in during : AsOf(d, view, query)
    BY <2>1, AnswerOfLook
  <2>. QED
    BY <2>1, <2>2
<1>2. PICK p \in during : view.page = Page(p.users, u, view.skip, view.take)
  BY <1>1 DEF AsOf
<1>3. PICK q \in during : view.reports = Hydrated(q.users, view.page)
  BY <1>1 DEF AsOf
<1>4. PICK c \in during : view.count = Cardinality(Reports(c.users, u))
  BY <1>1 DEF AsOf
<1>5. PICK R : R = Reports(p.users, u)
  OBVIOUS
<1>6. /\ view.page \subseteq R /\ IsFiniteSet(view.page) /\ Cardinality(view.page) <= view.take
      /\ Cardinality(view.page) = (LET rest == IF Cardinality(R) - view.skip < 0 THEN 0 ELSE Cardinality(R) - view.skip
                                   IN IF view.take < rest THEN view.take ELSE rest)
      /\ view.skip = 0 /\ Cardinality(R) <= view.take => view.page = R
  BY <1>1, <1>2, <1>5, PageOfReports
<1>7. view.reports \subseteq view.page
  BY <1>3 DEF Hydrated
<1>8. \A r \in view.reports : r \in Reports(p.users, u)
  BY <1>5, <1>6, <1>7
<1>9. Cardinality(view.reports) <= view.take
  <2>1. Cardinality(view.reports) <= Cardinality(view.page) /\ IsFiniteSet(view.reports)
    BY <1>6, <1>7, FS_Subset
  <2>2. Cardinality(view.reports) \in Nat /\ Cardinality(view.page) \in Nat
    BY <1>6, <2>1, FS_CardinalityType
  <2>. QED
    BY <1>1, <1>6, <2>1, <2>2
<1>10. ASSUME Cardinality(during) = 1
       PROVE  Cardinality(view.reports) = Earlier(view.take, Later(0, view.count - view.skip))
  <2>1. c = p /\ q = p
    BY <1>10, FS_Singleton
  <2>2. view.reports = view.page
    BY <1>3, <1>5, <1>6, <2>1 DEF Hydrated, Reports
  <2>3. view.count = Cardinality(R) /\ Cardinality(R) \in Nat
    <3>1. R \in SUBSET Users
      BY <1>5 DEF Reports
    <3>. QED
      BY <1>4, <1>5, <2>1, <3>1, PlacesAreCounted
  <2>. QED
    BY <1>1, <1>6, <2>2, <2>3 DEF Earlier, Later
<1>11. ASSUME NEW r \in Users, \A d \in during : r \in Reports(d.users, u), view.skip = 0,
              \A d \in during : Cardinality(Reports(d.users, u)) <= view.take
       PROVE  r \in view.reports
  <2>1. r \in view.page
    BY <1>5, <1>6, <1>11
  <2>2. Live(q.users, r)
    BY <1>11 DEF Reports
  <2>. QED
    BY <1>3, <2>1, <2>2 DEF Hydrated
<1>. QED
  BY <1>4, <1>8, <1>9, <1>10, <1>11

\* The numbers of the lens, the chart and the details are those of some moment,
\* the ways of the recursive query count the members of a team, once each unless the
\* target is one of its own team, and a page is full of reports and of no others.
THEOREM ChartsAlwaysShowTheLine == Spec => []ChartsShowTheLine
<1>1. ASSUME TypeInv, LookInv, IsFiniteSet(during) PROVE ChartsShowTheLine
  <2>. DEFINE u == view.target
              reports(d) == {r \in Users : Live(d.users, r) /\ d.users[r].manager = u}
  <2>1. \A d : reports(d) = Reports(d.users, u)
    BY DEF Reports
  <2>2. ASSUME Answered("chart") \/ Answered("profile"), NEW m \in view.manager
        PROVE  \E d \in during : d.users[u].manager = m
    <3>1. PICK kind \in {"chart", "profile"} : Answered(kind)
      BY <2>2
    <3>2. kind \in DOMAIN Asks /\ {"managerId", "manager"} \subseteq Asks[kind]
      BY DEF Asks
    <3>3. ASSUME NEW query \in Asks[kind] PROVE \E d \in during : AsOf(d, view, query)
      BY <1>1, <3>1, <3>2, AnswerOfLook
    <3>4. PICK d \in during : view.managerId = d.users[u].manager
      <4>1. \E d \in during : AsOf(d, view, "managerId")
        BY <3>2, <3>3
      <4>. QED
        BY <4>1 DEF AsOf
    <3>5. PICK e \in during : view.manager = Hydrated(e.users, {view.managerId})
      <4>1. \E e \in during : AsOf(e, view, "manager")
        BY <3>2, <3>3
      <4>. QED
        BY <4>1 DEF AsOf
    <3>6. m = view.managerId
      BY <3>5 DEF Hydrated
    <3>. QED
      BY <3>4, <3>6
  <2>3. ASSUME Answered("chart") \/ Answered("details")
        PROVE  /\ \A r \in view.reports : \E d \in during : r \in reports(d)
               /\ \E d \in during : view.count = Cardinality(reports(d))
               /\ Cardinality(view.reports) <= view.take
               /\ Cardinality(during) = 1 =>
                     Cardinality(view.reports) = Earlier(view.take, Later(0, view.count - view.skip))
               /\ \A r \in Users :
                     /\ \A d \in during : r \in reports(d)
                     /\ view.skip = 0 /\ \A d \in during : Cardinality(reports(d)) <= view.take
                     => r \in view.reports
    <3>1. PICK kind \in {"chart", "details"} : Answered(kind)
      BY <2>3
    <3>. HIDE DEF reports
    <3>. QED
      BY <1>1, <2>1, <3>1, ReportsShown
  <2>4. Answered("lens") =>
            /\ \E d \in during :
                 /\ view.tree >= Cardinality(Team(d, u))
                 /\ u \notin Team(d, u) => view.tree = Cardinality(Team(d, u))
            /\ Cardinality(during) = 1 => view.count <= view.tree
    BY <1>1, LensLooks
  <2>. QED
    BY <2>2, <2>3, <2>4, Zenon DEF ChartsShowTheLine
<1>. QED
  BY <1>1, ServedInvariant, LookInvariant, FiniteMoments, PTL DEF ServedInv
=============================================================================
