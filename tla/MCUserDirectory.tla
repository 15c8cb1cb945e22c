--------------------------- MODULE MCUserDirectory ---------------------------
(***************************************************************************)
(* A small instance of UserDirectory: an employee and her manager.          *)
(***************************************************************************)
EXTENDS UserDirectory

CONSTANTS ann, bob, e1, e2, e3, d1, d2, r1, p1, c1, c2, c3

Request(type, num, email, unitId, unit, boss, roleIds, roles, password) ==
    [type |-> type, num |-> num, email |-> email, unitId |-> unitId, unit |-> unit,
     boss |-> boss, roleIds |-> roleIds, roles |-> roles, password |-> password]

\* Two syncs of ann that disagree on everything: one names bob as her manager
\* and wants the e-mail that a sync of bob wants, too.
Syncs == {Request("sync", ann, e2, TRUE, d1, bob, FALSE, {}, FALSE),
          Request("sync", ann, e3, FALSE, NoUnit, NoOne, FALSE, {}, FALSE),
          Request("sync", bob, e2, TRUE, d1, NoOne, FALSE, {}, FALSE)}

Posts == {Request("create", ann, e1, FALSE, NoUnit, NoOne, TRUE, {r1}, TRUE),
          Request("create", bob, e1, TRUE, d1, NoOne, FALSE, {}, TRUE)}

Patches == {Request("update", ann, NoEmail, TRUE, d2, NoOne, FALSE, {}, TRUE),
            Request("update", ann, NoEmail, TRUE, NoUnit, NoOne, TRUE, {}, FALSE),
            Request("remove", ann, NoEmail, FALSE, NoUnit, NoOne, FALSE, {}, FALSE)}

MCOps == Syncs \cup Posts \cup Patches

MCCalls == {c1, c2, c3}

\* The calls are interchangeable: they begin in order.
BeginInOrder ==
    /\ calls'[c2].pc # "idle" => calls'[c1].pc # "idle"
    /\ calls'[c3].pc # "idle" => calls'[c2].pc # "idle"

\* Only the first call may lose its acknowledgement, or fail before its write.
FirstFails ==
    \A c \in {c2, c3} :
        ~LoseAcknowledgement(c) /\ (calls[c].pc \in {"unit", "manager", "payload"} => ~Fail(c))

RaceBounds == BeginInOrder /\ FirstFails
=============================================================================
