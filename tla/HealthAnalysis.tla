--------------------------- MODULE HealthAnalysis ---------------------------
(***************************************************************************)
(* What AiAnalysisService makes of the answer of the model: callQwen() and  *)
(* assertAnalysisSchema(), as far as it depends on the answer.              *)
(*                                                                         *)
(* A share is whatever the JSON has under its key: a number, in parts of a  *)
(* percent and of any sign; null; nothing; or a text, a numeral or not.  To *)
(* the code true and false are 1 and 0, and an array is its text.  NaN is   *)
(* what its arithmetic makes of a share that is no number.                  *)
(***************************************************************************)
EXTENDS Integers

CONSTANTS
    Replies,       \* what the model may answer with
    Grain          \* how many parts a percent has

Share == {s \in [kind : {"number", "null", "missing", "numeral", "text", "NaN"}, value : Int] :
             s.kind \notin {"number", "numeral"} => s.value = 0}

Number(n) == [kind |-> "number", value |-> n]

NaN == [kind |-> "NaN", value |-> 0]

Keys == {"positive", "neutral", "negative"}

\* An answer: its shares, and how they read when joined as texts.
Reply == [positive : Share, neutral : Share, negative : Share,
          joined : {s \in Share : s.kind \in {"number", "NaN"}}]

ASSUME AnalysisAssumption == Replies \subseteq Reply /\ Grain \in Nat \ {0}

Given(reply) == [key \in Keys |-> reply[key]]

Sum(shares) == shares.positive.value + shares.neutral.value + shares.negative.value

\* With a text among them + joins instead of adding.
Joins(reply) == \E key \in Keys : reply[key].kind \in {"numeral", "text"}

Total(reply) == IF Joins(reply) THEN reply.joined ELSE Number(Sum(reply))

Positive(total) == total.kind = "number" /\ total.value > 0

\* The tolerance of two.
Close(total) == total.kind = "number" /\ total.value \in (98 * Grain)..(102 * Grain)

\* At the end of the tolerance a sum of fractions may come out on either side.
OnTheEdge(reply) ==
    /\ ~Joins(reply) /\ Sum(reply) \in {98 * Grain, 102 * Grain}
    /\ \E key \in Keys : reply[key].value % Grain # 0

ReadsAsNumber(share) == share.kind \in {"number", "null", "numeral"}

RoundedUp(share, total) == {-((-100 * share) \div total)}

\* Math.round() of 100 * share / total.  At a tie the product of doubles may be
\* on either side.
Rounded(share, total) ==
    LET below == (100 * share) \div total
    IN {n \in {below, below + 1} : 2 * n * total - 200 * share \in (-total)..total}

Scaled(share, total) ==
    IF ReadsAsNumber(share) THEN {Number(n * Grain) : n \in Rounded(share.value, total.value)} ELSE {NaN}

Remainder(p, q) ==
    IF p = NaN \/ q = NaN THEN NaN ELSE Number(100 * Grain - p.value - q.value)

\* The shares that are reported: within the tolerance, or if their sum is not
\* positive, those given.
Normalised(reply) ==
    LET total == Total(reply)
        scaled == {[positive |-> p, neutral |-> q, negative |-> Remainder(p, q)] :
                      p \in Scaled(reply.positive, total), q \in Scaled(reply.neutral, total)}
    IN (IF ~Positive(total) \/ Close(total) THEN {Given(reply)} ELSE {})
       \cup (IF Positive(total) /\ (~Close(total) \/ OnTheEdge(reply)) THEN scaled ELSE {})

\* buildEmptyReport()
EmptyShares == [positive |-> Number(0), neutral |-> Number(100 * Grain), negative |-> Number(0)]
=============================================================================
