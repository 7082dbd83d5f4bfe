----------------------------- MODULE DialogueV1 -----------------------------
(***************************************************************************)
(* What the dialogue-v1 protocol promises, as the replies it admits: two   *)
(* participants take turns in rounds of two slots until one of them ends   *)
(* the dialogue, both agree that it is complete, or the rounds run out.    *)
(* A proposal to complete is put to the other participant in an extra turn *)
(* (slot 0); declined, that reply counts as its next regular turn.         *)
(* Whose turn it is, and whether the dialogue is over, is a function of    *)
(* the last two replies.                                                   *)
(***************************************************************************)
EXTENDS Naturals, Sequences

CONSTANTS
    First, Second,  \* the two participants, in speaking order
    MaxRounds       \* a positive number

VARIABLE replies

Result == {"continue", "complete", "blocked", "error"}

Other(p) == IF p = First THEN Second ELSE First
Turn(p, r, s) == [by |-> p, round |-> r, slot |-> s]

Last(h) == h[Len(h)]

\* The regular turn that the last reply answers or, from slot 0, stands for.
Answered(h) == IF Last(h).slot = 0 THEN h[Len(h) - 1] ELSE Last(h)

Outcome(h) ==
    IF h = <<>> THEN "active"
    ELSE CASE Last(h).result \in {"blocked", "error"} -> Last(h).result
           [] Last(h).result = "complete" ->
                  IF Last(h).slot = 0 THEN "completed" ELSE "active"
           [] Last(h).result = "continue" ->
                  IF Last(h).slot # 1 /\ Answered(h).round >= MaxRounds
                  THEN "blocked" ELSE "active"

\* The turn that follows, of a dialogue that is not over.
TurnAfter(h) ==
    IF h = <<>> THEN Turn(First, 1, 1)
    ELSE LET r == Answered(h).round
             s == Answered(h).slot IN
         IF Last(h).result = "complete" THEN Turn(Other(Last(h).by), r, 0)
         ELSE CASE Last(h).slot = 0 /\ s = 1 -> Turn(First, r + 1, 1)
                [] Last(h).slot = 0 /\ s = 2 -> Turn(Second, r + 1, 2)
                [] Last(h).slot = 1 -> Turn(Second, r, 2)
                [] Last(h).slot = 2 -> Turn(First, r + 1, 1)

Answer(t, result) == [by |-> t.by, round |-> t.round, slot |-> t.slot,
                      result |-> result]

Init == replies = <<>>

\* One reply to the turn that is due.
Next ==
    LET turn == TurnAfter(replies) IN
    /\ replies' # replies
    /\ Outcome(replies) = "active"
    /\ \E result \in Result : replies' = Append(replies, Answer(turn, result))

Spec == Init /\ [][Next]_replies
=============================================================================
