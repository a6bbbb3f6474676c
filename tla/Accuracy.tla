------------------------------ MODULE Accuracy ------------------------------
(***************************************************************************)
(* The judgements of the engine and their timing windows                   *)
(* (src/core/src/Accuracy.cpp, src/core/include/Accuracy.h).  All times    *)
(* are whole milliseconds.                                                 *)
(***************************************************************************)
EXTENDS Integers

\* HitScore without NONE: the six judgements a note can receive.
JudgedScores == {"PERFECT", "AMAZING", "GREAT", "GOOD", "BAD", "MISS"}

HitScore == JudgedScores \union {"NONE"}

\* TIMED_HIT_SCORES: the judgements an error can earn, best first.
TimedHitScores == {"PERFECT", "AMAZING", "GREAT", "GOOD", "BAD"}

ScoreRank == [PERFECT |-> 0, AMAZING |-> 1, GREAT |-> 2, GOOD |-> 3, BAD |-> 4]

\* HIT_SCORE_ACCS, in percent.
HitScoreAcc == [PERFECT |-> 100, AMAZING |-> 95, GREAT |-> 70, GOOD |-> 40,
                BAD |-> 10, MISS |-> 0]

\* HIT_SCORE_BASE_WINDOWS.
BaseWindow == [PERFECT |-> 10, AMAZING |-> 25, GREAT |-> 50, GOOD |-> 80,
               BAD |-> 160]

MaxHitAccDifficulty == 10
MaxBadWindowSize == 200

AtMost(x, bound) == IF x <= bound THEN x ELSE bound

\* get_window_from_hit_acc_diff: diff is a uint8_t, so only the upper clamp acts.
Window(score, diff, release) ==
  LET difficulty == AtMost(diff, MaxHitAccDifficulty)
      scaled == (BaseWindow[score] * (2 * MaxHitAccDifficulty - difficulty))
                  \div MaxHitAccDifficulty
  IN  AtMost(scaled, MaxBadWindowSize) * (IF release THEN 2 ELSE 1)

\* get_score_from_hit_err: the best judgement whose inclusive window holds err.
ScoreFor(err, diff, release) ==
  LET within == {s \in TimedHitScores : err <= Window(s, diff, release)}
  IN  IF within = {} THEN "NONE"
      ELSE CHOOSE s \in within : \A r \in within : ScoreRank[s] <= ScoreRank[r]
=============================================================================
