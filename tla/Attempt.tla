------------------------------- MODULE Attempt -------------------------------
(***************************************************************************)
(* One attempt at a chart, driven by any sequence of calls of its public   *)
(* interface: Press, Release and Update of module Judging.  The callers    *)
(* are free in everything the class leaves open: keys outside the chart,   *)
(* repeated presses, any skipping of time and steps back in time of at     *)
(* most MaxBackStep milliseconds.                                          *)
(***************************************************************************)
EXTENDS Judging

CONSTANTS
  Times,        \* the song times at which calls happen
  InputKeys,    \* the keys passed to press and release
  MaxBackStep   \* how far a call may lie before the latest one

ASSUME CallsAssumption ==
  /\ Times \subseteq Int
  /\ InputKeys \subseteq Nat
  /\ MaxBackStep \in Nat

VARIABLE attempt

Init == attempt = NewAttempt

Callable(time) == attempt.latest # None => attempt.latest - time <= MaxBackStep

PressKey(key, time) == Callable(time) /\ attempt' = Press(attempt, key, time)

ReleaseKey(key, time) == Callable(time) /\ attempt' = Release(attempt, key, time)

Tick(time) == Callable(time) /\ attempt' = Update(attempt, time)

Next ==
  \E time \in Times :
    \/ \E key \in InputKeys : PressKey(key, time)
    \/ \E key \in InputKeys : ReleaseKey(key, time)
    \/ Tick(time)

Spec == Init /\ [][Next]_attempt

-----------------------------------------------------------------------------
(* Invariants *)

TypeOK == attempt \in AttemptState

HeadsWith(s) == {i \in Hits : attempt.head[i].done /\ attempt.head[i].score = s}
TailsWith(s) == {i \in Hits : attempt.tail[i].done /\ attempt.tail[i].score = s}
PlayedHeads == {i \in Hits : attempt.head[i].played}

\* The running counters that the play screen shows are the recount that
\* summarize_attempt and the server make over the judged hits.
TallyAgrees ==
  /\ \A s \in JudgedScores :
       attempt.counts[s] = Cardinality(HeadsWith(s)) + Cardinality(TailsWith(s))
  /\ attempt.nScored = MapThenSumSet(LAMBDA s : attempt.counts[s], JudgedScores)
  /\ attempt.totalScore =
       MapThenSumSet(LAMBDA s : attempt.counts[s] * HitScoreAcc[s], JudgedScores)
  /\ attempt.nTimed = Cardinality(PlayedHeads)
  /\ attempt.totalErr = MapThenSumSet(LAMBDA i : attempt.head[i].err, PlayedHeads)

\* A hold whose head is judged and whose tail is still open is attached to its
\* lane's key, which is down: no tail can be forgotten by release or by
\* process_hold_overruns, the only code that will ever judge it.
OpenHoldAttached ==
  \A i \in Hits :
    IsHold(i) /\ attempt.head[i].done /\ ~attempt.tail[i].done =>
      /\ Chart[i].key \in attempt.held
      /\ attempt.target[Chart[i].key] = i

\* A key's target is a judged head of its own lane, and only a held key has one.
TargetsAreHits ==
  \A k \in Keys : attempt.target[k] # None =>
    /\ k \in attempt.held
    /\ Chart[attempt.target[k]].key = k
    /\ attempt.head[attempt.target[k]].played

\* No judgement is overdue: an open head can still be hit at the latest time,
\* and an open tail of a judged head can still be released.
NothingOverdue ==
  attempt.latest # None => \A i \in Hits :
    /\ ~attempt.head[i].done => attempt.latest <= Chart[i].time + BadWindow
    /\ IsHold(i) /\ ~attempt.tail[i].done =>
         attempt.latest <= Chart[i].endTime + ReleaseWindow

\* Where a MISS can come from: a played head is never one; an open head becomes
\* one only when its window has passed, and takes its tail with it; a tail let go
\* is one only when it was early (held too long, it is the overrun's).
MissesAreExplained ==
  \A i \in Hits :
    LET head == attempt.head[i]
        tail == attempt.tail[i]
    IN  /\ head.done => (head.played <=> head.score # "MISS")
        /\ head.score = "MISS" => attempt.latest > Chart[i].time + BadWindow
        /\ head.score = "MISS" /\ IsHold(i) => tail.done /\ ~tail.played
        /\ tail.played /\ tail.score = "MISS" => tail.err < -ReleaseWindow
        /\ tail.done /\ ~tail.played =>
             head.score = "MISS" \/ tail.err > ReleaseWindow
        /\ tail.done => IsHold(i) /\ head.done

\* The scan that press and process_misses start at soonest_passed_hit_index
\* skips judged heads only.
PassedAreJudged == \A i \in Hits : i < attempt.passed => attempt.head[i].done

\* Combo: without a MISS every judgement so far is one unbroken combo; with one,
\* the best combo still never exceeds the judgements that were no MISS.
ComboRule ==
  /\ attempt.combo <= attempt.maxCombo
  /\ attempt.maxCombo <= attempt.nScored - attempt.counts["MISS"]
  /\ attempt.counts["MISS"] = 0 => attempt.combo = attempt.nScored

-----------------------------------------------------------------------------
(* Action properties *)

\* A judgement is final: no later call rewrites or withdraws it.
JudgementsAreFinal ==
  [][\A i \in Hits :
       /\ attempt.head[i].done => attempt'.head[i] = attempt.head[i]
       /\ attempt.tail[i].done => attempt'.tail[i] = attempt.tail[i]]_attempt

NewlyPlayed(i) == ~attempt.head[i].done /\ attempt'.head[i].played

\* "Only keypresses hit notes", one note each: a head becomes played only in the
\* step that takes its key down, and no other head in the same step.
OnePressOneHead ==
  [][\A i \in Hits : NewlyPlayed(i) =>
       /\ Chart[i].key \in attempt'.held \ attempt.held
       /\ \A j \in Hits : NewlyPlayed(j) => j = i]_attempt

\* A tail becomes played only in the step that lets its key go.
OneReleaseOneTail ==
  [][\A i \in Hits : ~attempt.tail[i].done /\ attempt'.tail[i].played =>
       Chart[i].key \in attempt.held \ attempt'.held]_attempt

\* Which note a press selects: with i hit at some time, every earlier note of the
\* lane still open afterwards would have been BAD, and i is then better than BAD;
\* and if i is BAD, no later open note of the lane would have been better.
NoteSelection ==
  [][\A i \in Hits : NewlyPlayed(i) =>
       LET time == Chart[i].time + attempt'.head[i].err
           scored(j) == ScoreFor(Abs(time - Chart[j].time), HitAccuracy, FALSE)
           open == {j \in Hits : Chart[j].key = Chart[i].key /\ ~attempt'.head[j].done}
       IN  \A j \in open :
             /\ j < i => scored(j) = "BAD" /\ attempt'.head[i].score # "BAD"
             /\ attempt'.head[i].score = "BAD" => scored(j) \in {"BAD", "NONE"}]_attempt

\* A press that hits nothing had nothing to hit: no open note of its lane lies
\* within the BAD window, so neither break of the scan ever hides one.
EmptyPressHasNoNote ==
  [][\A k \in Keys, time \in Times :
       /\ PressKey(k, time)
       /\ k \in attempt'.held \ attempt.held
       /\ attempt'.target[k] = None
       => \A i \in Hits : Chart[i].key = k /\ ~attempt'.head[i].done =>
            Abs(time - Chart[i].time) > BadWindow]_attempt
=============================================================================
