------------------------------ MODULE Judging ------------------------------
(***************************************************************************)
(* The judging engine as operators on the state of one attempt             *)
(* (src/core/src/Attempt.cpp).  An attempt is a record; every public call  *)
(* of class Attempt is an operator that returns the attempt after the      *)
(* call, so that live play, a replay simulation and the server's judge are *)
(* copies of the same machine.                                             *)
(***************************************************************************)
EXTENDS Accuracy, FiniteSets, FiniteSetsExt

CONSTANTS
  KeyCount,     \* chart->info.key_count
  NumHits,      \* chart->hits.size()
  Chart,        \* the pitched hits, sorted by time: index -> [key, type, time, endTime]
  HitAccuracy,  \* the attempt's strictness, a uint8_t
  None          \* std::nullopt

Keys == 0 .. KeyCount - 1
Hits == 0 .. NumHits - 1
Hit == [key: Keys, type: {"HIT", "HOLD"}, time: Int, endTime: Int]

\* What Chart::validate_and_prepare and pitched_timing establish.
ASSUME ChartAssumption ==
  /\ KeyCount \in 1 .. 32
  /\ NumHits \in Nat \ {0}
  /\ HitAccuracy \in 0 .. 255
  /\ Chart \in [Hits -> Hit]
  /\ \A i, j \in Hits : i <= j => Chart[i].time <= Chart[j].time
  /\ \A i \in Hits : Chart[i].type = "HOLD" => Chart[i].time <= Chart[i].endTime

ASSUME NoneAssumption == None \notin Int

IsHold(i) == Chart[i].type = "HOLD"
Abs(x) == IF x < 0 THEN -x ELSE x
MaxOf(x, y) == IF x < y THEN y ELSE x

\* The reach of the widest window, of a press and of a release.
BadWindow == Window("BAD", HitAccuracy, FALSE)
ReleaseWindow == Window("BAD", HitAccuracy, TRUE)

-----------------------------------------------------------------------------
(* State *)

\* One half (head or tail) of a JudgedHit.
Judgement == [done: BOOLEAN, played: BOOLEAN, score: HitScore, err: Int]

Unjudged == [done |-> FALSE, played |-> FALSE, score |-> "NONE", err |-> 0]

\* Mutant: a missed half counts as played.
Missed_Played(err) == [done |-> TRUE, played |-> TRUE, score |-> "MISS", err |-> err]

Missed(err) == [done |-> TRUE, played |-> FALSE, score |-> "MISS", err |-> err]

AttemptState ==
  [head: [Hits -> Judgement],        \* judged_hits[i].hit*
   tail: [Hits -> Judgement],        \* judged_hits[i].release*
   passed: 0 .. NumHits,             \* soonest_passed_hit_index
   held: SUBSET Keys,                \* held_keys
   target: [Keys -> Hits \union {None}],  \* current_hold_targets
   counts: [JudgedScores -> Nat],      \* score_counts
   totalScore: Nat,
   nScored: Nat,                     \* n_scored_notes
   combo: Nat,                       \* current_combo
   maxCombo: Nat,
   totalErr: Int,
   nTimed: Nat,                      \* n_timed_hits
   lastScored: Hits \union {None},   \* last_scored_index
   latest: Int \union {None}]        \* latest_time

NewAttempt ==
  [head |-> [i \in Hits |-> Unjudged],
   tail |-> [i \in Hits |-> Unjudged],
   passed |-> 0,
   held |-> {},
   target |-> [k \in Keys |-> None],
   counts |-> [s \in JudgedScores |-> 0],
   totalScore |-> 0, nScored |-> 0,
   combo |-> 0, maxCombo |-> 0,
   totalErr |-> 0, nTimed |-> 0,
   lastScored |-> None, latest |-> None]

-----------------------------------------------------------------------------
(* Scoring *)

\* Mutant: a BAD breaks the combo too.
NextCombo_BadBreaks(combo, score, n) == IF score \in {"BAD", "MISS"} THEN 0 ELSE combo + n

\* Only a MISS breaks the combo.
NextCombo(combo, score, n) == IF score = "MISS" THEN 0 ELSE combo + n

\* The counters of score_hit, for n judgements of one score, the last at `last'.
Tally(a, score, n, last) ==
  IF n = 0 THEN a ELSE
  LET combo == NextCombo(a.combo, score, n)
  IN  [a EXCEPT !.counts[score] = @ + n,
                !.totalScore = @ + n * HitScoreAcc[score],
                !.combo = combo,
                !.maxCombo = MaxOf(@, combo),
                !.lastScored = last,
                !.nScored = @ + n]

\* Mutant: a hold whose head is missed counts as one judgement.
MissCount_HeadsOnly(H, T) == IF H = {} THEN Cardinality(T) ELSE Cardinality(H)

MissCount(H, T) == Cardinality(H) + Cardinality(T)

\* score_hit(played = false) on the heads H (err 0) and the tails T (err tailErr).
ScoreMisses(a, H, T, tailErr, last) ==
  Tally([a EXCEPT !.head = [i \in Hits |-> IF i \in H THEN Missed(0) ELSE a.head[i]],
                  !.tail = [i \in Hits |-> IF i \in T THEN Missed(tailErr[i])
                                                      ELSE a.tail[i]]],
        "MISS", MissCount(H, T), last)

\* The judgement of a played input: outside every window it is a MISS.
PlayedScore(err, release) ==
  LET score == ScoreFor(Abs(err), HitAccuracy, release)
  IN  IF score = "NONE" THEN "MISS" ELSE score

Played(err, release) ==
  [done |-> TRUE, played |-> TRUE, score |-> PlayedScore(err, release), err |-> err]

\* score_hit(release = false, played = true), with its guard.
ScoreHead(a, i, err) ==
  IF a.head[i].done THEN a
  ELSE Tally([a EXCEPT !.head[i] = Played(err, FALSE),
                       !.totalErr = @ + err,
                       !.nTimed = @ + 1],
             PlayedScore(err, FALSE), 1, i)

\* Mutant: no guard, an overrun tail is judged again by the release.
ScoreTail_Again(a, i, err) ==
  Tally([a EXCEPT !.tail[i] = Played(err, TRUE)], PlayedScore(err, TRUE), 1, i)

\* Mutant: a release outside every window judges nothing.
ScoreTail_InWindow(a, i, err) ==
  IF a.tail[i].done \/ ScoreFor(Abs(err), HitAccuracy, TRUE) = "NONE" THEN a
  ELSE Tally([a EXCEPT !.tail[i] = Played(err, TRUE)], PlayedScore(err, TRUE), 1, i)

\* score_hit(release = true, played = true), with its guard.
ScoreTail(a, i, err) ==
  IF a.tail[i].done THEN a
  ELSE Tally([a EXCEPT !.tail[i] = Played(err, TRUE)], PlayedScore(err, TRUE), 1, i)

-----------------------------------------------------------------------------
(* The passing of time *)

\* Mutant: the loop runs one past the last hit.
AdvancePassedIndex_PastEnd(a) ==
  [a EXCEPT !.passed = Min({i \in a.passed .. NumHits + 1 :
                              i > NumHits \/ (i < NumHits /\ ~a.head[i].done)})]

\* Mutant: a do-while loop, which steps over one open head.
AdvancePassedIndex_DoWhile(a) ==
  [a EXCEPT !.passed = Min({i \in a.passed .. NumHits :
                              i = NumHits \/ (i > a.passed /\ ~a.head[i].done)})]

\* advance_passed_index.
AdvancePassedIndex(a) ==
  [a EXCEPT !.passed = Min({i \in a.passed .. NumHits :
                              i = NumHits \/ ~a.head[i].done})]

\* Mutant: no test for err > 0, a note still far ahead is past.
HeadIsPast_Either(i, time) ==
  ScoreFor(Abs(time - Chart[i].time), HitAccuracy, FALSE) = "NONE"

\* err > 0 and no window of the head (of the tail) reaches it any more.
HeadIsPast(i, time) ==
  LET err == time - Chart[i].time
  IN  err > 0 /\ ScoreFor(Abs(err), HitAccuracy, FALSE) = "NONE"

TailIsPast(i, time) ==
  LET err == time - Chart[i].endTime
  IN  err > 0 /\ ScoreFor(Abs(err), HitAccuracy, TRUE) = "NONE"

\* Mutant: the loop starts after soonest_passed_hit_index.
PastHeads_SkipsFirst(a, time) ==
  {i \in a.passed + 1 .. NumHits - 1 : ~a.head[i].done /\ HeadIsPast(i, time)}

\* The loop of process_misses; the hits are sorted, so its break loses none.
PastHeads(a, time) ==
  {i \in a.passed .. NumHits - 1 : ~a.head[i].done /\ HeadIsPast(i, time)}

ProcessMisses(a, time) ==
  LET b == AdvancePassedIndex(a)
      heads == PastHeads(b, time)
      tails == {i \in heads : IsHold(i) /\ ~b.tail[i].done}
  IN  IF heads = {} THEN b
      ELSE AdvancePassedIndex(
             ScoreMisses(b, heads, tails, [i \in Hits |-> 0], Max(heads)))

\* The keys whose attached hold has been held past its last release window.
OverrunKeys(a, time) ==
  {k \in a.held : /\ a.target[k] # None
                  /\ IsHold(a.target[k])
                  /\ ~a.tail[a.target[k]].done
                  /\ TailIsPast(a.target[k], time)}

ProcessHoldOverruns(a, time) ==
  LET keys == OverrunKeys(a, time)
  IN  IF keys = {} THEN a
      ELSE ScoreMisses(a, {}, {a.target[k] : k \in keys},
                       [i \in Hits |-> time - Chart[i].endTime],
                       a.target[Max(keys)])

Update(a, time) ==
  LET latest == IF a.latest = None THEN time ELSE MaxOf(a.latest, time)
  IN  ProcessHoldOverruns(ProcessMisses([a EXCEPT !.latest = latest], time), time)

-----------------------------------------------------------------------------
(* Keys *)

\* Mutant: a press looks no further than GOOD.
Reach_Good == Window("GOOD", HitAccuracy, FALSE)

\* The furthest note ahead that a press looks at.
Reach == BadWindow

\* The hits the loop of press reaches on this lane before a break.
Candidates(a, key, time) ==
  LET onLane == {i \in a.passed .. NumHits - 1 :
                   /\ Chart[i].time - time <= Reach
                   /\ Chart[i].key = key
                   /\ ~a.head[i].done}
      scored(i) == ScoreFor(Abs(time - Chart[i].time), HitAccuracy, FALSE)
  IN  {i \in onLane : \A j \in onLane : j <= i => scored(j) # "NONE"}

\* Mutant: always the earliest candidate, BAD or not.
ChosenHit_Earliest(candidates, time) == Min(candidates)

\* The earliest candidate better than BAD, else the earliest candidate.
ChosenHit(candidates, time) ==
  LET better == {i \in candidates :
                   ScoreFor(Abs(time - Chart[i].time), HitAccuracy, FALSE) # "BAD"}
  IN  IF better # {} THEN Min(better) ELSE Min(candidates)

\* Mutant: a repeated press counts.
Presses_Repeated(a, key) == key \in Keys

\* A key out of range or already held only records the input.
Presses(a, key) == key \in Keys /\ key \notin a.held

\* Attempt::press.
Press(a, key, time) ==
  IF ~Presses(a, key) THEN a
  ELSE LET b == Update(a, time)
           c == [b EXCEPT !.held = @ \union {key}, !.target[key] = None]
           candidates == Candidates(b, key, time)
           i == ChosenHit(candidates, time)
       IN  IF candidates = {} THEN c
           ELSE ScoreHead([c EXCEPT !.target[key] = i], i, time - Chart[i].time)

\* Mutant: the key keeps the hit it was attached to.
LetGo_KeepsTarget(a, key) == [a EXCEPT !.held = @ \ {key}]

\* The key goes up and is attached to nothing.
LetGo(a, key) == [a EXCEPT !.held = @ \ {key}, !.target[key] = None]

\* Attempt::release.
Release(a, key, time) ==
  IF key \notin Keys \/ key \notin a.held THEN a
  ELSE LET b == Update(a, time)
           c == LetGo(b, key)
           i == b.target[key]
       IN  IF i # None /\ IsHold(i)
           THEN ScoreTail(c, i, time - Chart[i].endTime) ELSE c
=============================================================================
