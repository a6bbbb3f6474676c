---------------------------- MODULE JudgingLemmas ----------------------------
(***************************************************************************)
(* Facts about the operators of module Judging: what each returns, what it *)
(* leaves alone and when it judges; what every public call preserves:      *)
(* Sound, and Counted of the counters; and when attempts are judged the    *)
(* Same.  The proofs about attempts and the play screen build on them.     *)
(***************************************************************************)
EXTENDS Judging, DataLemmas

-----------------------------------------------------------------------------
(* Windows and scores *)

\* Every window is a natural number, and none is wider than BAD.
LEMMA WindowBounds ==
  ASSUME NEW s \in TimedHitScores, NEW diff \in Nat, NEW release \in BOOLEAN
  PROVE  /\ Window(s, diff, release) \in Nat
         /\ Window(s, diff, release) <= Window("BAD", diff, release)
  BY DEF Window, TimedHitScores, BaseWindow, AtMost, MaxHitAccDifficulty, MaxBadWindowSize

\* The score of an error is NONE exactly when the error is outside the BAD window.
LEMMA ScoreForDef ==
  ASSUME NEW err \in Int, NEW diff \in Nat, NEW release \in BOOLEAN
  PROVE  /\ ScoreFor(err, diff, release) \in TimedHitScores \union {"NONE"}
         /\ ScoreFor(err, diff, release) = "NONE" <=> err > Window("BAD", diff, release)
<1> DEFINE within == {s \in TimedHitScores : err <= Window(s, diff, release)}
<1>1. \A s \in TimedHitScores : ScoreRank[s] \in Nat
  BY DEF TimedHitScores, ScoreRank
<1>2. CASE within = {}
  <2>1. "BAD" \in TimedHitScores
    BY DEF TimedHitScores
  <2>2. QED
    BY <1>2, <2>1, WindowBounds DEF ScoreFor
<1>3. CASE within # {}
  <2>1. PICK s \in within : \A r \in within : ScoreRank[s] <= ScoreRank[r]
    <3> DEFINE ranks == {ScoreRank[r] : r \in within}
    <3>1. ranks # {} /\ ranks \subseteq Nat
      BY <1>1, <1>3
    <3>2. Min(ranks) \in ranks /\ \A y \in ranks : Min(ranks) <= y
      BY <3>1, MinOfNats
    <3>3. QED
      BY <3>2
  <2>2. ScoreFor(err, diff, release) \in within
    BY <1>3, <2>1 DEF ScoreFor
  <2>3. "NONE" \notin TimedHitScores
    BY DEF TimedHitScores
  <2>4. err <= Window("BAD", diff, release)
    <3>1. PICK t \in TimedHitScores : err <= Window(t, diff, release)
      BY <2>2
    <3>2. "BAD" \in TimedHitScores
      BY DEF TimedHitScores
    <3>3. QED
      BY <3>1, <3>2, WindowBounds
  <2>5. Window("BAD", diff, release) \in Nat
    BY WindowBounds DEF TimedHitScores
  <2>6. QED
    BY <2>2, <2>3, <2>4, <2>5
<1>4. QED
  BY <1>2, <1>3

\* A played input always earns one of the six judgements.
LEMMA PlayedScoreType ==
  ASSUME NEW err \in Int, NEW release \in BOOLEAN
  PROVE  PlayedScore(err, release) \in JudgedScores
<1>1. Abs(err) \in Int /\ HitAccuracy \in Nat
  BY ChartAssumption DEF Abs
<1>2. ScoreFor(Abs(err), HitAccuracy, release) \in TimedHitScores \union {"NONE"}
  BY <1>1, ScoreForDef
<1>3. QED
  BY <1>2 DEF PlayedScore, TimedHitScores, JudgedScores

\* The two judging windows, and what lies past them.
LEMMA PastDef ==
  ASSUME NEW i \in Hits, NEW time \in Int
  PROVE  /\ BadWindow \in Nat /\ ReleaseWindow \in Nat /\ BadWindow <= ReleaseWindow
         /\ HeadIsPast(i, time) <=> time > Chart[i].time + BadWindow
         /\ TailIsPast(i, time) <=> time > Chart[i].endTime + ReleaseWindow
<1>1. HitAccuracy \in Nat /\ "BAD" \in TimedHitScores
  BY ChartAssumption DEF TimedHitScores
<1>2. BadWindow \in Nat /\ ReleaseWindow \in Nat
  BY <1>1, WindowBounds DEF BadWindow, ReleaseWindow
<1>3. BadWindow <= ReleaseWindow
  BY <1>1 DEF BadWindow, ReleaseWindow, Window, AtMost, BaseWindow,
              MaxHitAccDifficulty, MaxBadWindowSize
<1>4. Chart[i].time \in Int /\ Chart[i].endTime \in Int
  BY ChartAssumption DEF Hit
<1>5. HeadIsPast(i, time) <=> time > Chart[i].time + BadWindow
  <2> DEFINE err == time - Chart[i].time
  <2>1. err \in Int /\ Abs(err) \in Int
    BY <1>4 DEF Abs
  <2>2. ScoreFor(Abs(err), HitAccuracy, FALSE) = "NONE" <=> Abs(err) > BadWindow
    BY <1>1, <2>1, ScoreForDef DEF BadWindow
  <2>3. HeadIsPast(i, time) <=> err > 0 /\ Abs(err) > BadWindow
    BY <2>2 DEF HeadIsPast
  <2>4. QED
    BY <1>2, <1>4, <2>3 DEF Abs
<1>6. TailIsPast(i, time) <=> time > Chart[i].endTime + ReleaseWindow
  <2> DEFINE err == time - Chart[i].endTime
  <2>1. err \in Int /\ Abs(err) \in Int
    BY <1>4 DEF Abs
  <2>2. ScoreFor(Abs(err), HitAccuracy, TRUE) = "NONE" <=> Abs(err) > ReleaseWindow
    BY <1>1, <2>1, ScoreForDef DEF ReleaseWindow
  <2>3. TailIsPast(i, time) <=> err > 0 /\ Abs(err) > ReleaseWindow
    BY <2>2 DEF TailIsPast
  <2>4. QED
    BY <1>2, <1>4, <2>3 DEF Abs
<1>7. QED
  BY <1>2, <1>3, <1>5, <1>6

-----------------------------------------------------------------------------
(* Scoring *)

\* The fields that only the scoring of a note may touch.
SameNotes(a, b) ==
  /\ b.head = a.head /\ b.tail = a.tail /\ b.passed = a.passed
  /\ b.held = a.held /\ b.target = a.target /\ b.latest = a.latest

\* score_hit's counters: the tally is an attempt that differs in counters only.
LEMMA TallyResult ==
  ASSUME NEW a \in AttemptState, NEW score \in JudgedScores, NEW n \in Nat,
         NEW last \in Hits
  PROVE  Tally(a, score, n, last) \in AttemptState /\ SameNotes(a, Tally(a, score, n, last))
<1>1. CASE n = 0
  BY <1>1 DEF Tally, SameNotes
<1>2. CASE n # 0
  <2> DEFINE combo == NextCombo(a.combo, score, n)
             points == n * HitScoreAcc[score]
             counts == [a.counts EXCEPT ![score] = @ + n]
             best == MaxOf(a.maxCombo, combo)
             total == a.totalScore + points
             scored == a.nScored + n
             b == [a EXCEPT !.counts = counts, !.totalScore = total,
                            !.combo = combo, !.maxCombo = best,
                            !.lastScored = last, !.nScored = scored]
  <2>1. combo \in Nat
    BY DEF NextCombo, AttemptState
  <2>2. best \in Nat
    BY <2>1 DEF MaxOf, AttemptState
  <2>3. total \in Nat /\ scored \in Nat
    BY DEF HitScoreAcc, JudgedScores, AttemptState
  <2>4. counts \in [JudgedScores -> Nat]
    BY DEF AttemptState
  <2>5. Tally(a, score, n, last) = b
    BY <1>2 DEF Tally
  <2> HIDE DEF combo, points, counts, best, total, scored
  <2>6. b \in AttemptState
    BY <2>1, <2>2, <2>3, <2>4 DEF AttemptState
  <2>7. SameNotes(a, b)
    BY DEF SameNotes, AttemptState
  <2>8. QED
    BY <2>5, <2>6, <2>7
<1>3. QED
  BY <1>1, <1>2

\* A set of hits is finite, so the misses of one step can be counted.
LEMMA HitsFinite ==
  ASSUME NEW H, H \subseteq Hits
  PROVE  IsFiniteSet(H) /\ Cardinality(H) \in Nat
<1>1. IsFiniteSet(Hits)
  <2>1. NumHits - 1 \in Int
    BY ChartAssumption
  <2>2. QED
    BY <2>1, FS_Interval DEF Hits
<1>2. QED
  BY <1>1, FS_Subset, FS_CardinalityType

\* A missed half is a judgement.
LEMMA MissedType ==
  ASSUME NEW err \in Int
  PROVE  Missed(err) \in Judgement /\ Missed(err).done /\ ~Missed(err).played
BY DEF Missed, Judgement, HitScore, JudgedScores

\* A played half is a judgement.
LEMMA PlayedType ==
  ASSUME NEW err \in Int, NEW release \in BOOLEAN
  PROVE  /\ Played(err, release) \in Judgement
         /\ Played(err, release).done /\ Played(err, release).played
BY PlayedScoreType DEF Played, Judgement, HitScore

\* score_hit(played = false) marks the given heads and tails and nothing else.
LEMMA ScoreMissesResult ==
  ASSUME NEW a \in AttemptState, NEW H \in SUBSET Hits, NEW T \in SUBSET Hits,
         NEW tailErr \in [Hits -> Int], NEW last \in Hits
  PROVE  LET b == ScoreMisses(a, H, T, tailErr, last)
         IN  /\ b \in AttemptState
             /\ b.head = [i \in Hits |-> IF i \in H THEN Missed(0) ELSE a.head[i]]
             /\ b.tail = [i \in Hits |-> IF i \in T THEN Missed(tailErr[i]) ELSE a.tail[i]]
             /\ b.passed = a.passed /\ b.held = a.held
             /\ b.target = a.target /\ b.latest = a.latest
<1> DEFINE head == [i \in Hits |-> IF i \in H THEN Missed(0) ELSE a.head[i]]
           tail == [i \in Hits |-> IF i \in T THEN Missed(tailErr[i]) ELSE a.tail[i]]
           c == [a EXCEPT !.head = head, !.tail = tail]
           b == ScoreMisses(a, H, T, tailErr, last)
<1>1. head \in [Hits -> Judgement] /\ tail \in [Hits -> Judgement]
  BY MissedType DEF AttemptState
<1>2. b = Tally(c, "MISS", MissCount(H, T), last)
  BY DEF ScoreMisses
<1>3. MissCount(H, T) \in Nat /\ "MISS" \in JudgedScores
  BY HitsFinite DEF MissCount, JudgedScores
<1> HIDE DEF head, tail
<1>4. /\ c \in AttemptState
      /\ c.head = head /\ c.tail = tail /\ c.passed = a.passed
      /\ c.held = a.held /\ c.target = a.target /\ c.latest = a.latest
  BY <1>1 DEF AttemptState
<1> HIDE DEF c, b
<1>5. b \in AttemptState /\ SameNotes(c, b)
  BY <1>2, <1>3, <1>4, TallyResult
<1>6. b.head = head /\ b.tail = tail /\ b.passed = a.passed
      /\ b.held = a.held /\ b.target = a.target /\ b.latest = a.latest
  BY <1>4, <1>5 DEF SameNotes
<1>7. QED
  BY <1>5, <1>6 DEF b, head, tail

\* score_hit on a head: it is played now unless it was judged before.
LEMMA ScoreHeadResult ==
  ASSUME NEW a \in AttemptState, NEW i \in Hits, NEW err \in Int
  PROVE  LET b == ScoreHead(a, i, err)
         IN  /\ b \in AttemptState
             /\ b.head = IF a.head[i].done THEN a.head
                         ELSE [a.head EXCEPT ![i] = Played(err, FALSE)]
             /\ b.tail = a.tail /\ b.passed = a.passed /\ b.held = a.held
             /\ b.target = a.target /\ b.latest = a.latest
<1>1. CASE a.head[i].done
  BY <1>1 DEF ScoreHead
<1>2. CASE ~a.head[i].done
  <2> DEFINE head == [a.head EXCEPT ![i] = Played(err, FALSE)]
             total == a.totalErr + err
             timed == a.nTimed + 1
             c == [a EXCEPT !.head = head, !.totalErr = total, !.nTimed = timed]
             b == ScoreHead(a, i, err)
  <2>1. head \in [Hits -> Judgement] /\ total \in Int /\ timed \in Nat
    <3>1. Played(err, FALSE) \in Judgement
      BY PlayedType
    <3>2. head \in [Hits -> Judgement]
      BY <3>1 DEF AttemptState
    <3>3. total \in Int /\ timed \in Nat
      BY DEF AttemptState
    <3>4. QED
      BY <3>2, <3>3
  <2>2. b = Tally(c, PlayedScore(err, FALSE), 1, i)
    BY <1>2 DEF ScoreHead
  <2>3. PlayedScore(err, FALSE) \in JudgedScores
    BY PlayedScoreType
  <2> HIDE DEF head, total, timed
  <2>4. /\ c \in AttemptState
        /\ c.head = head /\ c.tail = a.tail /\ c.passed = a.passed
        /\ c.held = a.held /\ c.target = a.target /\ c.latest = a.latest
    BY <2>1 DEF AttemptState
  <2> HIDE DEF c, b
  <2>5. b \in AttemptState /\ SameNotes(c, b)
    BY <2>2, <2>3, <2>4, TallyResult
  <2>6. /\ b.head = head /\ b.tail = a.tail /\ b.passed = a.passed
        /\ b.held = a.held /\ b.target = a.target /\ b.latest = a.latest
    BY <2>4, <2>5 DEF SameNotes
  <2>7. QED
    BY <1>2, <2>5, <2>6 DEF b, head
<1>3. QED
  BY <1>1, <1>2

\* score_hit on a tail: it is played now unless it was judged before.
LEMMA ScoreTailResult ==
  ASSUME NEW a \in AttemptState, NEW i \in Hits, NEW err \in Int
  PROVE  LET b == ScoreTail(a, i, err)
         IN  /\ b \in AttemptState
             /\ b.tail = IF a.tail[i].done THEN a.tail
                         ELSE [a.tail EXCEPT ![i] = Played(err, TRUE)]
             /\ b.head = a.head /\ b.passed = a.passed /\ b.held = a.held
             /\ b.target = a.target /\ b.latest = a.latest
<1>1. CASE a.tail[i].done
  BY <1>1 DEF ScoreTail
<1>2. CASE ~a.tail[i].done
  <2> DEFINE tail == [a.tail EXCEPT ![i] = Played(err, TRUE)]
             c == [a EXCEPT !.tail = tail]
             b == ScoreTail(a, i, err)
  <2>1. tail \in [Hits -> Judgement]
    BY PlayedType DEF AttemptState
  <2>2. b = Tally(c, PlayedScore(err, TRUE), 1, i)
    BY <1>2 DEF ScoreTail
  <2>3. PlayedScore(err, TRUE) \in JudgedScores
    BY PlayedScoreType
  <2> HIDE DEF tail
  <2>4. /\ c \in AttemptState
        /\ c.head = a.head /\ c.tail = tail /\ c.passed = a.passed
        /\ c.held = a.held /\ c.target = a.target /\ c.latest = a.latest
    BY <2>1 DEF AttemptState
  <2> HIDE DEF c, b
  <2>5. b \in AttemptState /\ SameNotes(c, b)
    BY <2>2, <2>3, <2>4, TallyResult
  <2>6. /\ b.tail = tail /\ b.head = a.head /\ b.passed = a.passed
        /\ b.held = a.held /\ b.target = a.target /\ b.latest = a.latest
    BY <2>4, <2>5 DEF SameNotes
  <2>7. QED
    BY <1>2, <2>5, <2>6 DEF b, tail
<1>3. QED
  BY <1>1, <1>2

-----------------------------------------------------------------------------
(* The passing of time *)

\* advance_passed_index moves the index forward over judged heads only, up to
\* the first open one.
LEMMA AdvanceResult ==
  ASSUME NEW a \in AttemptState
  PROVE  LET b == AdvancePassedIndex(a)
         IN  /\ b \in AttemptState
             /\ a.passed <= b.passed
             /\ \A i \in Hits : a.passed <= i /\ i < b.passed => a.head[i].done
             /\ b.head = a.head /\ b.tail = a.tail /\ b.held = a.held
             /\ b.target = a.target /\ b.latest = a.latest
<1> DEFINE stops == {i \in a.passed .. NumHits : i = NumHits \/ ~a.head[i].done}
           p == Min(stops)
           b == [a EXCEPT !.passed = p]
<1>1. a.passed \in 0 .. NumHits /\ NumHits \in Nat
  BY ChartAssumption DEF AttemptState
<1>2. stops \subseteq Nat /\ NumHits \in stops
  BY <1>1
<1>3. p \in stops /\ \A y \in stops : p <= y
  <2> HIDE DEF stops
  <2> QED BY <1>2, MinOfNats
<1>4. p \in a.passed .. NumHits
  BY <1>3
<1>5. p \in 0 .. NumHits /\ a.passed <= p
  BY <1>1, <1>4
<1>6. \A i \in Hits : a.passed <= i /\ i < p => a.head[i].done
  <2> SUFFICES ASSUME NEW i \in Hits, a.passed <= i, i < p, ~a.head[i].done
               PROVE  FALSE
    OBVIOUS
  <2>1. i \in stops
    BY <1>1 DEF Hits
  <2>2. i \in Int /\ p \in Int /\ p <= i
    BY <1>3, <1>5, <2>1 DEF Hits
  <2>3. QED
    BY <2>2
<1> HIDE DEF p
<1>7. /\ b \in AttemptState /\ b.passed = p
      /\ b.head = a.head /\ b.tail = a.tail /\ b.held = a.held
      /\ b.target = a.target /\ b.latest = a.latest
  BY <1>5 DEF AttemptState
<1>8. b = AdvancePassedIndex(a)
  BY DEF AdvancePassedIndex, p
<1> HIDE DEF b
<1>9. QED
  BY <1>5, <1>6, <1>7, <1>8

\* process_misses judges exactly the open heads it scans that are past, each
\* together with its open tail, as misses.
LEMMA ProcessMissesResult ==
  ASSUME NEW a \in AttemptState, NEW time \in Int
  PROVE  LET b == ProcessMisses(a, time)
             open(i) == AdvancePassedIndex(a).passed <= i /\ ~a.head[i].done
             missed(i) == open(i) /\ HeadIsPast(i, time)
         IN  /\ b \in AttemptState
             /\ \A i \in Hits :
                  /\ b.head[i] = IF missed(i) THEN Missed(0) ELSE a.head[i]
                  /\ b.tail[i] = IF missed(i) /\ IsHold(i) /\ ~a.tail[i].done
                                 THEN Missed(0) ELSE a.tail[i]
             /\ a.passed <= b.passed
             /\ \A i \in Hits : a.passed <= i /\ i < b.passed => b.head[i].done
             /\ b.held = a.held /\ b.target = a.target /\ b.latest = a.latest
<1> DEFINE b == AdvancePassedIndex(a)
           heads == PastHeads(b, time)
           tails == {i \in heads : IsHold(i) /\ ~b.tail[i].done}
           zero == [i \in Hits |-> 0]
           c == ScoreMisses(b, heads, tails, zero, Max(heads))
           d == AdvancePassedIndex(c)
<1>1. /\ b \in AttemptState
      /\ a.passed <= b.passed
      /\ \A i \in Hits : a.passed <= i /\ i < b.passed => a.head[i].done
      /\ b.head = a.head /\ b.tail = a.tail /\ b.held = a.held
      /\ b.target = a.target /\ b.latest = a.latest
  BY AdvanceResult
<1> HIDE DEF b
<1>2. b.passed \in Nat /\ a.passed \in Nat /\ NumHits \in Nat
  BY <1>1, ChartAssumption DEF AttemptState
<1>3. \A i \in Hits : i \in heads <=> (b.passed <= i /\ ~a.head[i].done) /\ HeadIsPast(i, time)
  BY <1>1, <1>2 DEF PastHeads, Hits
<1>4. heads \in SUBSET Hits /\ tails \in SUBSET Hits
  BY <1>2 DEF PastHeads, Hits
<1>5. ProcessMisses(a, time) = IF heads = {} THEN b ELSE d
  BY DEF ProcessMisses, b
<1>6. CASE heads = {}
  BY <1>1, <1>3, <1>5, <1>6 DEF b
<1>7. CASE heads # {}
  <2>1. Max(heads) \in Hits
    <3>1. heads \subseteq 0 .. NumHits
      BY <1>2, <1>4 DEF Hits
    <3>2. Max(heads) \in heads
      BY <1>2, <1>7, <3>1, MaxBelow
    <3>3. QED
      BY <1>4, <3>2
  <2>2. zero \in [Hits -> Int] /\ \A i \in Hits : zero[i] = 0
    OBVIOUS
  <2>3. \A i \in Hits : i \in tails <=> i \in heads /\ IsHold(i) /\ ~a.tail[i].done
    BY <1>1
  <2> HIDE DEF heads, tails, zero
  <2>4. /\ c \in AttemptState
        /\ c.head = [i \in Hits |-> IF i \in heads THEN Missed(0) ELSE b.head[i]]
        /\ c.tail = [i \in Hits |-> IF i \in tails THEN Missed(zero[i]) ELSE b.tail[i]]
        /\ c.passed = b.passed /\ c.held = b.held
        /\ c.target = b.target /\ c.latest = b.latest
    BY <1>1, <1>4, <2>1, <2>2, ScoreMissesResult
  <2> HIDE DEF c
  <2>5. /\ d \in AttemptState
        /\ c.passed <= d.passed
        /\ \A i \in Hits : c.passed <= i /\ i < d.passed => c.head[i].done
        /\ d.head = c.head /\ d.tail = c.tail /\ d.held = c.held
        /\ d.target = c.target /\ d.latest = c.latest
    BY <2>4, AdvanceResult
  <2> HIDE DEF d
  <2>6. \A i \in Hits : a.passed <= i /\ i < d.passed => d.head[i].done
    <3> SUFFICES ASSUME NEW i \in Hits, a.passed <= i, i < d.passed
                 PROVE  d.head[i].done
      OBVIOUS
    <3>1. CASE i < b.passed
      <4>1. a.head[i].done
        BY <1>1, <3>1
      <4>2. i \notin heads
        BY <1>3, <4>1
      <4>3. QED
        BY <1>1, <2>4, <2>5, <4>1, <4>2
    <3>2. CASE b.passed <= i
      BY <2>4, <2>5, <3>2
    <3>3. QED
      BY <1>2, <3>1, <3>2 DEF Hits
  <2>7. a.passed <= d.passed
    <3>1. d.passed \in Nat
      BY <2>5, ChartAssumption DEF AttemptState
    <3>2. QED
      BY <1>1, <1>2, <2>4, <2>5, <3>1
  <2>8. \A i \in Hits :
          /\ d.head[i] = IF i \in heads THEN Missed(0) ELSE a.head[i]
          /\ d.tail[i] = IF i \in tails THEN Missed(0) ELSE a.tail[i]
    BY <1>1, <2>2, <2>4, <2>5
  <2>9. d.held = a.held /\ d.target = a.target /\ d.latest = a.latest
    BY <1>1, <2>4, <2>5
  <2>10. ProcessMisses(a, time) = d
    BY <1>5, <1>7
  <2>11. QED
    BY <1>3, <2>3, <2>5, <2>6, <2>7, <2>8, <2>9, <2>10 DEF b
<1>8. QED
  BY <1>6, <1>7

\* Hit i is the overdue open hold of a key that is down.
Overrun(a, i, time) ==
  \E k \in a.held : a.target[k] = i /\ IsHold(i) /\ ~a.tail[i].done /\ TailIsPast(i, time)

\* process_hold_overruns judges exactly the overdue tails of attached holds.
LEMMA HoldOverrunsResult ==
  ASSUME NEW a \in AttemptState, NEW time \in Int
  PROVE  LET b == ProcessHoldOverruns(a, time)
         IN  /\ b \in AttemptState
             /\ \A i \in Hits :
                  b.tail[i] = IF Overrun(a, i, time)
                              THEN Missed(time - Chart[i].endTime) ELSE a.tail[i]
             /\ b.head = a.head /\ b.passed = a.passed /\ b.held = a.held
             /\ b.target = a.target /\ b.latest = a.latest
<1> DEFINE keys == OverrunKeys(a, time)
           tails == {a.target[k] : k \in keys}
           errs == [i \in Hits |-> time - Chart[i].endTime]
           b == ScoreMisses(a, {}, tails, errs, a.target[Max(keys)])
<1>1. keys \subseteq a.held /\ a.held \subseteq Keys
  BY DEF OverrunKeys, AttemptState
<1>2. \A k \in keys : a.target[k] \in Hits
  BY <1>1 DEF OverrunKeys, AttemptState
<1>3. \A i \in Hits : i \in tails <=> Overrun(a, i, time)
  BY NoneAssumption DEF OverrunKeys, Overrun, Hits
<1>4. ProcessHoldOverruns(a, time) = IF keys = {} THEN a ELSE b
  BY DEF ProcessHoldOverruns
<1>5. CASE keys = {}
  BY <1>3, <1>4, <1>5
<1>6. CASE keys # {}
  <2>1. a.target[Max(keys)] \in Hits
    <3>1. KeyCount \in Nat /\ keys \subseteq 0 .. KeyCount
      BY <1>1, ChartAssumption DEF Keys
    <3>2. Max(keys) \in keys
      BY <1>6, <3>1, MaxBelow
    <3>3. QED
      BY <1>2, <3>2
  <2>2. errs \in [Hits -> Int] /\ \A i \in Hits : errs[i] = time - Chart[i].endTime
    BY ChartAssumption DEF Hit
  <2>3. tails \in SUBSET Hits
    BY <1>2
  <2> HIDE DEF keys, tails, errs
  <2>4. /\ b \in AttemptState
        /\ b.head = [i \in Hits |-> IF i \in {} THEN Missed(0) ELSE a.head[i]]
        /\ b.tail = [i \in Hits |-> IF i \in tails THEN Missed(errs[i]) ELSE a.tail[i]]
        /\ b.passed = a.passed /\ b.held = a.held
        /\ b.target = a.target /\ b.latest = a.latest
    BY <2>1, <2>2, <2>3, ScoreMissesResult
  <2> HIDE DEF b
  <2>5. b.head = a.head
    BY <2>4 DEF AttemptState
  <2>6. QED
    BY <1>3, <1>4, <1>6, <2>2, <2>4, <2>5
<1>7. QED
  BY <1>5, <1>6

\* The latest song time an attempt has heard of after a call at `time'.
LatestAt(a, time) == IF a.latest = None THEN time ELSE MaxOf(a.latest, time)

\* Update: misses first, then overruns, and nothing but notes and the clock.
LEMMA UpdateResult ==
  ASSUME NEW a \in AttemptState, NEW time \in Int
  PROVE  LET b == Update(a, time)
         IN  /\ b \in AttemptState
             /\ b.held = a.held /\ b.target = a.target /\ b.latest = LatestAt(a, time)
             /\ \A i \in Hits : a.passed <= i /\ i < b.passed => b.head[i].done
             /\ \A i \in Hits :
                  \/ /\ b.head[i] = a.head[i]
                     /\ \/ b.tail[i] = a.tail[i] /\ ~Overrun(a, i, time)
                        \/ /\ Overrun(a, i, time)
                           /\ b.tail[i] = Missed(time - Chart[i].endTime)
                     /\ \/ a.head[i].done \/ i < a.passed \/ ~HeadIsPast(i, time)
                  \/ /\ b.head[i] = Missed(0) /\ ~a.head[i].done /\ HeadIsPast(i, time)
                     /\ IF IsHold(i) /\ ~a.tail[i].done THEN b.tail[i] = Missed(0)
                        ELSE b.tail[i] = a.tail[i]
<1> DEFINE a1 == [a EXCEPT !.latest = LatestAt(a, time)]
           a2 == ProcessMisses(a1, time)
           b == ProcessHoldOverruns(a2, time)
           p == AdvancePassedIndex(a1).passed
<1>1. LatestAt(a, time) \in Int
  BY DEF LatestAt, MaxOf, AttemptState
<1>2. /\ a1 \in AttemptState
      /\ a1.head = a.head /\ a1.tail = a.tail /\ a1.passed = a.passed
      /\ a1.held = a.held /\ a1.target = a.target /\ a1.latest = LatestAt(a, time)
  BY <1>1 DEF AttemptState
<1>3. b = Update(a, time)
  BY DEF Update, LatestAt
<1> HIDE DEF a1
<1>4. \A i \in Hits : ~a.head[i].done /\ a.passed <= i => p <= i
  <2> DEFINE c == AdvancePassedIndex(a1)
  <2>1. c \in AttemptState /\ \A i \in Hits : a.passed <= i /\ i < c.passed => a.head[i].done
    BY <1>2, AdvanceResult
  <2>2. c.passed \in Int
    BY <2>1, ChartAssumption DEF AttemptState
  <2>3. QED
    BY <2>1, <2>2 DEF Hits
<1>5. /\ a2 \in AttemptState
      /\ \A i \in Hits : a.passed <= i /\ i < a2.passed => a2.head[i].done
      /\ a2.held = a.held /\ a2.target = a.target /\ a2.latest = LatestAt(a, time)
  BY <1>2, ProcessMissesResult
<1>6. \A i \in Hits :
        /\ a2.head[i] = IF (p <= i /\ ~a.head[i].done) /\ HeadIsPast(i, time)
                        THEN Missed(0) ELSE a.head[i]
        /\ a2.tail[i] = IF /\ (p <= i /\ ~a.head[i].done) /\ HeadIsPast(i, time)
                           /\ IsHold(i) /\ ~a.tail[i].done
                        THEN Missed(0) ELSE a.tail[i]
  BY <1>2, ProcessMissesResult
<1> HIDE DEF a2, p
<1>7. /\ b \in AttemptState
      /\ b.head = a2.head /\ b.passed = a2.passed /\ b.held = a.held
      /\ b.target = a.target /\ b.latest = LatestAt(a, time)
      /\ \A i \in Hits : b.tail[i] = IF Overrun(a2, i, time)
                                     THEN Missed(time - Chart[i].endTime) ELSE a2.tail[i]
  BY <1>5, HoldOverrunsResult
<1> HIDE DEF b
<1>8. \A i \in Hits : a2.tail[i] = a.tail[i] => (Overrun(a2, i, time) <=> Overrun(a, i, time))
  BY <1>5 DEF Overrun
<1>9. \A i \in Hits : a2.tail[i] # a.tail[i] => ~Overrun(a2, i, time)
  BY <1>6, MissedType DEF Overrun
<1>10. ASSUME NEW i \in Hits
       PROVE  \/ /\ b.head[i] = a.head[i]
                 /\ \/ b.tail[i] = a.tail[i] /\ ~Overrun(a, i, time)
                    \/ Overrun(a, i, time) /\ b.tail[i] = Missed(time - Chart[i].endTime)
                 /\ \/ a.head[i].done \/ i < a.passed \/ ~HeadIsPast(i, time)
              \/ /\ b.head[i] = Missed(0) /\ ~a.head[i].done /\ HeadIsPast(i, time)
                 /\ IF IsHold(i) /\ ~a.tail[i].done THEN b.tail[i] = Missed(0)
                    ELSE b.tail[i] = a.tail[i]
  <2>1. CASE (p <= i /\ ~a.head[i].done) /\ HeadIsPast(i, time)
    <3>1. b.head[i] = Missed(0)
      BY <1>6, <1>7, <2>1
    <3>2. ~Overrun(a2, i, time)
      BY <1>6, <2>1, MissedType DEF Overrun
    <3>3. QED
      BY <1>6, <1>7, <2>1, <3>1, <3>2
  <2>2. CASE ~((p <= i /\ ~a.head[i].done) /\ HeadIsPast(i, time))
    <3>1. b.head[i] = a.head[i] /\ a2.tail[i] = a.tail[i]
      BY <1>6, <1>7, <2>2
    <3>2. a.head[i].done \/ i < a.passed \/ ~HeadIsPast(i, time)
      <4>1. i \in Int /\ a.passed \in Int
        BY ChartAssumption DEF Hits, AttemptState
      <4>2. QED
        BY <1>4, <2>2, <4>1
    <3>3. QED
      BY <1>7, <1>8, <3>1, <3>2
  <2>3. QED
    BY <2>1, <2>2
<1>11. \A i \in Hits : a.passed <= i /\ i < b.passed => b.head[i].done
  BY <1>5, <1>7
<1>12. QED
  BY <1>3, <1>7, <1>10, <1>11

-----------------------------------------------------------------------------
(* Keys *)

\* A press chooses one of its candidates: an open head of the lane pressed.
LEMMA ChosenResult ==
  ASSUME NEW a \in AttemptState, NEW key \in Keys, NEW time \in Int,
         Candidates(a, key, time) # {}
  PROVE  LET i == ChosenHit(Candidates(a, key, time), time)
         IN  i \in Hits /\ Chart[i].key = key /\ ~a.head[i].done
<1> DEFINE candidates == Candidates(a, key, time)
           better == {i \in candidates :
                        ScoreFor(Abs(time - Chart[i].time), HitAccuracy, FALSE) # "BAD"}
           i == ChosenHit(candidates, time)
<1>1. a.passed \in Nat /\ NumHits \in Nat
  BY ChartAssumption DEF AttemptState
<1>2. \A j \in candidates : j \in Hits /\ Chart[j].key = key /\ ~a.head[j].done
  BY <1>1 DEF Candidates, Hits
<1>3. i = IF better # {} THEN Min(better) ELSE Min(candidates)
  BY DEF ChosenHit
<1> HIDE DEF candidates, i
<1>4. candidates # {} /\ candidates \subseteq Nat
  BY <1>2 DEF candidates, Hits
<1>5. i \in candidates
  <2>1. CASE better # {}
    <3>1. better \subseteq Nat /\ better \subseteq candidates
      BY <1>4
    <3> HIDE DEF better
    <3>2. QED
      BY <1>3, <2>1, <3>1, MinOfNats
  <2>2. CASE better = {}
    BY <1>3, <1>4, <2>2, MinOfNats
  <2>3. QED
    BY <2>1, <2>2
<1>6. QED
  BY <1>2, <1>5 DEF candidates, i

-----------------------------------------------------------------------------
(* Sound attempts: what every call keeps. *)

PassedJudged(a) == \A i \in Hits : i < a.passed => a.head[i].done

\* What is played is judged; only a hold's tail is judged, never before its head.
HalvesInOrder(a) ==
  \A i \in Hits : /\ a.head[i].played => a.head[i].done
                  /\ a.tail[i].played => a.tail[i].done
                  /\ a.tail[i].done => IsHold(i) /\ a.head[i].done

HoldsAttached(a) ==
  \A i \in Hits : IsHold(i) /\ a.head[i].done /\ ~a.tail[i].done =>
    Chart[i].key \in a.held /\ a.target[Chart[i].key] = i

TargetsOwned(a) ==
  \A k \in Keys : a.target[k] # None =>
    k \in a.held /\ Chart[a.target[k]].key = k /\ a.head[a.target[k]].played

Timely(a) ==
  a.latest # None => \A i \in Hits :
    /\ ~a.head[i].done => a.latest <= Chart[i].time + BadWindow
    /\ IsHold(i) /\ ~a.tail[i].done => a.latest <= Chart[i].endTime + ReleaseWindow

Sound(a) ==
  /\ a \in AttemptState
  /\ PassedJudged(a)
  /\ HalvesInOrder(a)
  /\ HoldsAttached(a)
  /\ TargetsOwned(a)
  /\ Timely(a)

\* No judgement of a is changed in b.
Final(a, b) ==
  \A i \in Hits : /\ a.head[i].done => b.head[i] = a.head[i]
                  /\ a.tail[i].done => b.tail[i] = a.tail[i]

\* From a to b only misses were judged.
NothingPlayed(a, b) ==
  \A i \in Hits : /\ ~a.head[i].done => ~b.head[i].played
                  /\ ~a.tail[i].done => ~b.tail[i].played

\* A new attempt is sound: nothing is judged, held or attached.
LEMMA NewAttemptSound == Sound(NewAttempt)
<1>1. NewAttempt \in AttemptState
  <2>1. Unjudged \in Judgement
    BY DEF Unjudged, Judgement, HitScore
  <2>2. 0 \in 0 .. NumHits
    BY ChartAssumption
  <2>3. QED
    BY <2>1, <2>2 DEF NewAttempt, AttemptState
<1>2. \A i \in Hits : ~NewAttempt.head[i].done /\ ~NewAttempt.head[i].played
                      /\ ~NewAttempt.tail[i].done /\ ~NewAttempt.tail[i].played
  BY DEF NewAttempt, Unjudged
<1>3. PassedJudged(NewAttempt)
  BY DEF PassedJudged, NewAttempt, Hits
<1>4. TargetsOwned(NewAttempt) /\ Timely(NewAttempt)
  BY DEF TargetsOwned, Timely, NewAttempt
<1>5. QED
  BY <1>1, <1>2, <1>3, <1>4 DEF Sound, HalvesInOrder, HoldsAttached

\* Update keeps an attempt sound, changes no judgement and no key, plays nothing.
LEMMA UpdateSound ==
  ASSUME NEW a, Sound(a), NEW time \in Int
  PROVE  LET b == Update(a, time)
         IN  /\ Sound(b) /\ Final(a, b) /\ NothingPlayed(a, b)
             /\ b.held = a.held /\ b.target = a.target
<1> DEFINE b == Update(a, time)
<1>1. a \in AttemptState
  BY DEF Sound
<1>2. /\ b \in AttemptState
      /\ b.held = a.held /\ b.target = a.target /\ b.latest = LatestAt(a, time)
      /\ \A i \in Hits : a.passed <= i /\ i < b.passed => b.head[i].done
  BY <1>1, UpdateResult
<1>3. \A i \in Hits :
        \/ /\ b.head[i] = a.head[i]
           /\ \/ b.tail[i] = a.tail[i] /\ ~Overrun(a, i, time)
              \/ Overrun(a, i, time) /\ b.tail[i] = Missed(time - Chart[i].endTime)
           /\ \/ a.head[i].done \/ i < a.passed \/ ~HeadIsPast(i, time)
        \/ /\ b.head[i] = Missed(0) /\ ~a.head[i].done /\ HeadIsPast(i, time)
           /\ IF IsHold(i) /\ ~a.tail[i].done THEN b.tail[i] = Missed(0)
              ELSE b.tail[i] = a.tail[i]
  BY <1>1, UpdateResult
<1> HIDE DEF b
<1>4. \A i \in Hits : Chart[i].time \in Int /\ Chart[i].endTime \in Int /\ Chart[i].key \in Keys
  BY ChartAssumption DEF Hit
<1>5. /\ Missed(0).done /\ ~Missed(0).played
      /\ \A i \in Hits : /\ Missed(time - Chart[i].endTime).done
                         /\ ~Missed(time - Chart[i].endTime).played
  BY <1>4, MissedType
<1>6. Final(a, b)
  BY <1>3 DEF Final, Overrun
<1>7. PassedJudged(b)
  <2> SUFFICES ASSUME NEW i \in Hits, i < b.passed  PROVE b.head[i].done
    BY DEF PassedJudged
  <2>1. CASE i < a.passed
    BY <1>6, <2>1 DEF Final, Sound, PassedJudged
  <2>2. CASE a.passed <= i
    BY <1>2, <2>2
  <2>3. i \in Int /\ a.passed \in Int
    BY <1>1, ChartAssumption DEF AttemptState, Hits
  <2>4. QED
    BY <2>1, <2>2, <2>3
<1>8. HalvesInOrder(b)
  <2>1. \A i \in Hits : Overrun(a, i, time) => IsHold(i) /\ a.head[i].done
    <3>1. \A k \in a.held : a.target[k] # None => a.head[a.target[k]].played
      BY <1>1 DEF Sound, TargetsOwned, AttemptState
    <3>2. \A i \in Hits : i # None
      BY NoneAssumption DEF Hits
    <3>3. QED
      BY <3>1, <3>2 DEF Overrun, Sound, HalvesInOrder
  <2>2. \A i \in Hits : a.tail[i].done => b.head[i] = a.head[i]
    BY <1>6 DEF Final, Sound, HalvesInOrder
  <2>3. \A i \in Hits : b.tail[i].done => IsHold(i) /\ b.head[i].done
    BY <1>3, <1>5, <2>1, <2>2 DEF Sound, HalvesInOrder
  <2>4. \A i \in Hits : b.head[i].played => b.head[i].done
    BY <1>3, <1>5 DEF Sound, HalvesInOrder
  <2>5. \A i \in Hits : b.tail[i].played => b.tail[i].done
    BY <1>3, <1>5 DEF Sound, HalvesInOrder
  <2>6. QED
    BY <2>3, <2>4, <2>5 DEF HalvesInOrder
<1>9. HoldsAttached(b)
  BY <1>2, <1>3, <1>5 DEF HoldsAttached, Sound, HalvesInOrder
<1>10. TargetsOwned(b)
  <2> SUFFICES ASSUME NEW k \in Keys, a.target[k] # None
               PROVE  /\ k \in a.held /\ Chart[a.target[k]].key = k
                      /\ b.head[a.target[k]].played
    BY <1>2 DEF TargetsOwned
  <2>1. /\ k \in a.held /\ Chart[a.target[k]].key = k
        /\ a.target[k] \in Hits /\ a.head[a.target[k]].played
    BY <1>1 DEF Sound, TargetsOwned, AttemptState
  <2>2. a.head[a.target[k]].done
    BY <2>1 DEF Sound, HalvesInOrder
  <2>3. QED
    BY <1>6, <2>1, <2>2 DEF Final
<1>11. Timely(b)
  <2> SUFFICES ASSUME NEW i \in Hits
               PROVE  /\ ~b.head[i].done => b.latest <= Chart[i].time + BadWindow
                      /\ IsHold(i) /\ ~b.tail[i].done =>
                           b.latest <= Chart[i].endTime + ReleaseWindow
    BY DEF Timely
  <2>1. /\ BadWindow \in Nat /\ ReleaseWindow \in Nat /\ BadWindow <= ReleaseWindow
        /\ HeadIsPast(i, time) <=> time > Chart[i].time + BadWindow
        /\ TailIsPast(i, time) <=> time > Chart[i].endTime + ReleaseWindow
    BY PastDef
  <2>2. b.latest \in Int /\ (b.latest = time \/ (b.latest = a.latest /\ a.latest # None))
    BY <1>1, <1>2 DEF LatestAt, MaxOf, AttemptState
  <2>3. ASSUME ~b.head[i].done  PROVE b.latest <= Chart[i].time + BadWindow
    <3>1. ~a.head[i].done /\ ~HeadIsPast(i, time)
      BY <1>3, <1>5, <2>3 DEF Sound, PassedJudged
    <3>2. a.latest # None => a.latest <= Chart[i].time + BadWindow
      BY <3>1 DEF Sound, Timely
    <3>3. QED
      BY <1>4, <2>1, <2>2, <3>1, <3>2
  <2>4. ASSUME IsHold(i), ~b.tail[i].done  PROVE b.latest <= Chart[i].endTime + ReleaseWindow
    <3>1. CASE ~b.head[i].done
      <4>1. Chart[i].time <= Chart[i].endTime
        BY <2>4, ChartAssumption DEF IsHold
      <4>2. QED
        BY <1>4, <2>1, <2>2, <2>3, <3>1, <4>1
    <3>2. CASE b.head[i].done
      <4>1. ~a.tail[i].done
        BY <1>6, <2>4 DEF Final
      <4>2. a.head[i].done /\ ~Overrun(a, i, time)
        BY <1>3, <1>5, <2>4, <3>2, <4>1
      <4>3. Chart[i].key \in a.held /\ a.target[Chart[i].key] = i
        BY <2>4, <4>1, <4>2 DEF Sound, HoldsAttached
      <4>4. ~TailIsPast(i, time)
        BY <2>4, <4>1, <4>2, <4>3 DEF Overrun
      <4>5. a.latest # None => a.latest <= Chart[i].endTime + ReleaseWindow
        BY <2>4, <4>1 DEF Sound, Timely
      <4>6. QED
        BY <1>4, <2>1, <2>2, <4>4, <4>5
    <3>3. QED
      BY <3>1, <3>2
  <2>5. QED
    BY <2>3, <2>4
<1>12. NothingPlayed(a, b)
  BY <1>3, <1>5 DEF NothingPlayed, Sound, HalvesInOrder
<1>13. QED
  BY <1>2, <1>6, <1>7, <1>8, <1>9, <1>10, <1>11, <1>12 DEF Sound, b

-----------------------------------------------------------------------------
(* The calls *)

\* A press keeps an attempt sound and changes no judgement; what it plays is one
\* head of the lane whose key goes down.
LEMMA PressSound ==
  ASSUME NEW a, Sound(a), NEW key \in Nat, NEW time \in Int
  PROVE  LET b == Press(a, key, time)
         IN  /\ Sound(b) /\ Final(a, b)
             /\ \A i \in Hits : ~a.tail[i].done => ~b.tail[i].played
             /\ \A i \in Hits : ~a.head[i].done /\ b.head[i].played =>
                  /\ Chart[i].key \in b.held \ a.held
                  /\ \A j \in Hits : ~a.head[j].done /\ b.head[j].played => j = i
<1> DEFINE u == Update(a, time)
           c == [u EXCEPT !.held = @ \union {key}, !.target[key] = None]
           candidates == Candidates(u, key, time)
           i == ChosenHit(candidates, time)
           err == time - Chart[i].time
           d == [c EXCEPT !.target[key] = i]
           b == Press(a, key, time)
<1>1. CASE ~Presses(a, key)
  BY <1>1 DEF Press, Sound, Final, HalvesInOrder
<1>2. CASE Presses(a, key)
  <2>1. key \in Keys /\ key \notin a.held
    BY <1>2 DEF Presses
  <2>2. /\ Sound(u) /\ Final(a, u) /\ NothingPlayed(a, u)
        /\ u.held = a.held /\ u.target = a.target
    BY UpdateSound
  <2>3. b = IF candidates = {} THEN c ELSE ScoreHead(d, i, err)
    BY <1>2 DEF Press
  <2> HIDE DEF u
  <2>4. /\ c \in AttemptState
        /\ c.head = u.head /\ c.tail = u.tail /\ c.passed = u.passed /\ c.latest = u.latest
        /\ c.held = u.held \union {key}
        /\ c.target = [u.target EXCEPT ![key] = None]
    BY <2>1, <2>2 DEF Sound, AttemptState
  \* No hold of this lane is open, for its key is up.
  <2>5. \A h \in Hits : Chart[h].key = key /\ IsHold(h) /\ u.head[h].done => u.tail[h].done
    BY <2>1, <2>2 DEF Sound, HoldsAttached
  <2>6. Sound(c)
    <3>1. PassedJudged(c) /\ HalvesInOrder(c) /\ Timely(c)
      BY <2>2, <2>4 DEF Sound, PassedJudged, HalvesInOrder, Timely
    <3>2. HoldsAttached(c)
      BY <2>2, <2>4, <2>5 DEF Sound, HoldsAttached, AttemptState
    <3>3. TargetsOwned(c)
      BY <2>1, <2>2, <2>4 DEF Sound, TargetsOwned, AttemptState
    <3>4. QED
      BY <2>4, <3>1, <3>2, <3>3 DEF Sound
  <2>7. CASE candidates = {}
    BY <2>2, <2>3, <2>4, <2>6, <2>7 DEF Final, NothingPlayed
  <2>8. CASE candidates # {}
    <3>1. i \in Hits /\ Chart[i].key = key /\ ~u.head[i].done
      BY <2>1, <2>2, <2>8, ChosenResult DEF Sound
    <3>2. b = ScoreHead(d, i, err)
      BY <2>3, <2>8
    <3> HIDE DEF candidates, i, c, b
    <3>3. /\ d \in AttemptState
          /\ d.head = u.head /\ d.tail = u.tail /\ d.passed = u.passed /\ d.latest = u.latest
          /\ d.held = u.held \union {key}
          /\ d.target = [u.target EXCEPT ![key] = i]
      BY <2>1, <2>2, <2>4, <3>1 DEF AttemptState, Sound
    <3>4. err \in Int
      BY <3>1, ChartAssumption DEF Hit
    <3> HIDE DEF d, err
    <3>5. /\ b \in AttemptState
          /\ b.head = [u.head EXCEPT ![i] = Played(err, FALSE)]
          /\ b.tail = u.tail /\ b.passed = u.passed /\ b.latest = u.latest
          /\ b.held = u.held \union {key}
          /\ b.target = [u.target EXCEPT ![key] = i]
      <4>1. /\ b \in AttemptState
            /\ b.head = IF d.head[i].done THEN d.head
                        ELSE [d.head EXCEPT ![i] = Played(err, FALSE)]
            /\ b.tail = d.tail /\ b.passed = d.passed /\ b.held = d.held
            /\ b.target = d.target /\ b.latest = d.latest
        <5> DEFINE e == ScoreHead(d, i, err)
        <5>1. /\ e \in AttemptState
              /\ e.head = IF d.head[i].done THEN d.head
                          ELSE [d.head EXCEPT ![i] = Played(err, FALSE)]
              /\ e.tail = d.tail /\ e.passed = d.passed /\ e.held = d.held
              /\ e.target = d.target /\ e.latest = d.latest
          BY <3>1, <3>3, <3>4, ScoreHeadResult
        <5>2. QED
          BY <3>2, <5>1
      <4>2. QED
        BY <3>1, <3>3, <4>1
    <3>6. /\ b.head[i].done /\ b.head[i].played
          /\ \A h \in Hits : h # i => b.head[h] = u.head[h]
      BY <2>2, <3>1, <3>4, <3>5, PlayedType DEF Sound, AttemptState
    <3>7. \A h \in Hits : u.head[h].done => b.head[h].done /\ b.head[h] = u.head[h]
      BY <3>1, <3>6
    <3>8. \A k \in Keys : b.target[k] = IF k = key THEN i ELSE u.target[k]
      BY <2>2, <3>5 DEF Sound, AttemptState
    <3>9. PassedJudged(b)
      BY <2>2, <3>5, <3>7 DEF Sound, PassedJudged
    <3>10. HalvesInOrder(b)
      BY <2>2, <3>5, <3>6, <3>7 DEF Sound, HalvesInOrder
    <3>11. HoldsAttached(b)
      <4> SUFFICES ASSUME NEW h \in Hits, IsHold(h), b.head[h].done, ~b.tail[h].done
                   PROVE  Chart[h].key \in b.held /\ b.target[Chart[h].key] = h
        BY DEF HoldsAttached
      <4>1. Chart[h].key \in Keys
        BY ChartAssumption DEF Hit
      <4>2. CASE h = i
        BY <3>1, <3>5, <3>8, <4>1, <4>2
      <4>3. CASE h # i
        <5>1. u.head[h].done /\ ~u.tail[h].done
          BY <3>5, <3>6, <4>3
        <5>2. Chart[h].key # key
          BY <2>5, <5>1
        <5>3. Chart[h].key \in u.held /\ u.target[Chart[h].key] = h
          BY <2>2, <5>1 DEF Sound, HoldsAttached
        <5>4. QED
          BY <3>5, <3>8, <4>1, <5>2, <5>3
      <4>4. QED
        BY <4>2, <4>3
    <3>12. TargetsOwned(b)
      <4> SUFFICES ASSUME NEW k \in Keys, b.target[k] # None
                   PROVE  /\ k \in b.held /\ Chart[b.target[k]].key = k
                          /\ b.head[b.target[k]].played
        BY DEF TargetsOwned
      <4>1. CASE k = key
        BY <3>1, <3>5, <3>6, <3>8, <4>1
      <4>2. CASE k # key
        <5>1. b.target[k] = u.target[k] /\ u.target[k] \in Hits
          BY <2>2, <3>8, <4>2 DEF Sound, AttemptState
        <5>2. k \in u.held /\ Chart[u.target[k]].key = k /\ u.head[u.target[k]].played
          BY <2>2, <5>1 DEF Sound, TargetsOwned
        <5>3. u.head[u.target[k]].done
          BY <2>2, <5>1, <5>2 DEF Sound, HalvesInOrder
        <5>4. QED
          BY <3>5, <3>7, <5>1, <5>2, <5>3
      <4>3. QED
        BY <4>1, <4>2
    <3>13. Timely(b)
      BY <2>2, <3>5, <3>7 DEF Sound, Timely
    <3>14. Final(a, b) /\ \A h \in Hits : ~a.tail[h].done => ~b.tail[h].played
      BY <2>2, <3>5, <3>7 DEF Final, NothingPlayed
    <3>15. \A h \in Hits : ~a.head[h].done /\ b.head[h].played => h = i
      BY <2>2, <3>6 DEF NothingPlayed
    <3>16. QED
      BY <2>1, <2>2, <3>1, <3>5, <3>9, <3>10, <3>11, <3>12, <3>13, <3>14, <3>15 DEF Sound, b
  <2>9. QED
    BY <2>7, <2>8
<1>3. QED
  BY <1>1, <1>2

\* A release keeps an attempt sound and changes no judgement; what it plays is
\* the tail of a hold of the lane whose key goes up.
LEMMA ReleaseSound ==
  ASSUME NEW a, Sound(a), NEW key \in Nat, NEW time \in Int
  PROVE  LET b == Release(a, key, time)
         IN  /\ Sound(b) /\ Final(a, b)
             /\ \A i \in Hits : ~a.head[i].done => ~b.head[i].played
             /\ \A i \in Hits : ~a.tail[i].done /\ b.tail[i].played =>
                  Chart[i].key \in a.held \ b.held
<1> DEFINE u == Update(a, time)
           c == LetGo(u, key)
           i == u.target[key]
           err == time - Chart[i].endTime
           b == Release(a, key, time)
<1>1. CASE key \notin Keys \/ key \notin a.held
  BY <1>1 DEF Release, Sound, Final, HalvesInOrder
<1>2. CASE key \in Keys /\ key \in a.held
  <2>1. /\ Sound(u) /\ Final(a, u) /\ NothingPlayed(a, u)
        /\ u.held = a.held /\ u.target = a.target
    BY UpdateSound
  <2>2. b = IF i # None /\ IsHold(i) THEN ScoreTail(c, i, err) ELSE c
    BY <1>2 DEF Release
  <2> HIDE DEF u
  <2>3. /\ c \in AttemptState
        /\ c.head = u.head /\ c.tail = u.tail /\ c.passed = u.passed /\ c.latest = u.latest
        /\ c.held = u.held \ {key}
        /\ c.target = [u.target EXCEPT ![key] = None]
    BY <1>2, <2>1 DEF LetGo, Sound, AttemptState
  <2>4. \A k \in Keys : c.target[k] = IF k = key THEN None ELSE u.target[k]
    BY <2>1, <2>3 DEF Sound, AttemptState
  <2>5. TargetsOwned(c)
    BY <2>1, <2>3, <2>4 DEF Sound, TargetsOwned
  <2>6. PassedJudged(c) /\ HalvesInOrder(c) /\ Timely(c)
    BY <2>1, <2>3 DEF Sound, PassedJudged, HalvesInOrder, Timely
  \* The only open hold of the lane is the one its key is attached to.
  <2>7. \A h \in Hits : IsHold(h) /\ u.head[h].done /\ ~u.tail[h].done /\ h # i =>
          Chart[h].key \in c.held /\ c.target[Chart[h].key] = h
    <3> SUFFICES ASSUME NEW h \in Hits, IsHold(h), u.head[h].done, ~u.tail[h].done, h # i
                 PROVE  Chart[h].key \in c.held /\ c.target[Chart[h].key] = h
      OBVIOUS
    <3>1. Chart[h].key \in u.held /\ u.target[Chart[h].key] = h
      BY <2>1 DEF Sound, HoldsAttached
    <3>2. Chart[h].key \in Keys
      BY ChartAssumption DEF Hit
    <3>3. QED
      BY <2>3, <2>4, <3>1, <3>2
  <2>8. CASE ~(i # None /\ IsHold(i))
    <3>1. b = c
      BY <2>2, <2>8
    <3>2. \A h \in Hits : IsHold(h) => h # i
      BY <2>8, NoneAssumption DEF Hits
    <3>3. HoldsAttached(c)
      BY <2>3, <2>7, <3>2 DEF HoldsAttached
    <3>4. Sound(c)
      BY <2>3, <2>5, <2>6, <3>3 DEF Sound
    <3>5. QED
      BY <2>1, <2>3, <3>1, <3>4 DEF Final, NothingPlayed, b
  <2>9. CASE i # None /\ IsHold(i)
    <3>1. i \in Hits
      BY <1>2, <2>1, <2>9 DEF Sound, AttemptState
    <3>2. Chart[i].key = key /\ u.head[i].done
      BY <1>2, <2>1, <2>9, <3>1 DEF Sound, TargetsOwned, HalvesInOrder
    <3>3. b = ScoreTail(c, i, err)
      BY <2>2, <2>9
    <3> HIDE DEF c, i, b
    <3>4. err \in Int
      BY <3>1, ChartAssumption DEF Hit
    <3> HIDE DEF err
    <3>5. /\ b \in AttemptState
          /\ b.tail = IF c.tail[i].done THEN c.tail
                      ELSE [c.tail EXCEPT ![i] = Played(err, TRUE)]
          /\ b.head = c.head /\ b.passed = c.passed /\ b.held = c.held
          /\ b.target = c.target /\ b.latest = c.latest
      <4> DEFINE e == ScoreTail(c, i, err)
      <4>1. /\ e \in AttemptState
            /\ e.tail = IF c.tail[i].done THEN c.tail
                        ELSE [c.tail EXCEPT ![i] = Played(err, TRUE)]
            /\ e.head = c.head /\ e.passed = c.passed /\ e.held = c.held
            /\ e.target = c.target /\ e.latest = c.latest
        BY <2>3, <3>1, <3>4, ScoreTailResult
      <4>2. QED
        BY <3>3, <4>1
    <3>6. /\ b.tail[i].done
          /\ \A h \in Hits : h # i => b.tail[h] = u.tail[h]
          /\ \A h \in Hits : u.tail[h].done => b.tail[h].done /\ b.tail[h] = u.tail[h]
      <4>1. u.tail \in [Hits -> Judgement]
        BY <2>1 DEF Sound, AttemptState
      <4>2. Played(err, TRUE).done
        BY <3>4, PlayedType
      <4>3. QED
        BY <2>3, <3>1, <3>5, <4>1, <4>2
    <3>7. HalvesInOrder(b)
      BY <2>1, <2>3, <2>9, <3>2, <3>5, <3>6 DEF Sound, HalvesInOrder
    <3>8. HoldsAttached(b)
      BY <2>3, <2>7, <3>5, <3>6 DEF HoldsAttached
    <3>9. PassedJudged(b) /\ TargetsOwned(b)
      BY <2>5, <2>6, <3>5 DEF PassedJudged, TargetsOwned
    <3>10. Timely(b)
      BY <2>1, <2>3, <3>5, <3>6 DEF Sound, Timely
    <3>11. Final(a, b) /\ \A h \in Hits : ~a.head[h].done => ~b.head[h].played
      BY <2>1, <2>3, <3>5, <3>6 DEF Final, NothingPlayed
    <3>12. \A h \in Hits : ~a.tail[h].done /\ b.tail[h].played => h = i
      BY <2>1, <3>6 DEF NothingPlayed
    <3>13. key \in a.held \ b.held
      BY <1>2, <2>3, <3>5
    <3>14. QED
      BY <3>2, <3>5, <3>7, <3>8, <3>9, <3>10, <3>11, <3>12, <3>13 DEF Sound, b
  <2>10. QED
    BY <2>8, <2>9
<1>3. QED
  BY <1>1, <1>2

-----------------------------------------------------------------------------
(* Which note a press plays *)

Scored(j, time) == ScoreFor(Abs(time - Chart[j].time), HitAccuracy, FALSE)

\* The score of a note is NONE exactly outside the BAD window.
LEMMA ScoredDef ==
  ASSUME NEW j \in Hits, NEW time \in Int
  PROVE  /\ Scored(j, time) \in TimedHitScores \union {"NONE"}
         /\ Scored(j, time) = "NONE" <=> Abs(time - Chart[j].time) > BadWindow
         /\ Scored(j, time) = "NONE" <=> \/ time - Chart[j].time > BadWindow
                                         \/ Chart[j].time - time > BadWindow
<1>1. Chart[j].time \in Int /\ HitAccuracy \in Nat /\ BadWindow \in Nat
  BY ChartAssumption, PastDef DEF Hit
<1>2. Abs(time - Chart[j].time) \in Int
  BY <1>1 DEF Abs
<1>3. /\ Scored(j, time) \in TimedHitScores \union {"NONE"}
      /\ Scored(j, time) = "NONE" <=> Abs(time - Chart[j].time) > BadWindow
  BY <1>1, <1>2, ScoreForDef DEF Scored, BadWindow
<1>4. QED
  BY <1>1, <1>3 DEF Abs

\* After an update at `time' the attempt has heard of `time' or a later one.
LEMMA UpdateHears ==
  ASSUME NEW a, Sound(a), NEW time \in Int
  PROVE  Update(a, time).latest \in Int /\ time <= Update(a, time).latest
<1>1. a \in AttemptState /\ a.latest \in Int \union {None}
  BY DEF Sound, AttemptState
<1>2. Update(a, time).latest = LatestAt(a, time)
  BY <1>1, UpdateResult
<1>3. QED
  BY <1>1, <1>2 DEF LatestAt, MaxOf

\* The scan of press sees every open note of the lane within the BAD window:
\* neither of its breaks hides one.
LEMMA CandidatesAre ==
  ASSUME NEW u, Sound(u), NEW time \in Int, u.latest \in Int, time <= u.latest,
         NEW key \in Keys, NEW i \in Hits
  PROVE  i \in Candidates(u, key, time) <=>
           Chart[i].key = key /\ ~u.head[i].done /\ Scored(i, time) # "NONE"
<1> DEFINE onLane == {j \in u.passed .. NumHits - 1 :
                        /\ Chart[j].time - time <= Reach
                        /\ Chart[j].key = key
                        /\ ~u.head[j].done}
<1>1. u.passed \in Nat /\ NumHits \in Nat /\ u.latest # None
  BY ChartAssumption, NoneAssumption DEF Sound, AttemptState
<1>2. \A j \in Hits : Chart[j].time \in Int /\ BadWindow \in Nat
  BY ChartAssumption, PastDef DEF Hit
<1>3. \A j \in Hits : ~u.head[j].done => u.passed <= j /\ time - Chart[j].time <= BadWindow
  <2> TAKE j \in Hits
  <2>1. ~u.head[j].done => ~(j < u.passed) /\ u.latest <= Chart[j].time + BadWindow
    BY <1>1 DEF Sound, PassedJudged, Timely
  <2>2. j \in Int
    BY DEF Hits
  <2>3. QED
    BY <1>1, <1>2, <2>1, <2>2
<1>4. \A j \in Hits : j \in onLane <=>
        Chart[j].key = key /\ ~u.head[j].done /\ Scored(j, time) # "NONE"
  BY <1>1, <1>2, <1>3, ScoredDef DEF Reach, Hits
<1>5. onLane \subseteq Hits
  BY <1>1 DEF Hits
<1>6. Candidates(u, key, time) =
        {j \in onLane : \A h \in onLane : h <= j => Scored(h, time) # "NONE"}
  BY DEF Candidates, Scored
<1> HIDE DEF onLane
<1>7. QED
  BY <1>4, <1>5, <1>6

\* Of the candidates a press chooses the first that is better than BAD, and
\* only if there is none the first.
LEMMA ChosenIs ==
  ASSUME NEW C, C \subseteq Hits, C # {}, NEW time \in Int
  PROVE  LET i == ChosenHit(C, time)
         IN  /\ i \in C
             /\ \A j \in C : j < i => Scored(j, time) = "BAD" /\ Scored(i, time) # "BAD"
             /\ Scored(i, time) = "BAD" => \A j \in C : Scored(j, time) = "BAD"
<1> DEFINE better == {j \in C : Scored(j, time) # "BAD"}
           i == ChosenHit(C, time)
<1>1. C \subseteq Nat /\ better \subseteq Nat
  <2>1. Hits \subseteq Nat
    BY ChartAssumption DEF Hits
  <2>2. better \subseteq C
    OBVIOUS
  <2>3. QED
    BY <2>1, <2>2
<1>2. i = IF better # {} THEN Min(better) ELSE Min(C)
  BY DEF ChosenHit, Scored
<1> HIDE DEF i
<1>3. CASE better # {}
  <2>1. i \in better /\ \A j \in better : i <= j
    <3> HIDE DEF better
    <3> QED
      BY <1>1, <1>2, <1>3, MinOfNats
  <2>2. \A j \in C : j < i => j \notin better
    BY <1>1, <2>1
  <2>3. QED
    BY <2>1, <2>2 DEF i
<1>4. CASE better = {}
  <2>1. i \in C /\ \A j \in C : i <= j
    BY <1>1, <1>2, <1>4, MinOfNats
  <2>2. \A j \in C : ~(j < i)
    BY <1>1, <2>1
  <2>3. QED
    BY <1>4, <2>1, <2>2 DEF i
<1>5. QED
  BY <1>3, <1>4

-----------------------------------------------------------------------------
(* What a press does to the heads *)

\* What a press at `time' turns a into: u is a brought up to date, C are the
\* candidates, i the chosen one and b the result.
PressOutcome(a, key, time, u, C, i, b) ==
  /\ Sound(u) /\ NothingPlayed(a, u) /\ u.latest \in Int /\ time <= u.latest
  /\ C \subseteq Hits
  /\ C = {} => b.head = u.head
  /\ C # {} => /\ i \in C
               /\ b.head = [u.head EXCEPT ![i] = Played(time - Chart[i].time, FALSE)]
               /\ b.target[key] = i
  /\ b.tail = u.tail /\ b.latest = u.latest

\* A press of a key that is up plays the chosen candidate, if there is one.
LEMMA PressResult ==
  ASSUME NEW a, Sound(a), NEW key \in Keys, key \notin a.held, NEW time \in Int
  PROVE  LET u == Update(a, time)
             C == Candidates(u, key, time)
         IN  PressOutcome(a, key, time, u, C, ChosenHit(C, time), Press(a, key, time))
<1> DEFINE u == Update(a, time)
           C == Candidates(u, key, time)
           c == [u EXCEPT !.held = @ \union {key}, !.target[key] = None]
           i == ChosenHit(C, time)
           err == time - Chart[i].time
           d == [c EXCEPT !.target[key] = i]
           b == Press(a, key, time)
<1>1. /\ Sound(u) /\ NothingPlayed(a, u) /\ u.held = a.held
      /\ u.latest \in Int /\ time <= u.latest
  BY UpdateSound, UpdateHears
<1>2. b = IF C = {} THEN c ELSE ScoreHead(d, i, err)
  BY DEF Press, Presses
<1> HIDE DEF u
<1>3. C \subseteq Hits
  <2>1. u.passed \in Nat /\ NumHits \in Nat
    BY <1>1, ChartAssumption DEF Sound, AttemptState
  <2>2. \A j \in C : j \in u.passed .. NumHits - 1
    BY DEF Candidates
  <2>3. QED
    BY <2>1, <2>2 DEF Hits
<1>4. /\ c \in AttemptState
      /\ c.head = u.head /\ c.tail = u.tail /\ c.latest = u.latest
      /\ c.target = [u.target EXCEPT ![key] = None]
  BY <1>1 DEF Sound, AttemptState
<1>5. CASE C = {}
  BY <1>1, <1>2, <1>3, <1>4, <1>5 DEF PressOutcome, u
<1>6. CASE C # {}
  <2>1. i \in C /\ i \in Hits
    BY <1>3, <1>6, ChosenIs
  <2>2. ~u.head[i].done
    BY <1>1, <2>1, CandidatesAre
  <2> HIDE DEF C, c, i, b
  <2>3. /\ d \in AttemptState
        /\ d.head = u.head /\ d.tail = u.tail /\ d.latest = u.latest
        /\ d.target[key] = i
    BY <1>1, <1>4, <2>1 DEF AttemptState, Sound
  <2>4. err \in Int
    BY <2>1, ChartAssumption DEF Hit
  <2> HIDE DEF d, err
  <2>5. b = ScoreHead(d, i, err)
    BY <1>2, <1>6
  <2>6. /\ b.head = [u.head EXCEPT ![i] = Played(err, FALSE)]
        /\ b.tail = u.tail /\ b.latest = u.latest /\ b.target[key] = i
    <3> DEFINE e == ScoreHead(d, i, err)
    <3>1. /\ e.head = IF d.head[i].done THEN d.head ELSE [d.head EXCEPT ![i] = Played(err, FALSE)]
          /\ e.tail = d.tail /\ e.target = d.target /\ e.latest = d.latest
      BY <2>1, <2>3, <2>4, ScoreHeadResult
    <3>2. QED
      BY <2>2, <2>3, <2>5, <3>1
  <2>7. QED
    <3>1. PressOutcome(a, key, time, u, C, i, b)
      BY <1>1, <1>3, <1>6, <2>1, <2>6 DEF PressOutcome, err
    <3>2. QED
      BY <3>1 DEF u, C, i, b
<1>7. QED
  BY <1>5, <1>6
-----------------------------------------------------------------------------
(* The counters: whatever a call judges, and however many notes at once, is   *)
(* counted by the tally of score_hit and by nothing else.                     *)

\* The halves (heads or tails) judged with score s, and the played ones.
JudgedAs(halves, s) == {i \in Hits : halves[i].done /\ halves[i].score = s}
PlayedOf(halves) == {i \in Hits : halves[i].played}

Errors(halves) == [i \in Hits |-> halves[i].err]
Points(counts) == [s \in JudgedScores |-> counts[s] * HitScoreAcc[s]]

\* How many halves of a are judged with score s.
JudgedCount(a, s) == Cardinality(JudgedAs(a.head, s)) + Cardinality(JudgedAs(a.tail, s))

\* The totals are the sums of what they total.
TotalsOk(a) ==
  /\ a.nScored = SumOver(a.counts, JudgedScores)
  /\ a.totalScore = SumOver(Points(a.counts), JudgedScores)

\* The timing counters are those of the played heads.
TimingOk(a) ==
  /\ \A i \in Hits : a.head[i].played => a.head[i].done
  /\ a.nTimed = Cardinality(PlayedOf(a.head))
  /\ a.totalErr = SumOver(Errors(a.head), PlayedOf(a.head))

\* TallyAgrees, of an attempt whose counts still lack n judgements of one score.
Behind(a, score, n) ==
  /\ \A s \in JudgedScores : JudgedCount(a, s) = a.counts[s] + (IF s = score THEN n ELSE 0)
  /\ TotalsOk(a)
  /\ TimingOk(a)

TallyOk(a) == Behind(a, "MISS", 0)

\* The open halves H are judged with one score, and no other half is touched.
JudgesTo(halves, judged, H, score) ==
  /\ \A i \in H : ~halves[i].done /\ judged[i].done /\ judged[i].score = score
  /\ \A i \in Hits \ H : judged[i] = halves[i]

\* Judging the halves H with one score adds them to those judged so.
LEMMA JudgeHalves ==
  ASSUME NEW halves, NEW judged, NEW H \in SUBSET Hits, NEW score,
         JudgesTo(halves, judged, H, score), NEW s
  PROVE  Cardinality(JudgedAs(judged, s)) =
           Cardinality(JudgedAs(halves, s)) + (IF s = score THEN Cardinality(H) ELSE 0)
<1> DEFINE A == JudgedAs(halves, s)
           B == JudgedAs(judged, s)
<1>1. /\ IsFiniteSet(A) /\ Cardinality(A) \in Nat
      /\ IsFiniteSet(H) /\ Cardinality(H) \in Nat
  BY HitsFinite DEF JudgedAs
<1>2. A \cap H = {}
  BY DEF JudgedAs, JudgesTo
<1>3. CASE s = score
  <2>1. B = A \cup H
    BY <1>3 DEF JudgedAs, JudgesTo
  <2> HIDE DEF A, B
  <2>2. Cardinality(A \cup H) = Cardinality(A) + Cardinality(H)
    <3>1. Cardinality(A \cup H) = Cardinality(A) + Cardinality(H) - Cardinality(A \cap H)
      BY <1>1, FS_Union
    <3>2. Cardinality(A \cap H) = 0
      BY <1>2, FS_EmptySet
    <3>3. QED
      BY <1>1, <3>1, <3>2
  <2>3. QED
    BY <1>3, <2>1, <2>2 DEF A, B
<1>4. CASE s # score
  <2>1. B = A
    BY <1>4 DEF JudgedAs, JudgesTo
  <2>2. QED
    BY <1>1, <1>4, <2>1
<1>5. QED
  BY <1>3, <1>4

\* There are finitely many scores.
LEMMA ScoresFinite == IsFiniteSet(JudgedScores)
<1>1. JudgedScores = {"PERFECT"} \cup {"AMAZING"} \cup {"GREAT"} \cup {"GOOD"}
                       \cup {"BAD"} \cup {"MISS"}
  BY DEF JudgedScores
<1>2. QED
  BY <1>1, FS_Singleton, FS_Union

\* Points are numbers, and none without a count.
LEMMA PointsType ==
  ASSUME NEW counts \in [JudgedScores -> Nat]
  PROVE  \A s \in JudgedScores : /\ Points(counts)[s] \in Int
                                 /\ counts[s] = 0 => Points(counts)[s] = 0
<1>1. \A s \in JudgedScores : counts[s] \in Nat /\ HitScoreAcc[s] \in Nat
  BY DEF HitScoreAcc, JudgedScores
<1>2. \A m, k \in Nat : m * k \in Int /\ 0 * k = 0
  OBVIOUS
<1>3. QED
  BY <1>1, <1>2 DEF Points

\* One count more is as many judgements more and their points.
LEMMA TotalsAdd ==
  ASSUME NEW counts \in [JudgedScores -> Nat], NEW score \in JudgedScores, NEW n \in Nat
  PROVE  LET more == [counts EXCEPT ![score] = @ + n]
         IN  /\ SumOver(more, JudgedScores) = SumOver(counts, JudgedScores) + n
             /\ SumOver(Points(more), JudgedScores) =
                  SumOver(Points(counts), JudgedScores) + n * HitScoreAcc[score]
<1> DEFINE more == [counts EXCEPT ![score] = @ + n]
<1>1. IsFiniteSet(JudgedScores)
  BY ScoresFinite
<1>2. \A s \in JudgedScores : HitScoreAcc[s] \in Nat
  BY DEF HitScoreAcc, JudgedScores
<1>3. \A s \in JudgedScores : counts[s] \in Nat /\ counts[s] \in Int
  OBVIOUS
<1>4. /\ more[score] = counts[score] + n
      /\ \A s \in JudgedScores \ {score} : more[s] = counts[s]
  OBVIOUS
<1>5. n * HitScoreAcc[score] \in Int /\ n \in Int
  BY <1>2
<1>6. \A s \in JudgedScores : Points(counts)[s] \in Int
  BY PointsType
<1>7. /\ Points(more)[score] = Points(counts)[score] + n * HitScoreAcc[score]
      /\ \A s \in JudgedScores \ {score} : Points(more)[s] = Points(counts)[s]
  BY <1>2, <1>3, <1>4 DEF Points
<1> HIDE DEF more
<1>8. SumOver(more, JudgedScores) = SumOver(counts, JudgedScores) + n
  BY <1>1, <1>3, <1>4, <1>5, SumChange
<1>9. SumOver(Points(more), JudgedScores) =
        SumOver(Points(counts), JudgedScores) + n * HitScoreAcc[score]
  BY <1>1, <1>5, <1>6, <1>7, SumChange
<1>10. QED
  BY <1>8, <1>9 DEF more

\* The tally makes up for the judgements the counts lacked.
LEMMA TallyCatchesUp ==
  ASSUME NEW a \in AttemptState, NEW score \in JudgedScores, NEW n \in Nat,
         NEW last \in Hits, Behind(a, score, n)
  PROVE  TallyOk(Tally(a, score, n, last))
<1> DEFINE b == Tally(a, score, n, last)
           more == [a.counts EXCEPT ![score] = @ + n]
<1>1. CASE n = 0
  BY <1>1 DEF Tally, TallyOk, Behind
<1>2. CASE n # 0
  <2>1. /\ b.counts = more /\ b.nScored = a.nScored + n
        /\ b.totalScore = a.totalScore + n * HitScoreAcc[score]
        /\ b.head = a.head /\ b.tail = a.tail
        /\ b.totalErr = a.totalErr /\ b.nTimed = a.nTimed
    BY <1>2 DEF Tally, AttemptState
  <2>2. a.counts \in [JudgedScores -> Nat]
    BY DEF AttemptState
  <2>3. /\ SumOver(more, JudgedScores) = SumOver(a.counts, JudgedScores) + n
        /\ SumOver(Points(more), JudgedScores) =
             SumOver(Points(a.counts), JudgedScores) + n * HitScoreAcc[score]
    BY <2>2, TotalsAdd
  <2>4. \A s \in JudgedScores : more[s] = a.counts[s] + (IF s = score THEN n ELSE 0)
    BY <2>2
  <2> HIDE DEF b, more
  <2>5. TotalsOk(b)
    BY <2>1, <2>3 DEF TotalsOk, Behind
  <2>6. TimingOk(b)
    BY <2>1 DEF TimingOk, Behind
  <2>7. \A s \in JudgedScores : JudgedCount(b, s) = b.counts[s] + (IF s = "MISS" THEN 0 ELSE 0)
    <3> TAKE s \in JudgedScores
    <3>1. JudgedCount(b, s) = JudgedCount(a, s)
      BY <2>1 DEF JudgedCount
    <3>2. JudgedCount(a, s) = b.counts[s]
      BY <2>1, <2>4 DEF Behind
    <3>3. b.counts[s] \in Nat
      BY <2>1, <2>2, <2>4
    <3>4. QED
      BY <3>1, <3>2, <3>3
  <2>8. QED
    BY <2>5, <2>6, <2>7 DEF TallyOk, Behind, b
<1>3. QED
  BY <1>1, <1>2

\* Heads missed and tails judged in any way leave the timing counters alone.
LEMMA MissesTimeNothing ==
  ASSUME NEW a \in AttemptState, TimingOk(a), NEW b,
         b.nTimed = a.nTimed, b.totalErr = a.totalErr,
         NEW H \in SUBSET Hits, \A i \in H : ~a.head[i].done /\ ~b.head[i].played,
         \A i \in Hits \ H : b.head[i] = a.head[i]
  PROVE  TimingOk(b)
<1> DEFINE P == PlayedOf(a.head)
<1>1. \A i \in Hits : b.head[i].played => b.head[i].done
  BY DEF TimingOk
<1>2. PlayedOf(b.head) = P
  BY DEF TimingOk, PlayedOf
<1>3. IsFiniteSet(P) /\ P \subseteq Hits /\ P \cap H = {}
  BY HitsFinite DEF PlayedOf, TimingOk
<1>4. \A i \in P : Errors(a.head)[i] \in Int /\ Errors(b.head)[i] = Errors(a.head)[i]
  BY <1>3 DEF Errors, AttemptState, Judgement
<1> HIDE DEF P
<1>5. SumOver(Errors(b.head), P) = SumOver(Errors(a.head), P)
  BY <1>3, <1>4, SumSame
<1>6. QED
  BY <1>1, <1>2, <1>5 DEF TimingOk, P

\* A head played at error err is one timed hit more.
LEMMA PlayingTimes ==
  ASSUME NEW a \in AttemptState, TimingOk(a), NEW i \in Hits, NEW err \in Int, NEW b,
         ~a.head[i].done, b.head = [a.head EXCEPT ![i] = Played(err, FALSE)],
         b.nTimed = a.nTimed + 1, b.totalErr = a.totalErr + err
  PROVE  TimingOk(b)
<1> DEFINE P == PlayedOf(a.head)
           Q == PlayedOf(b.head)
<1>1. /\ b.head[i].played /\ b.head[i].done /\ b.head[i].err = err
      /\ \A j \in Hits \ {i} : b.head[j] = a.head[j]
  BY DEF Played, AttemptState
<1>2. \A j \in Hits : b.head[j].played => b.head[j].done
  BY <1>1 DEF TimingOk
<1>3. i \notin P /\ Q = P \cup {i} /\ P \subseteq Hits /\ IsFiniteSet(P)
      /\ Cardinality(P) \in Nat
  BY <1>1, HitsFinite DEF PlayedOf, TimingOk
<1>4. /\ \A j \in P : /\ Errors(a.head)[j] \in Int /\ Errors(b.head)[j] \in Int
                     /\ Errors(b.head)[j] = Errors(a.head)[j]
      /\ Errors(b.head)[i] = err
  BY <1>1, <1>3 DEF Errors, AttemptState, Judgement
<1> HIDE DEF P, Q
<1>5. Cardinality(Q) = Cardinality(P) + 1
  BY <1>3, FS_AddElement
<1>6. SumOver(Errors(b.head), P) = SumOver(Errors(a.head), P)
  BY <1>3, <1>4, SumSame
<1>7. SumOver(Errors(b.head), P \cup {i}) = SumOver(Errors(b.head), P) + err
  <2>1. Errors(b.head)[i] \in Int /\ \A j \in P : Errors(b.head)[j] \in Int
    BY <1>4
  <2>2. SumOver(Errors(b.head), P \cup {i}) =
          SumOver(Errors(b.head), P) + Errors(b.head)[i]
    <3> DEFINE e == Errors(b.head)
    <3> HIDE DEF e
    <3>1. (\A j \in P : e[j] \in Int) /\ e[i] \in Int
      BY <2>1 DEF e
    <3>2. i \notin P /\ IsFiniteSet(P)
      BY <1>3
    <3>3. SumOver(e, P \cup {i}) = SumOver(e, P) + e[i]
      BY <3>1, <3>2, SumAdd
    <3>4. QED
      BY <3>3 DEF e
  <2>3. QED
    BY <1>4, <2>2
<1>8. QED
  BY <1>2, <1>3, <1>5, <1>6, <1>7 DEF TimingOk, P, Q

-----------------------------------------------------------------------------
(* The combo *)

\* ComboRule, of an attempt that has its type.
ComboOk(a) ==
  /\ a \in AttemptState
  /\ a.combo <= a.maxCombo
  /\ a.maxCombo <= a.nScored - a.counts["MISS"]
  /\ a.counts["MISS"] = 0 => a.combo = a.nScored

\* The four counters the rule speaks of are those of a.
SameCombo(a, b) ==
  /\ b.combo = a.combo /\ b.maxCombo = a.maxCombo
  /\ b.nScored = a.nScored /\ b.counts = a.counts

\* n judgements of one score keep the rule: either none is a MISS and the combo
\* grows by n, or all are, and the combo and the counts start apart.
LEMMA TallyCombo ==
  ASSUME NEW a, ComboOk(a), NEW score \in JudgedScores, NEW n \in Nat, NEW last \in Hits
  PROVE  ComboOk(Tally(a, score, n, last))
<1> DEFINE b == Tally(a, score, n, last)
           combo == NextCombo(a.combo, score, n)
<1>1. b \in AttemptState
  BY TallyResult DEF ComboOk
<1>2. /\ a.combo \in Nat /\ a.maxCombo \in Nat /\ a.nScored \in Nat
      /\ a.counts \in [JudgedScores -> Nat] /\ "MISS" \in JudgedScores
      /\ a.counts["MISS"] \in Nat
  BY DEF ComboOk, AttemptState, JudgedScores
<1>3. CASE n = 0
  BY <1>3 DEF Tally
<1>4. CASE n # 0
  <2>1. /\ b.counts = [a.counts EXCEPT ![score] = @ + n]
        /\ b.combo = combo /\ b.maxCombo = MaxOf(a.maxCombo, combo)
        /\ b.nScored = a.nScored + n
    BY <1>4 DEF Tally, ComboOk, AttemptState
  <2> HIDE DEF b
  <2>2. CASE score = "MISS"
    <3>1. b.combo = 0 /\ b.maxCombo = a.maxCombo
      BY <1>2, <2>1, <2>2 DEF NextCombo, MaxOf
    <3>2. b.counts["MISS"] = a.counts["MISS"] + n
      BY <1>2, <2>1, <2>2
    <3>3. QED
      BY <1>1, <1>2, <1>4, <2>1, <3>1, <3>2 DEF ComboOk, b
  <2>3. CASE score # "MISS"
    <3>1. b.combo = a.combo + n
      BY <2>1, <2>3 DEF NextCombo
    <3>2. b.counts["MISS"] = a.counts["MISS"]
      BY <1>2, <2>1, <2>3
    <3>3. b.combo <= b.maxCombo /\ b.maxCombo <= a.maxCombo + n
      BY <1>2, <2>1, <3>1 DEF MaxOf, ComboOk
    <3>4. b.maxCombo \in Nat
      BY <1>1 DEF AttemptState
    <3>5. b.maxCombo <= b.nScored - b.counts["MISS"]
      BY <1>2, <2>1, <3>2, <3>3, <3>4 DEF ComboOk
    <3>6. b.counts["MISS"] = 0 => b.combo = b.nScored
      BY <2>1, <3>1, <3>2 DEF ComboOk
    <3>7. QED
      BY <1>1, <3>3, <3>5, <3>6 DEF ComboOk, b
  <2>4. QED
    BY <2>2, <2>3
<1>5. QED
  BY <1>3, <1>4

\* An attempt of its type with the counters of another keeps its rule.
LEMMA ComboKept ==
  ASSUME NEW a, ComboOk(a), NEW b \in AttemptState, SameCombo(a, b)
  PROVE  ComboOk(b)
BY DEF ComboOk, SameCombo

-----------------------------------------------------------------------------
(* The counters through score_hit *)

Counted(a) == ComboOk(a) /\ TallyOk(a)

\* Every counter, and every judgement counted, of b is that of a.
SameCounters(a, b) ==
  /\ SameCombo(a, b)
  /\ b.head = a.head /\ b.tail = a.tail /\ b.totalScore = a.totalScore
  /\ b.nTimed = a.nTimed /\ b.totalErr = a.totalErr

\* An attempt of its type with the judgements and counters of another is counted.
LEMMA CountedKept ==
  ASSUME NEW a, Counted(a), NEW b \in AttemptState, SameCounters(a, b)
  PROVE  Counted(b)
<1>1. ComboOk(b)
  BY ComboKept DEF Counted, SameCounters
<1>2. \A s : JudgedCount(b, s) = JudgedCount(a, s)
  BY DEF SameCounters, JudgedCount
<1>3. TotalsOk(b) /\ TimingOk(b)
  BY DEF Counted, TallyOk, Behind, TotalsOk, TimingOk, SameCounters, SameCombo
<1>4. TallyOk(b)
  BY <1>2, <1>3 DEF Counted, TallyOk, Behind, SameCounters, SameCombo
<1>5. QED
  BY <1>1, <1>4 DEF Counted

\* The halves missed in one call are counted, each once.
LEMMA ScoreMissesCounted ==
  ASSUME NEW a, Counted(a), NEW H \in SUBSET Hits, NEW T \in SUBSET Hits,
         NEW tailErr \in [Hits -> Int], NEW last \in Hits,
         \A i \in H : ~a.head[i].done, \A i \in T : ~a.tail[i].done
  PROVE  Counted(ScoreMisses(a, H, T, tailErr, last))
<1> DEFINE head == [i \in Hits |-> IF i \in H THEN Missed(0) ELSE a.head[i]]
           tail == [i \in Hits |-> IF i \in T THEN Missed(tailErr[i]) ELSE a.tail[i]]
           c == [a EXCEPT !.head = head, !.tail = tail]
           n == MissCount(H, T)
<1>1. a \in AttemptState /\ ComboOk(a) /\ TotalsOk(a) /\ TimingOk(a)
  BY DEF Counted, ComboOk, TallyOk, Behind
<1>2. head \in [Hits -> Judgement] /\ tail \in [Hits -> Judgement]
  BY <1>1, MissedType DEF AttemptState
<1>3. ScoreMisses(a, H, T, tailErr, last) = Tally(c, "MISS", n, last)
  BY DEF ScoreMisses
<1>4. /\ Cardinality(H) \in Nat /\ Cardinality(T) \in Nat
      /\ n = Cardinality(H) + Cardinality(T) /\ "MISS" \in JudgedScores
  BY HitsFinite DEF MissCount, JudgedScores
<1>5. /\ \A i \in H : ~head[i].played
      /\ \A i \in Hits \ H : head[i] = a.head[i]
      /\ JudgesTo(a.head, head, H, "MISS")
      /\ JudgesTo(a.tail, tail, T, "MISS")
  BY DEF Missed, JudgesTo
<1> HIDE DEF head, tail, n
<1>6. /\ c \in AttemptState /\ SameCombo(a, c)
      /\ c.head = head /\ c.tail = tail /\ c.totalScore = a.totalScore
      /\ c.nTimed = a.nTimed /\ c.totalErr = a.totalErr
  BY <1>1, <1>2 DEF AttemptState, SameCombo
<1> HIDE DEF c
<1>7. ComboOk(c)
  BY <1>1, <1>6, ComboKept
<1>8. TotalsOk(c)
  BY <1>1, <1>6 DEF TotalsOk, SameCombo
<1>9. TimingOk(c)
  BY <1>1, <1>5, <1>6, MissesTimeNothing
<1>10. \A s \in JudgedScores : JudgedCount(c, s) = c.counts[s] + (IF s = "MISS" THEN n ELSE 0)
  <2> TAKE s \in JudgedScores
  <2>1. Cardinality(JudgedAs(head, s)) = Cardinality(JudgedAs(a.head, s))
                                         + (IF s = "MISS" THEN Cardinality(H) ELSE 0)
    <3> DEFINE old == a.head
    <3>1. JudgesTo(old, head, H, "MISS")
      BY <1>5
    <3> HIDE DEF old
    <3>2. Cardinality(JudgedAs(head, s)) = Cardinality(JudgedAs(old, s))
                                           + (IF s = "MISS" THEN Cardinality(H) ELSE 0)
      BY <3>1, JudgeHalves
    <3>3. QED
      BY <3>2 DEF old
  <2>2. Cardinality(JudgedAs(tail, s)) = Cardinality(JudgedAs(a.tail, s))
                                         + (IF s = "MISS" THEN Cardinality(T) ELSE 0)
    BY <1>5, JudgeHalves
  <2>3. /\ Cardinality(JudgedAs(a.head, s)) \in Nat
        /\ Cardinality(JudgedAs(a.tail, s)) \in Nat
    BY HitsFinite DEF JudgedAs
  <2>4. JudgedCount(a, s) = a.counts[s] /\ a.counts[s] \in Nat
    <3>1. a.counts[s] \in Nat
      BY <1>1 DEF AttemptState
    <3>2. JudgedCount(a, s) = a.counts[s] + (IF s = "MISS" THEN 0 ELSE 0)
      BY DEF Counted, TallyOk, Behind
    <3>3. QED
      BY <3>1, <3>2
  <2>5. JudgedCount(c, s) = Cardinality(JudgedAs(head, s)) + Cardinality(JudgedAs(tail, s))
    BY <1>6 DEF JudgedCount
  <2>6. QED
    BY <1>4, <1>6, <2>1, <2>2, <2>3, <2>4, <2>5 DEF JudgedCount, SameCombo
<1>11. Counted(Tally(c, "MISS", n, last))
  <2>1. Behind(c, "MISS", n) /\ n \in Nat
    BY <1>4, <1>8, <1>9, <1>10 DEF Behind
  <2>2. TallyOk(Tally(c, "MISS", n, last))
    BY <1>4, <1>6, <2>1, TallyCatchesUp
  <2>3. ComboOk(Tally(c, "MISS", n, last))
    BY <1>4, <1>7, <2>1, TallyCombo
  <2>4. QED
    BY <2>2, <2>3 DEF Counted
<1>12. QED
  BY <1>3, <1>11

\* One half judged is one judgement of its score more.
LEMMA JudgeOne ==
  ASSUME NEW halves \in [Hits -> Judgement], NEW i \in Hits, ~halves[i].done,
         NEW half, half.done, NEW judged, judged = [halves EXCEPT ![i] = half], NEW s
  PROVE  Cardinality(JudgedAs(judged, s)) =
           Cardinality(JudgedAs(halves, s)) + (IF s = half.score THEN 1 ELSE 0)
<1> DEFINE H == {i}
<1>1. H \in SUBSET Hits /\ Cardinality(H) = 1
  BY FS_Singleton
<1>2. JudgesTo(halves, judged, H, half.score)
  BY DEF JudgesTo
<1> HIDE DEF H
<1>3. Cardinality(JudgedAs(judged, s)) =
        Cardinality(JudgedAs(halves, s)) + (IF s = half.score THEN Cardinality(H) ELSE 0)
  BY <1>1, <1>2, JudgeHalves
<1>4. QED
  BY <1>1, <1>3

\* A head played is counted.
LEMMA ScoreHeadCounted ==
  ASSUME NEW a, Counted(a), NEW i \in Hits, NEW err \in Int
  PROVE  Counted(ScoreHead(a, i, err))
<1> DEFINE head == [a.head EXCEPT ![i] = Played(err, FALSE)]
           total == a.totalErr + err
           timed == a.nTimed + 1
           score == PlayedScore(err, FALSE)
           c == [a EXCEPT !.head = head, !.totalErr = total, !.nTimed = timed]
<1>1. a \in AttemptState /\ ComboOk(a) /\ TotalsOk(a) /\ TimingOk(a)
  BY DEF Counted, ComboOk, TallyOk, Behind
<1>2. total \in Int /\ timed \in Nat /\ a.head \in [Hits -> Judgement]
  BY <1>1 DEF AttemptState
<1>3. /\ Played(err, FALSE) \in Judgement /\ Played(err, FALSE).done
      /\ Played(err, FALSE).score = score
  BY PlayedType DEF Played
<1>4. head \in [Hits -> Judgement]
  BY <1>1, <1>3 DEF AttemptState
<1>5. ScoreHead(a, i, err) = IF a.head[i].done THEN a ELSE Tally(c, score, 1, i)
  BY DEF ScoreHead
<1>6. score \in JudgedScores
  BY PlayedScoreType
<1>7. CASE ~a.head[i].done
  <2>1. \A s : Cardinality(JudgedAs(head, s)) =
          Cardinality(JudgedAs(a.head, s)) + (IF s = score THEN 1 ELSE 0)
    <3> DEFINE half == Played(err, FALSE)
    <3>1. half.done /\ half.score = score /\ head = [a.head EXCEPT ![i] = half]
      BY <1>3
    <3> HIDE DEF half, head, score
    <3>2. TAKE s
    <3>3. Cardinality(JudgedAs(head, s)) =
            Cardinality(JudgedAs(a.head, s)) + (IF s = half.score THEN 1 ELSE 0)
      BY <1>2, <1>7, <3>1, JudgeOne
    <3>4. QED
      BY <3>1, <3>3
  <2>2. head = [a.head EXCEPT ![i] = Played(err, FALSE)] /\ total = a.totalErr + err
        /\ timed = a.nTimed + 1
    OBVIOUS
  <2> HIDE DEF head, total, timed, score
  <2>3. /\ c \in AttemptState /\ SameCombo(a, c)
        /\ c.head = head /\ c.tail = a.tail /\ c.totalScore = a.totalScore
        /\ c.nTimed = timed /\ c.totalErr = total
    BY <1>1, <1>2, <1>4 DEF AttemptState, SameCombo
  <2> HIDE DEF c
  <2>4. ComboOk(c)
    BY <1>1, <2>3, ComboKept
  <2>5. TotalsOk(c)
    BY <1>1, <2>3 DEF TotalsOk, SameCombo
  <2>6. TimingOk(c)
    BY <1>1, <1>7, <2>2, <2>3, PlayingTimes
  <2>7. Behind(c, score, 1)
    <3>1. ASSUME NEW s \in JudgedScores
          PROVE  JudgedCount(c, s) = c.counts[s] + (IF s = score THEN 1 ELSE 0)
      <4>1. /\ Cardinality(JudgedAs(a.head, s)) \in Nat
            /\ Cardinality(JudgedAs(a.tail, s)) \in Nat
        BY HitsFinite DEF JudgedAs
      <4>2. a.counts[s] \in Nat /\ c.counts = a.counts
        BY <1>1, <2>3 DEF AttemptState, SameCombo
      <4>3. JudgedCount(a, s) = a.counts[s] + (IF s = "MISS" THEN 0 ELSE 0)
        BY DEF Counted, TallyOk, Behind
      <4>4. JudgedCount(c, s) = Cardinality(JudgedAs(head, s)) + Cardinality(JudgedAs(a.tail, s))
        BY <2>3 DEF JudgedCount
      <4>5. Cardinality(JudgedAs(head, s)) =
              Cardinality(JudgedAs(a.head, s)) + (IF s = score THEN 1 ELSE 0)
        BY <2>1
      <4>6. QED
        BY <4>1, <4>2, <4>3, <4>4, <4>5 DEF JudgedCount
    <3>2. QED
      BY <2>5, <2>6, <3>1 DEF Behind
  <2>8. TallyOk(Tally(c, score, 1, i)) /\ ComboOk(Tally(c, score, 1, i))
    BY <1>6, <2>3, <2>4, <2>7, TallyCatchesUp, TallyCombo
  <2>9. QED
    BY <1>5, <1>7, <2>8 DEF Counted
<1>8. QED
  BY <1>5, <1>7

\* A tail played is counted, and timed by nothing.
LEMMA ScoreTailCounted ==
  ASSUME NEW a, Counted(a), NEW i \in Hits, NEW err \in Int
  PROVE  Counted(ScoreTail(a, i, err))
<1> DEFINE tail == [a.tail EXCEPT ![i] = Played(err, TRUE)]
           score == PlayedScore(err, TRUE)
           c == [a EXCEPT !.tail = tail]
<1>1. a \in AttemptState /\ ComboOk(a) /\ TotalsOk(a) /\ TimingOk(a)
  BY DEF Counted, ComboOk, TallyOk, Behind
<1>2. a.tail \in [Hits -> Judgement]
  BY <1>1 DEF AttemptState
<1>3. /\ Played(err, TRUE) \in Judgement /\ Played(err, TRUE).done
      /\ Played(err, TRUE).score = score
  BY PlayedType DEF Played
<1>4. tail \in [Hits -> Judgement]
  BY <1>1, <1>3 DEF AttemptState
<1>5. ScoreTail(a, i, err) = IF a.tail[i].done THEN a ELSE Tally(c, score, 1, i)
  BY DEF ScoreTail
<1>6. score \in JudgedScores
  BY PlayedScoreType
<1>7. CASE ~a.tail[i].done
  <2>1. \A s : Cardinality(JudgedAs(tail, s)) =
          Cardinality(JudgedAs(a.tail, s)) + (IF s = score THEN 1 ELSE 0)
    <3> DEFINE half == Played(err, TRUE)
    <3>1. half.done /\ half.score = score /\ tail = [a.tail EXCEPT ![i] = half]
      BY <1>3
    <3> HIDE DEF half, tail, score
    <3>2. TAKE s
    <3>3. Cardinality(JudgedAs(tail, s)) =
            Cardinality(JudgedAs(a.tail, s)) + (IF s = half.score THEN 1 ELSE 0)
      BY <1>2, <1>7, <3>1, JudgeOne
    <3>4. QED
      BY <3>1, <3>3
  <2> HIDE DEF tail, score
  <2>2. /\ c \in AttemptState /\ SameCombo(a, c)
        /\ c.head = a.head /\ c.tail = tail /\ c.totalScore = a.totalScore
        /\ c.nTimed = a.nTimed /\ c.totalErr = a.totalErr
    BY <1>1, <1>4 DEF AttemptState, SameCombo
  <2> HIDE DEF c
  <2>3. ComboOk(c)
    BY <1>1, <2>2, ComboKept
  <2>4. TotalsOk(c) /\ TimingOk(c)
    BY <1>1, <2>2 DEF TotalsOk, TimingOk, SameCombo
  <2>5. Behind(c, score, 1)
    <3>1. ASSUME NEW s \in JudgedScores
          PROVE  JudgedCount(c, s) = c.counts[s] + (IF s = score THEN 1 ELSE 0)
      <4>1. /\ Cardinality(JudgedAs(a.head, s)) \in Nat
            /\ Cardinality(JudgedAs(a.tail, s)) \in Nat
        BY HitsFinite DEF JudgedAs
      <4>2. a.counts[s] \in Nat /\ c.counts = a.counts
        BY <1>1, <2>2 DEF AttemptState, SameCombo
      <4>3. JudgedCount(a, s) = a.counts[s] + (IF s = "MISS" THEN 0 ELSE 0)
        BY DEF Counted, TallyOk, Behind
      <4>4. JudgedCount(c, s) = Cardinality(JudgedAs(a.head, s)) + Cardinality(JudgedAs(tail, s))
        BY <2>2 DEF JudgedCount
      <4>5. Cardinality(JudgedAs(tail, s)) =
              Cardinality(JudgedAs(a.tail, s)) + (IF s = score THEN 1 ELSE 0)
        BY <2>1
      <4>6. QED
        BY <4>1, <4>2, <4>3, <4>4, <4>5 DEF JudgedCount
    <3>2. QED
      BY <2>4, <3>1 DEF Behind
  <2>6. TallyOk(Tally(c, score, 1, i)) /\ ComboOk(Tally(c, score, 1, i))
    BY <1>6, <2>2, <2>3, <2>5, TallyCatchesUp, TallyCombo
  <2>7. QED
    BY <1>5, <1>7, <2>6 DEF Counted
<1>8. QED
  BY <1>5, <1>7

-----------------------------------------------------------------------------
(* The counters through the calls *)

\* Moving soonest_passed_hit_index touches no counter.
LEMMA AdvanceCounted ==
  ASSUME NEW a, Counted(a)
  PROVE  Counted(AdvancePassedIndex(a))
<1> DEFINE p == Min({i \in a.passed .. NumHits : i = NumHits \/ ~a.head[i].done})
           b == [a EXCEPT !.passed = p]
<1>1. a \in AttemptState
  BY DEF Counted, ComboOk
<1>2. AdvancePassedIndex(a) = b
  BY DEF AdvancePassedIndex
<1>3. b \in AttemptState
  BY <1>1, <1>2, AdvanceResult
<1> HIDE DEF p
<1>4. SameCounters(a, b)
  BY <1>1 DEF SameCounters, SameCombo, AttemptState
<1> HIDE DEF b
<1>5. QED
  BY <1>2, <1>3, <1>4, CountedKept

\* The misses of process_misses keep the counters right.
LEMMA ProcessMissesCounted ==
  ASSUME NEW a, Counted(a), NEW time \in Int
  PROVE  Counted(ProcessMisses(a, time))
<1> DEFINE b == AdvancePassedIndex(a)
           heads == PastHeads(b, time)
           tails == {i \in heads : IsHold(i) /\ ~b.tail[i].done}
           zero == [i \in Hits |-> 0]
           c == ScoreMisses(b, heads, tails, zero, Max(heads))
<1>1. Counted(b)
  BY AdvanceCounted
<1>2. ProcessMisses(a, time) = IF heads = {} THEN b ELSE AdvancePassedIndex(c)
  BY DEF ProcessMisses
<1> HIDE DEF b
<1>3. b.passed \in Nat /\ NumHits \in Nat
  BY <1>1, ChartAssumption DEF Counted, ComboOk, AttemptState
<1>4. /\ heads \in SUBSET Hits /\ tails \in SUBSET Hits
      /\ \A i \in heads : ~b.head[i].done
      /\ \A i \in tails : ~b.tail[i].done
  BY <1>3 DEF PastHeads, Hits
<1>5. CASE heads # {}
  <2>1. heads \subseteq 0 .. NumHits
    BY <1>3, <1>4 DEF Hits
  <2>2. Max(heads) \in Hits
    BY <1>3, <1>4, <1>5, <2>1, MaxBelow
  <2>3. zero \in [Hits -> Int]
    OBVIOUS
  <2> HIDE DEF heads, tails, zero
  <2>4. Counted(c)
    BY <1>1, <1>4, <2>2, <2>3, ScoreMissesCounted
  <2> HIDE DEF c
  <2>5. Counted(AdvancePassedIndex(c))
    BY <2>4, AdvanceCounted
  <2>6. QED
    BY <1>2, <1>5, <2>5
<1>6. QED
  BY <1>1, <1>2, <1>5

\* The overruns of process_hold_overruns keep the counters right.
LEMMA OverrunsCounted ==
  ASSUME NEW a, Counted(a), NEW time \in Int
  PROVE  Counted(ProcessHoldOverruns(a, time))
<1> DEFINE keys == OverrunKeys(a, time)
           tails == {a.target[k] : k \in keys}
           errs == [i \in Hits |-> time - Chart[i].endTime]
           b == ScoreMisses(a, {}, tails, errs, a.target[Max(keys)])
<1>1. keys \subseteq Keys /\ \A k \in keys : a.target[k] \in Hits /\ ~a.tail[a.target[k]].done
  BY DEF OverrunKeys, Counted, ComboOk, AttemptState
<1>2. ProcessHoldOverruns(a, time) = IF keys = {} THEN a ELSE b
  BY DEF ProcessHoldOverruns
<1>3. CASE keys # {}
  <2>1. KeyCount \in Nat /\ keys \subseteq 0 .. KeyCount
    BY <1>1, ChartAssumption DEF Keys
  <2> HIDE DEF keys
  <2>2. Max(keys) \in keys
    BY <1>3, <2>1, MaxBelow
  <2>3. a.target[Max(keys)] \in Hits
    BY <1>1, <2>2
  <2>4. errs \in [Hits -> Int]
    BY ChartAssumption DEF Hit
  <2>5. /\ tails \in SUBSET Hits /\ {} \in SUBSET Hits
        /\ \A i \in tails : ~a.tail[i].done
    BY <1>1
  <2> HIDE DEF tails, errs
  <2>6. Counted(b)
    BY <2>3, <2>4, <2>5, ScoreMissesCounted
  <2>7. QED
    BY <1>2, <1>3, <2>6
<1>4. QED
  BY <1>2, <1>3

\* Update keeps the counters right.
LEMMA UpdateCounted ==
  ASSUME NEW a, Counted(a), NEW time \in Int
  PROVE  Counted(Update(a, time))
<1> DEFINE a1 == [a EXCEPT !.latest = LatestAt(a, time)]
<1>1. a \in AttemptState
  BY DEF Counted, ComboOk
<1>2. LatestAt(a, time) \in Int
  BY <1>1 DEF LatestAt, MaxOf, AttemptState
<1>3. a1 \in AttemptState /\ SameCounters(a, a1)
  BY <1>1, <1>2 DEF AttemptState, SameCounters, SameCombo
<1>4. Update(a, time) = ProcessHoldOverruns(ProcessMisses(a1, time), time)
  BY DEF Update, LatestAt
<1> HIDE DEF a1
<1>5. Counted(ProcessMisses(a1, time))
  <2>1. Counted(a1)
    BY <1>3, CountedKept
  <2>2. QED
    BY <2>1, ProcessMissesCounted
<1>6. QED
  BY <1>4, <1>5, OverrunsCounted

\* A press keeps the counters right.
LEMMA PressCounted ==
  ASSUME NEW a, Counted(a), NEW key \in Nat, NEW time \in Int
  PROVE  Counted(Press(a, key, time))
<1> DEFINE u == Update(a, time)
           C == Candidates(u, key, time)
           i == ChosenHit(C, time)
           err == time - Chart[i].time
           c == [u EXCEPT !.held = @ \union {key}, !.target[key] = None]
           d == [c EXCEPT !.target[key] = i]
<1>1. CASE ~Presses(a, key)
  BY <1>1 DEF Press
<1>2. CASE Presses(a, key)
  <2>1. key \in Keys
    BY <1>2 DEF Presses
  <2>2. Counted(u) /\ u \in AttemptState
    BY UpdateCounted DEF Counted, ComboOk
  <2>3. Press(a, key, time) = IF C = {} THEN c ELSE ScoreHead(d, i, err)
    BY <1>2 DEF Press
  <2>4. C # {} => i \in Hits
    BY <2>1, <2>2, ChosenResult
  <2> HIDE DEF u, C, i
  <2>5. c \in AttemptState /\ SameCounters(u, c)
    BY <2>1, <2>2 DEF AttemptState, SameCounters, SameCombo
  <2>6. CASE C = {}
    BY <2>2, <2>3, <2>5, <2>6, CountedKept
  <2>7. CASE C # {}
    <3> HIDE DEF c
    <3>1. d \in AttemptState /\ SameCounters(c, d)
      BY <2>1, <2>4, <2>5, <2>7 DEF AttemptState, SameCounters, SameCombo
    <3>2. err \in Int
      BY <2>4, <2>7, ChartAssumption DEF Hit
    <3> HIDE DEF d, err
    <3>3. Counted(d)
      BY <2>2, <2>5, <3>1, CountedKept
    <3>4. Counted(ScoreHead(d, i, err))
      BY <2>4, <2>7, <3>2, <3>3, ScoreHeadCounted
    <3>5. QED
      BY <2>3, <2>7, <3>4
  <2>8. QED
    BY <2>6, <2>7
<1>3. QED
  BY <1>1, <1>2

\* A release keeps the counters right.
LEMMA ReleaseCounted ==
  ASSUME NEW a, Counted(a), NEW key \in Nat, NEW time \in Int
  PROVE  Counted(Release(a, key, time))
<1> DEFINE u == Update(a, time)
           c == LetGo(u, key)
           i == u.target[key]
           err == time - Chart[i].endTime
<1>1. CASE key \notin Keys \/ key \notin a.held
  BY <1>1 DEF Release
<1>2. CASE key \in Keys /\ key \in a.held
  <2>1. Counted(u) /\ u \in AttemptState
    BY UpdateCounted DEF Counted, ComboOk
  <2>2. Release(a, key, time) = IF i # None /\ IsHold(i) THEN ScoreTail(c, i, err) ELSE c
    BY <1>2 DEF Release
  <2> HIDE DEF u
  <2>3. c \in AttemptState /\ SameCounters(u, c)
    BY <1>2, <2>1 DEF LetGo, AttemptState, SameCounters, SameCombo
  <2>4. Counted(c)
    BY <2>1, <2>3, CountedKept
  <2>5. CASE i # None /\ IsHold(i)
    <3>1. i \in Hits
      BY <1>2, <2>1, <2>5 DEF AttemptState
    <3>2. err \in Int
      BY <3>1, ChartAssumption DEF Hit
    <3> HIDE DEF c, i, err
    <3>3. Counted(ScoreTail(c, i, err))
      BY <2>4, <3>1, <3>2, ScoreTailCounted
    <3>4. QED
      BY <2>2, <2>5, <3>3
  <2>6. QED
    BY <2>2, <2>4, <2>5
<1>3. QED
  BY <1>1, <1>2

\* An attempt nothing has been played of has nothing to count.
LEMMA NewAttemptCounted == Counted(NewAttempt)
<1> DEFINE a == NewAttempt
           zero == [s \in JudgedScores |-> 0]
<1>1. /\ a \in AttemptState
      /\ a.combo = 0 /\ a.maxCombo = 0 /\ a.nScored = 0 /\ a.counts = zero
      /\ a.totalScore = 0 /\ a.nTimed = 0 /\ a.totalErr = 0
      /\ \A i \in Hits : ~a.head[i].done /\ ~a.head[i].played /\ ~a.tail[i].done
  BY NewAttemptSound DEF Sound, NewAttempt, Unjudged
<1>2. zero["MISS"] = 0 /\ zero \in [JudgedScores -> Nat]
  BY DEF JudgedScores
<1>3. SumOver(zero, JudgedScores) = 0 /\ SumOver(Points(zero), JudgedScores) = 0
  <2>1. \A s \in JudgedScores : zero[s] = 0
    OBVIOUS
  <2> HIDE DEF zero
  <2>2. \A s \in JudgedScores : Points(zero)[s] = 0
    BY <1>2, <2>1, PointsType
  <2>3. QED
    BY <2>1, <2>2, ScoresFinite, SumOfZeros
<1> HIDE DEF a, zero
<1>4. ComboOk(a)
  BY <1>1, <1>2 DEF ComboOk
<1>5. TotalsOk(a)
  BY <1>1, <1>3 DEF TotalsOk
<1>6. TimingOk(a)
  <2>1. PlayedOf(a.head) = {}
    BY <1>1 DEF PlayedOf
  <2>2. QED
    BY <1>1, <2>1, SumOfNone, FS_EmptySet DEF TimingOk
<1>7. \A s \in JudgedScores : JudgedCount(a, s) = a.counts[s] + (IF s = "MISS" THEN 0 ELSE 0)
  <2> TAKE s \in JudgedScores
  <2>1. JudgedAs(a.head, s) = {} /\ JudgedAs(a.tail, s) = {}
    BY <1>1 DEF JudgedAs
  <2>2. JudgedCount(a, s) = 0
    BY <2>1, FS_EmptySet DEF JudgedCount
  <2>3. a.counts[s] = 0
    BY <1>1 DEF zero
  <2>4. QED
    BY <2>2, <2>3
<1>8. QED
  BY <1>4, <1>5, <1>6, <1>7 DEF Counted, TallyOk, Behind, a

-----------------------------------------------------------------------------
(* Updates in between change nothing: attempts that differ only in when    *)
(* they noticed what was past.                                             *)

\* A half that was not played has no error: it says when it was noticed.
SameHalf(h, g) ==
  /\ h.done = g.done /\ h.played = g.played /\ h.score = g.score
  /\ h.played => h.err = g.err

\* The judgements, keys and combos of a are those of b.
Same(a, b) ==
  /\ a.head = b.head
  /\ \A i \in Hits : SameHalf(a.tail[i], b.tail[i])
  /\ a.held = b.held /\ a.target = b.target
  /\ a.combo = b.combo /\ a.maxCombo = b.maxCombo

(* Having the same judgements is reflexive,                                *)
LEMMA SameItself == \A a : Same(a, a)
  BY DEF Same, SameHalf

(* having the same judgements is symmetric,                                *)
LEMMA SameReversed == \A a, b : Same(a, b) => Same(b, a)
  BY DEF Same, SameHalf

(* and having the same judgements is transitive.                           *)
LEMMA SameJoined == \A a, b, c : Same(a, b) /\ Same(b, c) => Same(a, c)
  BY DEF Same, SameHalf

\* What an update at `time' misses.
HeadMissed(a, i, time) == ~a.head[i].done /\ HeadIsPast(i, time)
TailMissed(a, i, time) ==
  IsHold(i) /\ ~a.tail[i].done /\ (IF a.head[i].done THEN TailIsPast(i, time)
                                   ELSE HeadIsPast(i, time))

\* An update misses every open half that is past, and nothing else.
LEMMA UpdateMisses ==
  ASSUME NEW a, Sound(a), NEW time \in Int
  PROVE  LET b == Update(a, time)
         IN  \A i \in Hits :
               /\ b.head[i] = IF HeadMissed(a, i, time) THEN Missed(0) ELSE a.head[i]
               /\ IF TailMissed(a, i, time)
                  THEN \E err \in Int : b.tail[i] = Missed(err)
                  ELSE b.tail[i] = a.tail[i]
<1> DEFINE b == Update(a, time)
<1>1. a \in AttemptState
  BY DEF Sound
<1> SUFFICES ASSUME NEW i \in Hits
             PROVE  /\ b.head[i] = IF HeadMissed(a, i, time) THEN Missed(0) ELSE a.head[i]
                    /\ IF TailMissed(a, i, time)
                       THEN \E err \in Int : b.tail[i] = Missed(err)
                       ELSE b.tail[i] = a.tail[i]
  OBVIOUS
<1>2. \/ /\ b.head[i] = a.head[i]
         /\ \/ b.tail[i] = a.tail[i] /\ ~Overrun(a, i, time)
            \/ /\ Overrun(a, i, time)
               /\ b.tail[i] = Missed(time - Chart[i].endTime)
         /\ \/ a.head[i].done \/ i < a.passed \/ ~HeadIsPast(i, time)
      \/ /\ b.head[i] = Missed(0) /\ ~a.head[i].done /\ HeadIsPast(i, time)
         /\ IF IsHold(i) /\ ~a.tail[i].done THEN b.tail[i] = Missed(0)
            ELSE b.tail[i] = a.tail[i]
  BY <1>1, UpdateResult
<1> HIDE DEF b
<1>3. i < a.passed => a.head[i].done
  BY DEF Sound, PassedJudged
<1>4. Overrun(a, i, time) <=>
        IsHold(i) /\ ~a.tail[i].done /\ a.head[i].done /\ TailIsPast(i, time)
  <2>1. ASSUME Overrun(a, i, time) PROVE a.head[i].done
    <3>1. PICK k \in a.held : a.target[k] = i
      BY <2>1 DEF Overrun
    <3>2. k \in Keys /\ i # None
      BY <1>1, NoneAssumption DEF AttemptState, Hits
    <3>3. QED
      BY <3>1, <3>2 DEF Sound, TargetsOwned, HalvesInOrder
  <2>2. ASSUME IsHold(i), ~a.tail[i].done, a.head[i].done, TailIsPast(i, time)
        PROVE  Overrun(a, i, time)
    BY <2>2 DEF Sound, HoldsAttached, Overrun
  <2>3. QED
    BY <2>1, <2>2 DEF Overrun
<1>5. time - Chart[i].endTime \in Int /\ 0 \in Int
  BY ChartAssumption DEF Hit
<1>6. CASE HeadMissed(a, i, time)
  BY <1>2, <1>3, <1>4, <1>5, <1>6 DEF HeadMissed, TailMissed
<1>7. CASE ~HeadMissed(a, i, time)
  BY <1>2, <1>3, <1>4, <1>5, <1>7 DEF HeadMissed, TailMissed
<1>8. QED
  BY <1>6, <1>7

\* Misses break the combo, and an update that judges nothing leaves it alone.
ComboTells(a, b) ==
  /\ b.maxCombo = a.maxCombo
  /\ \/ b.combo = a.combo /\ b.head = a.head /\ b.tail = a.tail
     \/ b.combo = 0 /\ \E i \in Hits : \/ ~a.head[i].done /\ b.head[i].done
                                       \/ ~a.tail[i].done /\ b.tail[i].done

\* Judging open halves as misses breaks the combo.
LEMMA MissesBreakCombos ==
  ASSUME NEW a \in AttemptState, NEW H \in SUBSET Hits, NEW T \in SUBSET Hits,
         NEW tailErr \in [Hits -> Int], NEW last \in Hits,
         H \union T # {}, \A i \in H : ~a.head[i].done, \A i \in T : ~a.tail[i].done
  PROVE  ComboTells(a, ScoreMisses(a, H, T, tailErr, last))
<1> DEFINE m == [a EXCEPT !.head = [i \in Hits |-> IF i \in H THEN Missed(0) ELSE a.head[i]],
                          !.tail = [i \in Hits |-> IF i \in T THEN Missed(tailErr[i])
                                                              ELSE a.tail[i]]]
           n == MissCount(H, T)
           b == ScoreMisses(a, H, T, tailErr, last)
<1>1. b = Tally(m, "MISS", n, last)
  BY DEF ScoreMisses
<1>2. n \in Nat /\ n # 0
  <2>1. /\ IsFiniteSet(H) /\ Cardinality(H) \in Nat
        /\ IsFiniteSet(T) /\ Cardinality(T) \in Nat
    BY HitsFinite
  <2>2. Cardinality(H) # 0 \/ Cardinality(T) # 0
    BY <2>1, FS_EmptySet
  <2>3. QED
    BY <2>1, <2>2 DEF MissCount
<1>3. /\ b.head = [i \in Hits |-> IF i \in H THEN Missed(0) ELSE a.head[i]]
      /\ b.tail = [i \in Hits |-> IF i \in T THEN Missed(tailErr[i]) ELSE a.tail[i]]
  BY ScoreMissesResult
<1>4. m.combo = a.combo /\ m.maxCombo = a.maxCombo /\ m.combo \in Nat /\ m.maxCombo \in Nat
  BY DEF AttemptState
<1>5. /\ DOMAIN m = DOMAIN a
      /\ b.combo = NextCombo(m.combo, "MISS", n)
      /\ b.maxCombo = MaxOf(m.maxCombo, NextCombo(m.combo, "MISS", n))
  <2> HIDE DEF n
  <2>1. b = [m EXCEPT !.counts["MISS"] = @ + n,
                !.totalScore = @ + n * HitScoreAcc["MISS"],
                !.combo = NextCombo(m.combo, "MISS", n),
                !.maxCombo = MaxOf(@, NextCombo(m.combo, "MISS", n)),
                !.lastScored = last,
                !.nScored = @ + n]
    BY <1>1, <1>2, Zenon DEF Tally
  <2>2. QED
    BY <2>1 DEF AttemptState
<1> HIDE DEF b, m, n
<1>6. b.combo = 0 /\ b.maxCombo = a.maxCombo
  BY <1>4, <1>5 DEF NextCombo, MaxOf
<1>7. \E i \in Hits : (~a.head[i].done /\ b.head[i].done) \/ (~a.tail[i].done /\ b.tail[i].done)
  BY <1>3 DEF Missed
<1>8. QED
  BY <1>6, <1>7 DEF ComboTells, b

\* Moving soonest_passed_hit_index moves nothing else.
LEMMA AdvanceTells ==
  ASSUME NEW a \in AttemptState
  PROVE  LET b == AdvancePassedIndex(a)
         IN  b.combo = a.combo /\ b.maxCombo = a.maxCombo
BY DEF AdvancePassedIndex, AttemptState

(* The misses of process_misses break the combo.                           *)
LEMMA ProcessMissesTells ==
  ASSUME NEW a \in AttemptState, NEW time \in Int
  PROVE  ComboTells(a, ProcessMisses(a, time))
<1> DEFINE b == AdvancePassedIndex(a)
           heads == PastHeads(b, time)
           tails == {i \in heads : IsHold(i) /\ ~b.tail[i].done}
           zero == [i \in Hits |-> 0]
           c == ScoreMisses(b, heads, tails, zero, Max(heads))
           d == AdvancePassedIndex(c)
<1>1. /\ b \in AttemptState
      /\ b.head = a.head /\ b.tail = a.tail
      /\ b.combo = a.combo /\ b.maxCombo = a.maxCombo
  BY AdvanceResult, AdvanceTells
<1>2. ProcessMisses(a, time) = IF heads = {} THEN b ELSE d
  BY DEF ProcessMisses
<1> HIDE DEF b
<1>3. b.passed \in Nat /\ NumHits \in Nat
  BY <1>1, ChartAssumption DEF AttemptState
<1>4. /\ heads \in SUBSET Hits /\ tails \in SUBSET Hits
      /\ \A i \in heads : ~b.head[i].done
      /\ \A i \in tails : ~b.tail[i].done
  BY <1>3 DEF PastHeads, Hits
<1>5. CASE heads # {}
  <2>1. heads \subseteq 0 .. NumHits
    BY <1>3, <1>4 DEF Hits
  <2>2. Max(heads) \in Hits
    BY <1>3, <1>4, <1>5, <2>1, MaxBelow
  <2>3. zero \in [Hits -> Int]
    OBVIOUS
  <2>4. heads \union tails # {}
    BY <1>5
  <2> HIDE DEF heads, tails, zero
  <2>5. ComboTells(b, c) /\ c \in AttemptState
    BY <1>1, <1>4, <2>2, <2>3, <2>4, MissesBreakCombos, ScoreMissesResult
  <2> HIDE DEF c
  <2>6. /\ d.head = c.head /\ d.tail = c.tail
        /\ d.combo = c.combo /\ d.maxCombo = c.maxCombo
    BY <2>5, AdvanceResult, AdvanceTells
  <2>7. ComboTells(a, d)
    BY <1>1, <2>5, <2>6 DEF ComboTells
  <2>8. QED
    BY <1>2, <1>5, <2>7
<1>6. CASE heads = {}
  BY <1>1, <1>2, <1>6 DEF ComboTells
<1>7. QED
  BY <1>5, <1>6

(* So do the overruns of process_hold_overruns.                            *)
LEMMA OverrunsTell ==
  ASSUME NEW a \in AttemptState, NEW time \in Int
  PROVE  ComboTells(a, ProcessHoldOverruns(a, time))
<1> DEFINE keys == OverrunKeys(a, time)
           tails == {a.target[k] : k \in keys}
           errs == [i \in Hits |-> time - Chart[i].endTime]
           b == ScoreMisses(a, {}, tails, errs, a.target[Max(keys)])
<1>1. keys \subseteq Keys /\ \A k \in keys : a.target[k] \in Hits /\ ~a.tail[a.target[k]].done
  BY DEF OverrunKeys, AttemptState
<1>2. ProcessHoldOverruns(a, time) = IF keys = {} THEN a ELSE b
  BY DEF ProcessHoldOverruns
<1>3. CASE keys # {}
  <2>1. KeyCount \in Nat /\ keys \subseteq 0 .. KeyCount
    BY <1>1, ChartAssumption DEF Keys
  <2>2. {} \union tails # {}
    BY <1>3
  <2> HIDE DEF keys
  <2>3. Max(keys) \in keys
    BY <1>3, <2>1, MaxBelow
  <2>4. a.target[Max(keys)] \in Hits
    BY <1>1, <2>3
  <2>5. errs \in [Hits -> Int]
    BY ChartAssumption DEF Hit
  <2>6. /\ tails \in SUBSET Hits /\ {} \in SUBSET Hits
        /\ \A i \in tails : ~a.tail[i].done
    BY <1>1
  <2> HIDE DEF tails, errs
  <2>7. ComboTells(a, b)
    BY <2>2, <2>4, <2>5, <2>6, MissesBreakCombos
  <2>8. QED
    BY <1>2, <1>3, <2>7
<1>4. CASE keys = {}
  BY <1>2, <1>4 DEF ComboTells
<1>5. QED
  BY <1>3, <1>4

(* And so does an update.                                                  *)
LEMMA UpdateTells ==
  ASSUME NEW a \in AttemptState, NEW time \in Int
  PROVE  ComboTells(a, Update(a, time))
<1> DEFINE a1 == [a EXCEPT !.latest = LatestAt(a, time)]
           a2 == ProcessMisses(a1, time)
           b == ProcessHoldOverruns(a2, time)
<1>1. LatestAt(a, time) \in Int
  BY DEF LatestAt, MaxOf, AttemptState
<1>2. /\ a1 \in AttemptState /\ a1.head = a.head /\ a1.tail = a.tail
      /\ a1.combo = a.combo /\ a1.maxCombo = a.maxCombo
  BY <1>1 DEF AttemptState
<1>3. b = Update(a, time)
  BY DEF Update, LatestAt
<1> HIDE DEF a1
<1>4. a2 \in AttemptState /\ ComboTells(a1, a2)
  BY <1>2, ProcessMissesResult, ProcessMissesTells
<1> HIDE DEF a2
<1>5. /\ b.head = a2.head /\ ComboTells(a2, b)
      /\ \A i \in Hits : a2.tail[i].done => b.tail[i].done
  <2>1. \A i \in Hits : b.tail[i] = IF Overrun(a2, i, time)
                                    THEN Missed(time - Chart[i].endTime) ELSE a2.tail[i]
    BY <1>4, HoldOverrunsResult
  <2>2. b.head = a2.head /\ ComboTells(a2, b)
    BY <1>4, HoldOverrunsResult, OverrunsTell
  <2> HIDE DEF b
  <2>3. \A i \in Hits : a2.tail[i].done => b.tail[i].done
    <3>1. \A err : Missed(err).done
      BY DEF Missed
    <3>2. QED
      BY <2>1, <3>1, Zenon
  <2>4. QED
    BY <2>2, <2>3
<1> HIDE DEF b
<1>6. ComboTells(a, a2)
  BY <1>2, <1>4 DEF ComboTells
<1>7. ComboTells(a, b)
  BY <1>5, <1>6 DEF ComboTells
<1>8. QED
  BY <1>3, <1>7

\* a is b but for some misses, which an update of b at `time' makes up for.
Ahead(b, a, time) ==
  /\ a.held = b.held /\ a.target = b.target /\ a.maxCombo = b.maxCombo
  /\ \A i \in Hits : \/ a.head[i] = b.head[i]
                     \/ /\ HeadMissed(b, i, time) /\ a.head[i] = Missed(0)
                        /\ IsHold(i) => a.tail[i].done
  /\ \A i \in Hits : \/ SameHalf(a.tail[i], b.tail[i])
                     \/ TailMissed(b, i, time) /\ SameHalf(a.tail[i], Missed(0))
  /\ \/ a.combo = b.combo /\ a.head = b.head /\ \A i \in Hits : a.tail[i].done = b.tail[i].done
     \/ a.combo = 0 /\ \E i \in Hits : \/ ~b.head[i].done /\ a.head[i].done
                                       \/ ~b.tail[i].done /\ a.tail[i].done

\* Then an update brings both to the same judgements.
LEMMA UpdateCatchesUp ==
  ASSUME NEW a, Sound(a), NEW b, Sound(b), NEW time \in Int, Ahead(b, a, time)
  PROVE  Same(Update(a, time), Update(b, time))
<1> DEFINE d == Update(a, time)
           e == Update(b, time)
<1>1. \A i \in Hits :
        /\ d.head[i] = IF HeadMissed(a, i, time) THEN Missed(0) ELSE a.head[i]
        /\ IF TailMissed(a, i, time) THEN \E err \in Int : d.tail[i] = Missed(err)
                                     ELSE d.tail[i] = a.tail[i]
  BY UpdateMisses
<1>2. \A i \in Hits :
        /\ e.head[i] = IF HeadMissed(b, i, time) THEN Missed(0) ELSE b.head[i]
        /\ IF TailMissed(b, i, time) THEN \E err \in Int : e.tail[i] = Missed(err)
                                     ELSE e.tail[i] = b.tail[i]
  BY UpdateMisses
<1>3. /\ ComboTells(a, d) /\ d \in AttemptState /\ d.held = a.held /\ d.target = a.target
      /\ Final(a, d)
  BY UpdateSound, UpdateTells DEF Sound
<1>4. /\ ComboTells(b, e) /\ e \in AttemptState /\ e.held = b.held /\ e.target = b.target
      /\ Final(b, e)
  BY UpdateSound, UpdateTells DEF Sound
<1> HIDE DEF d, e
<1>5. \A err : Missed(err).done /\ SameHalf(Missed(err), Missed(0))
  BY DEF Missed, SameHalf
<1>6. ASSUME NEW i \in Hits
      PROVE  d.head[i] = e.head[i] /\ SameHalf(d.tail[i], e.tail[i])
  <2>1. CASE a.head[i] = b.head[i]
    <3>1. d.head[i] = e.head[i]
      BY <1>1, <1>2, <2>1 DEF HeadMissed
    <3>2. CASE SameHalf(a.tail[i], b.tail[i])
      <4>1. TailMissed(a, i, time) <=> TailMissed(b, i, time)
        BY <2>1, <3>2 DEF TailMissed, SameHalf
      <4>2. CASE TailMissed(a, i, time)
        BY <1>1, <1>2, <1>5, <3>1, <4>1, <4>2 DEF SameHalf
      <4>3. CASE ~TailMissed(a, i, time)
        BY <1>1, <1>2, <3>1, <3>2, <4>1, <4>3
      <4>4. QED
        BY <4>2, <4>3
    <3>3. CASE TailMissed(b, i, time) /\ SameHalf(a.tail[i], Missed(0))
      <4>1. ~TailMissed(a, i, time)
        BY <1>5, <3>3 DEF TailMissed, SameHalf
      <4>2. QED
        BY <1>1, <1>2, <1>5, <3>1, <3>3, <4>1 DEF SameHalf
    <3>4. QED
      BY <3>2, <3>3 DEF Ahead
  <2>2. CASE a.head[i] # b.head[i]
    <3>1. /\ HeadMissed(b, i, time) /\ a.head[i] = Missed(0)
          /\ IsHold(i) => a.tail[i].done
      BY <2>2 DEF Ahead
    <3>2. ~HeadMissed(a, i, time) /\ ~TailMissed(a, i, time)
      BY <1>5, <3>1 DEF HeadMissed, TailMissed
    <3>3. d.head[i] = e.head[i] /\ d.tail[i] = a.tail[i]
      BY <1>1, <1>2, <3>1, <3>2
    <3>4. CASE SameHalf(a.tail[i], b.tail[i])
      <4>1. ~TailMissed(b, i, time)
        BY <3>1, <3>4 DEF TailMissed, SameHalf
      <4>2. QED
        BY <1>2, <3>3, <3>4, <4>1
    <3>5. CASE TailMissed(b, i, time) /\ SameHalf(a.tail[i], Missed(0))
      BY <1>2, <1>5, <3>3, <3>5 DEF SameHalf
    <3>6. QED
      BY <3>4, <3>5 DEF Ahead
  <2>3. QED
    BY <2>1, <2>2
<1>7. d.head = e.head
  BY <1>3, <1>4, <1>6 DEF AttemptState
<1>8. d.combo = e.combo
  <2>1. \A i \in Hits : /\ d.head[i].done = e.head[i].done
                        /\ d.tail[i].done = e.tail[i].done
    BY <1>6 DEF SameHalf
  <2>2. \A i \in Hits : /\ a.head[i].done => d.head[i].done
                        /\ a.tail[i].done => d.tail[i].done
    BY <1>3 DEF Final
  <2>3. CASE a.combo = b.combo /\ a.head = b.head /\ \A i \in Hits : a.tail[i].done = b.tail[i].done
    <3>1. CASE d.combo = 0 /\ \E i \in Hits : \/ ~a.head[i].done /\ d.head[i].done
                                              \/ ~a.tail[i].done /\ d.tail[i].done
      BY <1>4, <2>1, <2>3, <3>1 DEF ComboTells
    <3>2. CASE d.combo = a.combo /\ d.head = a.head /\ d.tail = a.tail
      BY <1>4, <2>1, <2>3, <3>2 DEF ComboTells
    <3>3. QED
      BY <1>3, <3>1, <3>2 DEF ComboTells
  <2>4. CASE a.combo = 0 /\ \E i \in Hits : \/ ~b.head[i].done /\ a.head[i].done
                                            \/ ~b.tail[i].done /\ a.tail[i].done
    <3>1. d.combo = 0
      BY <1>3, <2>4 DEF ComboTells
    <3>2. e.combo = 0
      BY <1>4, <2>1, <2>2, <2>4 DEF ComboTells
    <3>3. QED
      BY <3>1, <3>2
  <2>5. QED
    BY <2>3, <2>4 DEF Ahead
<1>9. d.maxCombo = e.maxCombo /\ d.held = e.held /\ d.target = e.target
  BY <1>3, <1>4 DEF ComboTells, Ahead
<1>10. Same(d, e)
  BY <1>6, <1>7, <1>8, <1>9 DEF Same
<1>11. QED
  BY <1>10 DEF d, e

\* The same attempts are updated to the same.
LEMMA SameUpdates ==
  ASSUME NEW a, Sound(a), NEW b, Sound(b), NEW time \in Int, Same(a, b)
  PROVE  Same(Update(a, time), Update(b, time))
<1>1. Ahead(b, a, time)
  BY DEF Same, SameHalf, Ahead
<1>2. QED
  BY <1>1, UpdateCatchesUp

\* An update before another one changes nothing.
LEMMA UpdateAgain ==
  ASSUME NEW a, Sound(a), NEW b, Sound(b), NEW s \in Int, NEW time \in Int, s <= time,
         Same(a, Update(b, s))
  PROVE  Same(Update(a, time), Update(b, time))
<1> DEFINE c == Update(b, s)
<1>1. \A i \in Hits :
        /\ c.head[i] = IF HeadMissed(b, i, s) THEN Missed(0) ELSE b.head[i]
        /\ IF TailMissed(b, i, s) THEN \E err \in Int : c.tail[i] = Missed(err)
                                  ELSE c.tail[i] = b.tail[i]
  BY UpdateMisses
<1>2. ComboTells(b, c) /\ c.held = b.held /\ c.target = b.target
  BY UpdateSound, UpdateTells DEF Sound
<1>3. Same(a, c)
  OBVIOUS
<1> HIDE DEF c
<1>4. \A err : Missed(err).done /\ SameHalf(Missed(err), Missed(0))
  BY DEF Missed, SameHalf
<1>5. ASSUME NEW i \in Hits
      PROVE  /\ HeadIsPast(i, s) => HeadIsPast(i, time)
             /\ TailIsPast(i, s) => TailIsPast(i, time)
  <2>1. Chart[i].time \in Int /\ Chart[i].endTime \in Int
    BY ChartAssumption DEF Hit
  <2>2. QED
    BY <2>1, PastDef
<1>6. ASSUME NEW i \in Hits
      PROVE  \/ a.head[i] = b.head[i]
             \/ /\ HeadMissed(b, i, time) /\ a.head[i] = Missed(0)
                /\ IsHold(i) => a.tail[i].done
  <2>1. CASE HeadMissed(b, i, s)
    <3>1. IsHold(i) => c.tail[i].done
      BY <1>1, <1>4, <2>1 DEF HeadMissed, TailMissed
    <3>2. QED
      BY <1>1, <1>3, <1>5, <2>1, <3>1 DEF HeadMissed, Same, SameHalf
  <2>2. CASE ~HeadMissed(b, i, s)
    BY <1>1, <1>3, <2>2 DEF Same
  <2>3. QED
    BY <2>1, <2>2
<1>7. ASSUME NEW i \in Hits
      PROVE  \/ SameHalf(a.tail[i], b.tail[i])
             \/ TailMissed(b, i, time) /\ SameHalf(a.tail[i], Missed(0))
  <2>1. CASE TailMissed(b, i, s)
    BY <1>1, <1>3, <1>4, <1>5, <2>1 DEF TailMissed, Same, SameHalf
  <2>2. CASE ~TailMissed(b, i, s)
    BY <1>1, <1>3, <2>2 DEF Same
  <2>3. QED
    BY <2>1, <2>2
<1>8. \/ /\ a.combo = b.combo /\ a.head = b.head
         /\ \A i \in Hits : a.tail[i].done = b.tail[i].done
      \/ a.combo = 0 /\ \E i \in Hits : \/ ~b.head[i].done /\ a.head[i].done
                                        \/ ~b.tail[i].done /\ a.tail[i].done
  BY <1>2, <1>3 DEF ComboTells, Same, SameHalf
<1>9. Ahead(b, a, time)
  BY <1>2, <1>3, <1>6, <1>7, <1>8 DEF Ahead, Same, ComboTells
<1>10. QED
  BY <1>9, UpdateCatchesUp

\* No note is past its window at this time.
Early(time) == \A i \in Hits : time <= Chart[i].time + BadWindow

\* Before any note is past its window, an update misses nothing.
LEMMA EarlyUpdate ==
  ASSUME NEW a, Sound(a), NEW time \in Int, Early(time)
  PROVE  Same(Update(a, time), a)
<1> DEFINE b == Update(a, time)
<1>1. ASSUME NEW i \in Hits
      PROVE  ~HeadMissed(a, i, time) /\ ~TailMissed(a, i, time)
  <2>1. /\ Chart[i].time \in Int /\ Chart[i].endTime \in Int
        /\ IsHold(i) => Chart[i].time <= Chart[i].endTime
    BY ChartAssumption DEF Hit, IsHold
  <2>2. ~HeadIsPast(i, time) /\ (IsHold(i) => ~TailIsPast(i, time))
    BY <2>1, PastDef DEF Early
  <2>3. QED
    BY <2>2 DEF HeadMissed, TailMissed
<1>2. \A i \in Hits : b.head[i] = a.head[i] /\ b.tail[i] = a.tail[i]
  BY <1>1, UpdateMisses
<1>3. /\ ComboTells(a, b) /\ b \in AttemptState /\ a \in AttemptState
      /\ b.held = a.held /\ b.target = a.target
  BY UpdateSound, UpdateTells DEF Sound
<1> HIDE DEF b
<1>4. b.head = a.head
  BY <1>2, <1>3 DEF AttemptState
<1>5. Same(b, a)
  BY <1>2, <1>3, <1>4 DEF Same, SameHalf, ComboTells
<1>6. QED
  BY <1>5 DEF b

(* The tally of one note gives the same combo to the same attempts.        *)
LEMMA TallySame ==
  ASSUME NEW a \in AttemptState, NEW b \in AttemptState, Same(a, b),
         NEW score \in JudgedScores, NEW i \in Hits
  PROVE  Same(Tally(a, score, 1, i), Tally(b, score, 1, i))
<1> DEFINE TallyOf(x) == Tally(x, score, 1, i)
           c == TallyOf(a)
           d == TallyOf(b)
<1>1. ASSUME NEW x \in AttemptState
      PROVE  /\ TallyOf(x).combo = NextCombo(x.combo, score, 1)
             /\ TallyOf(x).maxCombo = MaxOf(x.maxCombo, NextCombo(x.combo, score, 1))
  <2>1. TallyOf(x) = [x EXCEPT !.counts[score] = @ + 1,
                !.totalScore = @ + 1 * HitScoreAcc[score],
                !.combo = NextCombo(x.combo, score, 1),
                !.maxCombo = MaxOf(@, NextCombo(x.combo, score, 1)),
                !.lastScored = i,
                !.nScored = @ + 1]
    <3>1. 1 # 0
      OBVIOUS
    <3>2. QED
      BY <3>1, Zenon DEF Tally
  <2> HIDE DEF TallyOf
  <2>2. QED
    BY <2>1 DEF AttemptState
<1>2. ASSUME NEW x \in AttemptState
      PROVE  SameNotes(x, TallyOf(x))
  BY TallyResult
<1> HIDE DEF TallyOf
<1>3. SameNotes(a, c) /\ SameNotes(b, d)
  BY <1>2
<1>4. c.combo = d.combo /\ c.maxCombo = d.maxCombo
  BY <1>1 DEF Same
<1> HIDE DEF c, d
<1>5. Same(c, d)
  BY <1>3, <1>4 DEF Same, SameNotes
<1>6. QED
  BY <1>5 DEF c, d, TallyOf

(* Playing a head does the same to the same attempts,                      *)
LEMMA ScoreHeadSame ==
  ASSUME NEW a \in AttemptState, NEW b \in AttemptState, Same(a, b),
         NEW i \in Hits, NEW err \in Int
  PROVE  Same(ScoreHead(a, i, err), ScoreHead(b, i, err))
<1> DEFINE Set(x) == [x EXCEPT !.head[i] = Played(err, FALSE),
                               !.totalErr = @ + err,
                               !.nTimed = @ + 1]
           score == PlayedScore(err, FALSE)
<1>1. CASE a.head[i].done
  BY <1>1 DEF ScoreHead, Same
<1>2. CASE ~a.head[i].done
  <2>1. /\ ScoreHead(a, i, err) = Tally(Set(a), score, 1, i)
        /\ ScoreHead(b, i, err) = Tally(Set(b), score, 1, i)
    BY <1>2, Zenon DEF ScoreHead, Same
  <2>2. score \in JudgedScores /\ Played(err, FALSE) \in Judgement
    BY PlayedScoreType, PlayedType
  <2>3. ASSUME NEW x \in AttemptState
        PROVE  /\ Set(x) \in AttemptState
               /\ Set(x).head = [x.head EXCEPT ![i] = Played(err, FALSE)]
               /\ Set(x).tail = x.tail /\ Set(x).held = x.held /\ Set(x).target = x.target
               /\ Set(x).combo = x.combo /\ Set(x).maxCombo = x.maxCombo
    <3> DEFINE head == [x.head EXCEPT ![i] = Played(err, FALSE)]
               total == x.totalErr + err
               timed == x.nTimed + 1
    <3>1. head \in [Hits -> Judgement]
      BY <2>2 DEF AttemptState
    <3>2. total \in Int /\ timed \in Nat
      BY DEF AttemptState
    <3>3. Set(x) = [x EXCEPT !.head = head, !.totalErr = total, !.nTimed = timed]
      OBVIOUS
    <3> HIDE DEF head, total, timed, Set
    <3>4. /\ Set(x) \in AttemptState /\ Set(x).head = head
          /\ Set(x).tail = x.tail /\ Set(x).held = x.held /\ Set(x).target = x.target
          /\ Set(x).combo = x.combo /\ Set(x).maxCombo = x.maxCombo
      BY <3>1, <3>2, <3>3 DEF AttemptState
    <3>5. QED
      BY <3>4 DEF head
  <2> DEFINE p == Set(a)
             q == Set(b)
  <2>4. /\ p \in AttemptState /\ p.head = [a.head EXCEPT ![i] = Played(err, FALSE)]
        /\ p.tail = a.tail /\ p.held = a.held /\ p.target = a.target
        /\ p.combo = a.combo /\ p.maxCombo = a.maxCombo
    BY <2>3
  <2>5. /\ q \in AttemptState /\ q.head = [b.head EXCEPT ![i] = Played(err, FALSE)]
        /\ q.tail = b.tail /\ q.held = b.held /\ q.target = b.target
        /\ q.combo = b.combo /\ q.maxCombo = b.maxCombo
    BY <2>3
  <2>6. /\ ScoreHead(a, i, err) = Tally(p, score, 1, i)
        /\ ScoreHead(b, i, err) = Tally(q, score, 1, i)
    BY <2>1
  <2> HIDE DEF p, q, score
  <2>7. Same(p, q)
    BY <2>4, <2>5 DEF Same
  <2>8. Same(Tally(p, score, 1, i), Tally(q, score, 1, i))
    BY <2>2, <2>4, <2>5, <2>7, TallySame
  <2>9. QED
    BY <2>6, <2>8
<1>3. QED
  BY <1>1, <1>2

(* and so does playing a tail.                                             *)
LEMMA ScoreTailSame ==
  ASSUME NEW a \in AttemptState, NEW b \in AttemptState, Same(a, b),
         NEW i \in Hits, NEW err \in Int
  PROVE  Same(ScoreTail(a, i, err), ScoreTail(b, i, err))
<1> DEFINE Set(x) == [x EXCEPT !.tail[i] = Played(err, TRUE)]
           score == PlayedScore(err, TRUE)
<1>1. CASE a.tail[i].done
  BY <1>1 DEF ScoreTail, Same, SameHalf
<1>2. CASE ~a.tail[i].done
  <2>1. /\ ScoreTail(a, i, err) = Tally(Set(a), score, 1, i)
        /\ ScoreTail(b, i, err) = Tally(Set(b), score, 1, i)
    BY <1>2, Zenon DEF ScoreTail, Same, SameHalf
  <2>2. score \in JudgedScores /\ Played(err, TRUE) \in Judgement
    BY PlayedScoreType, PlayedType
  <2>3. ASSUME NEW x \in AttemptState
        PROVE  /\ Set(x) \in AttemptState
               /\ \A j \in Hits : Set(x).tail[j] = IF j = i THEN Played(err, TRUE) ELSE x.tail[j]
               /\ Set(x).head = x.head /\ Set(x).held = x.held /\ Set(x).target = x.target
               /\ Set(x).combo = x.combo /\ Set(x).maxCombo = x.maxCombo
    BY <2>2 DEF AttemptState
  <2> DEFINE p == Set(a)
             q == Set(b)
  <2>4. /\ p \in AttemptState
        /\ \A j \in Hits : p.tail[j] = IF j = i THEN Played(err, TRUE) ELSE a.tail[j]
        /\ p.head = a.head /\ p.held = a.held /\ p.target = a.target
        /\ p.combo = a.combo /\ p.maxCombo = a.maxCombo
    BY <2>3
  <2>5. /\ q \in AttemptState
        /\ \A j \in Hits : q.tail[j] = IF j = i THEN Played(err, TRUE) ELSE b.tail[j]
        /\ q.head = b.head /\ q.held = b.held /\ q.target = b.target
        /\ q.combo = b.combo /\ q.maxCombo = b.maxCombo
    BY <2>3
  <2>6. /\ ScoreTail(a, i, err) = Tally(p, score, 1, i)
        /\ ScoreTail(b, i, err) = Tally(q, score, 1, i)
    BY <2>1
  <2> HIDE DEF p, q, score
  <2>7. Same(p, q)
    BY <2>4, <2>5 DEF Same, SameHalf
  <2>8. Same(Tally(p, score, 1, i), Tally(q, score, 1, i))
    BY <2>2, <2>4, <2>5, <2>7, TallySame
  <2>9. QED
    BY <2>6, <2>8
<1>3. QED
  BY <1>1, <1>2

\* Attempts that an update at `time' makes the same take a press at `time' alike,
LEMMA PressSame ==
  ASSUME NEW a, Sound(a), NEW b, Sound(b), NEW key \in Keys, NEW time \in Int,
         Same(Update(a, time), Update(b, time)), key \notin a.held
  PROVE  Same(Press(a, key, time), Press(b, key, time))
<1> DEFINE u == Update(a, time)
           v == Update(b, time)
           Up(x) == [x EXCEPT !.held = @ \union {key}, !.target[key] = None]
           C == Candidates(u, key, time)
           D == Candidates(v, key, time)
           i == ChosenHit(C, time)
           err == time - Chart[i].time
           At(x) == [Up(x) EXCEPT !.target[key] = i]
<1>1. /\ Sound(u) /\ u.held = a.held /\ u.latest \in Int /\ time <= u.latest
      /\ Sound(v) /\ v.held = b.held /\ v.latest \in Int /\ time <= v.latest
  BY UpdateSound, UpdateHears
<1>2. Same(u, v)
  OBVIOUS
<1>3. key \notin b.held
  BY <1>1, <1>2 DEF Same
<1>4. /\ Press(a, key, time) = IF C = {} THEN Up(u) ELSE ScoreHead(At(u), i, err)
      /\ Press(b, key, time) = IF D = {} THEN Up(v)
                               ELSE ScoreHead([Up(v) EXCEPT !.target[key] = ChosenHit(D, time)],
                                              ChosenHit(D, time), time - Chart[ChosenHit(D, time)].time)
  BY <1>3, Zenon DEF Press, Presses
<1> HIDE DEF u, v
<1>5. C \subseteq Hits /\ D \subseteq Hits
  <2>1. /\ u.passed \in Nat /\ v.passed \in Nat /\ NumHits \in Nat
    BY <1>1, ChartAssumption DEF Sound, AttemptState
  <2>2. /\ \A j \in C : j \in u.passed .. NumHits - 1
        /\ \A j \in D : j \in v.passed .. NumHits - 1
    BY DEF Candidates
  <2> HIDE DEF C, D
  <2>3. QED
    BY <2>1, <2>2 DEF Hits
<1>6. C = D
  <2>1. \A j \in Hits : /\ j \in C <=> Chart[j].key = key /\ ~u.head[j].done /\ Scored(j, time) # "NONE"
                        /\ j \in D <=> Chart[j].key = key /\ ~v.head[j].done /\ Scored(j, time) # "NONE"
    BY <1>1, CandidatesAre
  <2> HIDE DEF C, D
  <2>2. QED
    BY <1>2, <1>5, <2>1 DEF Same
<1>7. C # {} => i \in Hits
  <2> HIDE DEF C
  <2>1. QED
    BY <1>5, ChosenIs
<1>8. u \in AttemptState /\ v \in AttemptState
  BY <1>1 DEF Sound
<1>9. ASSUME NEW x \in AttemptState
      PROVE  /\ Up(x) \in AttemptState
             /\ Up(x).held = x.held \union {key} /\ Up(x).target = [x.target EXCEPT ![key] = None]
             /\ Up(x).head = x.head /\ Up(x).tail = x.tail
             /\ Up(x).combo = x.combo /\ Up(x).maxCombo = x.maxCombo
  BY DEF AttemptState
<1> HIDE DEF C, i
<1>10. CASE C = {}
  <2>1. Same(Up(u), Up(v))
    <3> DEFINE p == Up(u)
               q == Up(v)
    <3>1. /\ p.held = u.held \union {key} /\ p.target = [u.target EXCEPT ![key] = None]
          /\ p.head = u.head /\ p.tail = u.tail /\ p.combo = u.combo /\ p.maxCombo = u.maxCombo
      BY <1>8, <1>9
    <3>2. /\ q.held = v.held \union {key} /\ q.target = [v.target EXCEPT ![key] = None]
          /\ q.head = v.head /\ q.tail = v.tail /\ q.combo = v.combo /\ q.maxCombo = v.maxCombo
      BY <1>8, <1>9
    <3> HIDE DEF p, q
    <3>3. Same(p, q)
      BY <1>2, <3>1, <3>2 DEF Same
    <3>4. QED
      BY <3>3 DEF p, q
  <2>2. QED
    BY <1>4, <1>6, <1>10, <2>1
<1>11. CASE C # {}
  <2>1. ASSUME NEW x \in AttemptState
        PROVE  /\ At(x) \in AttemptState
               /\ At(x).held = x.held \union {key}
               /\ At(x).target = [x.target EXCEPT ![key] = i]
               /\ At(x).head = x.head /\ At(x).tail = x.tail
               /\ At(x).combo = x.combo /\ At(x).maxCombo = x.maxCombo
    BY <1>7, <1>11 DEF AttemptState
  <2>2. err \in Int
    BY <1>7, <1>11, ChartAssumption DEF Hit
  <2>3. Press(b, key, time) = ScoreHead(At(v), i, err)
    BY <1>4, <1>6, <1>11, Zenon DEF i
  <2> DEFINE p == At(u)
             q == At(v)
  <2>4. /\ p \in AttemptState
        /\ p.held = u.held \union {key} /\ p.target = [u.target EXCEPT ![key] = i]
        /\ p.head = u.head /\ p.tail = u.tail /\ p.combo = u.combo /\ p.maxCombo = u.maxCombo
    BY <1>8, <2>1
  <2>5. /\ q \in AttemptState
        /\ q.held = v.held \union {key} /\ q.target = [v.target EXCEPT ![key] = i]
        /\ q.head = v.head /\ q.tail = v.tail /\ q.combo = v.combo /\ q.maxCombo = v.maxCombo
    BY <1>8, <2>1
  <2>6. /\ Press(a, key, time) = ScoreHead(p, i, err)
        /\ Press(b, key, time) = ScoreHead(q, i, err)
    BY <1>4, <1>11, <2>3
  <2> HIDE DEF p, q, err
  <2>7. Same(p, q)
    BY <1>2, <2>4, <2>5 DEF Same
  <2>8. Same(ScoreHead(p, i, err), ScoreHead(q, i, err))
    BY <1>7, <1>11, <2>2, <2>4, <2>5, <2>7, ScoreHeadSame
  <2>9. QED
    BY <2>6, <2>8
<1>12. QED
  BY <1>10, <1>11

\* and a release.
LEMMA ReleaseSame ==
  ASSUME NEW a, Sound(a), NEW b, Sound(b), NEW key \in Keys, NEW time \in Int,
         Same(Update(a, time), Update(b, time)), key \in a.held
  PROVE  Same(Release(a, key, time), Release(b, key, time))
<1> DEFINE u == Update(a, time)
           v == Update(b, time)
           i == u.target[key]
           err == time - Chart[i].endTime
<1>1. Sound(u) /\ u.held = a.held /\ Sound(v) /\ v.held = b.held
  BY UpdateSound
<1>2. Same(u, v)
  OBVIOUS
<1>3. key \in b.held /\ v.target[key] = i
  BY <1>1, <1>2 DEF Same
<1>4. /\ Release(a, key, time) = IF i # None /\ IsHold(i) THEN ScoreTail(LetGo(u, key), i, err)
                                 ELSE LetGo(u, key)
      /\ Release(b, key, time) = IF i # None /\ IsHold(i) THEN ScoreTail(LetGo(v, key), i, err)
                                 ELSE LetGo(v, key)
  BY <1>3, Zenon DEF Release
<1> HIDE DEF u, v
<1>5. u \in AttemptState /\ v \in AttemptState
  BY <1>1 DEF Sound
<1>6. ASSUME NEW x \in AttemptState
      PROVE  /\ LetGo(x, key) \in AttemptState
             /\ LetGo(x, key).held = x.held \ {key}
             /\ LetGo(x, key).target = [x.target EXCEPT ![key] = None]
             /\ LetGo(x, key).head = x.head /\ LetGo(x, key).tail = x.tail
             /\ LetGo(x, key).combo = x.combo /\ LetGo(x, key).maxCombo = x.maxCombo
  BY DEF LetGo, AttemptState
<1>7. Same(LetGo(u, key), LetGo(v, key))
  <2> DEFINE p == LetGo(u, key)
             q == LetGo(v, key)
  <2>1. /\ p.held = u.held \ {key} /\ p.target = [u.target EXCEPT ![key] = None]
        /\ p.head = u.head /\ p.tail = u.tail /\ p.combo = u.combo /\ p.maxCombo = u.maxCombo
    BY <1>5, <1>6
  <2>2. /\ q.held = v.held \ {key} /\ q.target = [v.target EXCEPT ![key] = None]
        /\ q.head = v.head /\ q.tail = v.tail /\ q.combo = v.combo /\ q.maxCombo = v.maxCombo
    BY <1>5, <1>6
  <2> HIDE DEF p, q
  <2>3. Same(p, q)
    BY <1>2, <2>1, <2>2 DEF Same
  <2>4. QED
    BY <2>3 DEF p, q
<1>8. CASE i # None /\ IsHold(i)
  <2>1. i \in Hits
    BY <1>5, <1>8 DEF AttemptState
  <2>2. err \in Int
    BY <2>1, ChartAssumption DEF Hit
  <2> HIDE DEF i, err
  <2>3. Same(ScoreTail(LetGo(u, key), i, err), ScoreTail(LetGo(v, key), i, err))
    BY <1>5, <1>6, <1>7, <2>1, <2>2, ScoreTailSame
  <2>4. QED
    BY <1>4, <1>8, <2>3
<1>9. CASE ~(i # None /\ IsHold(i))
  BY <1>4, <1>7, <1>9
<1>10. QED
  BY <1>8, <1>9

\* Attempts with the same judgements count the same.
LEMMA SameCounts ==
  ASSUME NEW a, Counted(a), NEW b, Counted(b), Same(a, b)
  PROVE  /\ a.counts = b.counts /\ a.totalScore = b.totalScore /\ a.nScored = b.nScored
         /\ a.totalErr = b.totalErr /\ a.nTimed = b.nTimed
<1>1. /\ a \in AttemptState /\ TotalsOk(a) /\ TimingOk(a)
      /\ \A s \in JudgedScores : JudgedCount(a, s) = a.counts[s] + (IF s = "MISS" THEN 0 ELSE 0)
  BY DEF Counted, ComboOk, TallyOk, Behind
<1>2. /\ b \in AttemptState /\ TotalsOk(b) /\ TimingOk(b)
      /\ \A s \in JudgedScores : JudgedCount(b, s) = b.counts[s] + (IF s = "MISS" THEN 0 ELSE 0)
  BY DEF Counted, ComboOk, TallyOk, Behind
<1>3. \A s \in JudgedScores : JudgedCount(a, s) = JudgedCount(b, s)
  <2> TAKE s \in JudgedScores
  <2>1. JudgedAs(a.tail, s) = JudgedAs(b.tail, s)
    BY DEF JudgedAs, Same, SameHalf
  <2>2. QED
    BY <2>1 DEF JudgedCount, Same
<1>4. a.counts \in [JudgedScores -> Nat] /\ b.counts \in [JudgedScores -> Nat]
  BY <1>1, <1>2 DEF AttemptState
<1>5. \A s \in JudgedScores : a.counts[s] = b.counts[s]
  <2> TAKE s \in JudgedScores
  <2>1. JudgedCount(a, s) = a.counts[s] + 0 /\ JudgedCount(b, s) = b.counts[s] + 0
    BY <1>1, <1>2
  <2>2. a.counts[s] \in Nat /\ b.counts[s] \in Nat
    BY <1>4
  <2>3. QED
    BY <1>3, <2>1, <2>2
<1>6. a.counts = b.counts
  BY <1>4, <1>5
<1>7. QED
  BY <1>1, <1>2, <1>6 DEF TotalsOk, TimingOk, Same
=============================================================================
