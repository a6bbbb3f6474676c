---------------------------- MODULE AttemptProofs ----------------------------
(***************************************************************************)
(* What holds of every attempt at every chart: type correctness, the       *)
(* safety invariants of the hold and miss bookkeeping, the finality of     *)
(* judgements, which note a press plays and why a note is missed.  Sound   *)
(* is the inductive invariant, a predicate on the attempt record that      *)
(* every public call preserves.                                            *)
(***************************************************************************)
EXTENDS Attempt, JudgingLemmas

-----------------------------------------------------------------------------
(* Theorems *)

AttemptSound == Sound(attempt)

\* What one step may play, as the action properties of Attempt say it.
StepRules ==
  /\ Final(attempt, attempt')
  /\ \A i \in Hits : NewlyPlayed(i) =>
       /\ Chart[i].key \in attempt'.held \ attempt.held
       /\ \A j \in Hits : NewlyPlayed(j) => j = i
  /\ \A i \in Hits : ~attempt.tail[i].done /\ attempt'.tail[i].played =>
       Chart[i].key \in attempt.held \ attempt'.held

\* Every step of the specification keeps a sound attempt sound and obeys the rules.
LEMMA NextSound ==
  ASSUME AttemptSound, Next
  PROVE  AttemptSound' /\ StepRules
<1>1. PICK time \in Times :
        \/ \E key \in InputKeys : PressKey(key, time)
        \/ \E key \in InputKeys : ReleaseKey(key, time)
        \/ Tick(time)
  BY DEF Next
<1>2. time \in Int /\ InputKeys \subseteq Nat
  BY CallsAssumption
<1>3. CASE \E key \in InputKeys : PressKey(key, time)
  <2>1. PICK key \in InputKeys : attempt' = Press(attempt, key, time)
    BY <1>3 DEF PressKey
  <2>2. QED
    BY <1>2, <2>1, PressSound DEF AttemptSound, StepRules, NewlyPlayed
<1>4. CASE \E key \in InputKeys : ReleaseKey(key, time)
  <2>1. PICK key \in InputKeys : attempt' = Release(attempt, key, time)
    BY <1>4 DEF ReleaseKey
  <2>2. QED
    BY <1>2, <2>1, ReleaseSound DEF AttemptSound, StepRules, NewlyPlayed
<1>5. CASE Tick(time)
  <2>1. attempt' = Update(attempt, time)
    BY <1>5 DEF Tick
  <2>2. QED
    BY <1>2, <2>1, UpdateSound DEF AttemptSound, StepRules, NewlyPlayed, NothingPlayed
<1>6. QED
  BY <1>1, <1>3, <1>4, <1>5

\* Every reachable attempt is sound.
THEOREM AttemptIsSound == Spec => []AttemptSound
<1>1. Init => AttemptSound
  BY NewAttemptSound DEF Init, AttemptSound
<1>2. AttemptSound /\ [Next]_attempt => AttemptSound'
  BY NextSound DEF AttemptSound
<1>3. QED
  BY <1>1, <1>2, PTL DEF Spec

\* The attempt always has its type: indices stay in range, counters natural.
THEOREM TypeCorrect == Spec => []TypeOK
<1>1. AttemptSound => TypeOK
  BY DEF AttemptSound, Sound, TypeOK
<1>2. QED
  BY <1>1, AttemptIsSound, PTL

\* No hold is ever left open without its key: the lane of a hold whose head is
\* judged and whose tail is open is down and attached to it.
THEOREM OpenHoldsStayAttached == Spec => []OpenHoldAttached
<1>1. AttemptSound => OpenHoldAttached
  BY DEF AttemptSound, Sound, HoldsAttached, OpenHoldAttached
<1>2. QED
  BY <1>1, AttemptIsSound, PTL

\* A key's target is always a played note of its own lane, and only a key that
\* is down has one.
THEOREM TargetsStayHits == Spec => []TargetsAreHits
<1>1. AttemptSound => TargetsAreHits
  BY DEF AttemptSound, Sound, TargetsOwned, TargetsAreHits
<1>2. QED
  BY <1>1, AttemptIsSound, PTL

\* The passed index never passes an open head.
THEOREM PassedStayJudged == Spec => []PassedAreJudged
<1>1. AttemptSound => PassedAreJudged
  BY DEF AttemptSound, Sound, PassedJudged, PassedAreJudged
<1>2. QED
  BY <1>1, AttemptIsSound, PTL

\* However far time skips, after a call no judgement is overdue at the latest
\* time the attempt has heard of.
THEOREM NothingIsOverdue == Spec => []NothingOverdue
<1>1. AttemptSound => NothingOverdue
  BY DEF AttemptSound, Sound, Timely, NothingOverdue
<1>2. QED
  BY <1>1, AttemptIsSound, PTL

\* No call ever rewrites or withdraws a judgement.
THEOREM JudgementsStayFinal == Spec => JudgementsAreFinal
<1>1. AttemptSound /\ [Next]_attempt =>
        [\A i \in Hits :
           /\ attempt.head[i].done => attempt'.head[i] = attempt.head[i]
           /\ attempt.tail[i].done => attempt'.tail[i] = attempt.tail[i]]_attempt
  BY NextSound DEF StepRules, Final
<1>2. QED
  BY <1>1, AttemptIsSound, PTL DEF Spec, JudgementsAreFinal

\* A head is played only in the step that takes its key down, one per step.
THEOREM OnePressPlaysOneHead == Spec => OnePressOneHead
<1>1. AttemptSound /\ [Next]_attempt =>
        [\A i \in Hits : NewlyPlayed(i) =>
           /\ Chart[i].key \in attempt'.held \ attempt.held
           /\ \A j \in Hits : NewlyPlayed(j) => j = i]_attempt
  BY NextSound DEF StepRules
<1>2. QED
  BY <1>1, AttemptIsSound, PTL DEF Spec, OnePressOneHead

\* A tail is played only in the step that lets its key go.
THEOREM OneReleasePlaysOneTail == Spec => OneReleaseOneTail
<1>1. AttemptSound /\ [Next]_attempt =>
        [\A i \in Hits : ~attempt.tail[i].done /\ attempt'.tail[i].played =>
           Chart[i].key \in attempt.held \ attempt'.held]_attempt
  BY NextSound DEF StepRules
<1>2. QED
  BY <1>1, AttemptIsSound, PTL DEF Spec, OneReleaseOneTail

-----------------------------------------------------------------------------
(* Which note a press plays *)

\* If the key goes down and is attached to nothing, no open note was in reach.
LEMMA EmptyPressStep ==
  ASSUME AttemptSound, NEW k \in Keys, NEW time \in Times, PressKey(k, time),
         k \in attempt'.held \ attempt.held, attempt'.target[k] = None,
         NEW i \in Hits, Chart[i].key = k, ~attempt'.head[i].done
  PROVE  Abs(time - Chart[i].time) > BadWindow
<1> DEFINE u == Update(attempt, time)
           C == Candidates(u, k, time)
           c == ChosenHit(C, time)
<1>1. Sound(attempt) /\ time \in Int /\ attempt' = Press(attempt, k, time) /\ k \notin attempt.held
  BY CallsAssumption DEF AttemptSound, PressKey
<1>2. PressOutcome(attempt, k, time, u, C, c, attempt')
  BY <1>1, PressResult
<1>3. Sound(u) /\ u.latest \in Int /\ time <= u.latest =>
        (i \in C <=> Chart[i].key = k /\ ~u.head[i].done /\ Scored(i, time) # "NONE")
  BY <1>1, CandidatesAre
<1> HIDE DEF u, C, c
<1>4. C = {}
  <2>1. \A j \in C : j # None
    BY <1>2, NoneAssumption DEF PressOutcome, Hits
  <2>2. QED
    BY <1>2, <2>1 DEF PressOutcome
<1>5. Scored(i, time) = "NONE"
  BY <1>2, <1>3, <1>4 DEF PressOutcome
<1>6. QED
  BY <1>1, <1>5, ScoredDef

\* What the note that a press newly plays says about the open notes of its lane.
LEMMA SelectionOfPress ==
  ASSUME NEW a, Sound(a), NEW key \in Nat, NEW time \in Int,
         NEW i \in Hits, ~a.head[i].done, Press(a, key, time).head[i].played
  PROVE  LET b == Press(a, key, time)
         IN  /\ time = Chart[i].time + b.head[i].err
             /\ b.head[i].score = Scored(i, time)
             /\ \A j \in Hits : Chart[j].key = Chart[i].key /\ ~b.head[j].done =>
                  /\ j < i => Scored(j, time) = "BAD" /\ Scored(i, time) # "BAD"
                  /\ Scored(i, time) = "BAD" => Scored(j, time) \in {"BAD", "NONE"}
<1> DEFINE u == Update(a, time)
           C == Candidates(u, key, time)
           c == ChosenHit(C, time)
           b == Press(a, key, time)
<1>1. Presses(a, key)
  BY DEF Press, Sound, HalvesInOrder
<1>2. key \in Keys /\ key \notin a.held
  BY <1>1 DEF Presses
<1>3. PressOutcome(a, key, time, u, C, c, b)
  BY <1>2, PressResult
<1>4. Sound(u) /\ u.latest \in Int /\ time <= u.latest =>
        \A j \in Hits : j \in C <=>
          Chart[j].key = key /\ ~u.head[j].done /\ Scored(j, time) # "NONE"
  BY <1>2, CandidatesAre
<1>5. C \subseteq Hits /\ C # {} =>
        /\ \A j \in C : j < c => Scored(j, time) = "BAD" /\ Scored(c, time) # "BAD"
        /\ Scored(c, time) = "BAD" => \A j \in C : Scored(j, time) = "BAD"
  BY ChosenIs
<1>6. u.head \in [Hits -> Judgement]
  BY <1>3 DEF PressOutcome, Sound, AttemptState
<1>7. \A j \in Hits : Chart[j].time \in Int /\ BadWindow \in Nat
  BY ChartAssumption, PastDef DEF Hit
<1> HIDE DEF u, C, c, b
<1>8. C # {} /\ i = c
  <2>1. ~u.head[i].played
    BY <1>3 DEF PressOutcome, NothingPlayed
  <2>2. b.head[i].played
    BY DEF b
  <2>3. QED
    BY <1>3, <1>6, <2>1, <2>2 DEF PressOutcome
<1>9. b.head[i] = Played(time - Chart[i].time, FALSE)
  BY <1>3, <1>6, <1>8 DEF PressOutcome
<1>10. i \in C /\ Chart[i].key = key /\ Scored(i, time) # "NONE"
  BY <1>3, <1>4, <1>8 DEF PressOutcome
<1>11. b.head[i].err = time - Chart[i].time /\ b.head[i].score = Scored(i, time)
  BY <1>9, <1>10 DEF Played, PlayedScore, Scored
<1>12. ASSUME NEW j \in Hits, Chart[j].key = key, ~b.head[j].done
       PROVE  /\ j < i => Scored(j, time) = "BAD" /\ Scored(i, time) # "BAD"
              /\ Scored(i, time) = "BAD" => Scored(j, time) \in {"BAD", "NONE"}
  <2>1. ~u.head[j].done
    <3>1. j # i
      <4>1. time - Chart[i].time \in Int
        BY <1>7
      <4>2. Played(time - Chart[i].time, FALSE).done
        BY <4>1, PlayedType
      <4>3. QED
        BY <1>9, <1>12, <4>2
    <3>2. QED
      BY <1>3, <1>6, <1>8, <1>12, <3>1 DEF PressOutcome
  <2>2. j \in C <=> Scored(j, time) # "NONE"
    BY <1>3, <1>4, <1>12, <2>1 DEF PressOutcome
  \* An earlier open note cannot be out of reach while a later one is in it.
  <2>3. j < i => Scored(j, time) # "NONE"
    <3> SUFFICES ASSUME j < i  PROVE Scored(j, time) # "NONE"
      OBVIOUS
    <3>1. Chart[j].time <= Chart[i].time
      BY ChartAssumption DEF Hits
    <3>2. Chart[i].time - time <= BadWindow
      BY <1>7, <1>10, ScoredDef
    <3>3. time - Chart[j].time <= BadWindow
      <4>1. u.latest <= Chart[j].time + BadWindow
        BY <1>3, <2>1, NoneAssumption DEF PressOutcome, Sound, Timely
      <4>2. QED
        BY <1>3, <1>7, <4>1 DEF PressOutcome
    <3>4. QED
      BY <1>7, <3>1, <3>2, <3>3, ScoredDef
  <2>4. QED
    BY <1>3, <1>5, <1>8, <2>2, <2>3 DEF PressOutcome
<1>13. time = Chart[i].time + b.head[i].err
  BY <1>7, <1>11
<1>14. QED
  BY <1>10, <1>11, <1>12, <1>13 DEF b

-----------------------------------------------------------------------------
(* Theorems on presses *)

\* A press that plays nothing had nothing in reach: on every chart, neither break
\* of the scan of press hides a note.
THEOREM EmptyPressesHaveNoNote == Spec => EmptyPressHasNoNote
<1>1. AttemptSound /\ [Next]_attempt =>
        [\A k \in Keys, time \in Times :
           /\ PressKey(k, time)
           /\ k \in attempt'.held \ attempt.held
           /\ attempt'.target[k] = None
           => \A i \in Hits : Chart[i].key = k /\ ~attempt'.head[i].done =>
                Abs(time - Chart[i].time) > BadWindow]_attempt
  BY EmptyPressStep
<1>2. QED
  BY <1>1, AttemptIsSound, PTL DEF Spec, EmptyPressHasNoNote

\* Which note a step plays, as NoteSelection of Attempt says it.
SelectionRule ==
  \A i \in Hits : NewlyPlayed(i) =>
    LET time == Chart[i].time + attempt'.head[i].err
        scored(j) == ScoreFor(Abs(time - Chart[j].time), HitAccuracy, FALSE)
        open == {j \in Hits : Chart[j].key = Chart[i].key /\ ~attempt'.head[j].done}
    IN  \A j \in open :
          /\ j < i => scored(j) = "BAD" /\ attempt'.head[i].score # "BAD"
          /\ attempt'.head[i].score = "BAD" => scored(j) \in {"BAD", "NONE"}

\* Only a press plays a note, and it plays the one of the rule.
LEMMA NextSelects ==
  ASSUME AttemptSound, Next
  PROVE  SelectionRule
<1>1. PICK time \in Times :
        \/ \E key \in InputKeys : PressKey(key, time)
        \/ \E key \in InputKeys : ReleaseKey(key, time)
        \/ Tick(time)
  BY DEF Next
<1>2. time \in Int /\ InputKeys \subseteq Nat /\ Sound(attempt)
  BY CallsAssumption DEF AttemptSound
<1>3. CASE \E key \in InputKeys : PressKey(key, time)
  <2>1. PICK key \in InputKeys : attempt' = Press(attempt, key, time)
    BY <1>3 DEF PressKey
  <2>2. ASSUME NEW i \in Hits, NewlyPlayed(i)
        PROVE  /\ time = Chart[i].time + attempt'.head[i].err
               /\ attempt'.head[i].score = Scored(i, time)
               /\ \A j \in Hits : Chart[j].key = Chart[i].key /\ ~attempt'.head[j].done =>
                    /\ j < i => Scored(j, time) = "BAD" /\ Scored(i, time) # "BAD"
                    /\ Scored(i, time) = "BAD" => Scored(j, time) \in {"BAD", "NONE"}
    <3>1. key \in Nat /\ ~attempt.head[i].done /\ Press(attempt, key, time).head[i].played
      BY <1>2, <2>1, <2>2 DEF NewlyPlayed
    <3>2. QED
      BY <1>2, <2>1, <3>1, SelectionOfPress
  <2>3. QED
    BY <2>2 DEF SelectionRule, Scored
<1>4. CASE \E key \in InputKeys : ReleaseKey(key, time)
  <2>1. PICK key \in InputKeys : attempt' = Release(attempt, key, time)
    BY <1>4 DEF ReleaseKey
  <2>2. \A i \in Hits : ~NewlyPlayed(i)
    BY <1>2, <2>1, ReleaseSound DEF NewlyPlayed
  <2>3. QED
    BY <2>2 DEF SelectionRule
<1>5. CASE Tick(time)
  <2>1. \A i \in Hits : ~NewlyPlayed(i)
    BY <1>2, <1>5, UpdateSound DEF Tick, NewlyPlayed, NothingPlayed
  <2>2. QED
    BY <2>1 DEF SelectionRule
<1>6. QED
  BY <1>1, <1>3, <1>4, <1>5

\* On every chart a press plays the earliest note better than BAD, and a BAD one
\* only when no open note of the lane would be better.
THEOREM PressesSelectRightly == Spec => NoteSelection
<1>1. AttemptSound /\ [Next]_attempt => [SelectionRule]_attempt
  BY NextSelects
<1>2. [SelectionRule]_attempt =>
        [\A i \in Hits : NewlyPlayed(i) =>
           LET time == Chart[i].time + attempt'.head[i].err
               scored(j) == ScoreFor(Abs(time - Chart[j].time), HitAccuracy, FALSE)
               open == {j \in Hits : Chart[j].key = Chart[i].key /\ ~attempt'.head[j].done}
           IN  \A j \in open :
                 /\ j < i => scored(j) = "BAD" /\ attempt'.head[i].score # "BAD"
                 /\ attempt'.head[i].score = "BAD" => scored(j) \in {"BAD", "NONE"}]_attempt
  BY DEF SelectionRule
<1>3. QED
  BY <1>1, <1>2, AttemptIsSound, PTL DEF Spec, NoteSelection

-----------------------------------------------------------------------------
(* Where misses come from *)

\* MissesAreExplained, note by note: an open head is no MISS, and a MISS is of a
\* time the attempt has heard of.
HeadExplained(a, i) ==
  /\ a.head[i].done => (a.head[i].played <=> a.head[i].score # "MISS")
  /\ ~a.head[i].done => a.head[i].score # "MISS"
  /\ a.head[i].score = "MISS" => a.latest # None /\ a.latest > Chart[i].time + BadWindow

TailExplained(a, i) ==
  /\ a.head[i].score = "MISS" /\ IsHold(i) => a.tail[i].done /\ ~a.tail[i].played
  /\ a.tail[i].played /\ a.tail[i].score = "MISS" => a.tail[i].err < -ReleaseWindow
  /\ a.tail[i].done /\ ~a.tail[i].played =>
       a.head[i].score = "MISS" \/ a.tail[i].err > ReleaseWindow

Explained(a) == \A i \in Hits : HeadExplained(a, i) /\ TailExplained(a, i)

\* Update misses a head only after its window and a tail only with its head or
\* after its own window.
LEMMA UpdateExplained ==
  ASSUME NEW a, Sound(a), Explained(a), NEW time \in Int
  PROVE  Explained(Update(a, time))
<1> DEFINE b == Update(a, time)
<1>1. a \in AttemptState
  BY DEF Sound
<1>2. /\ b.latest = LatestAt(a, time)
      /\ \A i \in Hits :
           \/ /\ b.head[i] = a.head[i]
              /\ \/ b.tail[i] = a.tail[i] /\ ~Overrun(a, i, time)
                 \/ Overrun(a, i, time) /\ b.tail[i] = Missed(time - Chart[i].endTime)
              /\ \/ a.head[i].done \/ i < a.passed \/ ~HeadIsPast(i, time)
           \/ /\ b.head[i] = Missed(0) /\ ~a.head[i].done /\ HeadIsPast(i, time)
              /\ IF IsHold(i) /\ ~a.tail[i].done THEN b.tail[i] = Missed(0)
                 ELSE b.tail[i] = a.tail[i]
  BY <1>1, UpdateResult
<1>3. Sound(b)
  BY UpdateSound
<1> HIDE DEF b
<1>4. /\ b.latest \in Int /\ b.latest # None /\ time <= b.latest
      /\ a.latest # None => a.latest \in Int /\ a.latest <= b.latest
  BY <1>1, <1>2, NoneAssumption DEF LatestAt, MaxOf, AttemptState
<1>5. ASSUME NEW i \in Hits  PROVE HeadExplained(b, i) /\ TailExplained(b, i)
  <2>1. /\ BadWindow \in Nat /\ ReleaseWindow \in Nat
        /\ HeadIsPast(i, time) <=> time > Chart[i].time + BadWindow
        /\ TailIsPast(i, time) <=> time > Chart[i].endTime + ReleaseWindow
    BY PastDef
  <2>2. Chart[i].time \in Int /\ Chart[i].endTime \in Int
    BY ChartAssumption DEF Hit
  <2>3. HeadExplained(a, i) /\ TailExplained(a, i)
    BY DEF Explained
  <2>4. CASE b.head[i] = a.head[i]
    <3>1. HeadExplained(b, i)
      BY <1>4, <2>1, <2>2, <2>3, <2>4 DEF HeadExplained
    <3>2. CASE b.tail[i] = a.tail[i]
      BY <2>3, <2>4, <3>1, <3>2 DEF TailExplained
    <3>3. CASE Overrun(a, i, time) /\ b.tail[i] = Missed(time - Chart[i].endTime)
      <4>1. IsHold(i) /\ ~a.tail[i].done /\ TailIsPast(i, time)
        BY <3>3 DEF Overrun
      <4>2. b.tail[i].err > ReleaseWindow /\ b.tail[i].done /\ ~b.tail[i].played
        BY <2>1, <2>2, <3>3, <4>1 DEF Missed
      <4>3. QED
        BY <2>3, <2>4, <3>1, <4>1, <4>2 DEF TailExplained
    <3>4. b.tail[i] = a.tail[i] \/ (Overrun(a, i, time) /\ b.tail[i] = Missed(time - Chart[i].endTime))
      BY <1>2, <2>4, MissedType
    <3>5. QED
      BY <3>1, <3>2, <3>3, <3>4
  <2>5. CASE /\ b.head[i] = Missed(0) /\ ~a.head[i].done /\ HeadIsPast(i, time)
             /\ IF IsHold(i) /\ ~a.tail[i].done THEN b.tail[i] = Missed(0)
                ELSE b.tail[i] = a.tail[i]
    <3>1. b.head[i].done /\ ~b.head[i].played /\ b.head[i].score = "MISS"
      BY <2>5 DEF Missed
    <3>2. b.latest > Chart[i].time + BadWindow
      BY <1>4, <2>1, <2>2, <2>5
    <3>3. HeadExplained(b, i)
      BY <1>4, <3>1, <3>2 DEF HeadExplained
    <3>4. ~a.tail[i].done /\ ~a.tail[i].played
      BY <2>5 DEF Sound, HalvesInOrder
    <3>5. IsHold(i) => b.tail[i].done /\ ~b.tail[i].played
      BY <2>5, <3>4 DEF Missed
    <3>6. ~IsHold(i) => ~b.tail[i].done /\ ~b.tail[i].played
      BY <2>5, <3>4
    <3>7. QED
      BY <3>1, <3>3, <3>5, <3>6 DEF TailExplained
  <2>6. QED
    BY <1>2, <2>4, <2>5
<1>6. QED
  BY <1>5 DEF Explained, b

\* A press plays a note inside its window, so what it plays is no MISS.
LEMMA PressExplained ==
  ASSUME NEW a, Sound(a), Explained(a), NEW key \in Nat, NEW time \in Int
  PROVE  Explained(Press(a, key, time))
<1> DEFINE u == Update(a, time)
           C == Candidates(u, key, time)
           c == ChosenHit(C, time)
           b == Press(a, key, time)
<1>1. CASE ~Presses(a, key)
  BY <1>1 DEF Press
<1>2. CASE Presses(a, key)
  <2>1. key \in Keys /\ key \notin a.held
    BY <1>2 DEF Presses
  <2>2. PressOutcome(a, key, time, u, C, c, b)
    BY <2>1, PressResult
  <2>3. Explained(u)
    BY UpdateExplained
  <2>4. Sound(u) /\ u.latest \in Int /\ time <= u.latest =>
          \A j \in Hits : j \in C <=>
            Chart[j].key = key /\ ~u.head[j].done /\ Scored(j, time) # "NONE"
    BY <2>1, CandidatesAre
  <2> HIDE DEF u, C, c, b
  <2>5. Sound(u) /\ u.head \in [Hits -> Judgement]
    BY <2>2 DEF PressOutcome, Sound, AttemptState
  <2>6. CASE C = {}
    <3>1. b.head = u.head /\ b.tail = u.tail /\ b.latest = u.latest
      BY <2>2, <2>6 DEF PressOutcome
    <3>2. Explained(b)
      BY <2>3, <3>1 DEF Explained, HeadExplained, TailExplained
    <3>3. QED
      BY <3>2 DEF b
  <2>7. CASE C # {}
    <3>1. /\ c \in Hits /\ b.head = [u.head EXCEPT ![c] = Played(time - Chart[c].time, FALSE)]
          /\ b.tail = u.tail /\ b.latest = u.latest
      BY <2>2, <2>7 DEF PressOutcome
    <3>2. ~u.head[c].done /\ Scored(c, time) # "NONE"
      BY <2>2, <2>4, <2>7, <3>1 DEF PressOutcome
    <3>3. b.head[c] = Played(time - Chart[c].time, FALSE)
      BY <2>5, <3>1
    <3>4. b.head[c].done /\ b.head[c].played /\ b.head[c].score = Scored(c, time)
      BY <3>2, <3>3 DEF Played, PlayedScore, Scored
    <3>5. Scored(c, time) # "MISS"
      <4>1. Scored(c, time) \in TimedHitScores
        BY <3>1, <3>2, ScoredDef
      <4>2. QED
        BY <4>1 DEF TimedHitScores
    <3>6. ~u.tail[c].done /\ ~u.tail[c].played
      BY <2>5, <3>1, <3>2 DEF Sound, HalvesInOrder
    <3>7. \A i \in Hits : i # c => b.head[i] = u.head[i]
      BY <2>5, <3>1
    <3>8. ASSUME NEW i \in Hits  PROVE HeadExplained(b, i) /\ TailExplained(b, i)
      <4>1. CASE i = c
        BY <3>1, <3>4, <3>5, <3>6, <4>1 DEF HeadExplained, TailExplained
      <4>2. CASE i # c
        <5>1. b.head[i] = u.head[i]
          BY <3>7, <4>2
        <5>2. QED
          BY <2>3, <3>1, <5>1 DEF Explained, HeadExplained, TailExplained
      <4>3. QED
        BY <4>1, <4>2
    <3>9. QED
      BY <3>8 DEF Explained, b
  <2>8. QED
    BY <2>6, <2>7
<1>3. QED
  BY <1>1, <1>2

\* A release outside every window is early: held longer, the tail of the hold
\* would have been judged by the update at the start of the release.
LEMMA EarlyTail ==
  ASSUME NEW u, Sound(u), NEW time \in Int, u.latest \in Int, time <= u.latest,
         NEW i \in Hits, IsHold(i), ~u.tail[i].done,
         PlayedScore(time - Chart[i].endTime, TRUE) = "MISS"
  PROVE  time - Chart[i].endTime < -ReleaseWindow
<1> DEFINE err == time - Chart[i].endTime
<1>1. Chart[i].endTime \in Int /\ HitAccuracy \in Nat /\ ReleaseWindow \in Nat
  BY ChartAssumption, PastDef DEF Hit
<1>2. u.latest <= Chart[i].endTime + ReleaseWindow
  BY NoneAssumption DEF Sound, Timely
<1>3. err \in Int /\ err <= ReleaseWindow
  BY <1>1, <1>2
<1>4. Abs(err) \in Int
  BY <1>3 DEF Abs
<1>5. PlayedScore(err, TRUE) = "MISS"
  OBVIOUS
<1> HIDE DEF err
<1>6. ScoreFor(Abs(err), HitAccuracy, TRUE) = "NONE"
  <2>1. ScoreFor(Abs(err), HitAccuracy, TRUE) \in TimedHitScores \union {"NONE"}
    BY <1>1, <1>4, ScoreForDef
  <2>2. QED
    BY <1>5, <2>1 DEF PlayedScore, TimedHitScores
<1>7. Abs(err) > ReleaseWindow
  BY <1>1, <1>4, <1>6, ScoreForDef DEF ReleaseWindow
<1>8. err < -ReleaseWindow
  BY <1>1, <1>3, <1>7 DEF Abs
<1>9. QED
  BY <1>8 DEF err

\* A release explains the tail it plays and leaves every other judgement alone.
LEMMA ReleaseExplained ==
  ASSUME NEW a, Sound(a), Explained(a), NEW key \in Nat, NEW time \in Int
  PROVE  Explained(Release(a, key, time))
<1> DEFINE u == Update(a, time)
           c == LetGo(u, key)
           i == u.target[key]
           err == time - Chart[i].endTime
           b == Release(a, key, time)
<1>1. CASE key \notin Keys \/ key \notin a.held
  BY <1>1 DEF Release
<1>2. CASE key \in Keys /\ key \in a.held
  <2>1. /\ Sound(u) /\ u.latest \in Int /\ time <= u.latest /\ Explained(u)
    BY UpdateSound, UpdateHears, UpdateExplained
  <2>2. b = IF i # None /\ IsHold(i) THEN ScoreTail(c, i, err) ELSE c
    BY <1>2 DEF Release
  <2> HIDE DEF u
  <2>3. /\ c \in AttemptState
        /\ c.head = u.head /\ c.tail = u.tail /\ c.latest = u.latest
    BY <1>2, <2>1 DEF LetGo, Sound, AttemptState
  <2>4. Explained(c)
    BY <2>1, <2>3 DEF Explained, HeadExplained, TailExplained
  <2>5. CASE ~(i # None /\ IsHold(i))
    BY <2>2, <2>4, <2>5
  <2>6. CASE i # None /\ IsHold(i)
    <3>1. i \in Hits
      BY <1>2, <2>1, <2>6 DEF Sound, AttemptState
    <3>2. u.head[i].played /\ u.head[i].done
      BY <1>2, <2>1, <2>6, <3>1 DEF Sound, TargetsOwned, HalvesInOrder
    <3>3. b = ScoreTail(c, i, err)
      BY <2>2, <2>6
    <3>4. err \in Int
      BY <3>1, ChartAssumption DEF Hit
    <3>5. ~u.tail[i].done /\ PlayedScore(err, TRUE) = "MISS" => err < -ReleaseWindow
      BY <2>1, <2>6, <3>1, EarlyTail
    <3> HIDE DEF c, i, b, err
    <3>6. /\ b.tail = IF c.tail[i].done THEN c.tail
                      ELSE [c.tail EXCEPT ![i] = Played(err, TRUE)]
          /\ b.head = c.head /\ b.latest = c.latest
      <4> DEFINE e == ScoreTail(c, i, err)
      <4>1. /\ e.tail = IF c.tail[i].done THEN c.tail
                        ELSE [c.tail EXCEPT ![i] = Played(err, TRUE)]
            /\ e.head = c.head /\ e.latest = c.latest
        BY <2>3, <3>1, <3>4, ScoreTailResult
      <4>2. QED
        BY <3>3, <4>1
    <3>7. CASE u.tail[i].done
      <4>1. b.head = u.head /\ b.tail = u.tail /\ b.latest = u.latest
        BY <2>3, <3>6, <3>7
      <4>2. Explained(b)
        BY <2>1, <4>1 DEF Explained, HeadExplained, TailExplained
      <4>3. QED
        BY <4>2 DEF b
    <3>8. CASE ~u.tail[i].done
      <4>1. u.tail \in [Hits -> Judgement]
        BY <2>1 DEF Sound, AttemptState
      <4>2. /\ b.tail[i] = Played(err, TRUE)
            /\ \A h \in Hits : h # i => b.tail[h] = u.tail[h]
        BY <2>3, <3>1, <3>6, <3>8, <4>1
      <4>3. /\ b.tail[i].done /\ b.tail[i].played
            /\ b.tail[i].score = PlayedScore(err, TRUE) /\ b.tail[i].err = err
        BY <4>2 DEF Played
      <4>4. HeadExplained(u, i) /\ u.head[i].score # "MISS"
        BY <2>1, <3>1, <3>2 DEF Explained, HeadExplained
      <4>5. b.head = u.head /\ b.latest = u.latest
        BY <2>3, <3>6
      <4>6. ASSUME NEW h \in Hits  PROVE HeadExplained(b, h) /\ TailExplained(b, h)
        <5>1. HeadExplained(b, h)
          BY <2>1, <4>5 DEF Explained, HeadExplained
        <5>2. CASE h = i
          <6>1. TailExplained(b, i)
            BY <3>5, <3>8, <4>3, <4>4, <4>5 DEF TailExplained
          <6>2. QED
            BY <5>1, <5>2, <6>1
        <5>3. CASE h # i
          <6>1. b.tail[h] = u.tail[h]
            BY <4>2, <5>3
          <6>2. TailExplained(u, h)
            BY <2>1 DEF Explained
          <6>3. QED
            BY <4>5, <5>1, <6>1, <6>2 DEF TailExplained
        <5>4. QED
          BY <5>2, <5>3
      <4>7. QED
        BY <4>6 DEF Explained, b
    <3>9. QED
      BY <3>7, <3>8
  <2>7. QED
    BY <2>5, <2>6
<1>3. QED
  BY <1>1, <1>2

\* Every miss of every reachable attempt is explained: a head is missed only when
\* its window has passed, and then with its tail; a tail let go is missed only
\* when it was early, and one never let go only with its head or by the overrun.
THEOREM MissesStayExplained == Spec => []MissesAreExplained
<1>1. Init => Explained(attempt)
  <2>1. \A i \in Hits :
          /\ ~NewAttempt.head[i].done /\ NewAttempt.head[i].score = "NONE"
          /\ ~NewAttempt.tail[i].done /\ ~NewAttempt.tail[i].played
    BY DEF NewAttempt, Unjudged
  <2>2. Explained(NewAttempt)
    BY <2>1 DEF Explained, HeadExplained, TailExplained
  <2>3. QED
    BY <2>2 DEF Init
<1>2. AttemptSound /\ Explained(attempt) /\ [Next]_attempt => Explained(attempt)'
  <2> SUFFICES ASSUME AttemptSound, Explained(attempt), Next
               PROVE  Explained(attempt')
    OBVIOUS
  <2>1. PICK time \in Times :
          \/ \E key \in InputKeys : PressKey(key, time)
          \/ \E key \in InputKeys : ReleaseKey(key, time)
          \/ Tick(time)
    BY DEF Next
  <2>2. time \in Int /\ InputKeys \subseteq Nat /\ Sound(attempt)
    BY CallsAssumption DEF AttemptSound
  <2>3. CASE \E key \in InputKeys : PressKey(key, time)
    BY <2>2, <2>3, PressExplained DEF PressKey
  <2>4. CASE \E key \in InputKeys : ReleaseKey(key, time)
    BY <2>2, <2>4, ReleaseExplained DEF ReleaseKey
  <2>5. CASE Tick(time)
    BY <2>2, <2>5, UpdateExplained DEF Tick
  <2>6. QED
    BY <2>1, <2>3, <2>4, <2>5
<1>3. AttemptSound /\ Explained(attempt) => MissesAreExplained
  <2> SUFFICES ASSUME Sound(attempt), Explained(attempt)
               PROVE  MissesAreExplained
    BY DEF AttemptSound
  <2>1. \A i \in Hits : HeadExplained(attempt, i) /\ TailExplained(attempt, i)
    BY DEF Explained
  <2>2. \A i \in Hits : attempt.tail[i].done => IsHold(i) /\ attempt.head[i].done
    BY DEF Sound, HalvesInOrder
  <2>3. QED
    BY <2>1, <2>2 DEF MissesAreExplained, HeadExplained, TailExplained
<1>4. QED
  BY <1>1, <1>2, <1>3, AttemptIsSound, PTL DEF Spec
-----------------------------------------------------------------------------
(* The counters of every reachable attempt *)

AttemptCounted == Counted(attempt)

\* Every reachable attempt's counters count its judgements.
THEOREM AttemptIsCounted == Spec => []AttemptCounted
<1>1. Init => AttemptCounted
  BY NewAttemptCounted DEF Init, AttemptCounted
<1>2. AttemptCounted /\ [Next]_attempt => AttemptCounted'
  <2> SUFFICES ASSUME Counted(attempt), Next
               PROVE  Counted(attempt')
    BY DEF AttemptCounted
  <2>1. PICK time \in Times :
          \/ \E key \in InputKeys : PressKey(key, time)
          \/ \E key \in InputKeys : ReleaseKey(key, time)
          \/ Tick(time)
    BY DEF Next
  <2>2. time \in Int /\ InputKeys \subseteq Nat
    BY CallsAssumption
  <2>3. CASE \E key \in InputKeys : PressKey(key, time)
    BY <2>2, <2>3, PressCounted DEF PressKey
  <2>4. CASE \E key \in InputKeys : ReleaseKey(key, time)
    BY <2>2, <2>4, ReleaseCounted DEF ReleaseKey
  <2>5. CASE Tick(time)
    BY <2>2, <2>5, UpdateCounted DEF Tick
  <2>6. QED
    BY <2>1, <2>3, <2>4, <2>5
<1>3. QED
  BY <1>1, <1>2, PTL DEF Spec

\* On every chart the combo shown is the unbroken run it claims to be: without a
\* MISS it counts every judgement, and the best combo never more than the rest.
THEOREM CombosAreHonest == Spec => []ComboRule
<1>1. AttemptCounted => ComboRule
  BY DEF AttemptCounted, Counted, ComboOk, ComboRule
<1>2. QED
  BY <1>1, AttemptIsCounted, PTL

\* The invariant's sums are those TallyAgrees writes out.
LEMMA SumOfCounts ==
  ASSUME NEW counts \in [JudgedScores -> Nat]
  PROVE  SumOver(counts, JudgedScores) = MapThenSumSet(LAMBDA s : counts[s], JudgedScores)
BY Zenon DEF SumOver

(* The weighted count of the scores as a sum over them.                    *)
LEMMA SumOfPoints ==
  ASSUME NEW counts \in [JudgedScores -> Nat]
  PROVE  SumOver(Points(counts), JudgedScores) =
           MapThenSumSet(LAMBDA s : counts[s] * HitScoreAcc[s], JudgedScores)
<1> DEFINE S == JudgedScores
           pick(s) == CHOOSE x \in s : TRUE
           F(f) == [s \in SUBSET S |-> IF s = {} THEN 0
                      ELSE counts[pick(s)] * HitScoreAcc[pick(s)] + f[s \ {pick(s)}]]
           G(f) == [s \in SUBSET S |-> IF s = {} THEN 0
                      ELSE Points(counts)[pick(s)] + f[s \ {pick(s)}]]
           h == CHOOSE f : f = F(f)
<1>1. MapThenSumSet(LAMBDA s : counts[s] * HitScoreAcc[s], S) = h[S]
  BY Zenon DEF MapThenSumSet, MapThenFoldSet
<1>2. \A s : s # {} => pick(s) \in s
  OBVIOUS
<1>3. \A f : Iterates(f, Points(counts), S) <=> f = G(f)
  BY Zenon DEF Iterates
<1>4. \A f : F(f) = G(f)
  <2> HIDE DEF pick
  <2>1. \A s \in SUBSET S : s # {} =>
          Points(counts)[pick(s)] = counts[pick(s)] * HitScoreAcc[pick(s)]
    BY <1>2 DEF Points
  <2>2. QED
    BY <2>1
<1> HIDE DEF F, G
<1>5. IsFiniteSet(S) /\ \A s \in S : Points(counts)[s] \in Int
  BY ScoresFinite, PointsType
<1>6. \E f : f = F(f)
  BY <1>3, <1>4, <1>5, SumIterated
<1>7. h = F(h)
  BY <1>6
<1> HIDE DEF h, S
<1>8. Iterates(h, Points(counts), S)
  BY <1>3, <1>4, <1>7
<1>9. SumOver(Points(counts), S) = h[S]
  BY <1>5, <1>8, SumIterated
<1>10. QED
  BY <1>1, <1>9 DEF S

(* The errors of some halves as a sum over them.                           *)
LEMMA SumOfErrors ==
  ASSUME NEW halves \in [Hits -> Judgement], NEW S \in SUBSET Hits
  PROVE  SumOver(Errors(halves), S) = MapThenSumSet(LAMBDA i : halves[i].err, S)
<1> DEFINE pick(s) == CHOOSE x \in s : TRUE
           F(f) == [s \in SUBSET S |-> IF s = {} THEN 0
                      ELSE halves[pick(s)].err + f[s \ {pick(s)}]]
           G(f) == [s \in SUBSET S |-> IF s = {} THEN 0
                      ELSE Errors(halves)[pick(s)] + f[s \ {pick(s)}]]
           h == CHOOSE f : f = F(f)
<1>1. MapThenSumSet(LAMBDA i : halves[i].err, S) = h[S]
  BY Zenon DEF MapThenSumSet, MapThenFoldSet
<1>2. \A s : s # {} => pick(s) \in s
  OBVIOUS
<1>3. \A f : Iterates(f, Errors(halves), S) <=> f = G(f)
  BY Zenon DEF Iterates
<1>4. \A f : F(f) = G(f)
  <2> HIDE DEF pick
  <2>1. \A s \in SUBSET S : s # {} => Errors(halves)[pick(s)] = halves[pick(s)].err
    BY <1>2 DEF Errors
  <2>2. QED
    BY <2>1
<1> HIDE DEF F, G
<1>5. IsFiniteSet(S) /\ \A i \in S : Errors(halves)[i] \in Int
  BY HitsFinite DEF Errors, Judgement
<1>6. \E f : f = F(f)
  BY <1>3, <1>4, <1>5, SumIterated
<1>7. h = F(h)
  BY <1>6
<1> HIDE DEF h
<1>8. Iterates(h, Errors(halves), S)
  BY <1>3, <1>4, <1>7
<1>9. SumOver(Errors(halves), S) = h[S]
  BY <1>5, <1>8, SumIterated
<1>10. QED
  BY <1>1, <1>9

\* On every chart the counters shown in play are the recount over the judged hits
\* that the result screen and the server make.
THEOREM TalliesAgree == Spec => []TallyAgrees
<1>1. AttemptCounted => TallyAgrees
  <2> DEFINE a == attempt
  <2> SUFFICES ASSUME AttemptCounted PROVE TallyAgrees
    OBVIOUS
  <2>1. a \in AttemptState /\ TotalsOk(a) /\ TimingOk(a)
    BY DEF AttemptCounted, Counted, ComboOk, TallyOk, Behind
  <2>2. a.counts \in [JudgedScores -> Nat] /\ a.head \in [Hits -> Judgement]
    BY <2>1 DEF AttemptState
  <2>3. \A s \in JudgedScores :
          a.counts[s] = Cardinality(HeadsWith(s)) + Cardinality(TailsWith(s))
    <3> TAKE s \in JudgedScores
    <3>1. JudgedCount(a, s) = a.counts[s] + (IF s = "MISS" THEN 0 ELSE 0)
      BY DEF AttemptCounted, Counted, TallyOk, Behind
    <3>2. JudgedCount(a, s) = Cardinality(HeadsWith(s)) + Cardinality(TailsWith(s))
      BY DEF JudgedCount, JudgedAs, HeadsWith, TailsWith
    <3>3. QED
      BY <2>2, <3>1, <3>2
  <2>4. PlayedOf(a.head) = PlayedHeads /\ PlayedHeads \in SUBSET Hits
    BY DEF PlayedOf, PlayedHeads
  <2>5. /\ a.nScored = MapThenSumSet(LAMBDA s : a.counts[s], JudgedScores)
        /\ a.totalScore = MapThenSumSet(LAMBDA s : a.counts[s] * HitScoreAcc[s], JudgedScores)
    BY <2>1, <2>2, SumOfCounts, SumOfPoints, Zenon DEF TotalsOk
  <2>6. /\ a.nTimed = Cardinality(PlayedHeads)
        /\ a.totalErr = MapThenSumSet(LAMBDA i : a.head[i].err, PlayedHeads)
    BY <2>1, <2>2, <2>4, SumOfErrors, Zenon DEF TimingOk
  <2>7. QED
    BY <2>3, <2>5, <2>6, Zenon DEF TallyAgrees
<1>2. QED
  BY <1>1, AttemptIsCounted, PTL
=============================================================================
