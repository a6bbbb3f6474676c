--------------------------- MODULE ScenePlayProofs ---------------------------
(***************************************************************************)
(* What holds of every play: however the player pauses, waits and restarts *)
(* and however the clock is corrected, the attempt stays sound, no lane    *)
(* sticks, a resume misses nothing and a finished play is complete; and    *)
(* when its replay agrees with it.                                         *)
(***************************************************************************)
EXTENDS ScenePlay, JudgingLemmas

-----------------------------------------------------------------------------
(* What one call does to the keys and the heads *)

\* A call at `time' judges open heads only, and misses only those out of reach.
HeadsAfter(a, b, time) ==
  \A i \in Hits :
    \/ b.head[i] = a.head[i]
    \/ /\ ~a.head[i].done /\ b.head[i].done
       /\ b.head[i].score = "MISS" => Chart[i].time + BadWindow < time

(* An update plays no head and misses those past their window.             *)
LEMMA UpdateHeads ==
  ASSUME NEW a, Sound(a), NEW time \in Int
  PROVE  HeadsAfter(a, Update(a, time), time)
<1> DEFINE b == Update(a, time)
<1>1. \A i \in Hits : \/ b.head[i] = a.head[i]
                      \/ b.head[i] = Missed(0) /\ ~a.head[i].done /\ HeadIsPast(i, time)
  BY UpdateResult DEF Sound
<1> HIDE DEF b
<1>2. \A i \in Hits : HeadIsPast(i, time) => Chart[i].time + BadWindow < time
  <2> TAKE i \in Hits
  <2>1. Chart[i].time \in Int /\ BadWindow \in Nat
    BY ChartAssumption, PastDef DEF Hit
  <2>2. QED
    BY <2>1, PastDef
<1>3. Missed(0).done
  BY DEF Missed
<1>4. HeadsAfter(a, b, time)
  BY <1>1, <1>2, <1>3 DEF HeadsAfter
<1>5. QED
  BY <1>4 DEF b

\* A press takes its key down; it misses what was past, and what it plays is in reach.
LEMMA PressKeys ==
  ASSUME NEW a, Sound(a), NEW key \in Keys, NEW time \in Int
  PROVE  /\ Press(a, key, time).held = a.held \union {key}
         /\ HeadsAfter(a, Press(a, key, time), time)
<1> DEFINE u == Update(a, time)
           C == Candidates(u, key, time)
           c == [u EXCEPT !.held = @ \union {key}, !.target[key] = None]
           i == ChosenHit(C, time)
           err == time - Chart[i].time
           d == [c EXCEPT !.target[key] = i]
           b == Press(a, key, time)
<1>1. CASE key \in a.held
  BY <1>1 DEF Press, Presses, HeadsAfter
<1>2. CASE key \notin a.held
  <2>1. PressOutcome(a, key, time, u, C, i, b)
    BY <1>2, PressResult, Zenon
  <2>2. b = IF C = {} THEN c ELSE ScoreHead(d, i, err)
    BY <1>2 DEF Press, Presses
  <2>3. HeadsAfter(a, u, time) /\ u.held = a.held
    BY UpdateHeads, UpdateSound
  <2> HIDE DEF u, i
  <2>4. /\ Sound(u) /\ u.latest \in Int /\ time <= u.latest
        /\ C \subseteq Hits
        /\ C = {} => b.head = u.head
        /\ C # {} => i \in C
                     /\ b.head = [u.head EXCEPT ![i] = Played(time - Chart[i].time, FALSE)]
    BY <2>1 DEF PressOutcome
  <2>5. c \in AttemptState /\ c.held = a.held \union {key}
    BY <2>3, <2>4 DEF Sound, AttemptState
  <2>6. b.held = a.held \union {key}
    <3>1. CASE C = {}
      BY <2>2, <2>5, <3>1
    <3>2. CASE C # {}
      <4>1. i \in Hits
        BY <2>4, <3>2
      <4>2. err \in Int
        BY <4>1, ChartAssumption DEF Hit
      <4> HIDE DEF C, c, b
      <4>3. d \in AttemptState /\ d.held = c.held
        BY <2>5, <4>1 DEF AttemptState
      <4> HIDE DEF d, err
      <4>4. ScoreHead(d, i, err).held = d.held
        BY <4>1, <4>2, <4>3, ScoreHeadResult
      <4>5. QED
        BY <2>2, <2>5, <3>2, <4>3, <4>4
    <3>3. QED
      BY <3>1, <3>2
  <2>7. HeadsAfter(a, b, time)
    <3>1. CASE C = {}
      BY <2>3, <2>4, <3>1 DEF HeadsAfter
    <3>2. CASE C # {}
      <4>1. i \in C /\ i \in Hits
        BY <2>4, <3>2
      <4>2. ~u.head[i].done /\ Scored(i, time) # "NONE"
        BY <2>4, <4>1, CandidatesAre
      <4>3. Scored(i, time) # "MISS"
        BY <4>1, <4>2, ScoredDef DEF TimedHitScores
      <4>4. Played(err, FALSE).done /\ Played(err, FALSE).score # "MISS"
        BY <4>2, <4>3 DEF Played, PlayedScore, Scored
      <4> HIDE DEF C, b, err
      <4>5. b.head[i] = Played(err, FALSE) /\ ~a.head[i].done
        <5>1. u.head \in [Hits -> Judgement]
          BY <2>4 DEF Sound, AttemptState
        <5>2. u.head[i] = a.head[i] \/ u.head[i].done
          BY <2>3, <4>1 DEF HeadsAfter
        <5>3. QED
          BY <2>4, <3>2, <4>1, <4>2, <5>1, <5>2 DEF err
      <4>6. \A j \in Hits : j # i => b.head[j] = u.head[j]
        BY <2>4, <3>2 DEF Sound, AttemptState
      <4>7. QED
        <5> SUFFICES ASSUME NEW j \in Hits
                     PROVE  \/ b.head[j] = a.head[j]
                            \/ /\ ~a.head[j].done /\ b.head[j].done
                               /\ b.head[j].score = "MISS" => Chart[j].time + BadWindow < time
          BY DEF HeadsAfter
        <5>1. CASE j = i
          BY <4>4, <4>5, <5>1
        <5>2. CASE j # i
          BY <2>3, <4>6, <5>2 DEF HeadsAfter
        <5>3. QED
          BY <5>1, <5>2
    <3>3. QED
      BY <3>1, <3>2
  <2>8. QED
    BY <2>6, <2>7
<1>3. QED
  BY <1>1, <1>2

\* A release lets its key go and misses what was past.
LEMMA ReleaseKeys ==
  ASSUME NEW a, Sound(a), NEW key \in Keys, NEW time \in Int
  PROVE  /\ Release(a, key, time).held = a.held \ {key}
         /\ HeadsAfter(a, Release(a, key, time), time)
<1> DEFINE u == Update(a, time)
           c == LetGo(u, key)
           i == u.target[key]
           err == time - Chart[i].endTime
           b == Release(a, key, time)
<1>1. CASE key \notin a.held
  BY <1>1 DEF Release, HeadsAfter
<1>2. CASE key \in a.held
  <2>1. HeadsAfter(a, u, time) /\ u.held = a.held /\ Sound(u)
    BY UpdateHeads, UpdateSound
  <2>2. b = IF i # None /\ IsHold(i) THEN ScoreTail(c, i, err) ELSE c
    BY <1>2 DEF Release
  <2> HIDE DEF u
  <2>3. c \in AttemptState /\ c.head = u.head /\ c.held = a.held \ {key}
    BY <2>1 DEF LetGo, Sound, AttemptState
  <2>4. b.head = u.head /\ b.held = a.held \ {key}
    <3>1. CASE i # None /\ IsHold(i)
      <4>1. i \in Hits
        BY <2>1, <3>1 DEF Sound, AttemptState
      <4>2. err \in Int
        BY <4>1, ChartAssumption DEF Hit
      <4> HIDE DEF c, i, err, b
      <4>3. ScoreTail(c, i, err).head = c.head /\ ScoreTail(c, i, err).held = c.held
        BY <2>3, <4>1, <4>2, ScoreTailResult
      <4>4. QED
        BY <2>2, <2>3, <3>1, <4>3
    <3>2. CASE ~(i # None /\ IsHold(i))
      BY <2>2, <2>3, <3>2
    <3>3. QED
      BY <3>1, <3>2
  <2>5. QED
    BY <2>1, <2>4 DEF HeadsAfter
<1>3. QED
  BY <1>1, <1>2

-----------------------------------------------------------------------------
(* Applying a sequence of inputs *)

InputType == [key: Keys, pressed: BOOLEAN, time: Int]

KeysAfter(held, input) ==
  IF input.pressed THEN held \union {input.key} ELSE held \ {input.key}

\* One input of a session keeps the attempt sound and moves one key.
LEMMA InputApplied ==
  ASSUME NEW a, Sound(a), NEW input \in InputType
  PROVE  LET b == ApplyInput(a, input)
         IN  /\ Sound(b) /\ Final(a, b) /\ HeadsAfter(a, b, input.time)
             /\ b.held = KeysAfter(a.held, input)
<1>1. input.key \in Keys /\ input.key \in Nat /\ input.time \in Int
  BY ChartAssumption DEF InputType, Keys
<1>2. CASE input.pressed
  BY <1>1, <1>2, PressSound, PressKeys DEF ApplyInput, KeysAfter
<1>3. CASE ~input.pressed
  BY <1>1, <1>3, ReleaseSound, ReleaseKeys DEF ApplyInput, KeysAfter
<1>4. QED
  BY <1>2, <1>3

\* run[n] is the attempt after the first n inputs.
IsRun(run, a, inputs) ==
  /\ run[0] = a
  /\ \A n \in 1 .. Len(inputs) : run[n] = ApplyInput(run[n - 1], inputs[n])

\* ApplyInputs goes through its inputs one by one, in their order.
LEMMA InputsRun ==
  ASSUME NEW a, NEW inputs \in Seq(InputType)
  PROVE  \E run : IsRun(run, a, inputs) /\ ApplyInputs(a, inputs) = run[Len(inputs)]
<1> DEFINE N == Len(inputs)
           Step(f, s) == IF s = {} THEN a ELSE ApplyInput(f[s \ {Max(s)}], inputs[Max(s)])
           Eq(f) == f = [s \in SUBSET (1 .. N) |-> Step(f, s)]
           Upto(n) == \E g : g = [s \in SUBSET (1 .. n) |-> Step(g, s)]
           T == {n \in Nat : Upto(n)}
           h == CHOOSE f : Eq(f)
<1>1. N \in Nat /\ DOMAIN inputs = 1 .. N
  OBVIOUS
<1>2. 0 \in T
  <2> DEFINE g == [s \in SUBSET (1 .. 0) |-> a]
  <2>1. \A s \in SUBSET (1 .. 0) : s = {}
    OBVIOUS
  <2>2. g = [s \in SUBSET (1 .. 0) |-> Step(g, s)]
    BY <2>1
  <2> HIDE DEF g
  <2>3. QED
    BY <2>2
<1>3. ASSUME NEW n \in Nat, n \in T PROVE n + 1 \in T
  <2>1. PICK g : g = [s \in SUBSET (1 .. n) |-> Step(g, s)]
    BY <1>3
  <2> DEFINE e == [s \in SUBSET (1 .. n + 1) |->
                     IF n + 1 \in s THEN ApplyInput(g[s \ {n + 1}], inputs[n + 1]) ELSE g[s]]
  <2>2. ASSUME NEW s \in SUBSET (1 .. n + 1)
        PROVE  e[s] = Step(e, s)
    <3>1. CASE n + 1 \in s
      <4>1. Max(s) = n + 1
        <5>1. s \subseteq 0 .. n + 1 /\ s # {} /\ n + 1 \in Nat
          BY <3>1
        <5>2. Max(s) \in s /\ \A y \in s : y <= Max(s)
          BY <5>1, MaxBelow
        <5>3. Max(s) \in 1 .. n + 1 /\ n + 1 <= Max(s)
          BY <3>1, <5>2
        <5>4. QED
          BY <5>3
      <4>2. s \ {n + 1} \in SUBSET (1 .. n + 1) /\ n + 1 \notin s \ {n + 1}
        OBVIOUS
      <4>3. e[s \ {n + 1}] = g[s \ {n + 1}]
        BY <4>2
      <4>4. e[s] = ApplyInput(g[s \ {n + 1}], inputs[n + 1])
        BY <3>1
      <4> HIDE DEF e
      <4>5. QED
        BY <3>1, <4>1, <4>3, <4>4
    <3>2. CASE n + 1 \notin s
      <4>1. s \in SUBSET (1 .. n)
        <5>1. \A x \in s : x \in 1 .. n
          BY <3>2
        <5>2. QED
          BY <5>1
      <4>2. e[s] = g[s] /\ g[s] = Step(g, s)
        BY <2>1, <3>2, <4>1
      <4>3. s \ {Max(s)} \in SUBSET (1 .. n + 1) /\ n + 1 \notin s \ {Max(s)}
        BY <3>2
      <4>4. e[s \ {Max(s)}] = g[s \ {Max(s)}]
        BY <4>3
      <4> HIDE DEF e
      <4>5. QED
        BY <4>2, <4>4
    <3>3. QED
      BY <3>1, <3>2
  <2>3. e = [s \in SUBSET (1 .. n + 1) |-> e[s]]
    OBVIOUS
  <2> HIDE DEF e
  <2>4. e = [s \in SUBSET (1 .. n + 1) |-> Step(e, s)]
    <3> HIDE DEF Step
    <3> QED
      BY <2>2, <2>3
  <2>5. Upto(n + 1)
    <3> HIDE DEF Step
    <3> QED
      BY <2>4
  <2>6. QED
    <3> HIDE DEF Upto
    <3> QED
      BY <2>5
<1>4. \A n \in Nat : n \in T
  <2> HIDE DEF T
  <2> QED
    BY <1>2, <1>3, NatInduct
<1>5. \E g : Eq(g)
  <2> HIDE DEF Step
  <2>1. Upto(N)
    BY <1>1, <1>4
  <2>2. QED
    BY <2>1
<1>6. Eq(h)
  <2> HIDE DEF Eq
  <2> QED
    BY <1>5
<1>7. ApplyInputs(a, inputs) = h[1 .. N]
  <2>1. ApplyInputs(a, inputs) =
          (CHOOSE f : f = [s \in SUBSET DOMAIN inputs |-> Step(f, s)])[DOMAIN inputs]
    BY Zenon DEF ApplyInputs, FoldLeft, MapThenFoldSet
  <2>2. QED
    BY <1>1, <2>1
<1> HIDE DEF h
<1> DEFINE run == [n \in 0 .. N |-> h[1 .. n]]
<1>8. run[0] = a
  <2>1. 1 .. 0 = {} /\ 1 .. 0 \in SUBSET (1 .. N)
    OBVIOUS
  <2>2. h[1 .. 0] = Step(h, 1 .. 0)
    <3> HIDE DEF Step
    <3> QED
      BY <1>6, <2>1
  <2>3. QED
    BY <2>1, <2>2, <1>1
<1>9. ASSUME NEW n \in 1 .. N
      PROVE  run[n] = ApplyInput(run[n - 1], inputs[n])
  <2>1. 1 .. n \in SUBSET (1 .. N) /\ 1 .. n # {} /\ 1 .. n \subseteq 0 .. n /\ n \in Nat
    <3>1. n \in Nat /\ n <= N /\ n \in 1 .. n
      BY <1>1
    <3>2. \A x \in 1 .. n : x \in 1 .. N /\ x \in 0 .. n
      BY <1>1, <3>1
    <3>3. QED
      BY <3>1, <3>2
  <2>2. Max(1 .. n) = n
    <3>1. Max(1 .. n) \in 1 .. n /\ \A y \in 1 .. n : y <= Max(1 .. n)
      BY <2>1, MaxBelow
    <3>2. n \in 1 .. n
      BY <2>1
    <3>3. QED
      BY <3>1, <3>2
  <2>3. (1 .. n) \ {n} = 1 .. (n - 1)
    BY <2>1
  <2>4. h[1 .. n] = Step(h, 1 .. n)
    <3> HIDE DEF Step
    <3> QED
      BY <1>6, <2>1
  <2>5. h[1 .. n] = ApplyInput(h[1 .. (n - 1)], inputs[n])
    BY <2>1, <2>2, <2>3, <2>4
  <2>6. n \in 0 .. N /\ n - 1 \in 0 .. N
    BY <1>1
  <2>7. QED
    BY <2>5, <2>6
<1>10. run[N] = h[1 .. N]
  BY <1>1
<1> HIDE DEF run
<1>11. QED
  BY <1>7, <1>8, <1>9, <1>10 DEF IsRun

\* What every attempt of a play is: sound, and no open head says MISS.
OpenNotMissed(a) == \A i \in Hits : ~a.head[i].done => a.head[i].score # "MISS"

Playable(a) == Sound(a) /\ OpenNotMissed(a)

\* If a lane is held after the first n inputs, its last input took it down, or it
\* had none and was held before.
HeldByLast(held, inputs, n, lane) ==
  \/ \E m \in 1 .. n : /\ inputs[m].key = lane /\ inputs[m].pressed
                       /\ \A j \in m + 1 .. n : inputs[j].key # lane
  \/ lane \in held /\ \A j \in 1 .. n : inputs[j].key # lane

\* Calls at one time add up.
LEMMA HeadsAfterBoth ==
  ASSUME NEW a, NEW b, NEW c, NEW time, HeadsAfter(a, b, time), HeadsAfter(b, c, time)
  PROVE  HeadsAfter(a, c, time)
  BY DEF HeadsAfter

(* What a call leaves open and unmissed can still be played.               *)
LEMMA StaysPlayable ==
  ASSUME NEW a, NEW b, NEW time, Playable(a), Sound(b), HeadsAfter(a, b, time)
  PROVE  Playable(b)
  BY DEF HeadsAfter, Playable, OpenNotMissed

\* After one more input the held lanes are still those whose last input is a press.
LEMMA HeldStep ==
  ASSUME NEW held, NEW inputs \in Seq(InputType), NEW n \in Nat, n + 1 \in 1 .. Len(inputs),
         NEW before, \A lane \in before : HeldByLast(held, inputs, n, lane),
         NEW lane \in KeysAfter(before, inputs[n + 1])
  PROVE  HeldByLast(held, inputs, n + 1, lane)
<1>1. CASE inputs[n + 1].key = lane
  <2>1. inputs[n + 1].pressed
    BY <1>1 DEF KeysAfter
  <2>2. n + 1 \in 1 .. n + 1 /\ \A j \in (n + 1) + 1 .. n + 1 : inputs[j].key # lane
    OBVIOUS
  <2>3. QED
    BY <1>1, <2>1, <2>2 DEF HeldByLast
<1>2. CASE inputs[n + 1].key # lane
  <2>1. lane \in before
    BY <1>2 DEF KeysAfter
  <2>2. CASE \E m \in 1 .. n : /\ inputs[m].key = lane /\ inputs[m].pressed
                               /\ \A j \in m + 1 .. n : inputs[j].key # lane
    <3>1. PICK m \in 1 .. n : /\ inputs[m].key = lane /\ inputs[m].pressed
                              /\ \A j \in m + 1 .. n : inputs[j].key # lane
      BY <2>2
    <3>2. m \in 1 .. n + 1
      OBVIOUS
    <3>3. \A j \in m + 1 .. n + 1 : j = n + 1 \/ j \in m + 1 .. n
      OBVIOUS
    <3>4. \A j \in m + 1 .. n + 1 : inputs[j].key # lane
      BY <1>2, <3>1, <3>3
    <3>5. QED
      BY <3>1, <3>2, <3>4 DEF HeldByLast
  <2>3. CASE lane \in held /\ \A j \in 1 .. n : inputs[j].key # lane
    <3>1. \A j \in 1 .. n + 1 : j = n + 1 \/ j \in 1 .. n
      OBVIOUS
    <3>2. \A j \in 1 .. n + 1 : inputs[j].key # lane
      BY <1>2, <2>3, <3>1
    <3>3. QED
      BY <2>3, <3>2 DEF HeldByLast
  <2>4. QED
    BY <2>1, <2>2, <2>3 DEF HeldByLast
<1>3. QED
  BY <1>1, <1>2

\* What a sequence of inputs does to an attempt.
LEMMA InputsApplied ==
  ASSUME NEW a, Playable(a), NEW inputs \in Seq(InputType)
  PROVE  LET b == ApplyInputs(a, inputs)
         IN  /\ Playable(b)
             /\ \A lane \in b.held : HeldByLast(a.held, inputs, Len(inputs), lane)
             /\ \A time \in Int : (\A m \in 1 .. Len(inputs) : inputs[m].time = time)
                                     => HeadsAfter(a, b, time)
<1> DEFINE N == Len(inputs)
<1>1. PICK run : IsRun(run, a, inputs) /\ ApplyInputs(a, inputs) = run[N]
  BY InputsRun
<1>2. N \in Nat /\ run[0] = a
  BY <1>1 DEF IsRun
<1> DEFINE At(n) ==
             /\ Playable(run[n])
             /\ \A lane \in run[n].held : HeldByLast(a.held, inputs, n, lane)
             /\ \A time \in Int : (\A m \in 1 .. N : inputs[m].time = time)
                                     => HeadsAfter(a, run[n], time)
           T == {n \in Nat : n <= N => At(n)}
<1>3. 0 \in T
  <2>1. \A lane \in a.held : HeldByLast(a.held, inputs, 0, lane)
    BY DEF HeldByLast
  <2>2. \A time \in Int : HeadsAfter(a, a, time)
    BY DEF HeadsAfter
  <2>3. At(0)
    BY <1>2, <2>1, <2>2
  <2> HIDE DEF At
  <2>4. QED
    BY <2>3
<1>4. ASSUME NEW n \in Nat, n \in T PROVE n + 1 \in T
  <2>1. SUFFICES ASSUME n + 1 <= N PROVE At(n + 1)
    <3> HIDE DEF At
    <3> QED
      OBVIOUS
  <2>2. At(n)
    <3> HIDE DEF At
    <3> QED
      BY <1>2, <1>4, <2>1
  <2>3. n + 1 \in 1 .. N /\ (n + 1) - 1 = n
    BY <1>2, <2>1
  <2> DEFINE input == inputs[n + 1]
  <2>4. input \in InputType
    BY <2>3
  <2>5. run[n + 1] = ApplyInput(run[n], input)
    BY <1>1, <2>3 DEF IsRun
  <2> DEFINE p == run[n]
             q == run[n + 1]
  <2>6. Sound(p) /\ Playable(p)
    BY <2>2 DEF Playable
  <2>7. Sound(q) /\ HeadsAfter(p, q, input.time) /\ q.held = KeysAfter(p.held, input)
    <3> HIDE DEF p, q, input
    <3>1. q = ApplyInput(p, input)
      BY <2>5 DEF p, q
    <3>2. QED
      BY <2>4, <2>6, <3>1, InputApplied
  <2>8. Playable(q)
    <3> HIDE DEF p, q, input
    <3> QED
      BY <2>6, <2>7, StaysPlayable
  <2>9. \A lane \in q.held : HeldByLast(a.held, inputs, n + 1, lane)
    <3>1. \A lane \in p.held : HeldByLast(a.held, inputs, n, lane)
      BY <2>2
    <3> HIDE DEF p, q
    <3>2. QED
      BY <2>3, <2>7, <3>1, HeldStep
  <2>10. \A time \in Int : (\A m \in 1 .. N : inputs[m].time = time)
                              => HeadsAfter(a, q, time)
    <3> SUFFICES ASSUME NEW time \in Int, \A m \in 1 .. N : inputs[m].time = time
                 PROVE  HeadsAfter(a, q, time)
      OBVIOUS
    <3>1. HeadsAfter(a, p, time)
      BY <2>2
    <3>2. HeadsAfter(p, q, time)
      BY <2>3, <2>7
    <3> HIDE DEF p, q
    <3>3. QED
      BY <3>1, <3>2, HeadsAfterBoth
  <2>11. QED
    BY <2>8, <2>9, <2>10
<1>5. \A n \in Nat : n \in T
  <2> HIDE DEF T
  <2> QED
    BY <1>3, <1>4, NatInduct
<1>6. At(N)
  <2> HIDE DEF At
  <2> QED
    BY <1>2, <1>5
<1>7. QED
  BY <1>1, <1>6

\* What a frame's inputs and update do to the session and to the replay.
LEMMA JudgeResult ==
  ASSUME NEW inputs \in Seq(InputType), NEW time \in Int, Judge(inputs, time),
         Playable(live), Playable(sim)
  PROVE  /\ Playable(live') /\ Playable(sim')
         /\ live'.latest \in Int /\ time <= live'.latest
         /\ \A lane \in live'.held : HeldByLast(live.held, inputs, Len(inputs), lane)
         /\ (\A m \in 1 .. Len(inputs) : inputs[m].time = time)
               => HeadsAfter(live, live', time)
<1> DEFINE b == ApplyInputs(live, inputs)
<1>1. live' = Update(b, time) /\ sim' = ApplyInputs(sim, inputs)
  BY DEF Judge
<1>2. /\ Playable(b)
      /\ \A lane \in b.held : HeldByLast(live.held, inputs, Len(inputs), lane)
      /\ (\A m \in 1 .. Len(inputs) : inputs[m].time = time) => HeadsAfter(live, b, time)
  BY InputsApplied
<1>3. Playable(sim')
  BY <1>1, InputsApplied
<1> HIDE DEF b
<1>4. Sound(b)
  BY <1>2 DEF Playable
<1>5. Sound(live') /\ live'.held = b.held /\ HeadsAfter(b, live', time)
  BY <1>1, <1>4, UpdateSound, UpdateHeads
<1>6. Playable(live')
  BY <1>2, <1>5, StaysPlayable
<1>7. live'.latest \in Int /\ time <= live'.latest
  BY <1>1, <1>4, UpdateHears
<1>8. ASSUME \A m \in 1 .. Len(inputs) : inputs[m].time = time
      PROVE  HeadsAfter(live, live', time)
  BY <1>2, <1>5, <1>8, HeadsAfterBoth
<1>9. QED
  BY <1>2, <1>3, <1>5, <1>6, <1>7, <1>8

-----------------------------------------------------------------------------
(* Events and lanes *)

\* The last event of a key that says pressed leaves it in K.
LastPressed(events, K) ==
  \A n \in 1 .. Len(events) :
    events[n].pressed /\ (\A m \in n + 1 .. Len(events) : events[m].key # events[n].key)
      => events[n].key \in K

Silent(events, k) == \A n \in 1 .. Len(events) : events[n].key # k

\* The mirror setting permutes the lanes.
LEMMA LanesPermute ==
  /\ \A k \in Keys : ChartLane(k) \in Keys
  /\ \A k, j \in Keys : ChartLane(k) = ChartLane(j) => k = j
  /\ \A l \in Keys : \E k \in Keys : ChartLane(k) = l
<1>1. KeyCount \in Nat
  BY ChartAssumption
<1>2. CASE Mirror
  <2>1. \A k \in Keys : KeyCount - 1 - k \in Keys /\ KeyCount - 1 - (KeyCount - 1 - k) = k
    BY <1>1 DEF Keys
  <2>2. QED
    BY <1>2, <2>1 DEF ChartLane
<1>3. CASE ~Mirror
  BY <1>3 DEF ChartLane
<1>4. QED
  BY <1>2, <1>3

\* Sets of keys are finite sets of integers.
LEMMA KeySets ==
  ASSUME NEW S, S \subseteq Keys
  PROVE  S \subseteq Int /\ IsFiniteSet(S)
<1>1. KeyCount \in Nat
  BY ChartAssumption
<1>2. IsFiniteSet(Keys) /\ Keys \subseteq Int
  BY <1>1, FS_Interval DEF Keys
<1>3. QED
  BY <1>2, FS_Subset

\* Ageing changes no key and no direction, only ages.
LEMMA AgedResult ==
  ASSUME NEW events \in Seq(Event), NEW d \in Nat
  PROVE  /\ Aged(events, d) \in Seq(Event) /\ Len(Aged(events, d)) = Len(events)
         /\ \A n \in 1 .. Len(events) : /\ Aged(events, d)[n].key = events[n].key
                                        /\ Aged(events, d)[n].pressed = events[n].pressed
                                        /\ Aged(events, d)[n].age = events[n].age + d
         /\ \A K : LastPressed(events, K) => LastPressed(Aged(events, d), K)
         /\ \A k : Silent(Aged(events, d), k) => Silent(events, k)
<1> DEFINE N == Len(events)
           e == Aged(events, d)
<1>1. N \in Nat /\ \A n \in 1 .. N : events[n] \in Event
  OBVIOUS
<1>2. e = [n \in 1 .. N |-> [events[n] EXCEPT !.age = @ + d]]
  BY DEF Aged
<1>3. \A n \in 1 .. N : /\ [events[n] EXCEPT !.age = @ + d] \in Event
                        /\ [events[n] EXCEPT !.age = @ + d].key = events[n].key
                        /\ [events[n] EXCEPT !.age = @ + d].pressed = events[n].pressed
                        /\ [events[n] EXCEPT !.age = @ + d].age = events[n].age + d
  BY <1>1 DEF Event
<1> HIDE DEF e, N
<1>4. e \in [1 .. N -> Event]
  BY <1>2, <1>3
<1>5. e \in Seq(Event) /\ Len(e) = N
  BY <1>1, <1>4
<1>6. \A n \in 1 .. N : /\ e[n].key = events[n].key /\ e[n].pressed = events[n].pressed
                        /\ e[n].age = events[n].age + d
  BY <1>2, <1>3
<1>7. ASSUME NEW K, LastPressed(events, K) PROVE LastPressed(e, K)
  <2> SUFFICES ASSUME NEW n \in 1 .. N, e[n].pressed,
                      \A m \in n + 1 .. N : e[m].key # e[n].key
               PROVE  e[n].key \in K
    BY <1>5 DEF LastPressed
  <2>1. \A m \in n + 1 .. N : m \in 1 .. N
    BY <1>1
  <2>2. \A m \in n + 1 .. N : events[m].key # events[n].key
    BY <1>6, <2>1
  <2>3. QED
    BY <1>6, <1>7, <2>2 DEF LastPressed, N
<1>8. \A k : Silent(e, k) => Silent(events, k)
  BY <1>5, <1>6 DEF Silent, N
<1>9. QED
  BY <1>5, <1>6, <1>7, <1>8 DEF e, N

\* Polling reports exactly the keys that changed, and how they are now.
LEMMA PolledResult ==
  ASSUME NEW keys, keys \subseteq Keys, down \subseteq Keys
  PROVE  /\ Polled(keys) \in Seq(Event)
         /\ \A n \in 1 .. Len(Polled(keys)) :
              /\ Polled(keys)[n].pressed <=> Polled(keys)[n].key \in keys
              /\ Polled(keys)[n].age = 0
         /\ \A k \in Keys : Silent(Polled(keys), k) => (k \in down <=> k \in keys)
<1> DEFINE S == SymDiff(down, keys)
           c == Ascending(S)
           p == Polled(keys)
           N == Cardinality(S)
<1>1. S \subseteq Keys /\ \A k \in Keys : k \notin S => (k \in down <=> k \in keys)
  BY DEF SymDiff
<1>2. S \subseteq Int /\ IsFiniteSet(S)
  <2> HIDE DEF S
  <2> QED
    BY <1>1, KeySets
<1>3. /\ N \in Nat /\ c \in [1 .. N -> S]
      /\ \A k \in S : \E n \in 1 .. N : c[n] = k
  <2> HIDE DEF S
  <2> QED
    BY <1>2, AscendingEnumerates
<1>4. Len(c) = N
  <2> HIDE DEF c, N, S
  <2> QED
    BY <1>3
<1>5. p = [n \in 1 .. N |-> [key |-> c[n], pressed |-> c[n] \in keys, age |-> 0]]
  BY <1>4, Zenon DEF Polled
<1> HIDE DEF S, c, N, p
<1>6. \A n \in 1 .. N : [key |-> c[n], pressed |-> c[n] \in keys, age |-> 0] \in Event
  <2> TAKE n \in 1 .. N
  <2>1. c[n] \in Keys
    BY <1>1, <1>3
  <2>2. \A b \in BOOLEAN : [key |-> c[n], pressed |-> b, age |-> 0] \in Event
    BY <2>1 DEF Event
  <2>3. (c[n] \in keys) \in BOOLEAN
    OBVIOUS
  <2>4. QED
    BY <2>2, <2>3, Zenon
<1>7. p \in [1 .. N -> Event]
  BY <1>5, <1>6
<1>8. p \in Seq(Event) /\ Len(p) = N
  BY <1>3, <1>7
<1>9. \A n \in 1 .. N : /\ p[n].key = c[n] /\ p[n].age = 0
                        /\ p[n].pressed <=> c[n] \in keys
  BY <1>5
<1>10. \A k \in Keys : Silent(p, k) => k \notin S
  BY <1>3, <1>8, <1>9 DEF Silent
<1>11. QED
  BY <1>1, <1>8, <1>9, <1>10 DEF p

\* The events drained and then polled speak for the keyboard of the frame.
LEMMA DrainedThenPolled ==
  ASSUME NEW first \in Seq(Event), NEW second \in Seq(Event), NEW before, NEW after,
         LastPressed(first, before),
         \A n \in 1 .. Len(second) : second[n].pressed => second[n].key \in after,
         \A k \in Keys : Silent(second, k) => (k \in before <=> k \in after)
  PROVE  /\ first \o second \in Seq(Event)
         /\ LastPressed(first \o second, after)
         /\ \A k : Silent(first \o second, k) => Silent(first, k) /\ Silent(second, k)
<1> DEFINE e == first \o second
           N == Len(first)
           M == Len(second)
<1>1. N \in Nat /\ M \in Nat /\ e \in Seq(Event) /\ Len(e) = N + M
  OBVIOUS
<1>2. /\ \A n \in 1 .. N : n \in 1 .. N + M /\ e[n] = first[n]
      /\ \A n \in 1 .. M : N + n \in 1 .. N + M /\ e[N + n] = second[n]
  BY <1>1
<1> HIDE DEF e
<1>3. ASSUME NEW n \in 1 .. Len(e), e[n].pressed,
             \A m \in n + 1 .. Len(e) : e[m].key # e[n].key
      PROVE  e[n].key \in after
  <2>1. CASE n \in 1 .. N
    <3>1. \A m \in n + 1 .. N : first[m].key # first[n].key
      <4> TAKE m \in n + 1 .. N
      <4>1. m \in 1 .. N /\ m \in n + 1 .. Len(e)
        BY <1>1, <2>1
      <4>2. QED
        BY <1>2, <1>3, <2>1, <4>1
    <3>2. first[n].key \in before /\ first[n].key \in Keys
      <4>1. first[n].pressed
        BY <1>2, <1>3, <2>1
      <4>2. first[n].key \in before
        BY <2>1, <3>1, <4>1 DEF LastPressed
      <4>3. first[n] \in Event
        BY <2>1
      <4>4. QED
        BY <4>2, <4>3 DEF Event
    <3>3. Silent(second, first[n].key)
      <4>1. SUFFICES ASSUME NEW m \in 1 .. M PROVE second[m].key # first[n].key
        BY DEF Silent
      <4>2. N + m \in n + 1 .. Len(e)
        BY <1>1, <2>1
      <4>3. QED
        BY <1>2, <1>3, <2>1, <4>2
    <3>4. QED
      BY <1>2, <2>1, <3>2, <3>3
  <2>2. CASE n \notin 1 .. N
    <3>1. n - N \in 1 .. M /\ N + (n - N) = n
      BY <1>1, <2>2
    <3>2. e[n] = second[n - N]
      BY <1>2, <3>1
    <3>3. QED
      BY <1>3, <3>1, <3>2
  <2>3. QED
    BY <2>1, <2>2
<1>4. LastPressed(e, after)
  BY <1>3 DEF LastPressed
<1>5. ASSUME NEW k, Silent(e, k) PROVE Silent(first, k) /\ Silent(second, k)
  BY <1>1, <1>2, <1>5 DEF Silent
<1>6. QED
  BY <1>1, <1>4, <1>5 DEF e

\* The keys before some events are those after them, but for the keys the events
\* are about; what the events released was down before.
LEMMA BeforeResult ==
  ASSUME NEW events \in Seq(Event), NEW keys
  PROVE  /\ Before(events, keys) \subseteq Keys
         /\ \A k \in Keys : Silent(events, k) => (k \in Before(events, keys) <=> k \in keys)
         /\ \A k \in Before(events, keys) :
              \/ k \in keys
              \/ \E n \in 1 .. Len(events) : events[n].key = k /\ ~events[n].pressed
  BY DEF Before, Silent

(* Before no events the keys are what they are after them.                 *)
LEMMA BeforeNothing ==
  ASSUME NEW keys, keys \subseteq Keys
  PROVE  Before(<<>>, keys) = keys
  BY DEF Before

\* Ageing does not change what the events say.
LEMMA BeforeAged ==
  ASSUME NEW events \in Seq(Event), NEW d \in Nat, NEW keys
  PROVE  Before(Aged(events, d), keys) = Before(events, keys)
<1> DEFINE e == Aged(events, d)
           N == Len(events)
<1>1. /\ Len(e) = N
      /\ \A n \in 1 .. N : e[n].key = events[n].key /\ e[n].pressed = events[n].pressed
  BY AgedResult
<1>2. N \in Nat /\ \A n \in 1 .. N : \A m \in 1 .. n - 1 : m \in 1 .. N
  OBVIOUS
<1> HIDE DEF e
<1>3. Before(e, keys) = Before(events, keys)
  BY <1>1, <1>2 DEF Before
<1>4. QED
  BY <1>3 DEF e

\* One more event, of a key that toggles, changes nothing about the time before.
LEMMA BeforeAppended ==
  ASSUME NEW events \in Seq(Event), NEW keys, NEW after, NEW event \in Event,
         event.pressed <=> event.key \notin keys,
         \A k \in Keys : k # event.key => (k \in after <=> k \in keys)
  PROVE  Before(Append(events, event), after) = Before(events, keys)
<1> DEFINE N == Len(events)
           e == Append(events, event)
           First(s, k, n) == /\ s[n].key = k /\ ~s[n].pressed
                             /\ \A m \in 1 .. n - 1 : s[m].key # k
<1>1. /\ N \in Nat /\ Len(e) = N + 1 /\ e[N + 1] = event
      /\ \A n \in 1 .. N : e[n] = events[n]
  OBVIOUS
<1>2. \A n \in 1 .. N : \A m \in 1 .. n - 1 : m \in 1 .. N
  BY <1>1
<1> HIDE DEF e, N
<1>3. \A k, n : n \in 1 .. N => (First(e, k, n) <=> First(events, k, n))
  BY <1>1, <1>2
<1>4. 1 .. N + 1 = (1 .. N) \union {N + 1} /\ N + 1 - 1 = N
  BY <1>1
<1>5. ASSUME NEW k \in Keys
      PROVE  k \in Before(e, after) <=> k \in Before(events, keys)
  <2>1. CASE \E n \in 1 .. N : events[n].key = k
    <3>1. ~First(e, k, N + 1) /\ \E n \in 1 .. N + 1 : e[n].key = k
      BY <1>1, <1>4, <2>1
    <3>2. k \in Before(e, after) <=> \E n \in 1 .. N + 1 : First(e, k, n)
      BY <1>1, <3>1 DEF Before
    <3>3. k \in Before(events, keys) <=> \E n \in 1 .. N : First(events, k, n)
      BY <2>1 DEF Before, N
    <3> HIDE DEF First
    <3>4. QED
      BY <1>3, <1>4, <3>1, <3>2, <3>3
  <2>2. CASE ~\E n \in 1 .. N : events[n].key = k
    <3>1. k \in Before(events, keys) <=> k \in keys
      BY <2>2 DEF Before, N
    <3>2. CASE k # event.key
      <4>1. \A n \in 1 .. Len(e) : e[n].key # k
        BY <1>1, <1>4, <2>2, <3>2
      <4>2. k \in Before(e, after) <=> k \in after
        BY <4>1 DEF Before
      <4>3. QED
        BY <3>1, <3>2, <4>2
    <3>3. CASE k = event.key
      <4>1. \A n \in 1 .. N : ~First(e, k, n)
        BY <1>1, <2>2
      <4>2. First(e, k, N + 1) <=> ~event.pressed
        BY <1>1, <1>4, <2>2, <3>3
      <4>3. k \in Before(e, after) <=> \E n \in 1 .. N + 1 : First(e, k, n)
        <5>1. N + 1 \in 1 .. N + 1 /\ e[N + 1].key = k
          BY <1>1, <3>3
        <5>2. QED
          BY <1>1, <5>1 DEF Before
      <4> HIDE DEF First
      <4>4. QED
        BY <1>4, <3>1, <3>3, <4>1, <4>2, <4>3
    <3>4. QED
      BY <3>2, <3>3
  <2>3. QED
    BY <2>1, <2>2
<1>6. Before(e, after) \subseteq Keys /\ Before(events, keys) \subseteq Keys
  BY DEF Before
<1>7. Before(e, after) = Before(events, keys)
  BY <1>5, <1>6
<1>8. QED
  BY <1>7 DEF e

-----------------------------------------------------------------------------
(* The inputs of a frame and of set_keys *)

\* A frame's events become inputs of the lanes, one for one and in their order.
LEMMA EventInputsResult ==
  ASSUME frame \in Seq(Event), NEW pos \in Int
  PROVE  /\ EventInputs(pos) \in Seq(InputType) /\ Len(EventInputs(pos)) = Len(frame)
         /\ \A n \in 1 .. Len(frame) : /\ EventInputs(pos)[n].key = ChartLane(frame[n].key)
                                       /\ EventInputs(pos)[n].pressed = frame[n].pressed
                                       /\ EventInputs(pos)[n].time = ToInputTime(pos - frame[n].age)
<1> DEFINE N == Len(frame)
           e == EventInputs(pos)
           Input(n) == [key |-> ChartLane(frame[n].key), pressed |-> frame[n].pressed,
                        time |-> ToInputTime(pos - frame[n].age)]
<1>1. N \in Nat /\ \A n \in 1 .. N : frame[n] \in Event
  OBVIOUS
<1>2. e = [n \in 1 .. N |-> Input(n)]
  BY DEF EventInputs
<1>3. \A n \in 1 .. N : Input(n) \in InputType
  <2> TAKE n \in 1 .. N
  <2>1. frame[n].key \in Keys /\ frame[n].pressed \in BOOLEAN /\ frame[n].age \in Nat
    BY <1>1 DEF Event
  <2>2. ToInputTime(pos - frame[n].age) \in Int
    BY <2>1, PlayAssumption DEF ToInputTime
  <2>3. ChartLane(frame[n].key) \in Keys
    BY <2>1, LanesPermute
  <2>4. QED
    BY <2>1, <2>2, <2>3 DEF InputType
<1> HIDE DEF e, N
<1>4. e \in [1 .. N -> InputType]
  <2> HIDE DEF Input
  <2> QED
    BY <1>2, <1>3
<1>5. e \in Seq(InputType) /\ Len(e) = N
  BY <1>1, <1>4
<1>6. QED
  BY <1>2, <1>5 DEF e, N

\* The inputs e take the lanes held to these lanes, at one time.
ChangesAre(e, held, lanes, time) ==
  /\ e \in Seq(InputType)
  /\ \A n \in 1 .. Len(e) : e[n].time = time /\ (e[n].pressed <=> e[n].key \in lanes)
  /\ \A l \in Keys : (\A n \in 1 .. Len(e) : e[n].key # l) => (l \in held <=> l \in lanes)

\* set_keys sends every lane that changed, at one time.
LEMMA KeyChangesResult ==
  ASSUME NEW a, Playable(a), NEW lanes, lanes \subseteq Keys, NEW time \in Int
  PROVE  ChangesAre(KeyChanges(a, lanes, time), a.held, lanes, time)
<1> DEFINE S == SymDiff(a.held, lanes)
           c == Ascending(S)
           e == KeyChanges(a, lanes, time)
           N == Cardinality(S)
<1>0. a.held \subseteq Keys
  BY DEF Playable, Sound, AttemptState
<1>1. S \subseteq Keys /\ \A k \in Keys : k \notin S => (k \in a.held <=> k \in lanes)
  BY <1>0 DEF SymDiff
<1>2. S \subseteq Int /\ IsFiniteSet(S)
  <2> HIDE DEF S
  <2> QED
    BY <1>1, KeySets
<1>3. /\ N \in Nat /\ c \in [1 .. N -> S]
      /\ \A k \in S : \E n \in 1 .. N : c[n] = k
  <2> HIDE DEF S
  <2> QED
    BY <1>2, AscendingEnumerates
<1>4. Len(c) = N
  <2> HIDE DEF c, N, S
  <2> QED
    BY <1>3
<1>5. e = [n \in 1 .. N |-> [key |-> c[n], pressed |-> c[n] \in lanes, time |-> time]]
  BY <1>4, Zenon DEF KeyChanges
<1> HIDE DEF S, c, N, e
<1>6. \A n \in 1 .. N : [key |-> c[n], pressed |-> c[n] \in lanes, time |-> time] \in InputType
  <2> TAKE n \in 1 .. N
  <2>1. c[n] \in Keys
    BY <1>1, <1>3
  <2>2. \A b \in BOOLEAN : [key |-> c[n], pressed |-> b, time |-> time] \in InputType
    BY <2>1 DEF InputType
  <2>3. (c[n] \in lanes) \in BOOLEAN
    OBVIOUS
  <2>4. QED
    BY <2>2, <2>3, Zenon
<1>7. e \in [1 .. N -> InputType]
  BY <1>5, <1>6
<1>8. e \in Seq(InputType) /\ Len(e) = N
  BY <1>3, <1>7
<1>9. \A n \in 1 .. N : /\ e[n].key = c[n] /\ e[n].time = time
                        /\ e[n].pressed <=> c[n] \in lanes
  BY <1>5
<1>10. \A k \in Keys : (\A n \in 1 .. N : e[n].key # k) => k \notin S
  BY <1>3, <1>9
<1>11. ChangesAre(e, a.held, lanes, time)
  BY <1>1, <1>8, <1>9, <1>10 DEF ChangesAre
<1>12. QED
  BY <1>11 DEF e

\* After set_keys the session holds lanes of held keys only, whatever it missed
\* was past at that moment, and the attempts stay sound.
LEMMA SetKeysResult ==
  ASSUME NEW pos \in Int, SetKeys(pos), keyboard \subseteq Keys, Playable(live), Playable(sim)
  PROVE  /\ Playable(live') /\ Playable(sim')
         /\ \A k \in Keys : ChartLane(k) \in live'.held => k \in keyboard
         /\ HeadsAfter(live, live', ToInputTime(pos))
<1> DEFINE time == ToInputTime(pos)
           lanes == {ChartLane(k) : k \in keyboard}
           e == KeyChanges(live, lanes, time)
<1>1. time \in Int /\ lanes \subseteq Keys
  BY PlayAssumption, LanesPermute DEF ToInputTime
<1>2. Judge(e, time)
  BY DEF SetKeys
<1>3. ChangesAre(e, live.held, lanes, time)
  <2> HIDE DEF lanes, time
  <2> QED
    BY <1>1, KeyChangesResult
<1> HIDE DEF e, time
<1>4. /\ Playable(live') /\ Playable(sim')
      /\ \A lane \in live'.held : HeldByLast(live.held, e, Len(e), lane)
      /\ HeadsAfter(live, live', time)
  BY <1>1, <1>2, <1>3, JudgeResult DEF ChangesAre
<1>5. ASSUME NEW k \in Keys, ChartLane(k) \in live'.held PROVE k \in keyboard
  <2>1. ChartLane(k) \in Keys
    BY LanesPermute
  <2>2. HeldByLast(live.held, e, Len(e), ChartLane(k))
    BY <1>4, <1>5
  <2>3. ChartLane(k) \in lanes
    BY <1>3, <2>1, <2>2 DEF HeldByLast, ChangesAre
  <2>4. QED
    BY <2>3, LanesPermute
<1>6. QED
  BY <1>4, <1>5 DEF time

-----------------------------------------------------------------------------
(* The inductive invariant *)

Typed == TypeOK /\ Playable(live) /\ Playable(sim)

\* Why no lane sticks: the events still on their way tell how the keys they are
\* about ended up, and a lane held without such an event is a key that was down
\* when the frame's events were drained, or one whose release has slipped.
LanesFollow ==
  /\ stage = "idle" => frame = <<>>
  /\ LastPressed(frame, Drained)
  /\ LastPressed(queue, down)
  /\ \A k \in keyboard : Silent(frame, k) => k \in Drained
  /\ ~Threaded => queue = <<>> /\ slipped = {} /\ keyboard \subseteq down
  /\ pausedAt = None /\ ~waiting =>
       \A k \in Keys : ChartLane(k) \in live.held /\ Silent(frame, k) =>
         k \in Drained \union slipped

PlaySound == Typed /\ LanesFollow

(* An empty queue holds no key back.                                       *)
LEMMA NoEvents ==
  /\ <<>> \in Seq(Event)
  /\ \A K : LastPressed(<<>>, K)
  /\ \A k : Silent(<<>>, k)
  BY DEF LastPressed, Silent

(* A new attempt has everything to play.                                   *)
LEMMA NewAttemptPlayable == Playable(NewAttempt) /\ NewAttempt.held = {}
<1>1. NewAttempt.held = {} /\ \A i \in Hits : NewAttempt.head[i] = Unjudged
  BY DEF NewAttempt
<1>2. QED
  BY <1>1, NewAttemptSound DEF Playable, OpenNotMissed, Unjudged

(* The play starts sound.                                                  *)
LEMMA InitSound == Init => PlaySound
<1> SUFFICES ASSUME Init PROVE PlaySound
  OBVIOUS
<1>1. Playable(live) /\ Playable(sim) /\ live.held = {}
  BY NewAttemptPlayable DEF Init
<1>2. live \in AttemptState /\ sim \in AttemptState
  BY <1>1 DEF Playable, Sound
<1>3. TypeOK
  BY <1>2, NoEvents, PlayAssumption DEF Init, TypeOK
<1>4. Drained = {}
  BY BeforeNothing DEF Init, Drained
<1>6. LanesFollow
  BY <1>1, <1>4, NoEvents DEF Init, LanesFollow
<1>7. QED
  BY <1>1, <1>3, <1>6 DEF PlaySound, Typed

\* A key that changes between frames: its event says how it is now.
LEMMA KeyChangeSound ==
  ASSUME PlaySound, NEW key \in Keys, KeyChange(key)
  PROVE  PlaySound'
<1> DEFINE event == [key |-> key, pressed |-> key \notin down, age |-> 0]
           N == Len(queue)
<1>1. /\ down' = SymDiff(down, {key}) /\ queue' = Append(queue, event)
      /\ UNCHANGED <<stage, position, frame, keyboard, slipped, pausedAt, waiting, finished,
                     live, sim>>
      /\ Threaded
  BY DEF KeyChange
<1>2. event \in Event /\ event.key = key /\ (event.pressed <=> key \notin down)
  <2>1. \A b \in BOOLEAN : [key |-> key, pressed |-> b, age |-> 0] \in Event
    BY DEF Event
  <2>2. (key \notin down) \in BOOLEAN
    OBVIOUS
  <2>3. event \in Event
    BY <2>1, <2>2, Zenon
  <2>4. event.key = key /\ (event.pressed <=> key \notin down)
    OBVIOUS
  <2>5. QED
    BY <2>3, <2>4
<1>3. queue \in Seq(Event) /\ N \in Nat /\ down \subseteq Keys /\ keyboard \subseteq Keys
  BY DEF PlaySound, Typed, TypeOK
<1> HIDE DEF event
<1>4. /\ queue' \in Seq(Event) /\ Len(queue') = N + 1 /\ queue'[N + 1] = event
      /\ \A n \in 1 .. N : queue'[n] = queue[n]
  BY <1>1, <1>2, <1>3
<1>5. /\ down' \subseteq Keys /\ (key \in down' <=> key \notin down)
      /\ \A k : k # key => (k \in down' <=> k \in down)
  BY <1>1, <1>3 DEF SymDiff
<1>6. Typed'
  BY <1>1, <1>4, <1>5 DEF PlaySound, Typed, TypeOK
<1>7. ASSUME NEW n \in 1 .. Len(queue'), queue'[n].pressed,
             \A m \in n + 1 .. Len(queue') : queue'[m].key # queue'[n].key
      PROVE  queue'[n].key \in down'
  <2>1. CASE n = N + 1
    BY <1>2, <1>4, <1>5, <1>7, <2>1
  <2>2. CASE n # N + 1
    <3>1. n \in 1 .. N /\ N + 1 \in n + 1 .. Len(queue')
      BY <1>3, <1>4, <2>2
    <3>2. \A m \in n + 1 .. N : m \in 1 .. N /\ m \in n + 1 .. Len(queue')
      BY <1>3, <1>4, <3>1
    <3>3. \A m \in n + 1 .. N : queue[m].key # queue[n].key
      BY <1>4, <1>7, <3>1, <3>2
    <3>4. queue[n].key \in down
      BY <1>4, <1>7, <3>1, <3>3 DEF PlaySound, LanesFollow, LastPressed
    <3>5. queue[n].key # key
      BY <1>2, <1>4, <1>7, <3>1
    <3>6. QED
      BY <1>4, <1>5, <3>1, <3>4, <3>5
  <2>3. QED
    BY <2>1, <2>2
<1>8. LastPressed(queue', down')
  BY <1>7 DEF LastPressed
<1>9. Drained' = Drained
  <2>1. Before(Append(queue, event), down') = Before(queue, down)
    BY <1>2, <1>3, <1>5, BeforeAppended
  <2>2. Drained' = Before(queue', down')
    BY DEF Drained
  <2>3. QED
    BY <1>1, <2>1, <2>2 DEF Drained
<1>10. LanesFollow'
  <2>1. LastPressed(frame', Drained')
    BY <1>1, <1>9 DEF PlaySound, LanesFollow
  <2>2. \A k \in keyboard' : Silent(frame', k) => k \in Drained'
    BY <1>1, <1>9 DEF PlaySound, LanesFollow
  <2>3. pausedAt' = None /\ ~waiting' =>
          \A k \in Keys : ChartLane(k) \in live'.held /\ Silent(frame', k) =>
            k \in Drained' \union slipped'
    BY <1>1, <1>9 DEF PlaySound, LanesFollow
  <2>4. QED
    BY <1>1, <1>8, <2>1, <2>2, <2>3 DEF PlaySound, LanesFollow
<1>11. QED
  BY <1>6, <1>10 DEF PlaySound

\* A frame begins: its events account for every key that is not as it was.
LEMMA BeginFrameSound ==
  ASSUME PlaySound, NEW keys \in SUBSET Keys, NEW d \in FrameTimes \union LongTimes,
         BeginFrame(keys, d)
  PROVE  PlaySound'
<1> DEFINE first == Aged(queue, d)
           second == Polled(keys)
<1>1. /\ stage = "idle" /\ stage' = "begun" /\ position' = position + d
      /\ frame' = first \o second /\ queue' = <<>> /\ down' = keys
      /\ UNCHANGED <<slipped, pausedAt, waiting, finished, live, sim>>
  BY DEF BeginFrame
<1>12. PICK from \in 1 .. Len(queue) + 1 :
         keyboard' = Before(SubSeq(queue, from, Len(queue)), keys)
  BY DEF BeginFrame
<1>2. d \in Nat
  BY PlayAssumption
<1>3. queue \in Seq(Event) /\ down \subseteq Keys /\ frame = <<>>
  BY <1>1 DEF PlaySound, Typed, TypeOK, LanesFollow
<1>4. /\ first \in Seq(Event) /\ LastPressed(first, down)
      /\ \A k : Silent(first, k) => Silent(queue, k)
  BY <1>2, <1>3, AgedResult DEF PlaySound, LanesFollow
<1>5. /\ second \in Seq(Event)
      /\ \A n \in 1 .. Len(second) : second[n].pressed => second[n].key \in keys
      /\ \A k \in Keys : Silent(second, k) => (k \in down <=> k \in keys)
  BY <1>3, PolledResult
<1> HIDE DEF first, second
<1>6. /\ frame' \in Seq(Event) /\ LastPressed(frame', keys)
      /\ \A k : Silent(frame', k) => Silent(first, k) /\ Silent(second, k)
  BY <1>1, <1>4, <1>5, DrainedThenPolled
<1>7. position' \in Int
  BY <1>1, <1>2 DEF PlaySound, Typed, TypeOK
<1> DEFINE later == SubSeq(queue, from, Len(queue))
<1>13. later \in Seq(Event) /\ \A k : Silent(queue, k) => Silent(later, k)
  <2>1. Len(queue) \in Nat /\ from \in 1 .. Len(queue) + 1
    BY <1>3
  <2>2. /\ later \in Seq(Event) /\ Len(later) = Len(queue) - from + 1
        /\ \A n \in 1 .. Len(later) : later[n] = queue[from + n - 1]
    BY <1>3, <2>1
  <2>3. \A n \in 1 .. Len(later) : from + n - 1 \in 1 .. Len(queue)
    BY <2>1, <2>2
  <2> HIDE DEF later
  <2>4. QED
    BY <2>2, <2>3 DEF Silent
<1> HIDE DEF later
<1>14. /\ keyboard' \subseteq Keys
       /\ \A k \in keyboard' : Silent(later, k) => k \in keys
  BY <1>12, <1>13, BeforeResult DEF later
<1>15. Drained' = keys
  BY <1>1, BeforeNothing DEF Drained
<1>16. Before(queue, down) = Drained
  BY DEF Drained
<1>17. ~Threaded => keyboard' = keys
  <2> SUFFICES ASSUME ~Threaded PROVE keyboard' = keys
    OBVIOUS
  <2>1. queue = <<>>
    BY DEF PlaySound, LanesFollow
  <2>2. Len(queue) = 0 /\ from = 1
    BY <2>1
  <2>3. SubSeq(queue, from, Len(queue)) = <<>>
    BY <2>1, <2>2
  <2>4. QED
    BY <1>12, <2>3, BeforeNothing
<1>8. Typed'
  BY <1>1, <1>6, <1>7, <1>14, NoEvents DEF PlaySound, Typed, TypeOK
<1>9. ASSUME pausedAt = None, ~waiting, NEW k \in Keys, ChartLane(k) \in live.held,
             Silent(frame', k)
      PROVE  k \in keys \union slipped
  <2>1. Silent(queue, k) /\ Silent(second, k)
    BY <1>4, <1>6, <1>9
  <2>2. k \in Drained \union slipped
    BY <1>3, <1>9, NoEvents DEF PlaySound, LanesFollow
  <2>3. k \in Drained => k \in down
    BY <1>3, <2>1, BeforeResult DEF Drained
  <2>4. QED
    BY <1>5, <2>1, <2>2, <2>3
<1>18. ASSUME NEW k \in keyboard', Silent(frame', k) PROVE k \in keys
  BY <1>4, <1>6, <1>13, <1>14, <1>18
<1>10. LanesFollow'
  <2>1. LastPressed(frame', Drained')
    BY <1>6, <1>15
  <2>2. LastPressed(queue', down')
    BY <1>1, NoEvents
  <2>3. \A k \in keyboard' : Silent(frame', k) => k \in Drained'
    BY <1>15, <1>18
  <2>4. ~Threaded => queue' = <<>> /\ slipped' = {} /\ keyboard' \subseteq down'
    BY <1>1, <1>17 DEF PlaySound, LanesFollow
  <2>5. pausedAt' = None /\ ~waiting' =>
          \A k \in Keys : ChartLane(k) \in live'.held /\ Silent(frame', k) =>
            k \in Drained' \union slipped'
    BY <1>1, <1>9, <1>15
  <2>6. QED
    BY <1>1, <2>1, <2>2, <2>3, <2>4, <2>5 DEF LanesFollow
<1>11. QED
  BY <1>8, <1>10 DEF PlaySound

\* The time between a frame's events and its update only ages them.
LEMMA WorkSound ==
  ASSUME PlaySound, NEW d \in GapTimes, Work(d)
  PROVE  PlaySound'
<1>1. /\ stage' = "working" /\ position' = position + d
      /\ queue' = Aged(queue, d) /\ frame' = Aged(frame, d)
      /\ UNCHANGED <<down, keyboard, slipped, pausedAt, waiting, finished, live, sim>>
  BY DEF Work
<1>2. d \in Nat /\ queue \in Seq(Event) /\ frame \in Seq(Event)
  BY PlayAssumption DEF PlaySound, Typed, TypeOK
<1>3. /\ queue' \in Seq(Event) /\ frame' \in Seq(Event)
      /\ LastPressed(queue', down) /\ LastPressed(frame', Drained)
      /\ \A k : Silent(queue', k) => Silent(queue, k)
      /\ \A k : Silent(frame', k) => Silent(frame, k)
  BY <1>1, <1>2, AgedResult DEF PlaySound, LanesFollow
<1>4. position' \in Int
  BY <1>1, <1>2 DEF PlaySound, Typed, TypeOK
<1>5. Typed'
  BY <1>1, <1>3, <1>4 DEF PlaySound, Typed, TypeOK
<1>8. Drained' = Drained
  BY <1>1, <1>2, BeforeAged DEF Drained
<1>9. ~Threaded => queue' = <<>>
  <2> SUFFICES ASSUME ~Threaded PROVE Aged(queue, d) = <<>>
    BY <1>1
  <2>1. queue = <<>>
    BY DEF PlaySound, LanesFollow
  <2>2. QED
    BY <2>1 DEF Aged
<1>6. LanesFollow'
  BY <1>1, <1>3, <1>8, <1>9 DEF PlaySound, LanesFollow
<1>7. QED
  BY <1>5, <1>6 DEF PlaySound

\* At the end of a frame its events are gone: what is held must be down.
LEMMA EndFrameSound ==
  ASSUME PlaySound, EndFrame, position' \in Int, pausedAt' \in Int \union {None},
         waiting' \in BOOLEAN, finished' \in BOOLEAN, Playable(live'), Playable(sim'),
         slipped' \subseteq Keys, ~Threaded => slipped' = {},
         pausedAt' = None /\ ~waiting' =>
           \A k \in Keys : ChartLane(k) \in live'.held => k \in Drained \union slipped'
  PROVE  PlaySound'
<1>1. stage' = "idle" /\ frame' = <<>> /\ keyboard' = {} /\ UNCHANGED <<down, queue>>
  BY DEF EndFrame
<1>2. live' \in AttemptState /\ sim' \in AttemptState
  BY DEF Playable, Sound
<1>3. Typed'
  BY <1>1, <1>2, NoEvents DEF PlaySound, Typed, TypeOK
<1>4. Drained' = Drained
  BY <1>1 DEF Drained
<1>5. LanesFollow'
  BY <1>1, <1>4, NoEvents DEF PlaySound, LanesFollow
<1>6. QED
  BY <1>3, <1>5 DEF PlaySound

\* The keys that have slipped are keys, and there are none with polling.
SlippedOk == slipped \subseteq Keys /\ (~Threaded => slipped = {})

(* A restart begins with nothing held.                                     *)
LEMMA RestartSound ==
  ASSUME PlaySound, Restart
  PROVE  PlaySound'
<1>1. /\ EndFrame /\ position' = StartPosition /\ pausedAt' = None /\ waiting' \in BOOLEAN
      /\ live' = NewAttempt /\ sim' = NewAttempt /\ slipped' = {} /\ finished' = finished
  BY DEF Restart, NewPlay
<1>2. finished \in BOOLEAN /\ StartPosition \in Int
  BY PlayAssumption DEF PlaySound, Typed, TypeOK
<1>3. Playable(live') /\ Playable(sim') /\ live'.held = {}
  BY <1>1, NewAttemptPlayable
<1>4. QED
  BY <1>1, <1>2, <1>3, EndFrameSound

(* So does one from the pause menu, which keeps the frame's events.        *)
LEMMA RestartFromMenuSound ==
  ASSUME PlaySound, RestartFromMenu
  PROVE  PlaySound'
<1>1. /\ position' = StartPosition /\ pausedAt' = None /\ waiting' \in BOOLEAN
      /\ live' = NewAttempt /\ sim' = NewAttempt /\ slipped' = {} /\ finished' = finished
      /\ UNCHANGED <<stage, down, queue, frame, keyboard>>
  BY DEF RestartFromMenu, NewPlay
<1>2. StartPosition \in Int
  BY PlayAssumption
<1>3. Playable(live') /\ Playable(sim') /\ live'.held = {}
  BY <1>1, NewAttemptPlayable
<1>4. live' \in AttemptState /\ sim' \in AttemptState
  BY <1>3 DEF Playable, Sound
<1>5. Typed'
  BY <1>1, <1>2, <1>3, <1>4 DEF PlaySound, Typed, TypeOK
<1>6. Drained' = Drained
  BY <1>1 DEF Drained
<1>7. LanesFollow'
  BY <1>1, <1>3, <1>6 DEF PlaySound, LanesFollow
<1>8. QED
  BY <1>5, <1>7 DEF PlaySound

(* Pausing leaves the attempt as it is.                                    *)
LEMMA PauseSound ==
  ASSUME PlaySound, Pause
  PROVE  PlaySound'
<1>1. /\ EndFrame /\ pausedAt' = position
      /\ UNCHANGED <<position, slipped, waiting, finished, live, sim>>
  BY DEF Pause
<1>2. /\ position \in Int /\ waiting \in BOOLEAN /\ finished \in BOOLEAN
      /\ Playable(live) /\ Playable(sim) /\ SlippedOk
  BY DEF PlaySound, Typed, TypeOK, LanesFollow, SlippedOk
<1>3. pausedAt' # None
  BY <1>1, <1>2, NoneAssumption
<1>4. QED
  BY <1>1, <1>2, <1>3, EndFrameSound DEF SlippedOk

(* A frame while paused drops its events, and resuming makes up for them.  *)
LEMMA PausedFrameSound ==
  ASSUME PlaySound, PausedFrame
  PROVE  PlaySound'
<1>1. /\ EndFrame /\ pausedAt # None /\ position' = pausedAt
      /\ UNCHANGED <<slipped, pausedAt, waiting, finished, live, sim>>
  BY DEF PausedFrame
<1>2. /\ pausedAt \in Int \union {None} /\ waiting \in BOOLEAN /\ finished \in BOOLEAN
      /\ Playable(live) /\ Playable(sim) /\ SlippedOk
  BY DEF PlaySound, Typed, TypeOK, LanesFollow, SlippedOk
<1>3. QED
  BY <1>1, <1>2, EndFrameSound DEF SlippedOk

\* A resume takes the session to the keys that are down.
LEMMA ResumeSound ==
  ASSUME PlaySound, Resume
  PROVE  PlaySound' /\ HeadsAfter(live, live', ToInputTime(pausedAt))
<1>1. /\ pausedAt # None /\ pausedAt' = None /\ position' = pausedAt /\ SetKeys(pausedAt)
      /\ slipped' = {}
      /\ UNCHANGED <<stage, down, queue, frame, keyboard, waiting, finished>>
  BY DEF Resume, ResumePosition
<1>2. pausedAt \in Int /\ keyboard \subseteq Keys /\ Playable(live) /\ Playable(sim)
  BY <1>1 DEF PlaySound, Typed, TypeOK
<1>3. /\ Playable(live') /\ Playable(sim')
      /\ \A k \in Keys : ChartLane(k) \in live'.held => k \in keyboard
      /\ HeadsAfter(live, live', ToInputTime(pausedAt))
  BY <1>1, <1>2, SetKeysResult
<1>4. live' \in AttemptState /\ sim' \in AttemptState
  BY <1>3 DEF Playable, Sound
<1>5. Typed'
  BY <1>1, <1>2, <1>3, <1>4 DEF PlaySound, Typed, TypeOK
<1>6. Drained' = Drained
  BY <1>1 DEF Drained
<1>7. LanesFollow'
  BY <1>1, <1>3, <1>6 DEF PlaySound, LanesFollow
<1>8. QED
  BY <1>3, <1>5, <1>7 DEF PlaySound

(* So does a frame while the ticket is awaited.                            *)
LEMMA WaitingFrameSound ==
  ASSUME PlaySound, NEW pending \in BOOLEAN, WaitingFrame(pending)
  PROVE  PlaySound'
<1>1. /\ EndFrame /\ pausedAt = None /\ position' = StartPosition /\ waiting' = pending
      /\ pausedAt' = pausedAt /\ finished' = finished
      /\ IF pending THEN UNCHANGED <<live, sim, slipped>>
         ELSE SetKeys(StartPosition) /\ slipped' = keyboard \ Drained
  BY DEF WaitingFrame
<1>2. /\ StartPosition \in Int /\ finished \in BOOLEAN /\ keyboard \subseteq Keys
      /\ Playable(live) /\ Playable(sim) /\ SlippedOk
  BY PlayAssumption DEF PlaySound, Typed, TypeOK, LanesFollow, SlippedOk
<1>3. CASE pending
  BY <1>1, <1>2, <1>3, EndFrameSound DEF SlippedOk
<1>4. CASE ~pending
  <2>1. /\ Playable(live') /\ Playable(sim')
        /\ \A k \in Keys : ChartLane(k) \in live'.held => k \in keyboard
    BY <1>1, <1>2, <1>4, SetKeysResult
  <2>2. ~Threaded => keyboard \subseteq Drained
    <3> SUFFICES ASSUME ~Threaded PROVE keyboard \subseteq Drained
      OBVIOUS
    <3>1. queue = <<>> /\ keyboard \subseteq down /\ down \subseteq Keys
      BY DEF PlaySound, LanesFollow, Typed, TypeOK
    <3>2. QED
      BY <3>1, BeforeNothing DEF Drained
  <2>3. slipped' \subseteq Keys /\ (~Threaded => slipped' = {})
    BY <1>1, <1>2, <1>4, <2>2
  <2>4. \A k \in Keys : ChartLane(k) \in live'.held => k \in Drained \union slipped'
    BY <1>1, <1>4, <2>1
  <2>5. QED
    BY <1>1, <1>2, <2>1, <2>3, <2>4, EndFrameSound
<1>5. QED
  BY <1>3, <1>4

\* The frame's own events decide which lanes it leaves held.
LEMMA PlayFrameSound ==
  ASSUME PlaySound, NEW correction \in Corrections, PlayFrame(correction)
  PROVE  /\ PlaySound'
         /\ live'.latest \in Int
         /\ ToInputTime(position + correction) <= live'.latest
<1> DEFINE now == position + correction
           time == ToInputTime(now)
           e == EventInputs(now)
<1>1. /\ EndFrame /\ pausedAt = None /\ ~waiting /\ position' = now /\ Judge(e, time)
      /\ pausedAt' = None /\ waiting' = waiting /\ finished' \in BOOLEAN
      /\ slipped' = slipped \ {frame[n].key : n \in 1 .. Len(frame)}
  BY DEF PlayFrame
<1>2. now \in Int /\ time \in Int
  BY PlayAssumption DEF PlaySound, Typed, TypeOK, ToInputTime
<1>3. frame \in Seq(Event) /\ waiting \in BOOLEAN /\ Playable(live) /\ Playable(sim)
  BY DEF PlaySound, Typed, TypeOK
<1> HIDE DEF now, time
<1>4. /\ e \in Seq(InputType) /\ Len(e) = Len(frame)
      /\ \A n \in 1 .. Len(frame) : /\ e[n].key = ChartLane(frame[n].key)
                                    /\ e[n].pressed = frame[n].pressed
  BY <1>2, <1>3, EventInputsResult
<1> HIDE DEF e
<1>5. /\ Playable(live') /\ Playable(sim')
      /\ live'.latest \in Int /\ time <= live'.latest
      /\ \A lane \in live'.held : HeldByLast(live.held, e, Len(e), lane)
  BY <1>1, <1>2, <1>3, <1>4, JudgeResult
<1>6. ASSUME NEW k \in Keys, ChartLane(k) \in live'.held PROVE k \in Drained \union slipped'
  <2> DEFINE N == Len(frame)
  <2>1. N \in Nat /\ \A n \in 1 .. N : frame[n].key \in Keys
    <3>1. N \in Nat /\ \A n \in 1 .. N : frame[n] \in Event
      BY <1>3
    <3>2. QED
      BY <3>1 DEF Event
  <2>2. \A n \in 1 .. N : e[n].key = ChartLane(k) <=> frame[n].key = k
    BY <1>4, <2>1, LanesPermute
  <2>3. HeldByLast(live.held, e, N, ChartLane(k))
    BY <1>4, <1>5, <1>6
  <2>4. CASE \E m \in 1 .. N : /\ e[m].key = ChartLane(k) /\ e[m].pressed
                               /\ \A j \in m + 1 .. N : e[j].key # ChartLane(k)
    <3>1. PICK m \in 1 .. N : /\ e[m].key = ChartLane(k) /\ e[m].pressed
                              /\ \A j \in m + 1 .. N : e[j].key # ChartLane(k)
      BY <2>4
    <3>2. \A j \in m + 1 .. N : j \in 1 .. N
      BY <2>1
    <3>3. frame[m].key = k /\ frame[m].pressed /\ \A j \in m + 1 .. N : frame[j].key # k
      BY <1>4, <2>2, <3>1, <3>2
    <3>4. QED
      BY <3>3 DEF PlaySound, LanesFollow, LastPressed
  <2>5. CASE ChartLane(k) \in live.held /\ \A j \in 1 .. N : e[j].key # ChartLane(k)
    <3>1. Silent(frame, k)
      BY <2>2, <2>5 DEF Silent
    <3>2. k \in Drained \union slipped
      BY <1>1, <2>5, <3>1 DEF PlaySound, LanesFollow
    <3>3. QED
      BY <1>1, <3>1, <3>2 DEF Silent
  <2>6. QED
    BY <2>3, <2>4, <2>5 DEF HeldByLast
<1>7. QED
  <2>3. slipped' \subseteq Keys /\ (~Threaded => slipped' = {})
    BY <1>1 DEF PlaySound, Typed, TypeOK, LanesFollow
  <2>1. PlaySound'
    BY <1>1, <1>2, <1>3, <1>5, <1>6, <2>3, EndFrameSound
  <2>2. QED
    BY <1>5, <2>1 DEF time, now

(* Every step keeps PlaySound.                                             *)
LEMMA NextKeepsSound == PlaySound /\ [Next]_vars => PlaySound'
<1> SUFFICES ASSUME PlaySound, [Next]_vars PROVE PlaySound'
  OBVIOUS
<1>1. CASE UNCHANGED vars
  BY <1>1 DEF vars, PlaySound, Typed, TypeOK, LanesFollow, Drained
<1>2. CASE Restart \/ RestartFromMenu \/ Pause \/ PausedFrame \/ Resume
  BY <1>2, RestartSound, RestartFromMenuSound, PauseSound, PausedFrameSound, ResumeSound
<1>3. CASE \E key \in Keys : KeyChange(key)
  BY <1>3, KeyChangeSound
<1>4. CASE \E keys \in SUBSET Keys, d \in FrameTimes \union LongTimes : BeginFrame(keys, d)
  BY <1>4, BeginFrameSound
<1>5. CASE \E d \in GapTimes : Work(d)
  BY <1>5, WorkSound
<1>6. CASE \E pending \in BOOLEAN : WaitingFrame(pending)
  BY <1>6, WaitingFrameSound
<1>7. CASE \E c \in Corrections : PlayFrame(c)
  BY <1>7, PlayFrameSound
<1>8. QED
  BY <1>1, <1>2, <1>3, <1>4, <1>5, <1>6, <1>7 DEF Next

\* The invariant holds of every play.
THEOREM PlayIsSound == Spec => []PlaySound
<1>1. QED
  BY InitSound, NextKeepsSound, PTL DEF Spec

-----------------------------------------------------------------------------
(* Theorems *)

\* For every chart, offset, frame time and correction, and with a key source of
\* either kind, the scene, its queue and its two attempts keep their types.
THEOREM PlayTypeCorrect == Spec => []TypeOK
<1>1. PlaySound => TypeOK
  BY DEF PlaySound, Typed
<1>2. QED
  BY <1>1, PlayIsSound, PTL

\* However events are dropped by pausing, waiting and restarting, and however old
\* the key state that set_keys reads: a lane that the session believes held is a
\* key that is down, or its release is still to be judged, or it slipped by in
\* the one frame that ends the ticket wait, which polled keys never do.
THEOREM NoLaneSticks == Spec => []NoStuckLane
<1>1. PlaySound => NoStuckLane
  <2>1. ASSUME PlaySound, stage = "idle", pausedAt = None, ~waiting,
               NEW k \in Keys, ChartLane(k) \in live.held
        PROVE  \/ k \in down \/ k \in slipped
               \/ \E n \in 1 .. Len(queue) : queue[n].key = k /\ ~queue[n].pressed
    <3>1. Silent(frame, k)
      BY <2>1, NoEvents DEF PlaySound, LanesFollow
    <3>2. k \in Drained \union slipped
      BY <2>1, <3>1 DEF PlaySound, LanesFollow
    <3>3. queue \in Seq(Event)
      BY <2>1 DEF PlaySound, Typed, TypeOK
    <3>4. QED
      BY <3>2, <3>3, BeforeResult DEF Drained
  <2>2. QED
    BY <2>1 DEF NoStuckLane, PlaySound, LanesFollow
<1>2. QED
  BY <1>1, PlayIsSound, PTL

\* A resume misses only what was out of reach at the position of the pause.
THEOREM ResumesMissNothing == Spec => ResumeMissesNothing
<1> DEFINE Rule == pausedAt # None /\ pausedAt' = None /\ live' # NewAttempt =>
                     \A i \in Hits : ~live.head[i].done /\ live'.head[i].score = "MISS" =>
                       Chart[i].time + BadWindow < ToInputTime(pausedAt)
<1>1. PlaySound /\ [Next]_vars => [Rule]_vars
  <2> SUFFICES ASSUME PlaySound, Next, pausedAt # None, pausedAt' = None, live' # NewAttempt
               PROVE  \A i \in Hits : ~live.head[i].done /\ live'.head[i].score = "MISS" =>
                        Chart[i].time + BadWindow < ToInputTime(pausedAt)
    BY Zenon
  <2>1. Resume
    <3>1. ~Restart /\ ~RestartFromMenu
      BY DEF Restart, RestartFromMenu, NewPlay
    <3>2. ~Pause /\ ~PausedFrame
      BY DEF Pause, PausedFrame
    <3>3. \A key \in Keys : ~KeyChange(key)
      BY DEF KeyChange
    <3>4. \A keys \in SUBSET Keys, d \in FrameTimes \union LongTimes : ~BeginFrame(keys, d)
      BY DEF BeginFrame
    <3>5. \A d \in GapTimes : ~Work(d)
      BY DEF Work
    <3>6. \A pending \in BOOLEAN : ~WaitingFrame(pending)
      BY DEF WaitingFrame
    <3>7. \A c \in Corrections : ~PlayFrame(c)
      BY DEF PlayFrame
    <3>8. QED
      BY <3>1, <3>2, <3>3, <3>4, <3>5, <3>6, <3>7 DEF Next
  <2>2. HeadsAfter(live, live', ToInputTime(pausedAt))
    BY <2>1, ResumeSound
  <2>3. OpenNotMissed(live)
    BY DEF PlaySound, Typed, Playable
  <2>4. QED
    BY <2>2, <2>3 DEF HeadsAfter, OpenNotMissed
<1>2. QED
  BY <1>1, PlayIsSound, PTL DEF Spec, ResumeMissesNothing

-----------------------------------------------------------------------------
(* The end of a play *)

\* What FinishedIsComplete rests on: judging may run behind the song by no more
\* than RESULTS_DELAY_MS less the widest window.
OffsetsInReach == InputOffset + ResultsDelay >= ReleaseWindow

ChartEnd == Max({0} \union {IF IsHold(i) THEN Chart[i].endTime ELSE Chart[i].time : i \in Hits})

\* The end of the chart is no earlier than any of its notes.
LEMMA ChartEndIsLast ==
  /\ ChartEnd \in Int
  /\ \A i \in Hits : /\ Chart[i].time <= ChartEnd
                     /\ IsHold(i) => Chart[i].endTime <= ChartEnd
<1> DEFINE ends == [i \in Hits |-> IF IsHold(i) THEN Chart[i].endTime ELSE Chart[i].time]
           S == {ends[i] : i \in Hits}
<1>1. \A i \in Hits : Chart[i].time \in Int /\ Chart[i].endTime \in Int /\ ends[i] \in Int
  BY ChartAssumption DEF Hit
<1>2. ChartEnd = Max({0} \union S)
  BY DEF ChartEnd
<1>3. ends \in Surjection(Hits, S)
  BY DEF Surjection
<1>4. S \subseteq Int
  BY <1>1
<1> HIDE DEF ends
<1>5. IsFiniteSet(Hits)
  BY HitsFinite
<1>6. IsFiniteSet(S \union {0})
  <2> HIDE DEF S
  <2> QED
    BY <1>3, <1>5, FS_Surjection, FS_AddElement
<1>7. ChartEnd \in Int /\ \A y \in {0} \union S : y <= ChartEnd
  <2> HIDE DEF S
  <2>1. {0} \union S = S \union {0}
    OBVIOUS
  <2>2. {0} \union S \subseteq Int /\ {0} \union S # {}
    BY <1>4
  <2>3. QED
    BY <1>2, <1>6, <2>1, <2>2, MaxOfFinite
<1>8. \A i \in Hits : ends[i] <= ChartEnd
  BY <1>7
<1>9. QED
  <2> SUFFICES ASSUME NEW i \in Hits
               PROVE  Chart[i].time <= ChartEnd /\ (IsHold(i) => Chart[i].endTime <= ChartEnd)
    BY <1>7
  <2>1. CASE IsHold(i)
    <3>1. Chart[i].time <= Chart[i].endTime /\ ends[i] = Chart[i].endTime
      BY <2>1, ChartAssumption DEF IsHold, ends
    <3>2. QED
      BY <1>1, <1>7, <1>8, <3>1
  <2>2. CASE ~IsHold(i)
    BY <1>8, <2>2 DEF ends
  <2>3. QED
    BY <2>1, <2>2

AllJudged(a) == \A i \in Hits : a.head[i].done /\ (IsHold(i) => a.tail[i].done)

\* A sound attempt that has heard of a time past every window is judged through.
LEMMA LateIsJudged ==
  ASSUME NEW a, Sound(a), NEW now \in Int, now > ChartEnd + ResultsDelay,
         OffsetsInReach, a.latest \in Int, ToInputTime(now) <= a.latest
  PROVE  AllJudged(a)
<1>1. /\ ChartEnd \in Int /\ InputOffset \in Int /\ BadWindow \in Nat /\ ReleaseWindow \in Nat
      /\ BadWindow <= ReleaseWindow
  <2>1. 0 \in Hits
    BY ChartAssumption DEF Hits
  <2>2. QED
    BY <2>1, ChartEndIsLast, PlayAssumption, PastDef
<1>2. a.latest > ChartEnd + ReleaseWindow /\ a.latest # None
  BY <1>1, NoneAssumption DEF ToInputTime, OffsetsInReach, ResultsDelay
<1> SUFFICES ASSUME NEW i \in Hits
             PROVE  a.head[i].done /\ (IsHold(i) => a.tail[i].done)
  BY DEF AllJudged
<1>3. /\ ~a.head[i].done => a.latest <= Chart[i].time + BadWindow
      /\ IsHold(i) /\ ~a.tail[i].done => a.latest <= Chart[i].endTime + ReleaseWindow
  BY <1>2 DEF Sound, Timely
<1>4. Chart[i].time \in Int /\ Chart[i].endTime \in Int
  BY ChartAssumption DEF Hit
<1>5. /\ Chart[i].time <= ChartEnd
      /\ IsHold(i) => Chart[i].endTime <= ChartEnd
  BY ChartEndIsLast
<1>6. QED
  BY <1>1, <1>2, <1>3, <1>4, <1>5

\* finish() stops the scene, and it stops it complete.
Complete == finished => stage = "idle" /\ AllJudged(live)

(* Every step keeps Complete.                                              *)
LEMMA NextComplete ==
  ASSUME OffsetsInReach, PlaySound, Complete, [Next]_vars
  PROVE  Complete'
<1>1. CASE UNCHANGED vars
  BY <1>1 DEF vars, Complete, AllJudged
<1>2. CASE Next
  <2>1. CASE finished
    <3>1. stage = "idle"
      BY <2>1 DEF Complete
    <3>2. /\ ~Restart /\ ~RestartFromMenu /\ ~Pause /\ ~PausedFrame /\ ~Resume
          /\ \A pending \in BOOLEAN : ~WaitingFrame(pending)
          /\ \A c \in Corrections : ~PlayFrame(c)
          /\ \A d \in GapTimes : ~Work(d)
      BY <3>1 DEF Restart, RestartFromMenu, Pause, PausedFrame, Resume, WaitingFrame,
                  PlayFrame, Work, EndFrame
    <3>3. /\ \A key \in Keys : ~KeyChange(key)
          /\ \A keys \in SUBSET Keys, d \in FrameTimes \union LongTimes : ~BeginFrame(keys, d)
      BY <2>1 DEF KeyChange, BeginFrame
    <3>4. QED
      BY <1>2, <3>2, <3>3 DEF Next
  <2>2. CASE ~finished
    <3>1. CASE \E c \in Corrections : PlayFrame(c)
      <4>1. PICK c \in Corrections : PlayFrame(c)
        BY <3>1
      <4> DEFINE now == position + c
      <4>2. /\ Sound(live') /\ live'.latest \in Int /\ ToInputTime(now) <= live'.latest
        BY <4>1, PlayFrameSound DEF PlaySound, Typed, Playable
      <4>3. stage' = "idle" /\ finished' = (now > ChartEnd + ResultsDelay)
        BY <4>1, Zenon DEF PlayFrame, EndFrame, ChartEnd
      <4>4. now \in Int
        BY PlayAssumption DEF PlaySound, Typed, TypeOK
      <4> HIDE DEF now
      <4>5. finished' => AllJudged(live')
        BY <4>2, <4>3, <4>4, LateIsJudged
      <4>6. QED
        BY <4>3, <4>5 DEF Complete
    <3>2. CASE ~\E c \in Corrections : PlayFrame(c)
      <4>1. ~finished'
        BY <1>2, <2>2, <3>2 DEF Next, KeyChange, BeginFrame, Work, Restart, RestartFromMenu,
                               NewPlay, Pause, PausedFrame, Resume, WaitingFrame
      <4>2. QED
        BY <4>1 DEF Complete
    <3>3. QED
      BY <3>1, <3>2
  <2>3. QED
    BY <2>1, <2>2
<1>3. QED
  BY <1>1, <1>2

\* With offsets in reach, every note has been judged when the results are shown.
THEOREM FinishedPlaysAreComplete ==
  ASSUME OffsetsInReach
  PROVE  Spec => []FinishedIsComplete
<1>1. Init => Complete
  BY DEF Init, Complete
<1>2. PlaySound /\ Complete /\ [Next]_vars => Complete'
  BY NextComplete
<1>3. Complete => FinishedIsComplete
  BY DEF Complete, AllJudged, FinishedIsComplete
<1>4. QED
  BY <1>1, <1>2, <1>3, PlayIsSound, PTL DEF Spec

-----------------------------------------------------------------------------
(* What a whole sequence of inputs keeps *)

\* What each input in turn leads to, all of them together lead to.
LEMMA InputsLead ==
  ASSUME NEW S, NEW a \in S[0], NEW inputs \in Seq(InputType),
         \A n \in 1 .. Len(inputs) : \A x \in S[n - 1] : ApplyInput(x, inputs[n]) \in S[n]
  PROVE  ApplyInputs(a, inputs) \in S[Len(inputs)]
<1> DEFINE N == Len(inputs)
<1>1. PICK run : IsRun(run, a, inputs) /\ ApplyInputs(a, inputs) = run[N]
  BY InputsRun
<1>2. N \in Nat /\ run[0] = a
  BY <1>1 DEF IsRun
<1> DEFINE T == {n \in Nat : n <= N => run[n] \in S[n]}
<1>3. 0 \in T
  BY <1>2
<1>4. ASSUME NEW n \in Nat, n \in T PROVE n + 1 \in T
  <2>1. SUFFICES ASSUME n + 1 <= N PROVE run[n + 1] \in S[n + 1]
    OBVIOUS
  <2>2. n + 1 \in 1 .. N /\ (n + 1) - 1 = n
    BY <1>2, <2>1
  <2>3. run[n] \in S[n]
    BY <1>2, <1>4, <2>1
  <2>4. run[n + 1] = ApplyInput(run[n], inputs[n + 1])
    BY <1>1, <2>2 DEF IsRun
  <2>5. \A x \in S[n] : ApplyInput(x, inputs[n + 1]) \in S[n + 1]
    BY <2>2
  <2>6. QED
    BY <2>3, <2>4, <2>5
<1>5. \A n \in Nat : n \in T
  <2> HIDE DEF T
  <2> QED
    BY <1>3, <1>4, NatInduct
<1>6. QED
  BY <1>1, <1>2, <1>5

\* What each input keeps, all of them together keep.
LEMMA InputsKeep ==
  ASSUME NEW S, NEW a \in S, NEW inputs \in Seq(InputType),
         \A n \in 1 .. Len(inputs) : \A x \in S : ApplyInput(x, inputs[n]) \in S
  PROVE  ApplyInputs(a, inputs) \in S
<1> DEFINE N == Len(inputs)
           R == [n \in Nat |-> S]
<1>1. N \in Nat /\ a \in R[0] /\ R[N] = S
  OBVIOUS
<1>2. \A n \in 1 .. N : R[n - 1] = S /\ R[n] = S
  OBVIOUS
<1> HIDE DEF R
<1>3. \A n \in 1 .. N : \A x \in R[n - 1] : ApplyInput(x, inputs[n]) \in R[n]
  BY <1>2
<1>4. ApplyInputs(a, inputs) \in R[N]
  BY <1>1, <1>3, InputsLead
<1>5. QED
  BY <1>1, <1>4

\* What each input keeps of two attempts that take it both, all of them together keep.
LEMMA InputsKeepBoth ==
  ASSUME NEW S, NEW a, NEW b, <<a, b>> \in S, NEW inputs \in Seq(InputType),
         \A n \in 1 .. Len(inputs) : \A x, y :
           <<x, y>> \in S => <<ApplyInput(x, inputs[n]), ApplyInput(y, inputs[n])>> \in S
  PROVE  <<ApplyInputs(a, inputs), ApplyInputs(b, inputs)>> \in S
<1> DEFINE N == Len(inputs)
<1>1. PICK p : IsRun(p, a, inputs) /\ ApplyInputs(a, inputs) = p[N]
  BY InputsRun
<1>2. PICK q : IsRun(q, b, inputs) /\ ApplyInputs(b, inputs) = q[N]
  BY InputsRun
<1>3. N \in Nat /\ p[0] = a /\ q[0] = b
  BY <1>1, <1>2 DEF IsRun
<1> DEFINE T == {n \in Nat : n <= N => <<p[n], q[n]>> \in S}
<1>4. 0 \in T
  BY <1>3
<1>5. ASSUME NEW n \in Nat, n \in T PROVE n + 1 \in T
  <2>1. SUFFICES ASSUME n + 1 <= N PROVE <<p[n + 1], q[n + 1]>> \in S
    OBVIOUS
  <2>2. n + 1 \in 1 .. N /\ (n + 1) - 1 = n
    BY <1>3, <2>1
  <2>3. <<p[n], q[n]>> \in S
    BY <1>3, <1>5, <2>1
  <2>4. /\ p[n + 1] = ApplyInput(p[n], inputs[n + 1])
        /\ q[n + 1] = ApplyInput(q[n], inputs[n + 1])
    BY <1>1, <1>2, <2>2 DEF IsRun
  <2>5. QED
    BY <2>2, <2>3, <2>4
<1>6. \A n \in Nat : n \in T
  <2> HIDE DEF T
  <2> QED
    BY <1>4, <1>5, NatInduct
<1>7. QED
  BY <1>1, <1>2, <1>3, <1>6

-----------------------------------------------------------------------------
(* A session and the replay of its inputs *)

\* An update at any of these times brings a and b to the same judgements.
Linked(a, b, times) ==
  /\ Sound(a) /\ Sound(b) /\ a.held = b.held
  /\ \A t \in times : Same(Update(a, t), Update(b, t))

\* One input at one of these times keeps two attempts together.
LEMMA InputLinked ==
  ASSUME NEW times, times \subseteq Int, NEW a, NEW b, Linked(a, b, times),
         NEW input \in InputType, input.time \in times
  PROVE  Linked(ApplyInput(a, input), ApplyInput(b, input), times)
<1> DEFINE key == input.key
           time == input.time
           c == ApplyInput(a, input)
           d == ApplyInput(b, input)
<1>1. /\ key \in Keys /\ key \in Nat /\ time \in Int
      /\ Sound(a) /\ Sound(b) /\ a.held = b.held
      /\ Same(Update(a, time), Update(b, time))
  BY ChartAssumption DEF InputType, Keys, Linked
<1>2. Sound(c) /\ Sound(d) /\ c.held = d.held
  BY <1>1, InputApplied
<1>3. CASE input.pressed <=> key \in a.held
  <2>1. c = a /\ d = b
    BY <1>1, <1>3 DEF ApplyInput, Press, Presses, Release
  <2>2. QED
    BY <2>1
<1>4. CASE ~(input.pressed <=> key \in a.held)
  <2>1. Same(c, d)
    <3>1. CASE input.pressed
      <4>1. key \notin a.held /\ c = Press(a, key, time) /\ d = Press(b, key, time)
        BY <1>4, <3>1 DEF ApplyInput
      <4> HIDE DEF key, time, c, d
      <4>2. QED
        BY <1>1, <4>1, PressSame
    <3>2. CASE ~input.pressed
      <4>1. key \in a.held /\ c = Release(a, key, time) /\ d = Release(b, key, time)
        BY <1>4, <3>2 DEF ApplyInput
      <4> HIDE DEF key, time, c, d
      <4>2. QED
        BY <1>1, <4>1, ReleaseSame
    <3>3. QED
      BY <3>1, <3>2
  <2> HIDE DEF c, d
  <2>2. \A t \in times : Same(Update(c, t), Update(d, t))
    BY <1>2, <2>1, SameUpdates
  <2>3. Linked(c, d, times)
    BY <1>2, <2>2 DEF Linked
  <2>4. QED
    BY <2>3 DEF c, d
<1>5. QED
  BY <1>3, <1>4

(* So do several.                                                          *)
LEMMA InputsLinked ==
  ASSUME NEW times, times \subseteq Int, NEW a, NEW b, Linked(a, b, times),
         NEW inputs \in Seq(InputType), \A n \in 1 .. Len(inputs) : inputs[n].time \in times
  PROVE  Linked(ApplyInputs(a, inputs), ApplyInputs(b, inputs), times)
<1> DEFINE S == {s \in AttemptState \X AttemptState : Linked(s[1], s[2], times)}
<1>1. ASSUME NEW x, NEW y
      PROVE  <<x, y>> \in S <=> Linked(x, y, times)
  <2>1. Linked(x, y, times) => x \in AttemptState /\ y \in AttemptState
    BY DEF Linked, Sound
  <2>2. <<x, y>>[1] = x /\ <<x, y>>[2] = y
    OBVIOUS
  <2>3. <<x, y>> \in AttemptState \X AttemptState <=> x \in AttemptState /\ y \in AttemptState
    OBVIOUS
  <2>4. QED
    BY <2>1, <2>2, <2>3, Zenon
<1> HIDE DEF S
<1>2. ASSUME NEW n \in 1 .. Len(inputs), NEW x, NEW y, <<x, y>> \in S
      PROVE  <<ApplyInput(x, inputs[n]), ApplyInput(y, inputs[n])>> \in S
  <2>1. inputs[n] \in InputType /\ inputs[n].time \in times
    OBVIOUS
  <2>2. QED
    BY <1>1, <1>2, <2>1, InputLinked
<1>3. <<ApplyInputs(a, inputs), ApplyInputs(b, inputs)>> \in S
  BY <1>1, <1>2, InputsKeepBoth
<1>4. QED
  BY <1>1, <1>3

\* Inputs that say what is already so change nothing.
LEMMA InputsIdle ==
  ASSUME NEW a, NEW inputs \in Seq(InputType),
         \A n \in 1 .. Len(inputs) : inputs[n].pressed <=> inputs[n].key \in a.held
  PROVE  ApplyInputs(a, inputs) = a
<1>1. ASSUME NEW n \in 1 .. Len(inputs)
      PROVE  ApplyInput(a, inputs[n]) = a
  <2>1. inputs[n].pressed <=> inputs[n].key \in a.held
    OBVIOUS
  <2>2. QED
    BY <2>1 DEF ApplyInput, Press, Presses, Release
<1>2. \A n \in 1 .. Len(inputs) : \A x \in {a} : ApplyInput(x, inputs[n]) \in {a}
  BY <1>1
<1>3. ApplyInputs(a, inputs) \in {a}
  BY <1>2, InputsKeep
<1>4. QED
  BY <1>3

\* An attempt whose counters are the recount stays one.
LEMMA InputsCounted ==
  ASSUME NEW a, Sound(a), Counted(a), NEW inputs \in Seq(InputType)
  PROVE  Sound(ApplyInputs(a, inputs)) /\ Counted(ApplyInputs(a, inputs))
<1> DEFINE S == {x \in AttemptState : Sound(x) /\ Counted(x)}
<1>1. \A x : x \in S <=> Sound(x) /\ Counted(x)
  BY DEF Sound
<1> HIDE DEF S
<1>2. ASSUME NEW n \in 1 .. Len(inputs), NEW x \in S
      PROVE  ApplyInput(x, inputs[n]) \in S
  <2> DEFINE input == inputs[n]
  <2>0. input \in InputType
    OBVIOUS
  <2>1. input \in InputType /\ input.key \in Keys /\ input.key \in Nat /\ input.time \in Int
    BY <2>0, ChartAssumption DEF InputType, Keys
  <2> HIDE DEF input
  <2>2. Sound(x) /\ Counted(x)
    BY <1>1
  <2>3. Sound(ApplyInput(x, input))
    BY <2>1, <2>2, InputApplied
  <2>4. Counted(Press(x, input.key, input.time)) /\ Counted(Release(x, input.key, input.time))
    BY <2>1, <2>2, PressCounted, ReleaseCounted
  <2>5. Counted(ApplyInput(x, input))
    BY <2>4 DEF ApplyInput
  <2>6. QED
    BY <1>1, <2>3, <2>5 DEF input
<1>3. ApplyInputs(a, inputs) \in S
  BY <1>1, <1>2, InputsKeep
<1>4. QED
  BY <1>1, <1>3

\* When inputs say how the lanes are in K, the lanes they are about end up so.
LEMMA InputsHeld ==
  ASSUME NEW a, Sound(a), NEW inputs \in Seq(InputType), NEW K,
         \A n \in 1 .. Len(inputs) : inputs[n].pressed <=> inputs[n].key \in K,
         \A l \in Keys : (\A n \in 1 .. Len(inputs) : inputs[n].key # l) => (l \in a.held <=> l \in K)
  PROVE  \A l \in Keys : l \in ApplyInputs(a, inputs).held <=> l \in K
<1> DEFINE N == Len(inputs)
           Known(n, l) == \E m \in 1 .. n : inputs[m].key = l
           At(n, x) == \A l \in Keys : l \in x.held <=> IF Known(n, l) THEN l \in K ELSE l \in a.held
           S == [n \in Nat |-> {x \in AttemptState : Sound(x) /\ At(n, x)}]
<1>1. \A n \in Nat : \A x : x \in S[n] <=> Sound(x) /\ At(n, x)
  BY Zenon DEF Sound
<1>2. a \in S[0]
  <2>1. At(0, a)
    OBVIOUS
  <2> HIDE DEF At, S
  <2>2. QED
    BY <1>1, <2>1
<1>3. ASSUME NEW n \in 1 .. N, NEW x \in S[n - 1]
      PROVE  ApplyInput(x, inputs[n]) \in S[n]
  <2> DEFINE input == inputs[n]
             y == ApplyInput(x, input)
  <2>1. n \in Nat /\ n - 1 \in Nat /\ input \in InputType
    OBVIOUS
  <2>2. Sound(x) /\ At(n - 1, x)
    <3> HIDE DEF At, S
    <3> QED
      BY <1>1, <2>1
  <2>3. Sound(y) /\ y.held = KeysAfter(x.held, input)
    BY <2>1, <2>2, InputApplied
  <2>4. \A l : Known(n, l) <=> Known(n - 1, l) \/ input.key = l
    <3>1. \A m : m \in 1 .. n <=> m \in 1 .. (n - 1) \/ m = n
      BY <2>1
    <3>2. QED
      BY <3>1
  <2>5. At(n, y)
    <3> HIDE DEF y, Known
    <3>1. SUFFICES ASSUME NEW l \in Keys
                   PROVE  l \in y.held <=> IF Known(n, l) THEN l \in K ELSE l \in a.held
      OBVIOUS
    <3>2. l \in x.held <=> IF Known(n - 1, l) THEN l \in K ELSE l \in a.held
      BY <2>2
    <3>3. input.pressed <=> input.key \in K
      OBVIOUS
    <3> HIDE DEF input
    <3>4. CASE input.key = l
      BY <2>3, <2>4, <3>3, <3>4 DEF KeysAfter
    <3>5. CASE input.key # l
      BY <2>3, <2>4, <3>2, <3>5 DEF KeysAfter
    <3>6. QED
      BY <3>4, <3>5
  <2> HIDE DEF At, S
  <2>6. QED
    BY <1>1, <2>1, <2>3, <2>5
<1>4. ApplyInputs(a, inputs) \in S[N]
  <2> HIDE DEF S
  <2> QED
    BY <1>2, <1>3, InputsLead
<1>5. At(N, ApplyInputs(a, inputs))
  <2>1. N \in Nat
    OBVIOUS
  <2> HIDE DEF At, S
  <2>2. QED
    BY <1>1, <1>4, <2>1
<1>6. QED
  BY <1>5

\* The latest time of b is that of a, or no later than `time'.
LatestFrom(a, b, time) == b.latest = a.latest \/ (b.latest \in Int /\ b.latest <= time)

\* An update, too, hears of its own time only.
LEMMA UpdateLatest ==
  ASSUME NEW a, NEW b, Sound(b), NEW t \in Int, NEW time \in Int, t <= time, LatestFrom(a, b, time)
  PROVE  LatestFrom(a, Update(b, t), time)
<1>1. b \in AttemptState /\ b.latest \in Int \union {None}
  BY DEF Sound, AttemptState
<1>2. Update(b, t).latest = LatestAt(b, t)
  BY <1>1, UpdateResult
<1>3. QED
  BY <1>1, <1>2 DEF LatestAt, MaxOf, LatestFrom

\* Inputs do not take an attempt past the last of them.
LEMMA InputsLatest ==
  ASSUME NEW a, Sound(a), NEW inputs \in Seq(InputType), NEW time \in Int,
         \A n \in 1 .. Len(inputs) : inputs[n].time <= time
  PROVE  LatestFrom(a, ApplyInputs(a, inputs), time)
<1> DEFINE S == {x \in AttemptState : Sound(x) /\ LatestFrom(a, x, time)}
<1>1. \A x : x \in S <=> Sound(x) /\ LatestFrom(a, x, time)
  BY DEF Sound
<1> HIDE DEF S
<1>2. ASSUME NEW n \in 1 .. Len(inputs), NEW x \in S
      PROVE  ApplyInput(x, inputs[n]) \in S
  <2> DEFINE input == inputs[n]
             key == input.key
             t == input.time
             u == Update(x, t)
             C == Candidates(u, key, t)
  <2>0. input \in InputType
    OBVIOUS
  <2>1. input \in InputType /\ key \in Keys /\ t \in Int /\ t <= time
    BY <2>0 DEF InputType
  <2> HIDE DEF input, key, t
  <2>2. Sound(x) /\ LatestFrom(a, x, time)
    BY <1>1
  <2>3. Sound(u) /\ LatestFrom(a, u, time)
    BY <2>1, <2>2, UpdateLatest, UpdateSound
  <2>4. CASE input.pressed /\ key \notin x.held
    <3>1. PressOutcome(x, key, t, u, C, ChosenHit(C, t), Press(x, key, t))
      BY <2>1, <2>2, <2>4, PressResult, Zenon
    <3> HIDE DEF u, C
    <3>2. Press(x, key, t).latest = u.latest
      BY <3>1 DEF PressOutcome
    <3>3. LatestFrom(a, ApplyInput(x, input), time)
      BY <2>3, <2>4, <3>2 DEF ApplyInput, LatestFrom, key, t
    <3>4. QED
      BY <1>1, <2>1, <2>2, <3>3, InputApplied DEF input
  <2>5. CASE ~input.pressed /\ key \in x.held
    <3> DEFINE c == LetGo(u, key)
               i == u.target[key]
               err == t - Chart[i].endTime
               b == Release(x, key, t)
    <3>1. b = IF i # None /\ IsHold(i) THEN ScoreTail(c, i, err) ELSE c
      BY <2>1, <2>5, Zenon DEF Release
    <3> HIDE DEF u, b
    <3>2. c \in AttemptState /\ c.latest = u.latest
      BY <2>1, <2>3 DEF LetGo, Sound, AttemptState
    <3>3. b.latest = u.latest
      <4>1. CASE i # None /\ IsHold(i)
        <5>1. i \in Hits
          BY <2>1, <2>3, <4>1 DEF Sound, AttemptState
        <5>2. err \in Int
          BY <2>1, <5>1, ChartAssumption DEF Hit
        <5> HIDE DEF c, i, err
        <5>3. ScoreTail(c, i, err).latest = c.latest
          BY <3>2, <5>1, <5>2, ScoreTailResult
        <5>4. QED
          BY <3>1, <3>2, <4>1, <5>3
      <4>2. CASE ~(i # None /\ IsHold(i))
        BY <3>1, <3>2, <4>2
      <4>3. QED
        BY <4>1, <4>2
    <3>4. LatestFrom(a, ApplyInput(x, input), time)
      BY <2>3, <2>5, <3>3 DEF ApplyInput, LatestFrom, key, t, b
    <3>5. QED
      BY <1>1, <2>1, <2>2, <3>4, InputApplied DEF input
  <2>6. CASE input.pressed <=> key \in x.held
    <3>1. ApplyInput(x, input) = x
      BY <2>6 DEF ApplyInput, Press, Presses, Release, key
    <3>2. QED
      BY <3>1 DEF input
  <2>7. QED
    BY <2>4, <2>5, <2>6
<1>3. ApplyInputs(a, inputs) \in S
  <2>0. LatestFrom(a, a, time)
    BY DEF LatestFrom
  <2>1. a \in S
    BY <1>1, <2>0
  <2>2. QED
    BY <1>2, <2>1, InputsKeep
<1>4. QED
  BY <1>1, <1>3

-----------------------------------------------------------------------------
(* Why a replay of the recorded inputs agrees with the play                *)

\* Nothing can be missed yet at this time, if there is one.
Quiet(t) == t = None \/ Early(t)

\* The events say of their lanes what the session has them at already.
Reported(events, held) ==
  \A n \in 1 .. Len(events) : events[n].pressed <=> ChartLane(events[n].key) \in held

\* At song position pos, the events lie at the time t or after it.
Fresh(events, pos, t) ==
  \A n \in 1 .. Len(events) : t <= ToInputTime(pos - events[n].age)

\* The session has not heard of a time that is still to come; the events of the
\* frame are news, or they were overtaken by a resume and say nothing new.
Caught ==
  /\ live.latest <= ToInputTime(IF pausedAt = None THEN position ELSE pausedAt)
  /\ pausedAt = None => \/ Reported(frame, live.held)
                        \/ Fresh(frame, position, live.latest)

\* The replay is the play, or it lacks the update at the play's latest time.
InStep ==
  \/ Quiet(live.latest) /\ Same(live, sim)
  \/ /\ ~waiting /\ live.latest \in Int
     /\ Same(live, Update(sim, live.latest)) /\ Caught

\* While the ticket is awaited the clock is held before any note can be missed.
EarlyWait ==
  waiting =>
    /\ Quiet(live.latest)
    /\ pausedAt # None => Early(ToInputTime(pausedAt))
    /\ pausedAt = None =>
         /\ stage = "idle" => position = StartPosition
         /\ stage = "begun" => \E d \in FrameTimes : position = StartPosition + d
         /\ stage = "working" => Early(ToInputTime(position))

\* With polling the events of a frame are those of its keyboard.
PolledFrame ==
  queue = <<>> /\ \A n \in 1 .. Len(frame) : frame[n].pressed <=> frame[n].key \in keyboard

PlayFollows == InStep /\ EarlyWait /\ PolledFrame /\ Counted(live) /\ Counted(sim)

\* Key events are polled, and no correction takes the song position back.
PolledForward == ~Threaded /\ Corrections \subseteq Nat

\* No window is past at the end of the first frame: the play starts before the chart.
StartsEarly ==
  /\ Early(ToInputTime(StartPosition))
  /\ \A d \in FrameTimes, g \in GapTimes : Early(ToInputTime(StartPosition + d + g))

\* Inputs that come no earlier than the session's latest time, or that are no
\* news to it, and an update leave the replay in step.
LEMMA JudgeFollows ==
  ASSUME NEW inputs \in Seq(InputType), NEW time \in Int, Judge(inputs, time),
         Sound(live), Sound(sim), Counted(live), Counted(sim),
         \A n \in 1 .. Len(inputs) : inputs[n].time <= time,
         \/ Quiet(live.latest) /\ Same(live, sim)
         \/ /\ live.latest \in Int /\ live.latest <= time
            /\ Same(live, Update(sim, live.latest))
            /\ \/ \A n \in 1 .. Len(inputs) : live.latest <= inputs[n].time
               \/ \A n \in 1 .. Len(inputs) : inputs[n].pressed <=> inputs[n].key \in live.held
  PROVE  /\ Counted(live') /\ Counted(sim') /\ Sound(sim')
         /\ Same(live', Update(sim', time)) /\ live'.latest \in Int
         /\ \/ live'.latest = time
            \/ time < live'.latest /\ Early(live'.latest)
<1> DEFINE b == ApplyInputs(live, inputs)
           c == ApplyInputs(sim, inputs)
<1>0. \A n \in 1 .. Len(inputs) : inputs[n].time \in Int
  <2>1. \A n \in 1 .. Len(inputs) : inputs[n] \in InputType
    OBVIOUS
  <2>2. QED
    BY <2>1 DEF InputType
<1>1. live' = Update(b, time) /\ sim' = c
  BY DEF Judge
<1>2. Sound(b) /\ Counted(b) /\ Sound(c) /\ Counted(c)
  BY InputsCounted
<1>3. Same(Update(b, time), Update(c, time))
  <2>1. CASE Same(live, sim)
    <3>1. live.held = sim.held /\ \A t \in Int : Same(Update(live, t), Update(sim, t))
      BY <2>1, SameUpdates DEF Same
    <3>2. Linked(live, sim, Int)
      BY <3>1 DEF Linked
    <3>3. Linked(b, c, Int)
      BY <1>0, <3>2, InputsLinked
    <3> HIDE DEF b, c
    <3>4. QED
      BY <3>3 DEF Linked
  <2>2. ASSUME live.latest \in Int, live.latest <= time, Same(live, Update(sim, live.latest))
        PROVE  live.held = sim.held
               /\ \A t \in Int : live.latest <= t => Same(Update(live, t), Update(sim, t))
    <3>1. live.held = sim.held
      BY <2>2, UpdateSound DEF Same
    <3>2. QED
      BY <2>2, <3>1, UpdateAgain
  <2>3. CASE /\ live.latest \in Int /\ live.latest <= time
             /\ Same(live, Update(sim, live.latest))
             /\ \A n \in 1 .. Len(inputs) : live.latest <= inputs[n].time
    <3> DEFINE times == {t \in Int : live.latest <= t}
    <3>1. Linked(live, sim, times)
      BY <2>2, <2>3 DEF Linked
    <3>2. \A n \in 1 .. Len(inputs) : inputs[n].time \in times
      BY <1>0, <2>3
    <3>3. time \in times
      BY <2>3
    <3> HIDE DEF b, c
    <3>4. times \subseteq Int
      OBVIOUS
    <3> HIDE DEF times
    <3>5. Linked(b, c, times)
      BY <3>1, <3>2, <3>4, InputsLinked DEF b, c
    <3>6. QED
      BY <3>3, <3>5 DEF Linked
  <2>4. CASE /\ live.latest \in Int /\ live.latest <= time
             /\ Same(live, Update(sim, live.latest))
             /\ \A n \in 1 .. Len(inputs) : inputs[n].pressed <=> inputs[n].key \in live.held
    <3>1. b = live /\ c = sim
      BY <2>2, <2>4, InputsIdle
    <3>2. QED
      BY <2>2, <2>4, <3>1
  <2>5. QED
    BY <2>1, <2>3, <2>4
<1>4. LatestFrom(live, b, time)
  BY InputsLatest
<1> HIDE DEF b, c
<1>5. Counted(live')
  BY <1>1, <1>2, UpdateCounted
<1>6. b \in AttemptState /\ b.latest \in Int \union {None}
  BY <1>2 DEF Sound, AttemptState
<1>7. live'.latest = LatestAt(b, time)
  <2>1. Update(b, time).latest = LatestAt(b, time)
    BY <1>6, UpdateResult
  <2>2. QED
    BY <1>1, <2>1
<1>8. /\ live'.latest \in Int
      /\ live'.latest = time \/ (live'.latest = live.latest /\ time < live.latest)
  BY <1>4, <1>6, <1>7 DEF LatestAt, MaxOf, LatestFrom
<1>9. time < live.latest /\ live.latest \in Int => Early(live.latest)
  BY NoneAssumption DEF Quiet
<1>10. QED
  BY <1>1, <1>2, <1>3, <1>5, <1>8, <1>9

\* After the update at `time' of a step the replay is in step, if nothing can be
\* missed at that time yet or if it is the present and no news is left.
LEMMA JudgedInStep ==
  ASSUME NEW time \in Int, Sound(sim'), Same(live', Update(sim', time)), live'.latest \in Int,
         \/ live'.latest = time
         \/ time < live'.latest /\ Early(live'.latest),
         waiting' => Early(time), pausedAt' = None, time <= ToInputTime(position'),
         Reported(frame', live'.held)
  PROVE  InStep'
<1>1. Early(time) => Same(live', sim')
  BY EarlyUpdate, SameJoined
<1>2. CASE live'.latest = time
  <2>1. CASE waiting'
    BY <1>1, <1>2, <2>1 DEF InStep, Quiet
  <2>2. CASE ~waiting'
    <3>1. Caught'
      BY <1>2 DEF Caught
    <3>2. QED
      BY <1>2, <2>2, <3>1 DEF InStep
  <2>3. QED
    BY <2>1, <2>2
<1>3. CASE time < live'.latest /\ Early(live'.latest)
  <2>1. Early(time)
    <3>1. \A i \in Hits : Chart[i].time \in Int /\ BadWindow \in Nat
      BY ChartAssumption, PastDef DEF Hit
    <3>2. QED
      BY <1>3, <3>1 DEF Early
  <2>2. QED
    BY <1>1, <1>3, <2>1 DEF InStep, Quiet
<1>4. QED
  BY <1>2, <1>3

\* A set_keys at a time the session has not passed keeps the replay in step, and
\* leaves exactly the lanes of the held keys held.
LEMMA SetKeysFollows ==
  ASSUME NEW pos \in Int, SetKeys(pos), keyboard \subseteq Keys, Playable(live), Playable(sim),
         Counted(live), Counted(sim),
         \/ Quiet(live.latest) /\ Same(live, sim)
         \/ /\ live.latest \in Int /\ live.latest <= ToInputTime(pos)
            /\ Same(live, Update(sim, live.latest))
  PROVE  /\ Counted(live') /\ Counted(sim') /\ Sound(sim')
         /\ Same(live', Update(sim', ToInputTime(pos))) /\ live'.latest \in Int
         /\ \/ live'.latest = ToInputTime(pos)
            \/ ToInputTime(pos) < live'.latest /\ Early(live'.latest)
         /\ \A k \in Keys : ChartLane(k) \in live'.held <=> k \in keyboard
<1> DEFINE time == ToInputTime(pos)
           lanes == {ChartLane(k) : k \in keyboard}
           e == KeyChanges(live, lanes, time)
<1>1. time \in Int /\ lanes \subseteq Keys
  BY PlayAssumption, LanesPermute DEF ToInputTime
<1>2. Judge(e, time)
  BY DEF SetKeys
<1>3. ChangesAre(e, live.held, lanes, time)
  <2> HIDE DEF lanes, time
  <2> QED
    BY <1>1, KeyChangesResult
<1>4. \A k \in Keys : ChartLane(k) \in lanes <=> k \in keyboard
  BY LanesPermute
<1>5. Sound(live) /\ Sound(sim)
  BY DEF Playable
<1> HIDE DEF e, time, lanes
<1>6. /\ e \in Seq(InputType)
      /\ \A n \in 1 .. Len(e) : e[n].time = time /\ (e[n].pressed <=> e[n].key \in lanes)
      /\ \A l \in Keys : (\A n \in 1 .. Len(e) : e[n].key # l) => (l \in live.held <=> l \in lanes)
  BY <1>3 DEF ChangesAre
<1>7. /\ \A n \in 1 .. Len(e) : e[n].time <= time
      /\ live.latest <= time => \A n \in 1 .. Len(e) : live.latest <= e[n].time
  BY <1>1, <1>6
<1>8. \/ Quiet(live.latest) /\ Same(live, sim)
      \/ /\ live.latest \in Int /\ live.latest <= time
         /\ Same(live, Update(sim, live.latest))
         /\ \A n \in 1 .. Len(e) : live.latest <= e[n].time
  BY <1>7 DEF time
<1>9. /\ Counted(live') /\ Counted(sim') /\ Sound(sim')
      /\ Same(live', Update(sim', time)) /\ live'.latest \in Int
      /\ \/ live'.latest = time
         \/ time < live'.latest /\ Early(live'.latest)
  BY <1>1, <1>2, <1>5, <1>6, <1>7, <1>8, JudgeFollows
<1>10. \A l \in Keys : l \in live'.held <=> l \in lanes
  <2> DEFINE b == ApplyInputs(live, e)
  <2>1. \A l \in Keys : l \in b.held <=> l \in lanes
    BY <1>5, <1>6, InputsHeld
  <2>2. Sound(b) /\ live' = Update(b, time)
    BY <1>2, <1>5, <1>6, InputsCounted DEF Judge
  <2> HIDE DEF b
  <2>3. live'.held = b.held
    BY <1>1, <2>2, UpdateSound
  <2>4. QED
    BY <2>1, <2>3
<1>11. \A k \in Keys : ChartLane(k) \in live'.held <=> k \in keyboard
  BY <1>4, <1>10, LanesPermute
<1>12. QED
  BY <1>9, <1>11 DEF time

\* What a play in step gives set_keys at the position the clock is held at.
LEMMA InStepHeld ==
  ASSUME InStep, NEW pos,
         ~waiting /\ live.latest \in Int /\ Caught => live.latest <= ToInputTime(pos)
  PROVE  \/ Quiet(live.latest) /\ Same(live, sim)
         \/ /\ live.latest \in Int /\ live.latest <= ToInputTime(pos)
            /\ Same(live, Update(sim, live.latest))
  BY DEF InStep

\* Ending a frame leaves no event behind.
LEMMA EndFrameFollows ==
  ASSUME PolledFrame, EndFrame
  PROVE  PolledFrame' /\ stage' = "idle" /\ frame' = <<>> /\ \A held : Reported(frame', held)
<1>1. stage' = "idle" /\ frame' = <<>> /\ queue' = queue
  BY DEF EndFrame
<1>2. Len(frame') = 0
  BY <1>1
<1>3. QED
  BY <1>1, <1>2 DEF PolledFrame, Reported

(* A play starts in step with its replay.                                  *)
LEMMA NewPlayFollows ==
  ASSUME live = NewAttempt, sim = NewAttempt, queue = <<>>, frame = <<>>, stage = "idle",
         position = StartPosition, pausedAt = None
  PROVE  PlayFollows
<1>1. live.latest = None
  BY DEF NewAttempt
<1>2. Len(frame) = 0
  OBVIOUS
<1>3. InStep
  BY <1>1, SameItself DEF InStep, Quiet
<1>4. EarlyWait /\ PolledFrame
  BY <1>1, <1>2 DEF EarlyWait, PolledFrame, Quiet
<1>5. QED
  BY <1>3, <1>4, NewAttemptCounted DEF PlayFollows

(* So does a restarted one.                                                *)
LEMMA RestartFollows ==
  ASSUME PlayFollows, Restart
  PROVE  PlayFollows'
<1>1. /\ live' = NewAttempt /\ sim' = NewAttempt /\ position' = StartPosition /\ pausedAt' = None
      /\ EndFrame
  BY DEF Restart, NewPlay
<1>2. PolledFrame' /\ stage' = "idle" /\ frame' = <<>>
  BY <1>1, EndFrameFollows DEF PlayFollows
<1>3. live'.latest = None
  BY <1>1 DEF NewAttempt
<1>4. InStep'
  BY <1>1, <1>3, SameItself DEF InStep, Quiet
<1>5. EarlyWait'
  BY <1>1, <1>2, <1>3 DEF EarlyWait, Quiet
<1>6. Counted(live') /\ Counted(sim')
  BY <1>1, NewAttemptCounted
<1>7. QED
  BY <1>2, <1>4, <1>5, <1>6 DEF PlayFollows

(* And one restarted from the pause menu, with the events of its frame.    *)
LEMMA RestartFromMenuFollows ==
  ASSUME StartsEarly, PlayFollows, RestartFromMenu
  PROVE  PlayFollows'
<1>1. /\ live' = NewAttempt /\ sim' = NewAttempt /\ position' = StartPosition /\ pausedAt' = None
      /\ stage = "working" /\ UNCHANGED <<stage, queue, frame, keyboard>>
  BY DEF RestartFromMenu, NewPlay
<1>2. live'.latest = None
  BY <1>1 DEF NewAttempt
<1>3. InStep'
  BY <1>1, <1>2, SameItself DEF InStep, Quiet
<1>4. EarlyWait'
  BY <1>1, <1>2 DEF EarlyWait, Quiet, StartsEarly
<1>5. Counted(live') /\ Counted(sim')
  BY <1>1, NewAttemptCounted
<1>6. PolledFrame'
  BY <1>1 DEF PlayFollows, PolledFrame
<1>7. QED
  BY <1>3, <1>4, <1>5, <1>6 DEF PlayFollows

\* The pause holds the clock at a position the session has not passed.
LEMMA PauseFollows ==
  ASSUME PlaySound, PlayFollows, Pause
  PROVE  PlayFollows'
<1>1. /\ EndFrame /\ pausedAt = None /\ pausedAt' = position
      /\ UNCHANGED <<position, waiting, finished, live, sim>>
  BY DEF Pause
<1>2. stage = "working" /\ position # None
  BY <1>1, NoneAssumption DEF EndFrame, PlaySound, Typed, TypeOK
<1>3. PolledFrame'
  BY <1>1, EndFrameFollows DEF PlayFollows
<1>4. InStep'
  BY <1>1, <1>2 DEF PlayFollows, InStep, Caught
<1>5. EarlyWait'
  BY <1>1, <1>2 DEF PlayFollows, EarlyWait
<1>6. QED
  BY <1>1, <1>3, <1>4, <1>5 DEF PlayFollows

(* It stays there.                                                         *)
LEMMA PausedFrameFollows ==
  ASSUME PlayFollows, PausedFrame
  PROVE  PlayFollows'
<1>1. EndFrame /\ pausedAt # None /\ UNCHANGED <<pausedAt, waiting, finished, live, sim>>
  BY DEF PausedFrame
<1>2. PolledFrame'
  BY <1>1, EndFrameFollows DEF PlayFollows
<1>3. InStep' /\ EarlyWait'
  BY <1>1 DEF PlayFollows, InStep, Caught, EarlyWait
<1>4. QED
  BY <1>1, <1>2, <1>3 DEF PlayFollows

\* A frame's events are new: they happen after everything the session heard of.
LEMMA BeginFrameFollows ==
  ASSUME PlaySound, PlayFollows, PolledForward, NEW keys \in SUBSET Keys,
         NEW d \in FrameTimes \union LongTimes, BeginFrame(keys, d)
  PROVE  PlayFollows'
<1> DEFINE polled == Polled(keys)
<1>1. /\ stage = "idle" /\ stage' = "begun" /\ position' = position + d
      /\ frame' = Aged(queue, d) \o polled /\ queue' = <<>>
      /\ UNCHANGED <<pausedAt, waiting, finished, live, sim>>
      /\ d \in FrameTimes \/ ~waiting
  BY DEF BeginFrame
<1>10. keyboard' = keys
  <2>1. queue = <<>>
    BY DEF PlayFollows, PolledFrame
  <2>2. PICK n \in 1 .. Len(queue) + 1 : keyboard' = Before(SubSeq(queue, n, Len(queue)), keys)
    BY DEF BeginFrame
  <2>3. n = 1 /\ Len(queue) = 0
    BY <2>1
  <2>4. SubSeq(queue, n, Len(queue)) = <<>>
    BY <2>1, <2>3
  <2>5. QED
    BY <2>2, <2>4, BeforeNothing
<1>2. d \in Nat /\ position \in Int /\ InputOffset \in Int /\ down \subseteq Keys
  BY PlayAssumption DEF PlaySound, Typed, TypeOK
<1>3. /\ polled \in Seq(Event)
      /\ \A n \in 1 .. Len(polled) : /\ polled[n].pressed <=> polled[n].key \in keys
                                     /\ polled[n].age = 0
  BY <1>2, PolledResult
<1> HIDE DEF polled
<1>4. frame' = polled
  <2>1. Aged(queue, d) = <<>>
    BY DEF PlayFollows, PolledFrame, Aged
  <2>2. QED
    BY <1>1, <1>3, <2>1
<1>5. PolledFrame'
  BY <1>1, <1>3, <1>4, <1>10 DEF PolledFrame
<1>6. ASSUME pausedAt = None, live.latest \in Int, live.latest <= ToInputTime(position)
      PROVE  Fresh(frame', position', live.latest)
  <2> SUFFICES ASSUME NEW n \in 1 .. Len(polled)
               PROVE  live.latest <= ToInputTime(position' - polled[n].age)
    BY <1>4 DEF Fresh
  <2>1. polled[n].age = 0
    BY <1>3
  <2>2. QED
    BY <1>1, <1>2, <1>6, <2>1 DEF ToInputTime
<1>7. InStep'
  <2>1. CASE Quiet(live.latest) /\ Same(live, sim)
    BY <1>1, <2>1 DEF InStep
  <2>2. CASE ~waiting /\ live.latest \in Int /\ Same(live, Update(sim, live.latest)) /\ Caught
    <3>1. CASE pausedAt = None
      <4>1. live.latest <= ToInputTime(position)
        BY <2>2, <3>1 DEF Caught
      <4>2. live.latest <= ToInputTime(position')
        BY <1>1, <1>2, <2>2, <4>1 DEF ToInputTime
      <4>3. Caught'
        BY <1>1, <1>6, <2>2, <3>1, <4>1, <4>2 DEF Caught
      <4>4. QED
        BY <1>1, <2>2, <4>3 DEF InStep
    <3>2. CASE pausedAt # None
      <4>1. Caught'
        BY <1>1, <2>2, <3>2 DEF Caught
      <4>2. QED
        BY <1>1, <2>2, <4>1 DEF InStep
    <3>3. QED
      BY <3>1, <3>2
  <2>3. QED
    BY <2>1, <2>2 DEF PlayFollows, InStep
<1>8. EarlyWait'
  BY <1>1 DEF PlayFollows, EarlyWait
<1>9. QED
  BY <1>1, <1>5, <1>7, <1>8 DEF PlayFollows

\* Their age keeps them where they happened.
LEMMA WorkFollows ==
  ASSUME PlaySound, PlayFollows, StartsEarly, NEW d \in GapTimes, Work(d)
  PROVE  PlayFollows'
<1>1. /\ stage = "begun" /\ stage' = "working" /\ position' = position + d
      /\ queue' = Aged(queue, d) /\ frame' = Aged(frame, d)
      /\ UNCHANGED <<down, keyboard, pausedAt, waiting, finished, live, sim>>
  BY DEF Work
<1>2. d \in Nat /\ position \in Int /\ InputOffset \in Int /\ frame \in Seq(Event)
  BY PlayAssumption DEF PlaySound, Typed, TypeOK
<1>3. /\ frame' \in Seq(Event) /\ Len(frame') = Len(frame)
      /\ \A n \in 1 .. Len(frame) : /\ frame'[n].key = frame[n].key
                                    /\ frame'[n].pressed = frame[n].pressed
                                    /\ frame'[n].age = frame[n].age + d
  BY <1>1, <1>2, AgedResult
<1>4. \A n \in 1 .. Len(frame) : frame[n].age \in Int
  <2>1. \A n \in 1 .. Len(frame) : frame[n] \in Event
    BY <1>2
  <2>2. QED
    BY <2>1 DEF Event
<1>5. PolledFrame'
  <2>1. Aged(queue, d) = <<>>
    BY DEF PlayFollows, PolledFrame, Aged
  <2>2. QED
    BY <1>1, <1>3, <2>1 DEF PlayFollows, PolledFrame
<1>6. \A held : Reported(frame, held) => Reported(frame', held)
  BY <1>3 DEF Reported
<1>7. ASSUME Fresh(frame, position, live.latest)
      PROVE  Fresh(frame', position', live.latest)
  <2> SUFFICES ASSUME NEW n \in 1 .. Len(frame)
               PROVE  live.latest <= ToInputTime(position' - frame'[n].age)
    BY <1>3 DEF Fresh
  <2>1. position' - frame'[n].age = position - frame[n].age
    BY <1>1, <1>2, <1>3, <1>4
  <2>2. QED
    BY <1>7, <2>1 DEF Fresh
<1>8. InStep'
  <2>1. CASE Quiet(live.latest) /\ Same(live, sim)
    BY <1>1, <2>1 DEF InStep
  <2>2. CASE ~waiting /\ live.latest \in Int /\ Same(live, Update(sim, live.latest)) /\ Caught
    <3>1. CASE pausedAt = None
      <4>1. live.latest <= ToInputTime(position)
        BY <2>2, <3>1 DEF Caught
      <4>2. live.latest <= ToInputTime(position')
        BY <1>1, <1>2, <2>2, <4>1 DEF ToInputTime
      <4>3. Reported(frame', live.held) \/ Fresh(frame', position', live.latest)
        BY <1>6, <1>7, <2>2, <3>1 DEF Caught
      <4>4. Caught'
        BY <1>1, <3>1, <4>2, <4>3 DEF Caught
      <4>5. QED
        BY <1>1, <2>2, <4>4 DEF InStep
    <3>2. CASE pausedAt # None
      <4>1. Caught'
        BY <1>1, <2>2, <3>2 DEF Caught
      <4>2. QED
        BY <1>1, <2>2, <4>1 DEF InStep
    <3>3. QED
      BY <3>1, <3>2
  <2>3. QED
    BY <2>1, <2>2 DEF PlayFollows, InStep
<1>9. EarlyWait'
  <2>1. ASSUME waiting, pausedAt = None
        PROVE  Early(ToInputTime(position'))
    <3>1. PICK f \in FrameTimes : position = StartPosition + f
      BY <1>1, <2>1 DEF PlayFollows, EarlyWait
    <3>2. QED
      BY <1>1, <3>1 DEF StartsEarly
  <2>2. QED
    BY <1>1, <2>1 DEF PlayFollows, EarlyWait
<1>10. QED
  BY <1>1, <1>5, <1>8, <1>9 DEF PlayFollows

\* A resume asks the session for the lanes of the keys that are down, so the
\* events of its frame tell the session nothing new.
LEMMA ResumeFollows ==
  ASSUME PlaySound, PlayFollows, Resume
  PROVE  PlayFollows'
<1> DEFINE time == ToInputTime(pausedAt)
<1>1. /\ stage = "working" /\ pausedAt # None /\ pausedAt' = None /\ position' = pausedAt
      /\ SetKeys(pausedAt)
      /\ UNCHANGED <<stage, down, queue, frame, keyboard, waiting, finished>>
  BY DEF Resume, ResumePosition
<1>2. /\ pausedAt \in Int /\ keyboard \subseteq Keys /\ Playable(live) /\ Playable(sim)
      /\ frame \in Seq(Event)
  BY <1>1 DEF PlaySound, Typed, TypeOK
<1>3. time \in Int /\ (waiting => Early(time))
  BY <1>1, <1>2, PlayAssumption DEF ToInputTime, PlayFollows, EarlyWait
<1>4. \/ Quiet(live.latest) /\ Same(live, sim)
      \/ /\ live.latest \in Int /\ live.latest <= ToInputTime(pausedAt)
         /\ Same(live, Update(sim, live.latest))
  BY <1>1, InStepHeld DEF PlayFollows, Caught
<1>5. /\ Counted(live') /\ Counted(sim') /\ Sound(sim')
      /\ Same(live', Update(sim', time)) /\ live'.latest \in Int
      /\ \/ live'.latest = time
         \/ time < live'.latest /\ Early(live'.latest)
      /\ \A k \in Keys : ChartLane(k) \in live'.held <=> k \in keyboard
  BY <1>1, <1>2, <1>4, SetKeysFollows DEF PlayFollows
<1>6. Reported(frame', live'.held)
  <2>1. \A n \in 1 .. Len(frame) : frame[n] \in Event
    BY <1>2
  <2>2. \A n \in 1 .. Len(frame) : frame[n].key \in Keys
    BY <2>1 DEF Event
  <2>3. QED
    BY <1>1, <1>5, <2>2 DEF PlayFollows, PolledFrame, Reported
<1>7. time <= ToInputTime(position') /\ (waiting' => Early(time))
  BY <1>1, <1>3
<1> HIDE DEF time
<1>8. InStep'
  BY <1>1, <1>3, <1>5, <1>6, <1>7, JudgedInStep
<1>9. EarlyWait'
  <2>1. waiting => Quiet(live'.latest) /\ Early(ToInputTime(position'))
    <3>1. waiting => Early(ToInputTime(position'))
      BY <1>1, <1>3 DEF time
    <3>2. QED
      BY <1>3, <1>5, <3>1 DEF Quiet
  <2>2. QED
    BY <1>1, <2>1 DEF EarlyWait
<1>10. PolledFrame'
  BY <1>1 DEF PlayFollows, PolledFrame
<1>11. QED
  BY <1>5, <1>8, <1>9, <1>10 DEF PlayFollows

\* The play starts with the lanes of the keys that are down then.
LEMMA WaitingFrameFollows ==
  ASSUME PlaySound, PlayFollows, NEW pending \in BOOLEAN, WaitingFrame(pending)
  PROVE  PlayFollows'
<1> DEFINE time == ToInputTime(StartPosition)
<1>1. /\ EndFrame /\ pausedAt = None /\ waiting /\ position' = StartPosition
      /\ waiting' = pending /\ pausedAt' = pausedAt
      /\ IF pending THEN UNCHANGED <<live, sim>> ELSE SetKeys(StartPosition)
  BY Zenon DEF WaitingFrame
<1>2. PolledFrame' /\ stage' = "idle" /\ \A held : Reported(frame', held)
  BY <1>1, EndFrameFollows DEF PlayFollows
<1>3. Quiet(live.latest) /\ Same(live, sim)
  BY <1>1 DEF PlayFollows, InStep, EarlyWait
<1>4. CASE pending
  <2>1. live' = live /\ sim' = sim
    BY <1>1, <1>4
  <2>2. InStep' /\ EarlyWait'
    BY <1>1, <1>2, <1>3, <2>1 DEF InStep, EarlyWait
  <2>3. QED
    BY <1>2, <2>1, <2>2 DEF PlayFollows
<1>5. CASE ~pending
  <2>1. /\ StartPosition \in Int /\ time \in Int /\ keyboard \subseteq Keys
        /\ Playable(live) /\ Playable(sim)
    BY PlayAssumption DEF ToInputTime, PlaySound, Typed, TypeOK
  <2>2. /\ Counted(live') /\ Counted(sim') /\ Sound(sim')
        /\ Same(live', Update(sim', time)) /\ live'.latest \in Int
        /\ \/ live'.latest = time
           \/ time < live'.latest /\ Early(live'.latest)
    BY <1>1, <1>3, <1>5, <2>1, SetKeysFollows DEF PlayFollows
  <2>3. time <= ToInputTime(position') /\ ~waiting'
    BY <1>1, <1>5, <2>1
  <2> HIDE DEF time
  <2>4. InStep'
    BY <1>1, <1>2, <2>1, <2>2, <2>3, JudgedInStep
  <2>5. EarlyWait'
    BY <2>3 DEF EarlyWait
  <2>6. QED
    BY <1>2, <2>2, <2>4, <2>5 DEF PlayFollows
<1>6. QED
  BY <1>4, <1>5

\* A frame's events are inputs between the session's latest time and now.
LEMMA PlayFrameFollows ==
  ASSUME PlaySound, PlayFollows, PolledForward, NEW correction \in Corrections,
         PlayFrame(correction)
  PROVE  PlayFollows'
<1> DEFINE now == position + correction
           time == ToInputTime(now)
           e == EventInputs(now)
<1>1. /\ EndFrame /\ pausedAt = None /\ ~waiting /\ position' = now /\ Judge(e, time)
      /\ pausedAt' = None /\ waiting' = waiting
  BY DEF PlayFrame
<1>2. /\ now \in Int /\ time \in Int /\ position <= now /\ InputOffset \in Int
      /\ position \in Int
  BY PlayAssumption DEF PlaySound, Typed, TypeOK, ToInputTime, PolledForward
<1>3. /\ frame \in Seq(Event) /\ Sound(live) /\ Sound(sim)
      /\ \A n \in 1 .. Len(frame) : frame[n] \in Event
  BY DEF PlaySound, Typed, TypeOK, Playable
<1>4. \A n \in 1 .. Len(frame) : frame[n].age \in Nat
  BY <1>3 DEF Event
<1> HIDE DEF now
<1>5. /\ e \in Seq(InputType) /\ Len(e) = Len(frame)
      /\ \A n \in 1 .. Len(frame) : /\ e[n].key = ChartLane(frame[n].key)
                                    /\ e[n].pressed = frame[n].pressed
                                    /\ e[n].time = ToInputTime(now - frame[n].age)
  BY <1>2, <1>3, EventInputsResult
<1> HIDE DEF e
<1>6. \A n \in 1 .. Len(e) : e[n].time <= time
  BY <1>2, <1>4, <1>5 DEF ToInputTime
<1>7. \/ Quiet(live.latest) /\ Same(live, sim)
      \/ /\ live.latest \in Int /\ live.latest <= time
         /\ Same(live, Update(sim, live.latest))
         /\ \/ \A n \in 1 .. Len(e) : live.latest <= e[n].time
            \/ \A n \in 1 .. Len(e) : e[n].pressed <=> e[n].key \in live.held
  <2>1. CASE Quiet(live.latest) /\ Same(live, sim)
    BY <2>1
  <2>2. CASE live.latest \in Int /\ Same(live, Update(sim, live.latest)) /\ Caught
    <3>1. live.latest <= time
      BY <1>1, <1>2, <2>2 DEF Caught, ToInputTime
    <3>2. CASE Reported(frame, live.held)
      BY <1>5, <2>2, <3>1, <3>2 DEF Reported
    <3>3. CASE Fresh(frame, position, live.latest)
      <4>1. ASSUME NEW n \in 1 .. Len(frame)
            PROVE  live.latest <= e[n].time
        <5>1. live.latest <= ToInputTime(position - frame[n].age) /\ frame[n].age \in Nat
          BY <1>4, <3>3 DEF Fresh
        <5>2. e[n].time = ToInputTime(now - frame[n].age)
          BY <1>5
        <5>3. QED
          BY <1>2, <2>2, <5>1, <5>2 DEF ToInputTime
      <4>2. QED
        BY <1>5, <2>2, <3>1, <4>1
    <3>4. QED
      BY <1>1, <2>2, <3>2, <3>3 DEF Caught
  <2>3. QED
    BY <2>1, <2>2 DEF PlayFollows, InStep
<1>8. time <= ToInputTime(position') /\ ~waiting'
  BY <1>1, <1>2
<1> HIDE DEF time
<1>9. /\ Counted(live') /\ Counted(sim') /\ Sound(sim')
      /\ Same(live', Update(sim', time)) /\ live'.latest \in Int
      /\ \/ live'.latest = time
         \/ time < live'.latest /\ Early(live'.latest)
  BY <1>1, <1>2, <1>3, <1>5, <1>6, <1>7, JudgeFollows DEF PlayFollows
<1>10. PolledFrame' /\ \A held : Reported(frame', held)
  BY <1>1, EndFrameFollows DEF PlayFollows
<1>11. InStep'
  BY <1>1, <1>2, <1>8, <1>9, <1>10, JudgedInStep
<1>12. EarlyWait'
  BY <1>8 DEF EarlyWait
<1>13. QED
  BY <1>9, <1>10, <1>11, <1>12 DEF PlayFollows

\* Every step keeps the replay in step.
LEMMA NextFollows ==
  ASSUME PolledForward, StartsEarly, PlaySound, PlayFollows, [Next]_vars
  PROVE  PlayFollows'
<1>1. CASE UNCHANGED vars
  BY <1>1 DEF vars, PlayFollows, InStep, Caught, EarlyWait, PolledFrame
<1>2. CASE Restart \/ RestartFromMenu \/ Pause \/ PausedFrame \/ Resume
  BY <1>2, RestartFollows, RestartFromMenuFollows, PauseFollows, PausedFrameFollows,
     ResumeFollows
<1>3. CASE \E key \in Keys : KeyChange(key)
  BY <1>3 DEF KeyChange, PolledForward
<1>4. CASE \E keys \in SUBSET Keys, d \in FrameTimes \union LongTimes : BeginFrame(keys, d)
  BY <1>4, BeginFrameFollows
<1>5. CASE \E d \in GapTimes : Work(d)
  BY <1>5, WorkFollows
<1>6. CASE \E pending \in BOOLEAN : WaitingFrame(pending)
  BY <1>6, WaitingFrameFollows
<1>7. CASE \E c \in Corrections : PlayFrame(c)
  BY <1>7, PlayFrameFollows
<1>8. QED
  BY <1>1, <1>2, <1>3, <1>4, <1>5, <1>6, <1>7 DEF Next

\* The same judgements and the same counters are the same result.
LEMMA SameObserved ==
  ASSUME NEW a, NEW b, Counted(a), Counted(b), Same(a, b)
  PROVE  Observed(a) = Observed(b)
<1> DEFINE Shown(h) == IF h.played THEN h ELSE [h EXCEPT !.err = 0]
<1>1. /\ a.tail \in [Hits -> Judgement] /\ b.tail \in [Hits -> Judgement]
  BY DEF Counted, ComboOk, AttemptState
<1>2. ASSUME NEW h \in Judgement, NEW g \in Judgement, SameHalf(h, g)
      PROVE  Shown(h) = Shown(g)
  BY <1>2 DEF Judgement, SameHalf
<1>3. \A i \in Hits : Shown(a.tail[i]) = Shown(b.tail[i])
  BY <1>1, <1>2 DEF Same
<1>4. [i \in Hits |-> Shown(a.tail[i])] = [i \in Hits |-> Shown(b.tail[i])]
  <2> HIDE DEF Shown
  <2> QED
    BY <1>3
<1>5. /\ a.counts = b.counts /\ a.totalScore = b.totalScore /\ a.nScored = b.nScored
      /\ a.totalErr = b.totalErr /\ a.nTimed = b.nTimed
      /\ a.head = b.head /\ a.combo = b.combo /\ a.maxCombo = b.maxCombo
  BY SameCounts DEF Same
<1>6. QED
  BY <1>4, <1>5, Zenon DEF Observed

\* With polled keys and a clock that is never corrected backwards, whatever the
\* frame times, pauses, restarts and set_keys: the replay of the recorded inputs
\* alone, updated to the end time, has the result that the player saw.
THEOREM ReplaysAgree ==
  ASSUME PolledForward, StartsEarly
  PROVE  Spec => []ReplayAgrees
<1>1. Init => PlayFollows
  BY NewPlayFollows DEF Init
<1>2. PlaySound /\ PlayFollows /\ [Next]_vars => PlayFollows'
  BY NextFollows
<1>3. PlaySound /\ PlayFollows => ReplayAgrees
  <2> SUFFICES ASSUME PlaySound, PlayFollows, live.latest # None
               PROVE  Observed(Update(sim, live.latest)) = Observed(live)
    BY DEF ReplayAgrees
  <2>1. /\ live.latest \in Int /\ Sound(live) /\ Sound(sim)
    BY DEF PlaySound, Typed, Playable, Sound, AttemptState
  <2>2. Counted(live) /\ Counted(sim)
    BY DEF PlayFollows
  <2>3. Same(live, Update(sim, live.latest))
    <3>1. CASE Quiet(live.latest) /\ Same(live, sim)
      BY <2>1, <3>1, EarlyUpdate, SameReversed, SameJoined DEF Quiet
    <3>2. CASE ~(Quiet(live.latest) /\ Same(live, sim))
      BY <3>2 DEF PlayFollows, InStep
    <3>3. QED
      BY <3>1, <3>2
  <2> DEFINE t == live.latest
             b == Update(sim, t)
  <2>4. Counted(b)
    BY <2>1, <2>2, UpdateCounted
  <2> HIDE DEF b
  <2>5. Observed(b) = Observed(live)
    BY <2>2, <2>3, <2>4, SameObserved DEF b
  <2>6. QED
    BY <2>5 DEF b
<1>4. QED
  BY <1>1, <1>2, <1>3, PlayIsSound, PTL DEF Spec
=============================================================================
