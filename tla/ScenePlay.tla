------------------------------ MODULE ScenePlay ------------------------------
(***************************************************************************)
(* The play screen around one PlaySession: the keyboard's event queue, the *)
(* frames of the game loop, the song clock with its corrections, waiting   *)
(* for a play ticket, pausing, restarting and finishing                    *)
(* (src/game/src/ScenePlay.cpp, src/core/src/PlaySession.cpp,              *)
(* src/core/src/SongClock.cpp, src/gse/src/input).                         *)
(*                                                                         *)
(* The machine's clock is not a variable.  `position' is the song position *)
(* of the present instant and an event carries its age, so that an event   *)
(* is judged at position - age: to_input_time(event.time) once the anchor  *)
(* of the clock is what it is when the event is handled.                   *)
(***************************************************************************)
EXTENDS Judging, Enumeration, SequencesExt

CONSTANTS
  Threaded,       \* key events are stamped by a thread of their own (not POLLING)
  Mirror,         \* the mirror setting
  InputOffset,    \* the sum of the offsets of to_input_time
  StartPosition,  \* start_position(), before the chart
  FrameTimes,     \* the time from one frame's update to the next frame's begin
  LongTimes,      \* bound: longer stretches without an event, only while playing
  LastShortFrame, \* bound: the last position from which a frame of FrameTimes starts
  GapTimes,       \* the time from a frame's begin to its update
  Corrections,    \* what sync_clock may move the song position by
  MaxQueued       \* bound on the events waiting in the queue

ASSUME PlayAssumption ==
  /\ Threaded \in BOOLEAN /\ Mirror \in BOOLEAN
  /\ InputOffset \in Int /\ StartPosition \in Int
  /\ FrameTimes \subseteq Nat \ {0} /\ LongTimes \subseteq Nat \ {0}
  /\ LastShortFrame \in Int /\ GapTimes \subseteq Nat
  /\ Corrections \subseteq Int
  /\ MaxQueued \in Nat

\* Mutant: the last judging window is waited for, the offsets are not.
ResultsDelay_Window == 200

\* RESULTS_DELAY_MS.
ResultsDelay == 2000

VARIABLES
  stage,      \* "idle", "begun" (events drained) or "working" (on to the update)
  position,   \* the song position of this instant
  down,       \* KeyEventQueue::held, the keys that are physically down
  queue,      \* the events stamped but not drained
  frame,      \* the events of this frame (Input::events)
  keyboard,   \* the held keys Input reports in this frame
  slipped,    \* history: keys held when set_keys looked, whose release was already in
              \* the events that the frame dropped
  pausedAt,   \* None, or paused and paused_position
  waiting,    \* waiting_for_ticket
  finished,
  live,       \* the session's attempt
  sim         \* simulate_replay over the inputs recorded so far

vars == <<stage, position, down, queue, frame, keyboard, slipped, pausedAt,
          waiting, finished, live, sim>>

Event == [key: Keys, pressed: BOOLEAN, age: Nat]

Init ==
  /\ stage = "idle" /\ position = StartPosition
  /\ down = {} /\ queue = <<>> /\ frame = <<>> /\ keyboard = {} /\ slipped = {}
  /\ pausedAt = None /\ waiting \in BOOLEAN /\ finished = FALSE
  /\ live = NewAttempt /\ sim = NewAttempt

-----------------------------------------------------------------------------
(* Inputs of an attempt *)

\* chart_lane.
ChartLane(key) == IF Mirror THEN KeyCount - 1 - key ELSE key

ToInputTime(pos) == pos + InputOffset

\* PlaySession::apply and one step of simulate_replay.
ApplyInput(a, input) ==
  IF input.pressed THEN Press(a, input.key, input.time)
                   ELSE Release(a, input.key, input.time)

ApplyInputs(a, inputs) == FoldLeft(ApplyInput, a, inputs)

\* The presses and releases of set_keys, in lane order.
KeyChanges(a, lanes, time) ==
  LET changed == Ascending(SymDiff(a.held, lanes))
  IN  [n \in 1 .. Len(changed) |->
         [key |-> changed[n], pressed |-> changed[n] \in lanes, time |-> time]]

\* The inputs of a frame's events when the present is at song position pos.
EventInputs(pos) ==
  [n \in 1 .. Len(frame) |->
     [key |-> ChartLane(frame[n].key), pressed |-> frame[n].pressed,
      time |-> ToInputTime(pos - frame[n].age)]]

\* Mutant: a release is judged but not recorded.
Judge_PressesRecorded(inputs, time) ==
  /\ live' = Update(ApplyInputs(live, inputs), time)
  /\ sim' = ApplyInputs(sim, SelectSeq(inputs, LAMBDA input : input.pressed))

\* The session takes these inputs and an update; the replay records the inputs.
Judge(inputs, time) ==
  /\ live' = Update(ApplyInputs(live, inputs), time)
  /\ sim' = ApplyInputs(sim, inputs)

\* Mutant: the held keys are not mirrored.
SetKeys_Unmirrored(pos) ==
  LET time == ToInputTime(pos)
  IN  Judge(KeyChanges(live, keyboard, time), time)

\* PlaySession::set_keys with the lanes of the held keys.
SetKeys(pos) ==
  LET time == ToInputTime(pos)
  IN  Judge(KeyChanges(live, {ChartLane(k) : k \in keyboard}, time), time)

-----------------------------------------------------------------------------
(* Keyboard and time *)

\* Mutant: the age of an event counts backwards.
Aged_Backwards(events, d) ==
  [n \in 1 .. Len(events) |-> [events[n] EXCEPT !.age = @ - d]]

\* d later, these events are d older.
Aged(events, d) == [n \in 1 .. Len(events) |-> [events[n] EXCEPT !.age = @ + d]]

\* KeyEventQueue::push from the source's thread, whatever the frame is doing.
KeyChange(key) ==
  /\ Threaded /\ Len(queue) < MaxQueued /\ ~finished
  /\ down' = SymDiff(down, {key})
  /\ queue' = Append(queue, [key |-> key, pressed |-> key \notin down, age |-> 0])
  /\ UNCHANGED <<stage, position, frame, keyboard, slipped, pausedAt, waiting, finished,
                 live, sim>>

\* poll_key_events: one event per key that changed, stamped now.
Polled(keys) ==
  LET changed == Ascending(SymDiff(down, keys))
  IN  [n \in 1 .. Len(changed) |->
         [key |-> changed[n], pressed |-> changed[n] \in keys, age |-> 0]]

\* The keys that were down before these events, when these are down after them.
Before(events, keys) ==
  {k \in Keys :
     IF \E n \in 1 .. Len(events) : events[n].key = k
     THEN \E n \in 1 .. Len(events) :
            /\ events[n].key = k /\ ~events[n].pressed
            /\ \A m \in 1 .. n - 1 : events[m].key # k
     ELSE k \in keys}

\* Input::begin_frame, d after the last frame's update.  The window's own key
\* state was sampled at some moment before the drain: the queue's last events
\* may have come after it.
BeginFrame(keys, d) ==
  /\ stage = "idle" /\ ~finished
  /\ \/ d \in FrameTimes /\ position <= LastShortFrame
     \/ d \in LongTimes /\ pausedAt = None /\ ~waiting
  /\ Threaded => keys = down
  /\ stage' = "begun"
  /\ position' = position + d
  /\ frame' = Aged(queue, d) \o Polled(keys)
  /\ queue' = <<>>
  /\ down' = keys
  /\ \E n \in 1 .. Len(queue) + 1 : keyboard' = Before(SubSeq(queue, n, Len(queue)), keys)
  /\ UNCHANGED <<slipped, pausedAt, waiting, finished, live, sim>>

\* What runs between begin_frame and ScenePlay::update's now_ms().
Work(d) ==
  /\ stage = "begun"
  /\ stage' = "working"
  /\ position' = position + d
  /\ queue' = Aged(queue, d) /\ frame' = Aged(frame, d)
  /\ UNCHANGED <<down, keyboard, slipped, pausedAt, waiting, finished, live, sim>>

-----------------------------------------------------------------------------
(* ScenePlay::update: one of these ends the frame *)

EndFrame == stage = "working" /\ stage' = "idle" /\ frame' = <<>> /\ keyboard' = {}
            /\ UNCHANGED <<down, queue>>

\* The keys that were down when the frame's events were drained.
Drained == Before(queue, down)

\* restart(): a new session, and a new ticket when signed in.
NewPlay ==
  /\ position' = StartPosition
  /\ pausedAt' = None /\ waiting' \in BOOLEAN
  /\ live' = NewAttempt /\ sim' = NewAttempt /\ slipped' = {}
  /\ UNCHANGED finished

\* By its key, which the pause menu mutes.
Restart == EndFrame /\ pausedAt = None /\ NewPlay

\* By the pause menu, before the scene's own update of that frame.
RestartFromMenu ==
  /\ stage = "working" /\ pausedAt # None
  /\ NewPlay
  /\ UNCHANGED <<stage, down, queue, frame, keyboard>>

\* pause(now) by its key or because the window lost the focus; the clock is
\* then held at the paused position, and the frame's events are dropped.
Pause ==
  /\ EndFrame /\ pausedAt = None
  /\ pausedAt' = position
  /\ UNCHANGED <<position, slipped, waiting, finished, live, sim>>

PausedFrame ==
  /\ EndFrame /\ pausedAt # None
  /\ position' = pausedAt
  /\ UNCHANGED <<slipped, pausedAt, waiting, finished, live, sim>>

\* Mutant: the clock went on during the pause.
ResumePosition_Running == position

ResumePosition == pausedAt

\* PauseOverlay calls resume(now) before the scene's own update of that frame.
Resume ==
  /\ stage = "working" /\ pausedAt # None
  /\ pausedAt' = None /\ position' = ResumePosition
  /\ SetKeys(ResumePosition)
  /\ slipped' = {}
  /\ UNCHANGED <<stage, down, queue, frame, keyboard, waiting, finished>>

\* The clock stays at the start until the ticket is there or has timed out; the
\* frame's events are dropped, those of the frame that ends the wait too.
WaitingFrame(pending) ==
  /\ EndFrame /\ pausedAt = None /\ waiting
  /\ position' = StartPosition
  /\ waiting' = pending
  /\ IF pending THEN UNCHANGED <<live, sim, slipped>>
     ELSE SetKeys(StartPosition) /\ slipped' = keyboard \ Drained
  /\ UNCHANGED <<pausedAt, finished>>

\* sync_clock, the frame's events, update(now), and finish() past the chart.
PlayFrame(correction) ==
  LET now == position + correction
      chartEnd == Max({0} \union {IF IsHold(i) THEN Chart[i].endTime ELSE Chart[i].time :
                                    i \in Hits})
  IN  /\ EndFrame /\ pausedAt = None /\ ~waiting
      /\ position' = now
      /\ Judge(EventInputs(now), ToInputTime(now))
      /\ slipped' = slipped \ {frame[n].key : n \in 1 .. Len(frame)}
      /\ finished' = (now > chartEnd + ResultsDelay)
      /\ UNCHANGED <<pausedAt, waiting>>

Next ==
  \/ \E key \in Keys : KeyChange(key)
  \/ \E keys \in SUBSET Keys, d \in FrameTimes \union LongTimes : BeginFrame(keys, d)
  \/ \E d \in GapTimes : Work(d)
  \/ Restart
  \/ RestartFromMenu
  \/ Pause
  \/ PausedFrame
  \/ Resume
  \/ \E pending \in BOOLEAN : WaitingFrame(pending)
  \/ \E c \in Corrections : PlayFrame(c)

Spec == Init /\ [][Next]_vars

-----------------------------------------------------------------------------
(* Properties *)

TypeOK ==
  /\ stage \in {"idle", "begun", "working"}
  /\ position \in Int /\ pausedAt \in Int \union {None}
  /\ down \subseteq Keys /\ keyboard \subseteq Keys /\ slipped \subseteq Keys
  /\ queue \in Seq(Event) /\ frame \in Seq(Event)
  /\ {waiting, finished} \subseteq BOOLEAN
  /\ live \in AttemptState /\ sim \in AttemptState

\* What a replay's result says of an attempt: every judgement (the error of an
\* unplayed tail, the moment it was noticed, excepted) and the totals.
Observed(a) ==
  [heads |-> a.head,
   tails |-> [i \in Hits |-> IF a.tail[i].played THEN a.tail[i]
                             ELSE [a.tail[i] EXCEPT !.err = 0]],
   counts |-> a.counts, totalScore |-> a.totalScore, nScored |-> a.nScored,
   combo |-> a.combo, maxCombo |-> a.maxCombo,
   totalErr |-> a.totalErr, nTimed |-> a.nTimed]

\* The replay saved at this moment, simulated from its inputs alone and then
\* updated to end_time, gives the result the player saw: the frames in between,
\* the pauses and the set_keys calls leave no judgement of their own.
ReplayAgrees ==
  live.latest # None => Observed(Update(sim, live.latest)) = Observed(live)

\* A lane the session believes held is a key that is down, or one whose release
\* the next frame will judge: the events dropped while the play was paused or
\* waiting leave no lane stuck.  The one exception takes a source of events of
\* its own: the frame that ends the ticket wait drops its events, and what
\* set_keys reads then may be older than they are.
NoStuckLane ==
  /\ stage = "idle" /\ pausedAt = None /\ ~waiting =>
       \A k \in Keys : ChartLane(k) \in live.held =>
         \/ k \in down \/ k \in slipped
         \/ \E n \in 1 .. Len(queue) : queue[n].key = k /\ ~queue[n].pressed
  /\ ~Threaded => slipped = {}

\* When the results are shown every note has been judged, however the offsets
\* shift the judging against the song.
FinishedIsComplete ==
  finished => \A i \in Hits : live.head[i].done /\ (IsHold(i) => live.tail[i].done)

\* Pausing neither judges nor loses time: a resume goes on at the position of
\* the pause, so no note that was still open then is missed by it.
ResumeMissesNothing ==
  [][pausedAt # None /\ pausedAt' = None /\ live' # NewAttempt =>
       \A i \in Hits : ~live.head[i].done /\ live'.head[i].score = "MISS" =>
         Chart[i].time + BadWindow < ToInputTime(pausedAt)]_vars
=============================================================================
