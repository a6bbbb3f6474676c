# Nascent: a verification development

Nascent is a rhythm game (C++: a core library, an engine, the game and a chart
editor) with a server (Python, PostgreSQL, Redis) that judges the submitted
plays again and ranks them. This directory models the parts of it that are hard
to get right, checks them with TLC on small instances and proves theorems about
them with TLAPS. Paths below are relative to the repository.

## 1. Inventory

### How the parts fit together

A play is one `ScenePlay`. It asks the server for a *ticket* when it starts and
holds the song clock until the ticket is there or has timed out. Each frame of
the game loop (`Game::begin_frame`, then the scene's `update`) drains the key
events that the keyboard's thread has stamped, gives them to the `PlaySession`,
which records them as the replay and judges them with an `Attempt`, and lets the
attempt miss what is past. At the end the results are shown, the best is stored
on a detached thread, and `SubmissionQueue::submit` starts another detached
thread that saves the replay and posts it. The server parses the replay,
simulates it with the same C++ core, refuses it if the result differs from the
claimed one, uses the ticket, inserts the row, and refreshes the player's bests,
statistics and leaderboards. What could not be sent is kept as a file and sent
again by a worker.

### Components, their state, and what makes each correct

| component | state | operations | hard about it | correct when |
|---|---|---|---|---|
| hit windows (`Accuracy`) | none | window and score of an error | both-sided limits, truncation | every error has one score |
| judging (`Attempt`) | a judgement per head and tail, held keys, a target per key, counters, a scan index | `press`, `release`, `update`, `set_keys` | calls in any order and at any time, with small steps back | each note is judged once, by the right cause, and nothing is overdue |
| play session, replay (`PlaySession`, `Replay`) | inputs, clock, offsets | record, simulate | the simulation sees only the inputs | replay and play agree |
| song clock (`SongClock`) | anchor, speed | sync to the audio, snap | goes back | time the player saw is time judged |
| play screen (`ScenePlay`) | paused, waiting, finished | frames, pause, restart, skip, seek | drops events while paused or waiting | no stuck lane, nothing missed by a pause, complete results |
| keyboard (`Input`, `KeyEvents`) | queue, held keys | push from a thread, drain in a frame | stamps between begin and update | order and state of keys survive |
| submission queue | files, a worker, detached threads | submit, retry, start, stop | lost answers, exits, account changes | at most once, not silently lost |
| account, server sessions | tokens | refresh, early refresh, sign in and out, rotation | lost answers of a rotation, racing refreshes | one valid session, no answer of an older one applied |
| tickets and plays (`services/plays.py`) | rows | `issue_ticket`, `submit_play`, `review_play` | concurrent transactions and row locks | one row per replay, one use per ticket |
| ranking (`services/ranking.py`, `tasks.py`, `cache.py`) | bests, statistics, Redis boards, cached counts | refresh, sync, rebuild, snapshot | written after the commit, by several processes | the board equals the database when all is quiet |
| library cache (`LibraryCache`) | index and notes file, records | load, rewrite, compact, clear | appends and renames that fail half way | a record's offset leads to its notes |
| difficulty cache | entries, dirty flag | store, save, load | snapshot and flag under separate locks | nothing stored is lost from the next save |
| local bests, local replays | store, generations, folders | record, flush, migrate, index | detached saves that overtake each other | the file ends as the latest state |
| settings files | a file per store | load, save, back up | crash between remove and rename | old or new content, never none |
| updater | state, staging directory | check, download, install, recover | a crash between two moves | the installed version is one version |
| beatmap downloads | a download per set, staging | start, cancel, restart, install | the cancel flag is read before the state is set | a cancelled download is not installed |
| scenes, overlays (`SceneStack`) | stack, deferred operations | push, pop, replace, transitions | operations from a scene's own callbacks | no scene used after it is destroyed |
| editor (`ChartDocument`) | chart, undo and redo | edits | grouping of edits | undo restores, redo repeats |
| formats, difficulty, rendering, audio, user interface, web site | little or none | parse, compute, draw | numeric | not modelled, see below |

The hazards, each with its line and the properties against it, are listed in
`PROJECT.json`.

## 2. Modules

| module | what it models |
|---|---|
| `Accuracy` | `Accuracy.h/.cpp`: scores, weights, windows, score of an error |
| `Judging` | `Attempt.cpp` as operators on a record: `Press`, `Release`, `Update` and what they call |
| `Attempt` | one attempt under any sequence of these calls, its invariants and action properties |
| `Enumeration` | a finite set of numbers as an ascending sequence, for loops over flags and sorted folders |
| `DataLemmas` | induction, extrema, enumerations and sums, for the proofs |
| `JudgingLemmas`, `AttemptProofs` | the lemmas about the operators and the theorems about `Attempt` |
| `ScenePlay` | the play screen: keyboard, frames, clock, ticket wait, pause, restart, end; a session and the simulation of its replay side by side, both built on `Judging` |
| `ScenePlayProofs` | the theorems about `ScenePlay` |
| `PlayLedger` | abstract: a play is recorded at most once and counts only for its player |
| `Submissions` | ticket, submission thread, worker, files, exits, and the two server transactions; implements `PlayLedger` |
| `SubmissionsProofs` | the theorems about `Submissions` |
| `Ranking` | one player's rows, statistics and leaderboard entry: `submit_play`, `review_play`, `refresh_players`, the queue's jobs, `rebuild_leaderboard`, under PostgreSQL's row locks and stale ORM attributes |
| `RankingProofs` | the theorems about `Ranking` |
| `Sessions` | the tokens: `Account.cpp` on its threads, account.json, and the server's `AuthSession` rows |
| `SessionsProofs` | the theorems about `Sessions` |
| `DifficultyCache` | entries, dirty flag and file, with saves as steps and two savers |
| `Library` | `LibraryCache` and the scans of `ChartLibrary`: index and notes file, rewrites, compaction, crashes; drives a `DifficultyCache` |
| `LibraryProofs` | the theorems about `DifficultyCache` and `Library` |
| `MCAttempt`, `MCScenePlay`, `MCSubmissions`, `MCRanking`, `MCSessions`, `MCLibrary` | instances for TLC |

**Judging.** The record `attempt` has a judgement (`done`, `played`, `score`,
`err`) per head and tail, `passed` (`soonest_passed_hit_index`), `held`
(`held_keys`), `target` (`held_targets`), `latest` and the counters. The state
is a value and each method an operator, so that `Attempt` can drive one and
`ScenePlay` two. Loops over notes are sets: `PastHeads` are the notes
`process_misses` scores, `Candidates` those the scan of `press` sees.
`attempt_hits`, `current_holds` and `soonest_scored_hit_index` are not kept:
nothing decides on them. Times are integer milliseconds as in the code.

**ScenePlay.** The machine's clock is no variable: `position` is the song
position of this instant, an event carries its age, and every step of time adds
to both. A frame is three steps: `BeginFrame` (drain the queue), `Work` (what
lies between, in which the keyboard's thread can stamp further events), and one
of the endings of `ScenePlay::update`. `sim` is the simulation of the inputs
recorded so far, so `ReplayAgrees` speaks of the replay that would be saved at
this moment. The keys that `set_keys` reads and the events are two sources
(`Input.cpp:17` and `:103`): the window samples its keys at some moment before
the queue is drained, so `keyboard` is what the keys were before any number of
the last drained events (`Before`); where both come from the queue (macOS), or
the keys are polled, the number is 0. That the window knows of a key before the
thread has queued its event is left out: the event then comes in a later frame.
`slipped` is a ghost: keys that `set_keys` saw held though their release was
among the dropped events. A restart is `Restart` by its key, which ends the frame, or
`RestartFromMenu`, after which the scene's own update of that frame goes on.
Skipping the intro and watching a replay are not modelled yet.

**Submissions.** A play has its own ticket, named by the play. An answer is
delivered in the step that makes it, or lost; a lost answer, a 5xx, a 429 and a
refused token are alike to the client (`is_retryable`). `submit_play` is four
steps, because other transactions come between them: the duplicate check, the
ticket's row lock, the user's row lock, insert and commit. `issue_ticket` is
two: the user's lock, and superseding and inserting, which waits for the rows of
the live tickets. `BreakDeadlock` is PostgreSQL ending one of two transactions
that wait for each other; the survivor then has the row it waited for. The
worker's pass is `Load`, one of `GiveUp`, `Skip`, `Retry` per file, and `Rest`;
attempts and delays are left out, a file is due or it is not. `saved` and the
stage `dropped` say what the disk took: a replay that cannot be saved is logged
and sent all the same, a pending file that cannot be written is logged and the
play dropped. `word` is what the player hears of a play. The thread returns its
answer to the results screen, which may be gone (`LeaveResults`) or going
(`Stop`): then a refusal is `unheard`. The worker queues a notice that the next
frame shows, unless the game ends first. Not modelled: how the worker waits
between passes (a pass may begin at any moment, so a lost wakeup only delays
it), the second request that uploads an unknown chart, anticheat verdicts, and
what follows the commit (a failure there is a lost answer to the client).

**Ranking.** A database transaction is a sequence of steps on a *slot*, a web
worker or a worker of the job queue. The statistics a handler loads before it
takes the user's row stay in its session (`loaded`), since
`select(...).with_for_update()` does not refresh attributes that are loaded
already, and only columns that differ from them are flushed (`Flushed`). `mine`
are the rows it has written and not committed, `View` what it sees. The board is
synced after the commit, where the process can die. `Strength` orders plays by
their points. The workers of the job queue are as many as the slots
(`docker-compose.yml` starts two): any job may run beside any other, wait for
its rows, be ended by the database (`BreakDeadlock`, `CrossUpdates`) and come
back to the queue (`Requeued`, `tasks.py:68`; that its retries are used up is
not modelled). A change of a chart's status is committed first and its job
queued after that (`moderation.py:56-57`). When that fails (`EnqueueFails`), the
same request again changes nothing and queues nothing (`charts.py:350`): the
chart is `forgotten` until a later change of its status. The commit of
`apply_chart_status` and the queueing of its refreshes are one step, since the
job is run again as a whole when the second fails. `Touched`, the rows a
transaction must have to itself, counts each marked row of the group although a
refresh that changes nothing may update fewer: handlers wait for each other more
often than in the code, never less. One player, one key mode and one rate; bests
and totals are computed in one step; a `PENDING_REVIEW` play counts as verified;
chart status and standing are loaded with the request. Duplicates and tickets
are `Submissions`' business. Cached counts, snapshots and the recalculation jobs
are not modelled.

**Sessions.** A token is its session and how often that was rotated, so a stale
token is one of an older generation. `thread` says where each caller is within
`authorized` and `refresh`; a step is one critical section of `state_mutex` or
one answer, and `refresher` is who holds `refresh_mutex`. A request whose sender
gave up or died goes on in `wire` (`HandleOrphan`). `saved` is the token in
account.json: every critical section that changes the tokens saves them, and
`SaveFails` is what `replace_file` leaves when the renaming fails, the old file
or none. `left`, `lost` and `burnt` are ghosts: sessions signed out of, sessions
whose last answer was lost or could not be saved, sessions revoked for reuse.
`issue_session` is merged with the sign-in's request, the check of an access
token with the answer of the call. Another server (`use_server`) is a sign-out;
that a start drops an account.json of another server is left out, and so is a
write of the temporary file that fails only when it is closed (`replace_file`
looks before that).

**DifficultyCache, Library.** The notes file is a sequence of blocks with sizes,
as offsets matter: `notes_size` is what the cache believes, the file's length
what is there. `scan` holds what the scan has read of the folder and not yet
written. A rewrite is a step per write that can fail; a crash between two of
them leaves the files as they are, and the next start reads them. `Library`
makes every step either one of the difficulty cache's or leaves it alone. One
chart per file; the migration of legacy caches, listing folders and fingerprints
are left out; an index that is there can be read.

## 3. What is checked

| run | instance | shows |
|---|---|---|
| `attempt` | 4 notes on 2 lanes (a hold, a jack beside it), 9 times, back steps up to 150 ms | every invariant and action property of `Attempt` over all orders of calls |
| `play` | 3 notes, polled keyboard, clock never back | the replay agrees with the play through tickets, pauses and restarts; no stuck lane, complete results, harmless pauses |
| `play_threaded` | 2 notes, threaded keyboard, clock may snap back 134 ms | no lane stuck but by a release that the end of the ticket wait dropped, complete results |
| `replay_gap` | 3 notes, threaded keyboard | **violation**: play and replay differ |
| `replay_snap` | 3 notes, polled keyboard, clock may snap back | **violation**: play and replay differ |
| `submissions` | 2 plays, 2 accounts, 1 failure (of the network, the server or the disk), 1 sign-out, 1 exit or crash | the ledger, the ticket over retries, nothing dropped without a reason, quitting interrupts no save |
| `submissions_settle` | 2 plays, 2 failures, no exit | every finished play is recorded or reported, unless the disk refused the file or the results were left (liveness) |
| `ticket_deadlock` | 2 plays, no failure | **violation**: a ticket request is answered with an error |
| `ranking` | 2 plays of a chart, 2 slots, 1 review, 2 changes of status, 1 disturbance | submissions, however they overlap, leave statistics and bests that follow the rows, no standing changes without a sync of the board, every handler ends |
| `ranking_stale` | 2 plays of 2 charts, 2 slots, a change of status, nothing else | **violation**: statistics that no full refresh would compute |
| `sessions` | 2 callers, 2 sign-ins, 2 events (time, failures, failed saves, crashes, sessions ended elsewhere) | no session is revoked through the game's own doing, none that works is dropped, none is returned to after a sign-out; calls go through and end |
| `library` | 2 files of 1 and 2 blocks, 2 versions, 3 events | the notes found by an index entry are those of its file, save where a write slipped (below); the difficulty cache forgets nothing |

### The bounds and why they are enough

* *Notes and lanes.* Judging decides between neighbours of a lane (the scan) and
  between a hold's head, body and tail. A hold with two taps beside its body and
  a tap on another lane has every such pair. The times of `MCAttempt` are corners
  of the windows of hit accuracy 5: before reach, BAD, the better of two, one
  millisecond past a miss, past the last release.
* *Frames.* 67 ms frames put the third frame after a note just past its 200 ms
  window, so hits on time, late hits and misses all happen. `LongTimes` and
  `LastShortFrame` skip the stretch between the last note and the end of the
  play; the threaded run's short frames reach one millisecond past the hold's last
  release. `MaxQueued` bounds the events of one frame.
* *Snaps.* Two frames back is more than one frame's update and less than a window.
* *Submissions.* The races are between two requests of one play (a retry and a
  request the client gave up) and between a submission and the next play's
  ticket: two plays, two or more requests and one failure reach all of them.
  The second account is the one that signs in between. `Slow` is the play whose
  ticket may expire and whose file may grow too old, `Refusable` the one the
  server may refuse. In `submissions_settle` `MaxSends` is more than failures and
  deadlocks can use up, so it never stops a retry.

* *Ranking.* The races are between two submissions, or a submission and a
  review, a refresh job or a rebuild: two slots. A disturbance is what
  `MaxDisturbances` bounds: a write of the board or a job that Redis does not
  take, a restriction, a rebuild. Two changes of status bring two jobs of a
  chart to run at once, and a change whose job is lost beside one whose job is
  not. Three plays of two charts on two slots (4.7 million states, one change of
  status, one worker) were checked, too, and differ in nothing.
* *Sessions.* Two callers make a refresh that waits behind another one, the
  early refresh and the one at the start are threads of their own. The second
  sign-in makes a session that an answer can be too old for. Two events let a
  rotation's answer be lost and the token tried again, or a save fail and the
  game restart.
* *Library.* A long chart before a short one makes an offset that is wrong by
  one block meet other notes. The versions are a chart before and after an edit,
  the events edits, failing writes, crashes and clears, `CompactMin` the garbage
  that starts a compaction.

The runs of `ScenePlay`, `ranking` and `sessions` turn deadlock checking off,
since a play ends, requests are used up and sign-ins are bounded. The others
leave it on.

### Fairness

`Attempt` and `ScenePlay` are checked for safety only: nothing obliges a player.
`Submissions!FairSpec` assumes weak fairness of each submission thread, of the
worker, of the frames that show a notice, of the server's transactions and of
the database's deadlock detection, and strong fairness of a file's retry. The
last is the code's: the worker wakes at least every `MAX_RETRY_SECONDS`, and no
file's next attempt lies further in the future, so pass after pass finds it due.
Nothing is assumed of the player, of time running out, or of exits.

`Ranking!FairSpec` assumes strong fairness of each slot's steps, since PostgreSQL
serves the waiters of a row in their order, and weak fairness of its deadlock
detection. With weak fairness of the slots a refresh job and a review could
deadlock again and again. Nothing is assumed of `CrossUpdates`: whether two updates
meet in opposite orders is chance. `Sessions!FairSpec` assumes weak fairness of each
thread: it runs, and its requests are answered or time out. The mutex needs no
strong fairness, as every thread that waits for it takes it at most twice per
call and calls do not wait on each other. `Library` is checked for safety only.

### What the violations mean

* `replay_gap`, `replay_snap`: the attempt is updated with the present after
  every frame, and a note missed by an update stays missed. An input that is
  judged at an earlier time than a previous update (stamped before it but drained
  after it, or pulled back by a snap of the clock) finds the note gone; the
  simulation, which has no frames, still hits it. The server then refuses the
  play, since it checks the claimed counts (`_check_claimed_result`).
* `ticket_deadlock`: `submit_play` and `issue_ticket` take the rows of the ticket
  and the user in opposite orders. It needs a play started while the last one is
  being submitted. Either the new play gets no ticket, or the submission is sent
  again when its ticket has been superseded.

* `ranking_stale`: `submit_play` loads the player's statistics before it locks the
  row, and the select that locks does not refresh them. A refresh job that lowers
  `ranked_play_count` in between is not seen: the submission sets the count back
  to the value it had loaded, the unit of work finds nothing to write, and the
  player leaves the board with a ranked play.

### Behaviour of the code worth knowing

These are reachable in the models and contradict no statement of the
repository, so they are not findings. In `Submissions`:

* A play whose first submission failed is recorded by the retry, but no longer
  counts once another play has asked for its ticket (superseded).
* Two ticket requests of a quick restart may be handled in the opposite order;
  the play that goes on then holds the superseded ticket.
* A submission is sent as whoever is signed in at that moment. The ticket keeps
  such a row from counting, and the player's own retry is then a duplicate.
* The game closed while the first request is under way loses the submission; the
  replay is on disk (if the disk took it), but no pending file is.
* A pending file that cannot be written drops the submission with a line in the log
  (`SubmissionQueue.cpp:270`), though the results say that it will be retried.
* A submission refused after its results were left is reported to nobody.

In `ScenePlay`:

* A key let go in the frame that ends the ticket wait, after the window sampled its
  keys and before the queue was drained, stays held for the attempt: the event is
  dropped, `set_keys` has seen the key down. The next press of it is ignored, and
  letting it go again frees the lane. A resume loses nothing so: its frame goes on
  and judges its events.

In `Ranking`:

* A review's totals can be lost in the same way as a submission's (`review_play`).
* A play is inserted as ranked on a chart whose status changed meanwhile.
* A status change whose job could not be queued leaves the chart's plays as they
  were; setting the status again does not mend it, setting another one does.
* A worker that dies between commit and sync, and a rebuild that read the table
  before a submission was synced, leave the board behind the database until the
  player's next sync.
* A late sync puts a player back on the board who was restricted meanwhile.

In `Sessions`:

* If the answer to a rotation is lost, or the game dies before it is applied, the
  next refresh presents a used token: the server revokes the session and the
  player is signed out.
* A sign-out that races a rotation leaves the session on the server alive: the
  logout carries the access token that the rotation replaced.
* A sign-in that is answered late signs in, even after a sign-out.
* A save of account.json that fails after a sign-out signs the player in again at
  the next start; one that fails after a rotation makes the next start present a
  used token, and one that leaves no file at all (the old one removed, the new
  one not renamed) signs the player out at the next start.

In `Library`:

* A rewrite that fails after appending leaves `notes_size` behind. The offsets the
  next rewrite writes are wrong and may lead to another chart's notes, since
  `decode_notes` compares no hash (`slipped` marks these).
* When renaming the index fails after the compacted notes were renamed, the
  offsets in memory are those of the old notes file.
* Once an offset has slipped the model takes every offset for suspect until the
  cache is built anew; the code's damage may be confined to fewer records.
* A scan reads a file's time and content as one step, the code in two; a file
  replaced in between is read with the older time and read again by the next scan.
* `move_into_place` that can neither rename nor copy has removed the file it was
  to replace.

## 4. What is proved

`AttemptProofs` proves, for every chart that satisfies `ChartAssumption`, every
number of keys, hit accuracy, set of times, keys and bound on steps back, that
each of these holds of `Spec`: `TypeOK`, `OpenHoldAttached`, `TargetsAreHits`,
`PassedAreJudged`, `NothingOverdue`, and the action properties
`JudgementsAreFinal`, `OnePressOneHead`, `OneReleaseOneTail`.

The argument is one inductive invariant, `Sound`. Typing alone is not inductive:
that the scan of `press` may start at `passed` needs that only judged heads lie
before it (`PassedJudged`); that a release scores the right tail needs that
targets belong to their lane and are played (`TargetsOwned`); that no tail is
forgotten needs the attachment of open holds (`HoldsAttached`), which in turn
needs that a tail is never judged before its head (`HalvesInOrder`); and that the
overrun check sees everything needs that nothing was overdue before the call
(`Timely`). `JudgingLemmas` states what each operator of `Judging` returns;
`NewAttemptSound`, `UpdateSound`, `PressSound` and `ReleaseSound` lift these to
the calls, `NextSound` to a step.

`AttemptProofs` also proves `EmptyPressHasNoNote`, `NoteSelection` and
`MissesAreExplained`, just as generally. The scan of `press` has two breaks, and
both could hide a note. That they do not rests on `Timely`: after the update at
the start of the press no open note is overdue, so the open notes of the lane
within the BAD window are exactly the candidates (`CandidatesAre`). Since the
chart is sorted, an earlier open note is in the window whenever a later one is.
`Explained` adds to the misses' rule that an open head is no MISS and that a MISS
has a time the attempt has heard of; a release is never late (`EarlyTail`),
again by `Timely`. `ComboRule` is inductive as a rule about counters
(`TallyCombo`), and each call changes them through the tally only.

`TallyAgrees` compares the counters with sums over all judgements. The sums are
recursive functions over finite sets, and what they add up to needs induction.
`DataLemmas` does it with `NatInduct`, where the hypothesis is a set of numbers
instead of an operator, so that every prover can use it: `SumOver` unfolds at a
new member (`SumAdd`), and a sum changes by the difference of the one member that
changes. `Counted` is the invariant: each call tallies exactly the halves it
judges, a sweep of misses included, which adds one MISS per half (its lemmas are
in `JudgingLemmas`, since a play and its replay are counted, too).

`ScenePlayProofs` proves, for any chart, keyboard mapping, offsets, clock
corrections, frame times and bounds, `TypeOK`, `NoStuckLane` and
`ResumeMissesNothing`, and `FinishedIsComplete` wherever `OffsetsInReach`. The
inductive invariant is `PlaySound`. Both attempts must be `Sound` in the sense of
`Attempt`, which needs that the times judged never go back further than the
operators allow. `LanesFollow` is what survives
dropping: the last event of a key, in the frame or in the queue, is a press or a
release as the key ended up at its drain or now; a sampled key without an event in
the frame was down at the drain; and while the play goes on a lane that the attempt
holds without such an event is a key that was down at the drain, or one that has
slipped. With polled keys none has. `Pause`,
`WaitingFrame` and `Restart` drop events, but a session that goes on afterwards
is new or has read the keys afresh (`SetKeys`).
`OffsetsInReach` says that the offsets plus the delay of the results (2000 ms)
reach the release window. The game's sliders keep the calibrated offsets within
300 ms (`SceneCalibration.h:55`) and its own correction is 24 ms; the offset a
chart may carry is not limited, so the theorem keeps this as a hypothesis: judging
that runs two seconds behind the song would end with its last notes still open.

`ReplayAgrees` is false in general (runs `replay_gap` and `replay_snap`), but
`ReplaysAgree` proves it, for any chart, offsets, frame times, pauses and restarts,
under two hypotheses. `PolledForward`: key events are polled, not stamped by a
thread of their own, and no correction takes the song position back. `StartsEarly`:
one frame after `start_position()`, 2 s early by default, no note is past its window;
otherwise a player who pauses while the ticket is awaited and resumes would be judged
at a position the clock then leaves again. `Same` says that two attempts have the
same judgements, keys and combos and may differ in when they noticed a MISS. Its
lemmas are about `Judging` alone: attempts that are `Same` stay so under `Update`,
`Press` and `Release` (`SameUpdates`, `PressSame`, `ReleaseSame`); above all an
update before another one changes nothing (`UpdateAgain`), which is why the frames
that the replay lacks leave no trace. The combo needs care there: misses of two
updates in another order still end it at 0 (`MissesBreakCombos`). The invariant
`PlayFollows` says that the replay is the play, or lacks the update at its latest
time (`InStep`), and that no input will come before that time, unless a resume's
`set_keys` overtook it and it is no news (`Caught`, `Reported`). `Counted` then
gives the counters of the result.

`SubmissionsProofs` proves, for any plays, accounts and bounds, that `Spec` of
`Submissions` implements `PlayLedger` (`LedgerSpec`) and keeps `TypeOK`,
`DroppedForAReason` and `QuitKeepsReplays`; the only assumption used is that `None` is
no account, ticket or recorded play. Its inductive invariant, also called `Sound`,
adds to these that only what was played asks for a ticket or waits to be sent
(`Started`), that a ticket is its player's (`TicketsOwned`) and that a request
found eligible has the ticket and comes from the player (`RequestsBacked`). The
last two are what makes a recorded play eligible only for its player: the check
is made when the ticket is resolved, the row is inserted several steps later.
That a dropped submission is on the server or was reported for a reason rests on
what the answers mean, which `AnswerTold` states for every way a request can end.
`QuitKeepsReplays` is a matter of order: `saving` is counted down only after the
save, and `stop` waits for it. A second invariant on
top of `Sound`, `Fated`, proves `TicketSurvivesRetries`: nothing of a play is sent
before its ticket is there or has failed (`NothingSentEarly`), a ticket the client
has was issued once (`HaveIsIssued`), only the commit that records the play uses it
up (`UsedIsRecorded`), and a request whose ticket did not count had a reason for it
(`RefusedRightly`). `StepRefines` maps `StartPlay` to `Begin` and an `Insert` that
records to `Record`; every other step stutters.

`RankingProofs` proves `TypeOK` and `BoardFollows` of `Ranking`, for any plays,
charts, slots and bounds. For the types, `Prepared` adds that what is to be
committed has statistics to flush and that a transaction that loaded some finds
some, so that a flush of a few columns never meets a missing row. `BoardFollows` is
then inductive: only `Commit` and `SetRestriction` change a standing, and both go on
to sync. Assumed are finitely many plays and a `None` that is no row, statistics or
handler.

`StatsFollowRows` and `BestsFollowRows` speak of quiet states only, so their
invariants say what each step of a transaction may count on in between.
`Recording` holds whoever overlaps: there are statistics exactly when there
are rows, and what is reviewed, refreshed or committed has some. `Ordered` says
what the ghost `overlapped` excludes: transactions that share the player without
it are submissions of different plays, at most one of them past the lock of the
user's row, and what is about to be committed is a refresh of the rows that are
there. `StatsSound` then says that, with no refresh pending, the statistics are
the totals of the rows, and why a stale load does no harm: since it was loaded
submissions have only added rows (`Outdated`), so no total is back at the loaded
value unless it never moved, and the flush of the columns that differ is exact.
`BestsSound` says that the marks of a chart are right, and its ranked flags, too,
unless a job for it is still to come, is about to be queued or was never queued
(`Unapplied`); `StatusKept` is why that ends only with the job that puts them right.

`LibraryProofs` proves that the difficulty cache forgets nothing
(`NothingUnsaved`), however stores, clears, saves that fail and crashes
interleave: `SaveSound` adds that what a save has copied is what is in memory
unless the dirty flag is set again (`CopyIsCurrent`). The second
theorem says `Library` is such a system: each of its steps is a `CacheStep`, so
the first holds of it, too.

It also proves `TypeOK` and `NotesAreRight` of `Library`, for any chart files,
block sizes and events. The invariant is `Sound`: an index on disk leads to its
charts' notes if the notes file has the id it names (`IndexRight`), which is then
the id in memory (`IdKnown`); a rewrite writes under the id of the notes that are
there, or under a new one that no index has before the notes do (`IdsRight`); the
index it is about to write is right about the notes it will belong to
(`NextRight`), and so are the records in memory (`RecordsRight`), unless an offset
has `slipped`; difficulties are saved when the notes are done with (`SavesLast`). The
lemmas about the layout carry the arithmetic: blobs laid one after another are
found at the sums of the sizes before them (`LaidOut`), appending leaves what was
right so (`AppendedRight`), and compacting keeps every record's blob
(`CompactedRight`).

`SessionsProofs` proves, for any number of callers, sign-ins and events,
`TypeOK`, `NoSelfRevocation`, `SignOutHolds` and `NeverDroppedAlive`. The
inductive invariant `IInv` follows the tokens. `Typed` says who holds
`refresh_mutex` and that an early refresh is marked. `Tracked` says that a token
anywhere was issued by its session and that the game has no two of one session
(`AccountIssued`, `WaitingIssued`, `WireIssued`), and above all that, unless an
answer was lost, the token a refresh sends is the newest and the account's is,
or the answer with the newest is in (`WaitingNewest`, `AccountNewest`): only then
does a rotation never meet `Reused`. `Backed` says the same of account.json: it
has the account's own token, or none, or a save has failed. A restart needs it.

Only checked, not proved: `EveryHandlerEnds` of `Ranking`, `EverySubmissionSettles`
of `Submissions`, and `CallsGoThrough` and `CallsEnd` of `Sessions`. They are
liveness, or speak of `ENABLED`, which the prover does not do.

## 5. Plan

1. *Play screen*: skip intro, replay playback and seeking, the song clock itself.
2. *Server*: cached counts and the race of `queries.py` against a submission,
   snapshots, recalculation jobs; chart moderation.
3. *Local bests* and *local replays*: generations of detached saves, flush at exit;
   the versions and backups of *settings files*.
4. *Downloads* and *updater*: cancel against the thread, install and recovery.
5. *Scene stack and overlays*; *editor document*: undo and redo against a history.

Composition: `ScenePlay` uses `Judging` and will use the clock, `Library` drives
`DifficultyCache`. `Submissions` has one variable where `Sessions` has the
account, and ends at the commit where `Ranking` goes on; joining the three would
show that a play sent while tokens are renewed is ranked once.

## 6. Not modelled, and why

The difficulty calculator and the anticheat statistics are floating-point
computations without state. Parsers, exporters, skins, rendering, audio, menus
and the web site are formatting and I/O. Generated and vendored code (the
difficulty model, JSON, audio and window libraries) is left aside.

## 7. Running

`tlc -config X.cfg M` for each run of `PROJECT.json`, `tlapm M.tla` for
`DataLemmas`, `JudgingLemmas`, `AttemptProofs`, `ScenePlayProofs`,
`SubmissionsProofs`, `RankingProofs`, `LibraryProofs` and `SessionsProofs`.
Definitions named `Name_Something` before `Name` are its mutants: what a
plausible mistake there would look like, each of which a run detects.
