--------------------------- MODULE SubmissionsProofs ---------------------------
(***************************************************************************)
(* What holds of the queue and the server for any plays, accounts and      *)
(* bounds: type correctness, that nothing is dropped without a reason,     *)
(* that quitting cuts no save off, that retries cost no ticket, and that   *)
(* the system implements PlayLedger.  Sound is the inductive invariant; Fated  *)
(* adds what tickets need.                                                 *)
(***************************************************************************)
EXTENDS Submissions, TLAPS

-----------------------------------------------------------------------------
(* The inductive invariant *)

Played == {p \in Plays : player[p] # None}

\* Only what was played asks for a ticket or waits to be sent.
Started ==
  /\ \A p \in Plays : (stage[p] = "unplayed") <=> (player[p] = None)
  /\ \A p \in Plays : issue[p] # "none" => player[p] # None
  /\ pending \subseteq Played /\ worker.todo \subseteq Played

\* A ticket is its player's.
TicketsOwned ==
  \A p \in Plays : tickets[p] # None =>
    player[p] # None /\ tickets[p].user = player[p]

\* A request is for a play that was played; an eligible one has the ticket and
\* comes from the player.
RequestsBacked ==
  \A r \in requests :
    /\ player[r.play] # None
    /\ r.eligible => tickets[r.play] \in Ticket /\ r.user = player[r.play]

\* The stages of a thread that has saved its replay, if it was cut off too.
AfterSaving == {"unsent", "sending", "writing", "killed"}

OnDisk == \A p \in Plays : stage[p] \in AfterSaving => saved[p] # "no"

Sound ==
  /\ TypeOK /\ Started /\ TicketsOwned /\ RequestsBacked
  /\ OnDisk /\ DroppedForAReason

\* The initial states are sound.
LEMMA InitSound == Init => Sound
<1> SUFFICES ASSUME Init PROVE Sound
  OBVIOUS
<1> USE SubmissionsAssumption DEF Init
<1>1. TypeOK
  BY DEF TypeOK, Stages, Words, Issues, Request, Resting
<1>2. Started /\ OnDisk /\ DroppedForAReason
  BY DEF Started, Played, OnDisk, AfterSaving, DroppedForAReason, Words, Resting
<1>3. TicketsOwned /\ RequestsBacked
  BY DEF TicketsOwned, RequestsBacked
<1>4. QED
  BY <1>1, <1>2, <1>3 DEF Sound

-----------------------------------------------------------------------------
(* Answers and requests *)

Pass == [scanning: BOOLEAN, username: Users \union {None}, todo: SUBSET Plays,
         entry: Plays \union {None}]

\* Whatever a request is answered, its thread or the worker goes on as typed,
\* no thread is back before its replay was saved, and nothing new is to send.
LEMMA AnswerTyped ==
  ASSUME TypeOK, NEW r \in requests, NEW result, Answer(r, result)
  PROVE  /\ stage' \in [Plays -> Stages]
         /\ worker' \in Pass /\ worker'.todo \subseteq worker.todo
         /\ pending' \subseteq pending
         /\ word' \in [Plays -> Words]
         /\ \A p \in Plays : (stage'[p] = "unplayed") <=> (stage[p] = "unplayed")
         /\ \A p \in Plays : stage'[p] \in AfterSaving => stage[p] \in AfterSaving
<1> USE DEF TypeOK, Stages, Words, Request, Pass, AfterSaving, Returned, Notified
<1>1. CASE UNCHANGED thread
  BY <1>1 DEF thread
<1>2. CASE WorkerAnswered(r.play, result)
  BY <1>2 DEF WorkerAnswered
<1>3. CASE stage[r.play] = "sending" /\ ThreadAnswered(r.play, result)
  BY <1>3 DEF ThreadAnswered
<1>4. QED
  BY <1>1, <1>2, <1>3 DEF Answer, Awaited

\* No answer drops a play without a reason if "ok" and "duplicate" mean that the play
\* is recorded, and what was recorded stays.
LEMMA AnswerTold ==
  ASSUME TypeOK, DroppedForAReason, NEW r \in requests, NEW result, Answer(r, result),
         result \in {"ok", "duplicate", "refused", "retryable"},
         \A p \in Plays : plays[p] # None => plays'[p] # None,
         result \in {"ok", "duplicate"} => plays'[r.play] # None,
         result = "refused" => r.play \in Refusable, UNCHANGED old
  PROVE  DroppedForAReason'
<1> USE DEF TypeOK, Stages, Words, Request, Pass, DroppedForAReason
<1>1. CASE UNCHANGED thread
  BY <1>1 DEF thread
<1>2. CASE WorkerAnswered(r.play, result)
  BY <1>2 DEF WorkerAnswered, Settled, Notified
<1>3. CASE ThreadAnswered(r.play, result)
  BY <1>3 DEF ThreadAnswered, Returned
<1>4. QED
  BY <1>1, <1>2, <1>3 DEF Answer

\* A step that only answers a request, drops requests or ends a ticket request.
LEMMA AnswerSound ==
  ASSUME Sound, NEW r \in requests, NEW result, Answer(r, result),
         result \in {"duplicate", "refused", "retryable"},
         result = "duplicate" => plays[r.play] # None,
         result = "refused" => r.play \in Refusable,
         requests' \subseteq requests,
         UNCHANGED <<client, promise, tickets, plays, sends, signOuts, exits>>,
         issue' \in [Plays -> Issues],
         \A p \in Plays : issue'[p] # "none" => issue[p] # "none",
         failures' \in Nat
  PROVE  Sound'
<1> USE DEF Sound, client
<1>1. TypeOK'
  BY AnswerTyped DEF TypeOK, Pass
<1>2. Started'
  BY AnswerTyped DEF Started, Played
<1>3. TicketsOwned' /\ RequestsBacked'
  BY DEF TicketsOwned, RequestsBacked
<1>4. OnDisk'
  BY AnswerTyped DEF OnDisk
<1>5. DroppedForAReason'
  BY AnswerTold
<1>6. QED
  BY <1>1, <1>2, <1>3, <1>4, <1>5

\* A signed-in client posts a typed request for the play, not eligible yet.
LEMMA PostTyped ==
  ASSUME TypeOK, NEW p \in Plays, SignedIn, Post(p)
  PROVE  /\ sends' \in [Plays -> Nat] /\ requests' \subseteq Request
         /\ \A r \in requests' \ requests : r.play = p /\ ~r.eligible
<1> DEFINE new == [play |-> p, n |-> sends[p] + 1, user |-> account, eligible |-> FALSE,
                   phase |-> "sent"]
<1>1. account \in Users /\ sends[p] + 1 \in Nat
  BY DEF TypeOK, SignedIn
<1>2. new \in Request /\ new.play = p /\ ~new.eligible
  BY <1>1 DEF Request
<1>3. sends' \in [Plays -> Nat]
  BY <1>1 DEF TypeOK, Post
<1>4. requests' = requests \union {new}
  BY DEF Post
<1> HIDE DEF new
<1>5. QED
  BY <1>2, <1>3, <1>4 DEF TypeOK

\* A request that moves on stays backed.
LEMMA AdvanceSound ==
  ASSUME Sound, NEW r \in requests, NEW to \in Request, Advance(r, to),
         to.play = r.play,
         to.eligible => tickets[r.play] \in Ticket /\ to.user = player[r.play]
  PROVE  Sound'
<1> USE DEF Sound, Advance, client, thread, bounded
<1>1. TypeOK'
  BY DEF TypeOK
<1>2. Started' /\ OnDisk' /\ DroppedForAReason'
  BY DEF Started, Played, OnDisk, DroppedForAReason
<1>3. TicketsOwned' /\ RequestsBacked'
  BY DEF TicketsOwned, RequestsBacked
<1>4. QED
  BY <1>1, <1>2, <1>3

-----------------------------------------------------------------------------
(* Every step keeps the invariant *)

\* A play's part of the client: playing, saving, sending.
LEMMA PlayingSound ==
  ASSUME Sound, NEW p \in Plays,
         StartPlay(p) \/ TicketTimeout(p) \/ Leave(p) \/ Submit(p) \/ LeaveResults(p)
           \/ SaveReplay(p) \/ Send(p) \/ WritePending(p)
  PROVE  Sound'
<1> USE SubmissionsAssumption DEF Sound, client, server, thread, bounded, Started, Played,
      TicketsOwned, RequestsBacked, OnDisk, AfterSaving, DroppedForAReason
<1>1. CASE StartPlay(p)
  BY <1>1 DEF StartPlay, TypeOK, Stages, Issues
<1>2. CASE TicketTimeout(p)
  BY <1>2 DEF TicketTimeout, Fail, TypeOK
<1>3. CASE Leave(p)
  BY <1>3 DEF Leave, TypeOK, Stages
<1>4. CASE Submit(p)
  BY <1>4 DEF Submit, TypeOK, Stages, Words
<1>5. CASE SaveReplay(p)
  BY <1>5 DEF SaveReplay, Fail, TypeOK, Stages
<1>6. CASE Send(p)
  <2>1. TypeOK'
    BY <1>6, PostTyped DEF Send, TypeOK, Stages
  <2>2. RequestsBacked'
    BY <1>6, PostTyped DEF Send, TypeOK
  <2>3. Started' /\ TicketsOwned' /\ OnDisk' /\ DroppedForAReason'
    BY <1>6 DEF Send, TypeOK, Stages
  <2>4. QED
    BY <2>1, <2>2, <2>3
<1>7. CASE WritePending(p)
  BY <1>7 DEF WritePending, Returned, Fail, TypeOK, Stages, Words
<1>8. CASE LeaveResults(p)
  BY <1>8 DEF LeaveResults, TypeOK, Words
<1>9. QED
  BY <1>1, <1>2, <1>3, <1>4, <1>5, <1>6, <1>7, <1>8

\* The worker's turns, and the age of its files.
LEMMA RetryingSound ==
  ASSUME Sound, NEW p \in Plays,
         GiveUp(p) \/ Skip(p) \/ Retry(p) \/ ShowNotice(p) \/ GrowOld(p)
  PROVE  Sound'
<1> USE SubmissionsAssumption DEF Sound, client, server, thread, bounded, Started, Played,
      TicketsOwned, RequestsBacked, OnDisk, AfterSaving, DroppedForAReason
<1>1. CASE GiveUp(p)
  BY <1>1 DEF GiveUp, Notified, Turn, TypeOK, Words
<1>2. CASE Skip(p)
  BY <1>2 DEF Skip, Turn, TypeOK
<1>3. CASE Retry(p)
  <2>1. TypeOK'
    BY <1>3, PostTyped DEF Retry, TypeOK
  <2>2. RequestsBacked'
    BY <1>3, PostTyped DEF Retry, Turn, TypeOK
  <2>3. Started' /\ TicketsOwned' /\ OnDisk' /\ DroppedForAReason'
    BY <1>3 DEF Retry, TypeOK
  <2>4. QED
    BY <2>1, <2>2, <2>3
<1>4. CASE GrowOld(p)
  BY <1>4 DEF GrowOld, TypeOK
<1>5. CASE ShowNotice(p)
  BY <1>5 DEF ShowNotice, TypeOK, Words
<1>6. QED
  BY <1>1, <1>2, <1>3, <1>4, <1>5

\* The ticket a player is issued is theirs, and replacing tickets leaves tickets.
LEMMA IssueTicketSound ==
  ASSUME Sound, NEW p \in Plays, IssueTicket(p)
  PROVE  Sound'
<1> DEFINE new == [user |-> player[p], used |-> FALSE, superseded |-> FALSE,
                   expired |-> FALSE]
           replaced(q) == [tickets[q] EXCEPT !.superseded = TRUE]
<1> USE DEF Sound
<1>1. player[p] \in Users /\ player[p] # None
  BY DEF IssueTicket, Issuing, Started, TypeOK
<1>2. new \in Ticket /\ new.user = player[p]
  BY <1>1 DEF Ticket
<1>3. \A q \in Superseded(p) : replaced(q) \in Ticket /\ replaced(q).user = tickets[q].user
  BY DEF Superseded, Live, TypeOK, Ticket
<1>4. /\ tickets'[p] = new
      /\ \A q \in Plays \ {p} : tickets'[q] = IF q \in Superseded(p) THEN replaced(q)
                                              ELSE tickets[q]
  BY DEF IssueTicket
<1>5. tickets' = [q \in Plays |-> tickets'[q]]
  BY DEF IssueTicket
<1> HIDE DEF new, replaced
<1>6. \A q \in Plays : /\ tickets[q] \in Ticket => tickets'[q] \in Ticket
                       /\ tickets'[q] \in Ticket \union {None}
  BY <1>2, <1>3, <1>4 DEF TypeOK
<1>7. TypeOK'
  <2>1. tickets' \in [Plays -> Ticket \union {None}]
    BY <1>5, <1>6
  <2>2. /\ issue' \in [Plays -> Issues] /\ failures' \in Nat
        /\ promise' \in [Plays -> {"none", "waiting", "have", "refused", "failed"}]
    BY DEF TypeOK, IssueTicket, Promised, Issues, Fail
  <2>3. QED
    BY <2>1, <2>2 DEF TypeOK, IssueTicket, client, thread
<1>8. Started' /\ OnDisk' /\ DroppedForAReason'
  BY <1>1 DEF Started, Played, OnDisk, DroppedForAReason, IssueTicket, TypeOK, client, thread
<1>9. TicketsOwned'
  BY <1>1, <1>2, <1>3, <1>4 DEF TicketsOwned, IssueTicket, Superseded, Live, client
<1>10. RequestsBacked'
  BY <1>6 DEF RequestsBacked, IssueTicket, client, TypeOK, Request
<1>11. QED
  BY <1>7, <1>8, <1>9, <1>10

\* The requests for tickets, and the tickets' time.
LEMMA TicketingSound ==
  ASSUME Sound, NEW p \in Plays,
         TicketLockUser(p) \/ IssueTicket(p) \/ TicketFails(p) \/ TicketExpires(p)
  PROVE  Sound'
<1> USE SubmissionsAssumption DEF Sound, client, server, thread, bounded, Started, Played,
      TicketsOwned, RequestsBacked, OnDisk, DroppedForAReason
<1>1. CASE TicketLockUser(p)
  BY <1>1 DEF TicketLockUser, TypeOK, Issues
<1>2. CASE TicketFails(p)
  BY <1>2 DEF TicketFails, Fail, Promised, Issuing, TypeOK, Issues
<1>3. CASE TicketExpires(p)
  <2> DEFINE late == [tickets[p] EXCEPT !.expired = TRUE]
  <2>1. late \in Ticket /\ late.user = tickets[p].user
    <3>1. tickets[p] \in Ticket
      BY <1>3 DEF TicketExpires, TypeOK
    <3>2. QED
      BY <3>1 DEF Ticket
  <2>2. tickets' = [tickets EXCEPT ![p] = late]
    BY <1>3 DEF TicketExpires
  <2> HIDE DEF late
  <2>3. TypeOK'
    <3>1. tickets' \in [Plays -> Ticket \union {None}]
      BY <2>1, <2>2 DEF TypeOK
    <3>2. QED
      BY <1>3, <3>1 DEF TicketExpires, TypeOK
  <2>4. \A q \in Plays : /\ tickets[q] = None <=> tickets'[q] = None
                         /\ tickets[q] # None => tickets'[q].user = tickets[q].user
    <3>1. tickets[p] # None /\ late # None
      BY <1>3, <2>1 DEF TicketExpires
    <3>2. QED
      BY <2>1, <2>2, <3>1 DEF TypeOK
  <2>5. TicketsOwned'
    BY <1>3, <2>3, <2>4 DEF TicketExpires, TypeOK
  <2>7. RequestsBacked'
    BY <1>3, <2>3, <2>4 DEF TicketExpires, TypeOK, Request
  <2>6. Started' /\ OnDisk' /\ DroppedForAReason'
    BY <1>3 DEF TicketExpires
  <2>8. QED
    BY <2>3, <2>5, <2>6, <2>7
<1>4. QED
  BY <1>1, <1>2, <1>3, IssueTicketSound

\* A play is recorded with what its request is; its ticket stays a ticket.
LEMMA RecordingSound ==
  ASSUME Sound, NEW r \in requests, r.phase = "locked", plays[r.play] = None, Insert(r)
  PROVE  Sound'
<1> DEFINE play == [user |-> r.user, eligible |-> r.eligible]
           used == [tickets[r.play] EXCEPT !.used = TRUE]
<1> USE SubmissionsAssumption DEF Sound
<1>1. r \in Request
  BY DEF TypeOK
<1>2. play \in Play /\ play # None
  BY <1>1 DEF Request, Play
<1>3. plays' = [plays EXCEPT ![r.play] = play]
  BY DEF Insert
<1>4. r.eligible => used \in Ticket /\ used.user = tickets[r.play].user
  BY DEF RequestsBacked, Ticket
<1>5. tickets' = IF r.eligible THEN [tickets EXCEPT ![r.play] = used] ELSE tickets
  BY DEF Insert
<1>6. PICK result \in {"ok", "retryable"} :
        /\ Answer(r, result) /\ requests' = requests \ {r} /\ failures' \in Nat
        /\ UNCHANGED <<client, promise, issue, sends, signOuts, exits>>
  BY DEF Insert, Finish, Fail, TypeOK
<1> HIDE DEF play, used
<1>7. /\ plays' \in [Plays -> Play \union {None}]
      /\ plays'[r.play] # None
      /\ \A p \in Plays : plays[p] # None => plays'[p] # None
  BY <1>1, <1>2, <1>3 DEF TypeOK, Request
<1>8. /\ tickets' \in [Plays -> Ticket \union {None}]
      /\ \A p \in Plays : /\ tickets[p] \in Ticket => tickets'[p] \in Ticket
                          /\ tickets'[p] # None => tickets'[p].user = tickets[p].user
                                                   /\ tickets[p] # None
  BY <1>1, <1>4, <1>5 DEF TypeOK, Request, RequestsBacked
<1>9. TypeOK'
  BY <1>6, <1>7, <1>8, AnswerTyped DEF TypeOK, Pass, client
<1>10. Started' /\ OnDisk'
  BY <1>6, AnswerTyped DEF Started, Played, OnDisk, client
<1>11. TicketsOwned' /\ RequestsBacked'
  BY <1>6, <1>8 DEF TicketsOwned, RequestsBacked, TypeOK, Request, client
<1>12. DroppedForAReason'
  BY <1>6, <1>7, AnswerTold DEF client
<1>13. QED
  BY <1>9, <1>10, <1>11, <1>12

\* What a request goes through on the server and on its way.
LEMMA RequestSound ==
  ASSUME Sound, NEW r \in requests, RequestStep(r)
  PROVE  Sound'
<1> USE DEF Sound
<1>1. r \in Request
  BY DEF TypeOK
<1>2. CASE RequestTimeout(r)
  BY <1>2, AnswerSound DEF RequestTimeout, Fail, TypeOK
<1>3. CASE Refuse(r)
  BY <1>3, AnswerSound DEF Refuse, Finish, Fail, TypeOK
<1>4. CASE Abort(r)
  BY <1>4, AnswerSound DEF Abort, Fail, TypeOK
<1>5. CASE CheckDuplicate(r)
  <2>1. CASE plays[r.play] = None
    BY <1>1, <1>5, <2>1, AdvanceSound DEF CheckDuplicate, RequestsBacked, Request
  <2>2. CASE plays[r.play] # None
    BY <1>5, <2>2, AnswerSound DEF CheckDuplicate, Finish, Fail, TypeOK
  <2>3. QED
    BY <2>1, <2>2
<1>6. CASE ResolveTicket(r)
  <2> DEFINE to == [r EXCEPT !.phase = "resolved", !.eligible = Accepted(r)]
  <2>1. Accepted(r) \in BOOLEAN
    BY DEF Accepted, Live
  <2>2. /\ to \in Request /\ to.play = r.play /\ to.user = r.user
        /\ to.eligible = Accepted(r)
    BY <1>1, <2>1 DEF Request
  <2>3. Accepted(r) => tickets[r.play] \in Ticket /\ r.user = player[r.play]
    BY <1>1 DEF Accepted, Live, TicketsOwned, TypeOK, Request
  <2>4. Advance(r, to)
    BY <1>6 DEF ResolveTicket
  <2> HIDE DEF to
  <2>5. QED
    BY <2>2, <2>3, <2>4, AdvanceSound
<1>7. CASE LockUser(r)
  BY <1>1, <1>7, AdvanceSound DEF LockUser, RequestsBacked, Request
<1>8. CASE Insert(r)
  <2>1. CASE plays[r.play] = None
    BY <1>8, <2>1, RecordingSound DEF Insert
  <2>2. CASE plays[r.play] # None
    BY <1>8, <2>2, AnswerSound DEF Insert, Finish, Fail, TypeOK
  <2>3. QED
    BY <2>1, <2>2
<1>9. ASSUME NEW p \in Plays, BreakDeadlock(r, p) PROVE Sound'
  <2> USE DEF BreakDeadlock, Deadlocked, TypeOK
  <2>1. CASE /\ requests' = requests \ {r} /\ Answer(r, "retryable")
             /\ issue' = [issue EXCEPT ![p] = "granted"] /\ UNCHANGED promise
    BY <1>9, <2>1, AnswerSound DEF Issues, bounded
  <2>2. CASE issue' = [issue EXCEPT ![p] = "done"] /\ Promised(p, "refused")
             /\ UNCHANGED <<requests, thread>>
    BY <1>9, <2>2 DEF Promised, Issues, Started, Played, TicketsOwned, RequestsBacked,
         OnDisk, DroppedForAReason, client, thread, bounded
  <2>3. QED
    BY <1>9, <2>1, <2>2
<1>10. QED
  BY <1>2, <1>3, <1>4, <1>5, <1>6, <1>7, <1>8, <1>9 DEF RequestStep, ServerStep

\* The player, the process and the worker's passes.
LEMMA ProcessSound ==
  ASSUME Sound, Load \/ Rest \/ SignOut \/ (\E u \in Users : SignIn(u)) \/ Stop
                  \/ Stopped \/ Crash \/ Start \/ UNCHANGED vars
  PROVE  Sound'
<1> USE DEF Sound, client, server, thread, bounded, TypeOK, Started, Played,
      TicketsOwned, RequestsBacked, OnDisk, AfterSaving, DroppedForAReason
<1>1. CASE Load
  BY <1>1 DEF Load
<1>2. CASE Rest
  BY <1>2 DEF Rest, Resting
<1>3. CASE SignOut
  BY <1>3 DEF SignOut
<1>4. ASSUME NEW u \in Users, SignIn(u) PROVE Sound'
  BY <1>4 DEF SignIn
<1>5. CASE Stop
  BY <1>5 DEF Stop, Words
<1>6. CASE Stopped
  BY <1>6 DEF Stopped, Gone, Saving, Resting, Stages, Words
<1>7. CASE Start
  BY <1>7 DEF Start
<1>8. CASE UNCHANGED vars
  BY <1>8 DEF vars
<1>9. CASE Crash
  BY <1>9 DEF Crash, Gone, Resting, Stages, Words
<1>10. QED
  BY <1>1, <1>2, <1>3, <1>4, <1>5, <1>6, <1>7, <1>8, <1>9

\* Sound is inductive.
LEMMA NextSound == Sound /\ [Next]_vars => Sound'
<1> SUFFICES ASSUME Sound, [Next]_vars PROVE Sound'
  OBVIOUS
<1>1. ASSUME NEW p \in Plays, PlayStep(p) PROVE Sound'
  BY <1>1, PlayingSound, RetryingSound, TicketingSound DEF PlayStep
<1>2. ASSUME NEW r \in requests, RequestStep(r) PROVE Sound'
  BY <1>2, RequestSound
<1>3. QED
  BY <1>1, <1>2, ProcessSound DEF Next

-----------------------------------------------------------------------------
(* Tickets and retries *)

\* Until a play's ticket is there or has failed, nothing of the play is sent.
NothingSentEarly ==
  /\ \A p \in Plays : promise[p] \in {"none", "waiting"} =>
       /\ stage[p] \in {"unplayed", "playing", "left"}
       /\ p \notin pending /\ p \notin worker.todo /\ plays[p] = None
       /\ \A r \in requests : r.play # p
  /\ \A p \in Plays : stage[p] = "unplayed" <=> promise[p] = "none"

\* A ticket the client has was issued, and never again.
HaveIsIssued ==
  \A p \in Plays : promise[p] = "have" => issue[p] = "done" /\ tickets[p] # None

\* Only the commit that records the play uses its ticket.
UsedIsRecorded ==
  \A p \in Plays : tickets[p] # None /\ tickets[p].used => plays[p] # None

RunOut(p) == tickets[p].superseded \/ tickets[p].expired

\* A request that found its ticket not to count had reason to, if it is still
\* to record its play.
RefusedRightly ==
  \A r \in requests :
    /\ r.phase \in {"resolved", "locked"} /\ ~r.eligible
    /\ plays[r.play] = None /\ promise[r.play] = "have"
    => RunOut(r.play) \/ r.user # player[r.play]

Fated ==
  /\ NothingSentEarly /\ HaveIsIssued /\ UsedIsRecorded /\ RefusedRightly
  /\ TicketSurvivesRetries

\* At the start nothing is issued, sent or recorded.
LEMMA InitFated == Init => Fated
BY SubmissionsAssumption DEF Init, Resting, Fated, NothingSentEarly, HaveIsIssued,
   UsedIsRecorded, RefusedRightly, TicketSurvivesRetries

\* The parts that speak of tickets are kept by whatever leaves the server's
\* tables alone and resolves no ticket.
LEMMA CalmFated ==
  ASSUME Sound, Fated, UNCHANGED <<player, tickets, plays>>,
         \A p \in Plays : promise'[p] = "have" => promise[p] = "have",
         \A p \in Plays : promise[p] = "have" => issue'[p] = "done",
         \A r \in requests' : r \in requests \/ r.phase \in {"sent", "checked"},
         NothingSentEarly'
  PROVE  Fated'
<1> USE DEF Fated
<1>1. HaveIsIssued'
  BY DEF HaveIsIssued
<1>2. UsedIsRecorded'
  BY DEF UsedIsRecorded
<1>3. RefusedRightly'
  <2> SUFFICES ASSUME NEW r \in requests', r.phase \in {"resolved", "locked"}, ~r.eligible,
                      plays[r.play] = None, promise'[r.play] = "have"
               PROVE  RunOut(r.play) \/ r.user # player[r.play]
    BY DEF RefusedRightly, RunOut
  <2>1. r \in requests /\ r.play \in Plays
    BY DEF Sound, TypeOK, Request
  <2>2. QED
    BY <2>1 DEF RefusedRightly
<1>4. TicketSurvivesRetries'
  BY DEF TicketSurvivesRetries
<1>5. QED
  BY <1>1, <1>2, <1>3, <1>4

\* An answer to a request of a play brings no play back before its ticket was
\* there, and sends nothing.
LEMMA AnswerEarly ==
  ASSUME Sound, NothingSentEarly, NEW r \in requests, NEW result, Answer(r, result),
         requests' \subseteq requests,
         \A p \in Plays : promise'[p] \in {"none", "waiting"} => promise'[p] = promise[p],
         \A p \in Plays : promise[p] = "none" => promise'[p] = "none",
         \A p \in Plays : p # r.play => plays'[p] = plays[p]
  PROVE  NothingSentEarly'
<1> USE DEF Sound, TypeOK, Stages, Request, NothingSentEarly
<1>1. /\ pending' \subseteq pending /\ worker'.todo \subseteq worker.todo
      /\ \A p \in Plays : (stage'[p] = "unplayed") <=> (stage[p] = "unplayed")
  BY AnswerTyped
<1>2. \A p \in Plays : p # r.play => stage'[p] = stage[p]
  <2>1. CASE UNCHANGED thread
    BY <2>1 DEF thread
  <2>2. CASE WorkerAnswered(r.play, result)
    BY <2>2 DEF WorkerAnswered
  <2>3. CASE ThreadAnswered(r.play, result)
    BY <2>3 DEF ThreadAnswered
  <2>4. QED
    BY <2>1, <2>2, <2>3 DEF Answer
<1>3. ASSUME NEW p \in Plays, promise'[p] \in {"none", "waiting"}
      PROVE  /\ stage'[p] \in {"unplayed", "playing", "left"}
             /\ p \notin pending' /\ p \notin worker'.todo /\ plays'[p] = None
             /\ \A q \in requests' : q.play # p
  <2>1. promise[p] \in {"none", "waiting"}
    BY <1>3
  <2>2. r.play # p
    BY <2>1
  <2>3. QED
    BY <1>1, <1>2, <2>1, <2>2
<1>4. \A p \in Plays : stage'[p] = "unplayed" <=> promise'[p] = "none"
  BY <1>1
<1>5. QED
  BY <1>3, <1>4

\* A post is of a play whose ticket is there or has failed.
LEMMA PostEarly ==
  ASSUME Sound, NothingSentEarly, NEW p \in Plays, SignedIn, Post(p),
         promise[p] \notin {"none", "waiting"}
  PROVE  /\ \A q \in Plays : promise[q] \in {"none", "waiting"} =>
              \A r \in requests' : r.play # q
         /\ \A r \in requests' : r \in requests \/ r.phase = "sent"
BY DEF Post, NothingSentEarly

-----------------------------------------------------------------------------
(* Every step keeps tickets fated *)

\* A play's part of the client sends nothing before the ticket is there or failed.
LEMMA PlayingFated ==
  ASSUME Sound, Fated, NEW p \in Plays,
         StartPlay(p) \/ TicketTimeout(p) \/ Leave(p) \/ Submit(p) \/ LeaveResults(p)
           \/ SaveReplay(p) \/ Send(p) \/ WritePending(p)
  PROVE  Fated'
<1> USE DEF client, server, thread, bounded
<1>0. NothingSentEarly /\ HaveIsIssued /\ TypeOK /\ Started
  BY DEF Fated, Sound
<1>1. CASE StartPlay(p)
  <2>1. promise[p] = "none"
    BY <1>0, <1>1 DEF StartPlay, NothingSentEarly
  <2>2. NothingSentEarly'
    BY <1>0, <1>1, <2>1 DEF StartPlay, NothingSentEarly, TypeOK
  <2>3. /\ \A q \in Plays : promise'[q] = "have" => promise[q] = "have" /\ q # p
        /\ \A q \in Plays : promise[q] = "have" => issue'[q] = "done" /\ q # p
    BY <1>0, <1>1, <2>1 DEF StartPlay, HaveIsIssued, TypeOK
  <2>4. HaveIsIssued' /\ UsedIsRecorded'
    BY <1>1, <2>3 DEF StartPlay, HaveIsIssued, UsedIsRecorded, Fated
  \* The player's name changes only for a play without a ticket.
  <2>5. /\ UNCHANGED <<requests, tickets, plays>>
        /\ \A q \in Plays : q # p => player'[q] = player[q]
    BY <1>0, <1>1 DEF StartPlay, TypeOK
  <2>6. TicketSurvivesRetries'
    BY <2>3, <2>5 DEF TicketSurvivesRetries, Fated
  <2>7. RefusedRightly'
    <3> SUFFICES ASSUME NEW r \in requests, r.phase \in {"resolved", "locked"}, ~r.eligible,
                        plays[r.play] = None, promise'[r.play] = "have"
                 PROVE  RunOut(r.play) \/ r.user # player'[r.play]
      BY <2>5 DEF RefusedRightly, RunOut
    <3>1. r.play \in Plays
      BY <1>0 DEF TypeOK, Request
    <3>2. QED
      BY <2>3, <2>5, <3>1 DEF RefusedRightly, Fated
  <2>8. QED
    BY <2>2, <2>4, <2>6, <2>7 DEF Fated
<1>2. CASE TicketTimeout(p)
  <2>1. NothingSentEarly'
    BY <1>0, <1>2 DEF TicketTimeout, NothingSentEarly, TypeOK
  <2>2. \A q \in Plays : promise'[q] = "have" => promise[q] = "have"
    BY <1>0, <1>2 DEF TicketTimeout, TypeOK
  <2>3. QED
    BY <1>0, <1>2, <2>1, <2>2, CalmFated DEF TicketTimeout, HaveIsIssued
<1>3. CASE Leave(p) \/ Submit(p) \/ LeaveResults(p) \/ SaveReplay(p) \/ WritePending(p)
  <2>1. NothingSentEarly'
    <3>1. CASE Leave(p) \/ Submit(p)
      <4>1. /\ Leave(p) => stage'[p] = "left"
            /\ Submit(p) => stage'[p] = "saving" /\ promise[p] # "waiting"
            /\ stage[p] = "playing"
            /\ \A q \in Plays : q # p => stage'[q] = stage[q]
            /\ UNCHANGED <<promise, requests, plays, worker, pending>>
        BY <1>0, <3>1 DEF Leave, Submit, TypeOK
      <4>2. Submit(p) => promise[p] # "none"
        BY <1>0, <4>1 DEF NothingSentEarly
      <4>3. QED
        BY <1>0, <3>1, <4>1, <4>2 DEF NothingSentEarly
    <3>2. CASE SaveReplay(p)
      BY <1>0, <3>2 DEF SaveReplay, NothingSentEarly, TypeOK
    <3>3. CASE WritePending(p)
      <4>1. promise[p] \notin {"none", "waiting"} /\ stage'[p] \in {"done", "dropped"}
        BY <1>0, <3>3 DEF WritePending, NothingSentEarly, TypeOK
      <4>2. \A q \in Plays : q # p => stage'[q] = stage[q] /\ (q \in pending' <=> q \in pending)
        BY <1>0, <3>3 DEF WritePending, TypeOK
      <4>3. UNCHANGED <<promise, requests, plays, worker>>
        BY <3>3 DEF WritePending
      <4>4. QED
        BY <1>0, <4>1, <4>2, <4>3 DEF NothingSentEarly
    <3>4. CASE LeaveResults(p)
      BY <1>0, <3>4 DEF LeaveResults, NothingSentEarly
    <3>5. QED
      BY <1>3, <3>1, <3>2, <3>3, <3>4
  <2>2. UNCHANGED <<player, promise, requests, issue, tickets, plays>>
    BY <1>3 DEF Leave, Submit, LeaveResults, SaveReplay, WritePending
  <2>3. QED
    BY <1>0, <2>1, <2>2, CalmFated DEF HaveIsIssued
<1>4. CASE Send(p)
  <2>1. /\ promise[p] \notin {"none", "waiting"}
        /\ UNCHANGED <<player, promise, worker, pending, issue, tickets, plays>>
    BY <1>0, <1>4 DEF Send, NothingSentEarly
  <2>2. /\ \A q \in Plays : promise[q] \in {"none", "waiting"} =>
             \A r \in requests' : r.play # q
        /\ \A r \in requests' : r \in requests \/ r.phase = "sent"
    BY <1>0, <1>4, <2>1, PostEarly DEF Send, NothingSentEarly
  <2>3. \A q \in Plays : stage'[q] = IF q = p THEN stage'[p] ELSE stage[q]
    BY <1>0, <1>4 DEF Send, TypeOK
  <2>4. stage'[p] # "unplayed"
    BY <1>0, <1>4 DEF Send, TypeOK
  <2>5. NothingSentEarly'
    BY <1>0, <2>1, <2>2, <2>3, <2>4 DEF NothingSentEarly
  <2>6. QED
    BY <1>0, <2>1, <2>2, <2>5, CalmFated DEF HaveIsIssued
<1>5. QED
  BY <1>1, <1>2, <1>3, <1>4

\* The worker sends only what was sent before.
LEMMA RetryingFated ==
  ASSUME Sound, Fated, NEW p \in Plays,
         GiveUp(p) \/ Skip(p) \/ Retry(p) \/ ShowNotice(p) \/ GrowOld(p)
  PROVE  Fated'
<1> USE DEF client, server, thread, bounded
<1>0. NothingSentEarly /\ HaveIsIssued /\ TypeOK
  BY DEF Fated, Sound
<1>1. CASE GiveUp(p) \/ Skip(p) \/ ShowNotice(p) \/ GrowOld(p)
  <2>1. NothingSentEarly'
    BY <1>0, <1>1 DEF GiveUp, Skip, ShowNotice, GrowOld, NothingSentEarly, TypeOK
  <2>2. UNCHANGED <<player, promise, requests, issue, tickets, plays>>
    BY <1>1 DEF GiveUp, Skip, ShowNotice, GrowOld
  <2>3. QED
    BY <1>0, <2>1, <2>2, CalmFated DEF HaveIsIssued
<1>2. CASE Retry(p)
  <2>1. /\ promise[p] \notin {"none", "waiting"}
        /\ UNCHANGED <<player, promise, stage, pending, issue, tickets, plays>>
    BY <1>0, <1>2 DEF Retry, Turn, NothingSentEarly
  <2>2. /\ \A q \in Plays : promise[q] \in {"none", "waiting"} =>
             \A r \in requests' : r.play # q
        /\ \A r \in requests' : r \in requests \/ r.phase = "sent"
    BY <1>0, <1>2, <2>1, PostEarly DEF Retry, NothingSentEarly
  <2>3. worker'.todo \subseteq worker.todo
    BY <1>0, <1>2 DEF Retry, TypeOK
  <2>4. NothingSentEarly'
    BY <1>0, <2>1, <2>2, <2>3 DEF NothingSentEarly
  <2>5. QED
    BY <1>0, <2>1, <2>2, <2>4, CalmFated DEF HaveIsIssued
<1>3. QED
  BY <1>1, <1>2

\* Issuing a ticket writes a fresh row only for a play of which nothing was sent
\* with a ticket, and replaces others for good.
LEMMA IssueTicketFated ==
  ASSUME Sound, Fated, NEW p \in Plays, IssueTicket(p)
  PROVE  Fated'
<1> USE DEF client, thread
<1>1. NothingSentEarly /\ HaveIsIssued /\ TypeOK
  BY DEF Fated, Sound
<1>2. promise[p] # "have"
  BY <1>1 DEF IssueTicket, Issuing, HaveIsIssued
<1>3. /\ UNCHANGED <<player, stage, pending, worker, requests, plays>>
      /\ issue' = [issue EXCEPT ![p] = "done"]
      /\ \A q \in Plays : q # p => promise'[q] = promise[q]
      /\ promise'[p] \in {promise[p], "have", "failed"}
      /\ promise'[p] \in {"none", "waiting"} => promise'[p] = promise[p]
      /\ promise'[p] = "have" => promise[p] = "waiting"
      /\ promise[p] = "none" => promise'[p] = "none"
  BY <1>1, <1>2 DEF IssueTicket, Promised, TypeOK
<1>4. NothingSentEarly'
  BY <1>1, <1>3 DEF NothingSentEarly
<1>5. /\ tickets'[p] # None /\ ~tickets'[p].used
      /\ \A q \in Plays : q # p =>
           /\ tickets[q] # None <=> tickets'[q] # None
           /\ tickets[q] # None => /\ tickets'[q].used = tickets[q].used
                                   /\ tickets'[q].expired = tickets[q].expired
           /\ tickets[q] # None /\ tickets[q].superseded => tickets'[q].superseded
  <2> DEFINE new == [user |-> player[p], used |-> FALSE, superseded |-> FALSE,
                     expired |-> FALSE]
             replaced(q) == [tickets[q] EXCEPT !.superseded = TRUE]
  <2>1. player[p] \in Users
    BY <1>1 DEF IssueTicket, Issuing, Sound, Started, TypeOK
  <2>2. new \in Ticket /\ new # None /\ ~new.used
    <3>1. new \in Ticket /\ ~new.used
      BY <2>1 DEF Ticket
    <3>2. QED
      BY <3>1, SubmissionsAssumption
  <2>3. \A q \in Superseded(p) :
          /\ tickets[q] # None /\ replaced(q) \in Ticket /\ replaced(q) # None
          /\ replaced(q).used = tickets[q].used /\ replaced(q).expired = tickets[q].expired
          /\ replaced(q).superseded
    <3> SUFFICES ASSUME NEW q \in Superseded(p)
                 PROVE  /\ tickets[q] # None /\ replaced(q) \in Ticket /\ replaced(q) # None
                        /\ replaced(q).used = tickets[q].used
                        /\ replaced(q).expired = tickets[q].expired
                        /\ replaced(q).superseded
      OBVIOUS
    <3>1. tickets[q] \in Ticket /\ tickets[q] # None
      BY <1>1 DEF Superseded, Live, TypeOK
    <3>2. /\ replaced(q) \in Ticket
          /\ replaced(q).used = tickets[q].used /\ replaced(q).expired = tickets[q].expired
          /\ replaced(q).superseded
      BY <3>1 DEF Ticket
    <3>3. replaced(q) # None
      BY <3>2, SubmissionsAssumption
    <3>4. QED
      BY <3>1, <3>2, <3>3
  <2>4. /\ tickets'[p] = new
        /\ \A q \in Plays \ {p} : tickets'[q] = IF q \in Superseded(p) THEN replaced(q)
                                                ELSE tickets[q]
    BY DEF IssueTicket
  <2> HIDE DEF new, replaced
  <2>5. QED
    BY <2>2, <2>3, <2>4
<1>6. HaveIsIssued'
  BY <1>1, <1>3, <1>5 DEF HaveIsIssued, TypeOK
<1>7. UsedIsRecorded'
  BY <1>3, <1>5 DEF UsedIsRecorded, Fated
\* What is recorded or resolved with a ticket has one that was issued before.
<1>8. \A q \in Plays : /\ promise'[q] = "have" /\ plays[q] # None => q # p
                       /\ promise'[q] = "have" /\ (\E r \in requests : r.play = q) => q # p
  BY <1>1, <1>2, <1>3 DEF NothingSentEarly
<1>9. \A q \in Plays : q # p /\ promise'[q] = "have" =>
        promise[q] = "have" /\ (RunOut(q) => tickets'[q].superseded \/ tickets'[q].expired)
  BY <1>1, <1>3, <1>5 DEF HaveIsIssued, RunOut
<1>10. TicketSurvivesRetries'
  BY <1>3, <1>8, <1>9 DEF TicketSurvivesRetries, Fated, RunOut
<1>11. RefusedRightly'
  <2> SUFFICES ASSUME NEW r \in requests, r.phase \in {"resolved", "locked"}, ~r.eligible,
                      plays[r.play] = None, promise'[r.play] = "have"
               PROVE  \/ tickets'[r.play].superseded \/ tickets'[r.play].expired
                      \/ r.user # player[r.play]
    BY <1>3 DEF RefusedRightly, RunOut
  <2>1. r.play \in Plays
    BY <1>1 DEF TypeOK, Request
  <2>2. QED
    BY <1>8, <1>9, <2>1 DEF RefusedRightly, Fated
<1>12. QED
  BY <1>4, <1>6, <1>7, <1>10, <1>11 DEF Fated

\* The requests for tickets, and the tickets' time.
LEMMA TicketingFated ==
  ASSUME Sound, Fated, NEW p \in Plays,
         TicketLockUser(p) \/ IssueTicket(p) \/ TicketFails(p) \/ TicketExpires(p)
  PROVE  Fated'
<1> USE DEF client, server, thread, bounded
<1>0. NothingSentEarly /\ HaveIsIssued /\ TypeOK
  BY DEF Fated, Sound
<1>1. CASE TicketLockUser(p)
  <2>1. NothingSentEarly'
    BY <1>0, <1>1 DEF TicketLockUser, NothingSentEarly
  <2>2. \A q \in Plays : promise[q] = "have" => issue'[q] = "done"
    BY <1>0, <1>1 DEF TicketLockUser, HaveIsIssued, TypeOK
  <2>3. QED
    BY <1>1, <2>1, <2>2, CalmFated DEF TicketLockUser
<1>2. CASE TicketFails(p)
  <2>1. /\ \A q \in Plays : q # p => promise'[q] = promise[q]
        /\ promise'[p] = IF promise[p] = "waiting" THEN "failed" ELSE promise[p]
        /\ UNCHANGED <<player, stage, pending, worker, requests, tickets, plays>>
    BY <1>0, <1>2 DEF TicketFails, Promised, TypeOK
  <2>2. NothingSentEarly'
    BY <1>0, <2>1 DEF NothingSentEarly
  <2>3. \A q \in Plays : promise[q] = "have" => issue'[q] = "done"
    BY <1>0, <1>2 DEF TicketFails, HaveIsIssued, TypeOK
  <2>4. QED
    BY <2>1, <2>2, <2>3, CalmFated
<1>3. CASE TicketExpires(p)
  <2> DEFINE late == [tickets[p] EXCEPT !.expired = TRUE]
  <2>1. tickets[p] \in Ticket
    BY <1>0, <1>3 DEF TicketExpires, TypeOK
  <2>2. /\ late # None /\ late.used = tickets[p].used
        /\ late.superseded = tickets[p].superseded /\ late.expired
    <3>1. late \in Ticket
      BY <2>1 DEF Ticket
    <3>2. QED
      BY <2>1, <3>1, SubmissionsAssumption DEF Ticket
  <2>3. tickets' = [tickets EXCEPT ![p] = late]
    BY <1>3 DEF TicketExpires
  <2> HIDE DEF late
  <2>4. UNCHANGED <<player, promise, stage, pending, worker, requests, issue, plays>>
    BY <1>3 DEF TicketExpires
  <2>5. /\ tickets[p] # None
        /\ \A q \in Plays : /\ tickets'[q] # None <=> tickets[q] # None
                            /\ tickets'[q].used = tickets[q].used
                            /\ tickets'[q].superseded = tickets[q].superseded
                            /\ tickets[q].expired => tickets'[q].expired
    BY <1>0, <1>3, <2>2, <2>3 DEF TicketExpires, TypeOK
  <2>6. NothingSentEarly'
    BY <1>0, <2>4 DEF NothingSentEarly
  <2>7. HaveIsIssued' /\ UsedIsRecorded'
    BY <1>0, <2>4, <2>5 DEF HaveIsIssued, UsedIsRecorded, Fated
  <2>8. TicketSurvivesRetries'
    BY <2>4, <2>5 DEF TicketSurvivesRetries, Fated
  <2>9. RefusedRightly'
    BY <1>0, <2>4, <2>5 DEF RefusedRightly, RunOut, Fated, TypeOK, Request
  <2>10. QED
    BY <2>6, <2>7, <2>8, <2>9 DEF Fated
<1>4. QED
  BY <1>1, <1>2, <1>3, IssueTicketFated

\* Only an answer: no row and no ticket changes.
LEMMA AnswerFated ==
  ASSUME Sound, Fated, NEW r \in requests, NEW result, Answer(r, result),
         requests' \subseteq requests, UNCHANGED <<player, promise, tickets, plays>>,
         \A p \in Plays : promise[p] = "have" => issue'[p] = "done"
  PROVE  Fated'
<1>1. NothingSentEarly'
  BY AnswerEarly DEF Fated
<1>2. QED
  BY <1>1, CalmFated

\* A record takes over what its request found of the ticket.
LEMMA RecordingFated ==
  ASSUME Sound, Fated, NEW r \in requests, r.phase = "locked", plays[r.play] = None, Insert(r)
  PROVE  Fated'
<1> DEFINE play == [user |-> r.user, eligible |-> r.eligible]
           used == [tickets[r.play] EXCEPT !.used = TRUE]
<1>1. NothingSentEarly /\ HaveIsIssued /\ TypeOK
  BY DEF Fated, Sound
<1>2. r \in Request /\ r.play \in Plays
  BY <1>1 DEF TypeOK, Request
<1>3. PICK result : Answer(r, result)
  BY DEF Insert, Finish
<1>4. UNCHANGED <<player, promise, issue>> /\ requests' \subseteq requests
  BY DEF Insert, Finish, client
<1>5. play \in Play /\ play # None /\ play.eligible = r.eligible /\ play.user = r.user
  <2>1. play \in Play /\ play.eligible = r.eligible /\ play.user = r.user
    BY <1>2 DEF Request, Play
  <2>2. QED
    BY <2>1, SubmissionsAssumption
<1>6. plays' = [plays EXCEPT ![r.play] = play]
  BY DEF Insert
<1>7. r.eligible => /\ used # None /\ tickets[r.play] # None
                    /\ used.superseded = tickets[r.play].superseded
                    /\ used.expired = tickets[r.play].expired
  <2> SUFFICES ASSUME r.eligible
               PROVE  /\ used # None /\ tickets[r.play] # None
                      /\ used.superseded = tickets[r.play].superseded
                      /\ used.expired = tickets[r.play].expired
    OBVIOUS
  <2>1. tickets[r.play] \in Ticket
    BY DEF Sound, RequestsBacked
  <2>2. used \in Ticket /\ used.superseded = tickets[r.play].superseded
        /\ used.expired = tickets[r.play].expired
    BY <2>1 DEF Ticket
  <2>3. QED
    BY <2>1, <2>2, SubmissionsAssumption
<1>8. tickets' = IF r.eligible THEN [tickets EXCEPT ![r.play] = used] ELSE tickets
  BY DEF Insert
<1> HIDE DEF play, used
<1>9. /\ plays'[r.play] = play
      /\ \A q \in Plays : q # r.play => plays'[q] = plays[q]
  BY <1>1, <1>2, <1>6 DEF TypeOK
<1>10. \A q \in Plays :
         /\ q # r.play => tickets'[q] = tickets[q]
         /\ tickets'[q] # None <=> tickets[q] # None
         /\ tickets'[q].superseded = tickets[q].superseded
         /\ tickets'[q].expired = tickets[q].expired
         /\ ~r.eligible => tickets'[q] = tickets[q]
  BY <1>1, <1>2, <1>7, <1>8 DEF TypeOK
<1>11. NothingSentEarly'
  BY <1>1, <1>3, <1>4, <1>9, AnswerEarly
<1>12. HaveIsIssued'
  BY <1>1, <1>4, <1>10 DEF HaveIsIssued
<1>13. UsedIsRecorded'
  BY <1>5, <1>9, <1>10 DEF UsedIsRecorded, Fated
<1>14. TicketSurvivesRetries'
  <2> SUFFICES ASSUME NEW q \in Plays, plays'[q] # None, ~plays'[q].eligible,
                      promise[q] = "have"
               PROVE  RunOut(q) \/ plays'[q].user # player[q]
    BY <1>4, <1>10 DEF TicketSurvivesRetries, RunOut
  <2>1. CASE q = r.play
    BY <1>5, <1>9, <2>1 DEF RefusedRightly, Fated
  <2>2. CASE q # r.play
    BY <1>9, <2>2 DEF TicketSurvivesRetries, RunOut, Fated
  <2>3. QED
    BY <2>1, <2>2
<1>15. RefusedRightly'
  <2> SUFFICES ASSUME NEW h \in requests, h.phase \in {"resolved", "locked"}, ~h.eligible,
                      plays'[h.play] = None, promise[h.play] = "have", h.play \in Plays
               PROVE  RunOut(h.play) \/ h.user # player[h.play]
    BY <1>1, <1>4, <1>10 DEF RefusedRightly, RunOut, TypeOK, Request
  <2>1. plays[h.play] = None
    BY <1>5, <1>9
  <2>2. QED
    BY <2>1 DEF RefusedRightly, Fated
<1>16. QED
  BY <1>11, <1>12, <1>13, <1>14, <1>15 DEF Fated

\* Resolving a ticket refuses one only for a reason: it is not used before the
\* commit that records its play.
LEMMA ResolveFated ==
  ASSUME Sound, Fated, NEW r \in requests, ResolveTicket(r)
  PROVE  Fated'
<1> DEFINE to == [r EXCEPT !.phase = "resolved", !.eligible = Accepted(r)]
<1> USE DEF Advance, client, thread, bounded
<1>1. NothingSentEarly /\ HaveIsIssued /\ TypeOK
  BY DEF Fated, Sound
<1>2. r \in Request /\ r.play \in Plays
  BY <1>1 DEF TypeOK, Request
<1>3. to.play = r.play /\ to.user = r.user /\ to.eligible = Accepted(r)
  BY <1>2 DEF Request
<1>4. /\ requests' = (requests \ {r}) \union {to}
      /\ UNCHANGED <<player, stage, promise, pending, worker, issue, tickets, plays>>
  BY DEF ResolveTicket
<1> HIDE DEF to
<1>5. NothingSentEarly'
  BY <1>1, <1>3, <1>4 DEF NothingSentEarly
<1>6. HaveIsIssued' /\ UsedIsRecorded' /\ TicketSurvivesRetries'
  BY <1>4 DEF HaveIsIssued, UsedIsRecorded, TicketSurvivesRetries, Fated
<1>7. ~Accepted(r) /\ plays[r.play] = None /\ promise[r.play] = "have" =>
        RunOut(r.play) \/ r.user # player[r.play]
  BY <1>1, <1>2 DEF Accepted, Live, RunOut, HaveIsIssued, UsedIsRecorded, Fated, Sound,
       TicketsOwned
<1>8. RefusedRightly'
  <2> SUFFICES ASSUME NEW h \in requests', h.phase \in {"resolved", "locked"}, ~h.eligible,
                      plays[h.play] = None, promise[h.play] = "have"
               PROVE  RunOut(h.play) \/ h.user # player[h.play]
    BY <1>4 DEF RefusedRightly, RunOut
  <2>1. CASE h = to
    BY <1>3, <1>7, <2>1
  <2>2. CASE h \in requests
    BY <2>2 DEF RefusedRightly, Fated
  <2>3. QED
    BY <1>4, <2>1, <2>2
<1>9. QED
  BY <1>5, <1>6, <1>8 DEF Fated

\* What a request goes through on the server and on its way.
LEMMA RequestFated ==
  ASSUME Sound, Fated, NEW r \in requests, RequestStep(r)
  PROVE  Fated'
<1> USE DEF client, bounded
<1>1. /\ NothingSentEarly /\ HaveIsIssued /\ TypeOK
      /\ r \in Request /\ r.play \in Plays
  BY DEF Fated, Sound, TypeOK, Request
<1>2. CASE RequestTimeout(r) \/ Refuse(r) \/ Abort(r)
  BY <1>1, <1>2, AnswerFated DEF RequestTimeout, Refuse, Abort, Finish, HaveIsIssued
<1>3. CASE CheckDuplicate(r)
  <2>1. CASE plays[r.play] = None
    <3> DEFINE to == [r EXCEPT !.phase = "checked"]
    <3>1. to.play = r.play /\ to.phase = "checked"
      BY <1>1 DEF Request
    <3>2. /\ requests' = (requests \ {r}) \union {to}
          /\ UNCHANGED <<player, promise, thread, issue, tickets, plays>>
      BY <1>3, <2>1 DEF CheckDuplicate, Advance
    <3> HIDE DEF to
    <3>3. NothingSentEarly'
      BY <1>1, <3>1, <3>2 DEF NothingSentEarly, thread
    <3>4. QED
      BY <1>1, <3>1, <3>2, <3>3, CalmFated DEF HaveIsIssued
  <2>2. CASE plays[r.play] # None
    BY <1>1, <1>3, <2>2, AnswerFated DEF CheckDuplicate, Finish, HaveIsIssued
  <2>3. QED
    BY <2>1, <2>2
<1>4. CASE LockUser(r)
  <2> DEFINE to == [r EXCEPT !.phase = "locked"]
  <2>1. /\ to.play = r.play /\ to.user = r.user /\ to.eligible = r.eligible
        /\ r.phase = "resolved"
    BY <1>1, <1>4 DEF LockUser, Request
  <2>2. /\ requests' = (requests \ {r}) \union {to}
        /\ UNCHANGED <<player, promise, thread, issue, tickets, plays>>
    BY <1>4 DEF LockUser, Advance
  <2> HIDE DEF to
  <2>3. NothingSentEarly'
    BY <1>1, <2>1, <2>2 DEF NothingSentEarly, thread
  <2>4. HaveIsIssued' /\ UsedIsRecorded' /\ TicketSurvivesRetries'
    BY <2>2 DEF HaveIsIssued, UsedIsRecorded, TicketSurvivesRetries, Fated
  <2>5. RefusedRightly'
    <3> SUFFICES ASSUME NEW h \in requests', h.phase \in {"resolved", "locked"}, ~h.eligible,
                        plays[h.play] = None, promise[h.play] = "have"
                 PROVE  RunOut(h.play) \/ h.user # player[h.play]
      BY <2>2 DEF RefusedRightly, RunOut
    <3>1. CASE h = to
      BY <2>1, <3>1 DEF RefusedRightly, Fated
    <3>2. CASE h \in requests
      BY <3>2 DEF RefusedRightly, Fated
    <3>3. QED
      BY <2>2, <3>1, <3>2
  <2>6. QED
    BY <2>3, <2>4, <2>5 DEF Fated
<1>5. CASE Insert(r)
  <2>1. CASE plays[r.play] = None
    BY <1>5, <2>1, RecordingFated DEF Insert
  <2>2. CASE plays[r.play] # None
    BY <1>1, <1>5, <2>2, AnswerFated DEF Insert, Finish, HaveIsIssued
  <2>3. QED
    BY <2>1, <2>2
<1>6. ASSUME NEW p \in Plays, BreakDeadlock(r, p) PROVE Fated'
  <2>1. promise[p] # "have" /\ UNCHANGED <<player, tickets, plays>>
    BY <1>1, <1>6 DEF BreakDeadlock, Deadlocked, HaveIsIssued
  <2>2. CASE /\ requests' = requests \ {r} /\ Answer(r, "retryable")
             /\ issue' = [issue EXCEPT ![p] = "granted"] /\ UNCHANGED promise
    <3>1. \A q \in Plays : promise[q] = "have" => issue'[q] = "done"
      BY <1>1, <2>1, <2>2 DEF HaveIsIssued, TypeOK
    <3>2. QED
      BY <2>1, <2>2, <3>1, AnswerFated
  <2>3. CASE issue' = [issue EXCEPT ![p] = "done"] /\ Promised(p, "refused")
             /\ UNCHANGED <<requests, thread>>
    <3>1. /\ \A q \in Plays : q # p => promise'[q] = promise[q]
          /\ promise'[p] = IF promise[p] = "waiting" THEN "refused" ELSE promise[p]
      BY <1>1, <2>3 DEF Promised, TypeOK
    <3>2. NothingSentEarly'
      BY <1>1, <2>1, <2>3, <3>1 DEF NothingSentEarly, thread
    <3>3. \A q \in Plays : promise[q] = "have" => issue'[q] = "done"
      BY <1>1, <2>1, <2>3 DEF HaveIsIssued, TypeOK
    <3>4. QED
      BY <2>1, <2>3, <3>1, <3>2, <3>3, CalmFated
  <2>4. QED
    BY <1>6, <2>2, <2>3 DEF BreakDeadlock
<1>7. CASE ResolveTicket(r)
  BY <1>7, ResolveFated
<1>8. QED
  BY <1>2, <1>3, <1>4, <1>5, <1>6, <1>7 DEF RequestStep, ServerStep

\* The player, the process and the worker's passes.
LEMMA ProcessFated ==
  ASSUME Sound, Fated, Load \/ Rest \/ SignOut \/ (\E u \in Users : SignIn(u)) \/ Stop
                         \/ Stopped \/ Crash \/ Start \/ UNCHANGED vars
  PROVE  Fated'
<1> USE DEF client, server, thread, bounded
<1>1. NothingSentEarly /\ HaveIsIssued /\ TypeOK
  BY DEF Fated, Sound
<1>2. UNCHANGED <<player, promise, requests, issue, tickets, plays>>
  BY DEF Load, Rest, SignOut, SignIn, Stop, Stopped, Crash, Gone, Start, vars
<1>3. CASE Load \/ Rest
  <2>1. /\ UNCHANGED <<stage, pending>>
        /\ worker'.todo \subseteq pending
    BY <1>3 DEF Load, Rest, Resting
  <2>2. QED
    BY <1>1, <1>2, <2>1, CalmFated DEF NothingSentEarly, HaveIsIssued
<1>4. CASE Stopped \/ Crash
  <2>1. /\ UNCHANGED pending /\ worker'.todo = {}
        /\ \A p \in Plays : /\ stage[p] = "playing" => stage'[p] = "left"
                            /\ stage[p] \in {"unplayed", "left"} => stage'[p] = stage[p]
                            /\ stage[p] # "unplayed" => stage'[p] # "unplayed"
    BY <1>1, <1>4 DEF Stopped, Crash, Gone, Resting, TypeOK, Stages
  <2>2. NothingSentEarly'
    BY <1>1, <1>2, <2>1 DEF NothingSentEarly
  <2>3. QED
    BY <1>1, <1>2, <2>2, CalmFated DEF HaveIsIssued
<1>5. CASE SignOut \/ (\E u \in Users : SignIn(u)) \/ Stop \/ Start \/ UNCHANGED vars
  <2>1. UNCHANGED <<stage, pending, worker>>
    BY <1>5 DEF SignOut, SignIn, Stop, Start, vars
  <2>2. QED
    BY <1>1, <1>2, <2>1, CalmFated DEF NothingSentEarly, HaveIsIssued
<1>6. QED
  BY <1>3, <1>4, <1>5

\* Fated is inductive, given Sound.
LEMMA NextFated == Sound /\ Fated /\ [Next]_vars => Fated'
<1> SUFFICES ASSUME Sound, Fated, [Next]_vars PROVE Fated'
  OBVIOUS
<1>1. ASSUME NEW p \in Plays, PlayStep(p) PROVE Fated'
  BY <1>1, PlayingFated, RetryingFated, TicketingFated DEF PlayStep
<1>2. ASSUME NEW r \in requests, RequestStep(r) PROVE Fated'
  BY <1>2, RequestFated
<1>3. QED
  BY <1>1, <1>2, ProcessFated DEF Next

-----------------------------------------------------------------------------
(* The theorems *)

\* Every reachable state is sound.
THEOREM SpecSound == Spec => []Sound
<1>1. QED
  BY InitSound, NextSound, PTL DEF Spec

\* Every variable keeps its type.
THEOREM TypeCorrect == Spec => []TypeOK
<1>1. Sound => TypeOK
  BY DEF Sound
<1>2. QED
  BY <1>1, SpecSound, PTL

\* A submission is dropped only once it is on the server, refused, a week old or
\* not taken by the disk, and what was refused or given up was said.
THEOREM DroppedAlwaysForAReason == Spec => []DroppedForAReason
<1>1. Sound => DroppedForAReason
  BY DEF Sound
<1>2. QED
  BY <1>1, SpecSound, PTL

\* A submission cut off by quitting had its replay saved, or the disk did not
\* take it.
THEOREM QuitAlwaysKeepsReplays == Spec => []QuitKeepsReplays
<1>1. Sound => QuitKeepsReplays
  BY DEF Sound, OnDisk, AfterSaving, QuitKeepsReplays
<1>2. QED
  BY <1>1, SpecSound, PTL

\* However requests are lost, repeated and overtaken, a play recorded as not
\* eligible lost its ticket to time, to a later play or to another account.
THEOREM TicketsSurvive == Spec => []TicketSurvivesRetries
<1>1. Fated => TicketSurvivesRetries
  BY DEF Fated
<1>2. QED
  BY <1>1, InitFated, NextFated, SpecSound, PTL DEF Spec

\* The initial states are the ledger's.
LEMMA InitRefines == Init => Ledger!Init
BY DEF Init, Ledger!Init

\* Only starting a play and recording one are steps of the ledger.
LEMMA StepRefines ==
  Sound /\ [Next]_vars => [Ledger!Next]_<<player, plays>>
<1> SUFFICES ASSUME Sound, [Next]_vars, ~UNCHANGED <<player, plays>>
             PROVE  Ledger!Next
  OBVIOUS
<1>1. ASSUME NEW p \in Plays, PlayStep(p) PROVE Ledger!Next
  <2>1. StartPlay(p)
    BY <1>1 DEF PlayStep, TicketTimeout, Leave, Submit, LeaveResults, SaveReplay, Send,
         WritePending, GiveUp, Skip, Retry, ShowNotice, TicketLockUser, IssueTicket, TicketFails, TicketExpires,
         GrowOld, client, server
  <2>2. player[p] = None /\ account \in Users /\ UNCHANGED plays
    BY <2>1 DEF StartPlay, Sound, Started, TypeOK
  <2>3. Ledger!Begin(p, account)
    BY <2>1, <2>2 DEF StartPlay, Ledger!Begin
  <2>4. QED
    BY <2>2, <2>3 DEF Ledger!Next
<1>2. ASSUME NEW r \in requests, RequestStep(r) PROVE Ledger!Next
  <2> DEFINE play == [user |-> r.user, eligible |-> r.eligible]
  <2>1. Insert(r) /\ plays[r.play] = None /\ UNCHANGED player
    BY <1>2 DEF RequestStep, ServerStep, RequestTimeout, Refuse, Abort, CheckDuplicate,
         ResolveTicket, LockUser, Insert, BreakDeadlock, Advance, Finish, client
  <2>2. r \in Request
    BY DEF Sound, TypeOK
  <2>3. /\ play \in Ledger!Recorded /\ r.play \in Plays /\ player[r.play] # None
        /\ play.eligible => play.user = player[r.play]
    BY <2>2 DEF Request, Ledger!Recorded, Sound, RequestsBacked
  <2>4. plays' = [plays EXCEPT ![r.play] = play]
    BY <2>1 DEF Insert
  <2> HIDE DEF play
  <2>5. Ledger!Record(r.play, play)
    BY <2>1, <2>3, <2>4 DEF Ledger!Record
  <2>6. QED
    BY <2>3, <2>5 DEF Ledger!Next
<1>3. UNCHANGED <<player, plays>> \/ (\E p \in Plays : PlayStep(p))
        \/ (\E r \in requests : RequestStep(r))
  BY DEF Next, Load, Rest, SignOut, SignIn, Stop, Stopped, Crash, Start, Gone, vars,
       client, server
<1>4. QED
  BY <1>1, <1>2, <1>3

\* The queue and the server implement the ledger, whatever fails on the way.
THEOREM ImplementsLedger == Spec => LedgerSpec
<1>1. QED
  BY InitRefines, StepRefines, SpecSound, PTL DEF Spec, LedgerSpec, Ledger!Spec
=============================================================================
