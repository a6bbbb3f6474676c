----------------------------- MODULE Submissions -----------------------------
(***************************************************************************)
(* From the end of a play to its row on the server: the play ticket asked  *)
(* for when a play starts, the detached thread that saves and sends the    *)
(* replay, the files of the submissions to retry and the worker that       *)
(* retries them (src/game/src/SubmissionQueue.cpp, ScenePlay.cpp), and the *)
(* two transactions of the server, issue_ticket and submit_play, with the  *)
(* row locks they take (server/nascent_server/services/plays.py).          *)
(*                                                                         *)
(* An answer is delivered in the step that makes it or counts as lost; a   *)
(* lost answer, an unreachable server, a 5xx, a 429 and a refused token    *)
(* are one case to the client: retryable.  A play has its own ticket, for  *)
(* its own chart and rate, so a ticket bears the name of its play.         *)
(***************************************************************************)
EXTENDS Naturals, FiniteSets

CONSTANTS
  Plays,        \* plays, each started at most once
  Users,
  None,
  MaxSends,     \* bound on the requests for one play
  MaxFailures,  \* bound on lost or failed exchanges
  MaxSignOuts,  \* bound on sign-outs
  MaxExits,     \* bound on exits and crashes
  Slow,         \* bound: the plays whose ticket may expire and whose retries may give up
  Refusable     \* bound: the plays the server may refuse

VARIABLES
  process,    \* "running", "stopping" (in stop()), "off"
  account,    \* the signed-in user, or None
  player,     \* who started each play
  stage,      \* how far each play has come in the client
  promise,    \* the play's ticket future: "none", "waiting", "have", "refused", "failed"
  username,   \* the account when the play was finished
  worker,     \* the retry thread
  saved,      \* each play's replay on the player's disk: "no", "yes", "failed"
  pending,    \* the plays with a file in pending_submissions
  old,        \* the pending plays past GIVE_UP_SECONDS
  word,       \* what the player hears of each play: "none", "awaited" (its results
              \* are up and wait for the answer), "notice" (one is queued), "told"
              \* that it was not submitted, or "unheard" (nobody was looking)
  requests,   \* the POST /plays the server still has to finish
  issue,      \* the POST /plays/tickets of each play
  tickets,    \* play_tickets
  plays,      \* plays
  sends, failures, signOuts, exits   \* what the bounds count

client  == <<process, account, player, username, saved, old>>
server  == <<requests, issue, tickets, plays>>
thread  == <<stage, worker, pending, word>>
bounded == <<sends, failures, signOuts, exits>>
vars    == <<client, promise, thread, server, bounded>>

Stages  == {"unplayed", "playing", "left", "saving", "unsent", "sending", "writing",
            "done", "dropped", "killed", "crashed"}
Words   == {"none", "awaited", "notice", "told", "unheard"}
Issues  == {"none", "sent", "locked", "granted", "done"}
Request == [play: Plays, n: Nat, user: Users, eligible: BOOLEAN,
            phase: {"sent", "checked", "resolved", "locked"}]
Ticket  == [user: Users, used: BOOLEAN, superseded: BOOLEAN, expired: BOOLEAN]
Play    == [user: Users, eligible: BOOLEAN]
Resting == [scanning |-> FALSE, username |-> None, todo |-> {}, entry |-> None]

ASSUME SubmissionsAssumption ==
  /\ None \notin Users \union Ticket \union Play
  /\ {MaxSends, MaxFailures, MaxSignOuts, MaxExits} \subseteq Nat
  /\ Slow \subseteq Plays /\ Refusable \subseteq Plays

Init ==
  /\ process = "running" /\ account \in Users
  /\ player = [p \in Plays |-> None] /\ username = [p \in Plays |-> None]
  /\ stage = [p \in Plays |-> "unplayed"] /\ promise = [p \in Plays |-> "none"]
  /\ worker = Resting /\ pending = {} /\ old = {}
  /\ saved = [p \in Plays |-> "no"] /\ word = [p \in Plays |-> "none"]
  /\ requests = {} /\ issue = [p \in Plays |-> "none"]
  /\ tickets = [p \in Plays |-> None] /\ plays = [p \in Plays |-> None]
  /\ sends = [p \in Plays |-> 0] /\ failures = 0 /\ signOuts = 0 /\ exits = 0

Fail == failures < MaxFailures /\ failures' = failures + 1

-----------------------------------------------------------------------------
(* Playing *)

\* on_create and restart: a play of a signed-in player asks for its ticket.
StartPlay(p) ==
  /\ process = "running" /\ account # None
  /\ stage[p] = "unplayed"
  /\ \A q \in Plays : stage[q] # "playing" /\ word[q] # "awaited"
  /\ stage' = [stage EXCEPT ![p] = "playing"]
  /\ player' = [player EXCEPT ![p] = account]
  /\ promise' = [promise EXCEPT ![p] = "waiting"]
  /\ issue' = [issue EXCEPT ![p] = "sent"]
  /\ UNCHANGED <<process, account, username, saved, old, worker, pending, word,
                 requests, tickets, plays, bounded>>

\* ticket_pending: the play begins without the ticket.
TicketTimeout(p) ==
  /\ process = "running" /\ stage[p] = "playing" /\ promise[p] = "waiting"
  /\ Fail
  /\ promise' = [promise EXCEPT ![p] = "failed"]
  /\ UNCHANGED <<client, thread, server, sends, signOuts, exits>>

\* The play is restarted or left.
Leave(p) ==
  /\ process = "running" /\ stage[p] = "playing"
  /\ stage' = [stage EXCEPT ![p] = "left"]
  /\ UNCHANGED <<client, promise, worker, pending, word, server, bounded>>

\* finish() calls SubmissionQueue::submit; the song only started once the
\* ticket was there or had failed.
Submit(p) ==
  /\ process = "running" /\ stage[p] = "playing" /\ promise[p] # "waiting"
  /\ stage' = [stage EXCEPT ![p] = "saving"]
  /\ username' = [username EXCEPT ![p] = account]
  /\ word' = [word EXCEPT ![p] = "awaited"]
  /\ UNCHANGED <<process, account, player, saved, old, promise, worker, pending, server,
                 bounded>>

\* The results are popped, or replaced by the replay or another try.
LeaveResults(p) ==
  /\ process = "running" /\ word[p] = "awaited"
  /\ word' = [word EXCEPT ![p] = "none"]
  /\ UNCHANGED <<client, promise, stage, worker, pending, server, bounded>>

-----------------------------------------------------------------------------
(* The submission's thread *)

\* A replay that cannot be saved is logged, and sent all the same.
SaveReplay(p) ==
  /\ stage[p] = "saving"
  /\ stage' = [stage EXCEPT ![p] = "unsent"]
  /\ \/ saved' = [saved EXCEPT ![p] = "yes"] /\ UNCHANGED failures
     \/ saved' = [saved EXCEPT ![p] = "failed"] /\ Fail
  /\ UNCHANGED <<process, account, player, username, old, promise, worker, pending, word,
                 server, sends, signOuts, exits>>

\* Mutant: a request goes out without looking for a session.
SignedIn_Unchecked == TRUE

\* Account::authorized answers "not_signed_in" itself when nobody is.
SignedIn == account # None

\* Sent as whoever is signed in by now.
Post(p) ==
  /\ sends[p] < MaxSends
  /\ sends' = [sends EXCEPT ![p] = @ + 1]
  /\ requests' = requests \union
       {[play |-> p, n |-> sends[p] + 1, user |-> account, eligible |-> FALSE,
         phase |-> "sent"]}

Send(p) ==
  /\ stage[p] = "unsent"
  /\ IF SignedIn
     THEN stage' = [stage EXCEPT ![p] = "sending"] /\ Post(p)
     ELSE /\ stage' = [stage EXCEPT ![p] = "writing"]
          /\ UNCHANGED <<requests, sends>>
  /\ UNCHANGED <<client, promise, worker, pending, word, issue, tickets, plays,
                 failures, signOuts, exits>>

\* What the thread returns, for the results screen if it is still there.
Returned(p, result) ==
  [word EXCEPT ![p] = IF result \notin {"refused", "duplicate"} THEN "none"
                      ELSE IF @ = "awaited" THEN "told" ELSE "unheard"]

\* A file that cannot be written is logged, and the submission is dropped.
WritePending(p) ==
  /\ stage[p] = "writing"
  /\ \/ /\ stage' = [stage EXCEPT ![p] = "done"]
        /\ pending' = pending \union {p} /\ UNCHANGED failures
     \/ stage' = [stage EXCEPT ![p] = "dropped"] /\ Fail /\ UNCHANGED pending
  /\ word' = Returned(p, "retryable")
  /\ UNCHANGED <<client, promise, worker, server, sends, signOuts, exits>>

\* The thread returns any answer but a retryable one, which it goes on to store.
ThreadAnswered(p, result) ==
  /\ stage' = [stage EXCEPT ![p] = IF result = "retryable" THEN "writing" ELSE "done"]
  /\ word' = IF result = "retryable" THEN word ELSE Returned(p, result)
  /\ UNCHANGED <<worker, pending>>

-----------------------------------------------------------------------------
(* The worker *)

\* load_all, and the username of this pass.
Load ==
  /\ process = "running" /\ ~worker.scanning
  /\ worker' = [scanning |-> TRUE, username |-> account, todo |-> pending, entry |-> None]
  /\ UNCHANGED <<client, promise, stage, pending, word, server, bounded>>

Turn(p) == worker.scanning /\ worker.entry = None /\ p \in worker.todo

\* notify() queues what take_notices shows.
Notified(p) == [word EXCEPT ![p] = "notice"]

GiveUp(p) ==
  /\ Turn(p) /\ p \in old
  /\ worker' = [worker EXCEPT !.todo = @ \ {p}]
  /\ pending' = pending \ {p} /\ word' = Notified(p)
  /\ UNCHANGED <<client, promise, stage, server, bounded>>

\* Another account's, or not due.
Skip(p) ==
  /\ Turn(p) /\ p \notin old
  /\ worker' = [worker EXCEPT !.todo = @ \ {p}]
  /\ UNCHANGED <<client, promise, stage, pending, word, server, bounded>>

Retry(p) ==
  /\ Turn(p) /\ p \notin old
  /\ username[p] = worker.username
  /\ IF SignedIn
     THEN worker' = [worker EXCEPT !.entry = p] /\ Post(p)
     ELSE worker' = [worker EXCEPT !.todo = @ \ {p}] /\ UNCHANGED <<requests, sends>>
  /\ UNCHANGED <<client, promise, stage, pending, word, issue, tickets, plays,
                 failures, signOuts, exits>>

\* The game's frames show the notices, until the game stops.
ShowNotice(p) ==
  /\ process = "running" /\ word[p] = "notice"
  /\ word' = [word EXCEPT ![p] = "told"]
  /\ UNCHANGED <<client, promise, stage, worker, pending, server, bounded>>

Rest ==
  /\ worker.scanning /\ worker.todo = {}
  /\ worker' = Resting
  /\ UNCHANGED <<client, promise, stage, pending, word, server, bounded>>

\* Mutant: a submission that could not be sent is dropped.
Settled_Always(result) == TRUE

\* retry() discards the file unless the answer is retryable.
Settled(result) == result # "retryable"

WorkerAnswered(p, result) ==
  /\ worker' = [worker EXCEPT !.entry = None, !.todo = @ \ {p}]
  /\ pending' = IF Settled(result) THEN pending \ {p} ELSE pending
  /\ word' = IF result = "refused" THEN Notified(p) ELSE word
  /\ UNCHANGED stage

Awaited(r) ==
  /\ r.n = sends[r.play]
  /\ stage[r.play] = "sending" \/ worker.entry = r.play

Answer(r, result) ==
  IF ~Awaited(r) THEN UNCHANGED thread
  ELSE IF worker.entry = r.play THEN WorkerAnswered(r.play, result)
  ELSE ThreadAnswered(r.play, result)

\* The client's request times out; the server may have it or not.
RequestTimeout(r) ==
  /\ Awaited(r) /\ Fail
  /\ Answer(r, "retryable")
  /\ requests' \in {requests} \union {IF r.phase = "sent" THEN requests \ {r} ELSE requests}
  /\ UNCHANGED <<client, promise, issue, tickets, plays, sends, signOuts, exits>>

-----------------------------------------------------------------------------
(* The server: issue_ticket *)

\* Issuing holds the user's row; "granted", it also got the row it waited for.
Issuing(p) == issue[p] \in {"locked", "granted"}

UserFree(u) ==
  /\ \A q \in Plays : Issuing(q) => player[q] # u
  /\ \A r \in requests : r.phase = "locked" => r.user # u

\* No request with p's ticket in its body holds the ticket's row.
TicketFree(p) ==
  promise[p] = "have" =>
    \A r \in requests : r.phase \in {"resolved", "locked"} => r.play # p

Live(p) ==
  tickets[p] # None /\ ~tickets[p].used /\ ~tickets[p].superseded /\ ~tickets[p].expired

Superseded(p) == {q \in Plays : Live(q) /\ tickets[q].user = player[p]}

TicketLockUser(p) ==
  /\ issue[p] = "sent" /\ UserFree(player[p])
  /\ issue' = [issue EXCEPT ![p] = "locked"]
  /\ UNCHANGED <<client, promise, thread, requests, tickets, plays, bounded>>

Promised(p, answer) ==
  promise' = [promise EXCEPT ![p] = IF @ = "waiting" THEN answer ELSE @]

IssueTicket(p) ==
  /\ Issuing(p) /\ \A q \in Superseded(p) : TicketFree(q)
  /\ issue' = [issue EXCEPT ![p] = "done"]
  /\ tickets' = [q \in Plays |->
       IF q = p THEN [user |-> player[p], used |-> FALSE, superseded |-> FALSE,
                      expired |-> FALSE]
       ELSE IF q \in Superseded(p) THEN [tickets[q] EXCEPT !.superseded = TRUE]
       ELSE tickets[q]]
  /\ \/ Promised(p, "have") /\ UNCHANGED failures
     \/ promise[p] = "waiting" /\ Promised(p, "failed") /\ Fail
  /\ UNCHANGED <<client, thread, requests, plays, sends, signOuts, exits>>

\* The request is lost or its transaction fails.
TicketFails(p) ==
  /\ issue[p] = "sent" \/ Issuing(p)
  /\ Fail
  /\ issue' = [issue EXCEPT ![p] = "done"]
  /\ Promised(p, "failed")
  /\ UNCHANGED <<client, thread, requests, tickets, plays, sends, signOuts, exits>>

-----------------------------------------------------------------------------
(* The server: submit_play *)

\* The transaction of r ends with this result, which the client may not see.
Finish(r, result) ==
  /\ requests' = requests \ {r}
  /\ \/ Answer(r, result) /\ UNCHANGED failures
     \/ Awaited(r) /\ Answer(r, "retryable") /\ Fail
  /\ UNCHANGED <<client, promise, issue, sends, signOuts, exits>>

Advance(r, to) ==
  /\ requests' = (requests \ {r}) \union {to}
  /\ UNCHANGED <<client, promise, thread, issue, tickets, plays, bounded>>

\* The account, the client's version, the replay or its claimed result.
Refuse(r) ==
  /\ r.phase = "sent" /\ r.play \in Refusable
  /\ Finish(r, "refused") /\ UNCHANGED <<tickets, plays>>

CheckDuplicate(r) ==
  /\ r.phase = "sent"
  /\ IF plays[r.play] = None THEN Advance(r, [r EXCEPT !.phase = "checked"])
     ELSE Finish(r, "duplicate") /\ UNCHANGED <<tickets, plays>>

\* Mutant: any account may use the ticket.
Accepted_AnyUser(r) == promise[r.play] = "have" /\ Live(r.play)

\* The body carries the ticket only when its answer came.
Accepted(r) ==
  promise[r.play] = "have" /\ Live(r.play) /\ tickets[r.play].user = r.user

\* Mutant: the ticket is marked used in a transaction of its own.
ResolveTicket_UsedAtOnce(r) ==
  /\ r.phase = "checked" /\ TicketFree(r.play)
  /\ requests' = (requests \ {r}) \union
                   {[r EXCEPT !.phase = "resolved", !.eligible = Accepted(r)]}
  /\ tickets' = IF Accepted(r) THEN [tickets EXCEPT ![r.play].used = TRUE] ELSE tickets
  /\ UNCHANGED <<client, promise, thread, issue, plays, bounded>>

\* The row is locked whatever it says, and used_at is set with the commit.
ResolveTicket(r) ==
  /\ r.phase = "checked"
  /\ TicketFree(r.play)
  /\ promise[r.play] = "have" =>
       \A p \in Plays : issue[p] = "granted" => r.play \notin Superseded(p)
  /\ Advance(r, [r EXCEPT !.phase = "resolved", !.eligible = Accepted(r)])

LockUser(r) ==
  /\ r.phase = "resolved" /\ UserFree(r.user)
  /\ Advance(r, [r EXCEPT !.phase = "locked"])

\* flush: replay_hash is unique; with the commit the ticket is used.
Insert(r) ==
  /\ r.phase = "locked"
  /\ IF plays[r.play] # None
     THEN Finish(r, "duplicate") /\ UNCHANGED <<tickets, plays>>
     ELSE /\ plays' = [plays EXCEPT ![r.play] = [user |-> r.user, eligible |-> r.eligible]]
          /\ tickets' = IF r.eligible THEN [tickets EXCEPT ![r.play].used = TRUE] ELSE tickets
          /\ Finish(r, "ok")

\* The transaction fails and is rolled back.
Abort(r) ==
  /\ Fail /\ r.phase # "sent"
  /\ requests' = requests \ {r} /\ Answer(r, "retryable")
  /\ UNCHANGED <<client, promise, issue, tickets, plays, sends, signOuts, exits>>

\* submit_play holds its ticket's row and waits for the user's; issue_ticket of
\* p holds the user's row and waits for that ticket's: the database ends one.
Deadlocked(r, p) ==
  /\ r.phase = "resolved" /\ issue[p] = "locked" /\ player[p] = r.user
  /\ r.play \in Superseded(p) /\ ~TicketFree(r.play)

BreakDeadlock(r, p) ==
  /\ Deadlocked(r, p)
  /\ \/ /\ requests' = requests \ {r} /\ Answer(r, "retryable")
        /\ issue' = [issue EXCEPT ![p] = "granted"] /\ UNCHANGED promise
     \/ /\ issue' = [issue EXCEPT ![p] = "done"] /\ Promised(p, "refused")
        /\ UNCHANGED <<requests, thread>>
  /\ UNCHANGED <<client, tickets, plays, bounded>>

-----------------------------------------------------------------------------
(* The player and time *)

SignOut ==
  /\ process = "running" /\ account # None /\ signOuts < MaxSignOuts
  /\ account' = None /\ signOuts' = signOuts + 1
  /\ UNCHANGED <<process, player, username, saved, old, promise, thread, server, sends,
                 failures, exits>>

\* From the menus: not during a play.
SignIn(u) ==
  /\ process = "running" /\ account = None /\ \A p \in Plays : stage[p] # "playing"
  /\ account' = u
  /\ UNCHANGED <<process, player, username, saved, old, promise, thread, server, bounded>>

TicketExpires(p) ==
  /\ p \in Slow /\ tickets[p] # None /\ ~tickets[p].expired
  /\ tickets' = [tickets EXCEPT ![p].expired = TRUE]
  /\ UNCHANGED <<client, promise, thread, requests, issue, plays, bounded>>

GrowOld(p) ==
  /\ p \in Slow \ old /\ p \in pending
  /\ old' = old \union {p}
  /\ UNCHANGED <<process, account, player, username, saved, promise, thread, server, bounded>>

\* The main loop ends: no results and no notices are looked at from here on.
Stop ==
  /\ process = "running" /\ exits < MaxExits
  /\ process' = "stopping" /\ exits' = exits + 1
  /\ word' = [p \in Plays |-> IF word[p] = "awaited" THEN "none" ELSE word[p]]
  /\ UNCHANGED <<account, player, username, saved, old, promise, stage, worker, pending,
                 server, sends, failures, signOuts>>

\* Mutant: the threads that are saving are not counted.
Saving_NotCounted == {}

Saving == {p \in Plays : stage[p] = "saving"}

\* The process is gone, with the threads that were still at work.
Gone(as) ==
  /\ process' = "off" /\ worker' = Resting
  /\ stage' = [p \in Plays |->
       CASE stage[p] = "playing" -> "left"
         [] stage[p] \in {"saving", "unsent", "sending", "writing"} -> as
         [] OTHER -> stage[p]]
  /\ word' = [p \in Plays |->
       CASE word[p] = "awaited" -> "none" [] word[p] = "notice" -> "unheard"
         [] OTHER -> word[p]]
  /\ UNCHANGED <<account, player, username, saved, old, promise, pending, server, sends,
                 failures, signOuts>>

\* stop() returns when the worker has ended and no thread is saving.
Stopped ==
  /\ process = "stopping" /\ ~worker.scanning /\ Saving = {}
  /\ Gone("killed") /\ UNCHANGED exits

Crash ==
  /\ process # "off" /\ exits < MaxExits
  /\ Gone("crashed") /\ exits' = exits + 1

Start ==
  /\ process = "off" /\ process' = "running"
  /\ UNCHANGED <<account, player, username, saved, old, promise, thread, server, bounded>>

-----------------------------------------------------------------------------
PlayStep(p) ==
  \/ StartPlay(p) \/ TicketTimeout(p) \/ Leave(p) \/ Submit(p) \/ LeaveResults(p)
  \/ SaveReplay(p) \/ Send(p) \/ WritePending(p)
  \/ GiveUp(p) \/ Skip(p) \/ Retry(p) \/ ShowNotice(p)
  \/ TicketLockUser(p) \/ IssueTicket(p) \/ TicketFails(p)
  \/ TicketExpires(p) \/ GrowOld(p)

ServerStep(r) ==
  \/ CheckDuplicate(r) \/ ResolveTicket(r) \/ LockUser(r) \/ Insert(r)
  \/ \E p \in Plays : BreakDeadlock(r, p)

RequestStep(r) == ServerStep(r) \/ RequestTimeout(r) \/ Refuse(r) \/ Abort(r)

Next ==
  \/ \E p \in Plays : PlayStep(p)
  \/ \E r \in requests : RequestStep(r)
  \/ Load \/ Rest
  \/ SignOut \/ \E u \in Users : SignIn(u)
  \/ Stop \/ Stopped \/ Crash \/ Start

Spec == Init /\ [][Next]_vars

\* Fairness: threads and the server go on, time passes, the database breaks
\* deadlocks, and a pass retries whatever is due, which every file is within
\* MAX_RETRY_SECONDS of its last attempt.
Fairness ==
  /\ \A p \in Plays :
       /\ WF_vars(SaveReplay(p)) /\ WF_vars(Send(p)) /\ WF_vars(WritePending(p))
       /\ WF_vars(ShowNotice(p))
       /\ WF_vars(GiveUp(p) \/ Skip(p) \/ Retry(p)) /\ SF_vars(Retry(p))
       /\ WF_vars(TicketLockUser(p)) /\ WF_vars(IssueTicket(p))
       /\ WF_vars(\E r \in requests : r.play = p /\ ServerStep(r))
  /\ WF_vars(Load) /\ WF_vars(Rest)

FairSpec == Spec /\ Fairness

-----------------------------------------------------------------------------
(* Properties *)

TypeOK ==
  /\ process \in {"running", "stopping", "off"} /\ account \in Users \union {None}
  /\ {player, username} \subseteq [Plays -> Users \union {None}]
  /\ stage \in [Plays -> Stages]
  /\ promise \in [Plays -> {"none", "waiting", "have", "refused", "failed"}]
  /\ worker \in [scanning: BOOLEAN, username: Users \union {None}, todo: SUBSET Plays,
                 entry: Plays \union {None}]
  /\ saved \in [Plays -> {"no", "yes", "failed"}] /\ word \in [Plays -> Words]
  /\ pending \subseteq Plays /\ old \subseteq Plays
  /\ requests \subseteq Request
  /\ issue \in [Plays -> Issues]
  /\ tickets \in [Plays -> Ticket \union {None}] /\ plays \in [Plays -> Play \union {None}]
  /\ sends \in [Plays -> Nat] /\ {failures, signOuts, exits} \subseteq Nat

\* The queue and the server implement the ledger: however requests are lost,
\* repeated, overtaken or sent for another account, a play is recorded at most
\* once, stays as recorded and is eligible only for the account that played it.
Ledger == INSTANCE PlayLedger WITH ledger <- plays
LedgerSpec == Ledger!Spec

\* Retrying never costs a play its own ticket: a play recorded as not eligible
\* had no ticket, or it had run out, or a later play's had replaced it, or
\* another account sent it.
TicketSurvivesRetries ==
  \A p \in Plays : plays[p] # None /\ ~plays[p].eligible /\ promise[p] = "have" =>
    tickets[p].superseded \/ tickets[p].expired \/ plays[p].user # player[p]

\* A submission is dropped only for a reason: once the client is done with it
\* and keeps no file of it, it is on the server, or the disk did not take the
\* file, or the server refused it or the week was over; and then it was said,
\* to the results or in a notice, even if nobody was looking any more.
DroppedForAReason ==
  \A p \in Plays :
    /\ stage[p] = "done" /\ p \notin pending =>
         plays[p] # None \/ word[p] \in {"notice", "told", "unheard"}
    /\ word[p] \in {"notice", "told", "unheard"} /\ plays[p] = None =>
         p \in Refusable \union old

\* Quitting interrupts no save: stop() waits for the threads that are saving, so
\* a submission it cuts off has its replay on the disk, if the disk takes it.
QuitKeepsReplays == \A p \in Plays : stage[p] = "killed" => saved[p] # "no"

\* A finished play ends up on the server, or its player hears that it does not
\* (unless the results that would have said so were left before the answer came),
\* if the account stays, the game runs on and the disk takes the pending file.
EverySubmissionSettles ==
  \A p \in Plays :
    stage[p] = "saving" ~>
      plays[p] # None \/ word[p] \in {"told", "unheard"} \/ stage[p] = "dropped"

\* "Restarting many times keeps tickets coming" (test_tickets.py): the server
\* never answers a ticket request with an error of its own.
TicketsKeepComing == \A p \in Plays : promise[p] # "refused"
=============================================================================
