------------------------------ MODULE Sessions ------------------------------
(***************************************************************************)
(* The game's session with the server: Account.cpp keeps one refresh token *)
(* (saved in account.json) and one access token, security.py keeps the     *)
(* sessions they belong to.  A refresh token works once: the server        *)
(* replaces both tokens, and takes the use of the one before for a copy    *)
(* and revokes the session.  Calls on worker threads, the early refresh,   *)
(* the refresh at the start, signing in and signing out share the tokens   *)
(* under state_mutex; refresh_mutex is held over a whole refresh.          *)
(*                                                                         *)
(* The tokens of a session are numbered: the server's session k accepts    *)
(* those of its present generation.  Every step of a thread is one         *)
(* critical section of state_mutex or one answer.  account.json is         *)
(* written in the critical section that changes the tokens, which does not *)
(* look at whether that succeeded (SettingsStore.cpp).                     *)
(***************************************************************************)
EXTENDS Integers, FiniteSets

CONSTANTS Callers,          \* worker threads that call Account::authorized
          MaxSessions,      \* sign-ins
          MaxEvents         \* steps of the clock, failed requests and saves, crashes
                            \* and tokens or sessions that end elsewhere

Nobody == "nobody"

ASSUME BoundsAssumption ==
  /\ MaxSessions \in Nat /\ MaxEvents \in Nat
  /\ {"early", "boot", Nobody} \cap Callers = {}

VARIABLES
  sessions,         \* AuthSession rows: generation of the tokens, ended, lapsed
  account,          \* session.refresh_token and access
  saved,            \* the refresh token in account.json
  phase,            \* of access: "fresh", "early" (past refresh_at), "expired"
  refresh_running,
  refresher,        \* the thread that holds refresh_mutex
  thread,
  logins,           \* sessions issued to sign-ins whose answer is still out
  wire,             \* requests the server may yet get and nobody waits for
  left, lost, burnt,
  spent

vars == <<sessions, account, saved, phase, refresh_running, refresher, thread, logins,
          wire, left, lost, burnt, spent>>

Ids == 1 .. MaxSessions
Threads == Callers \cup {"early", "boot"}

(* Both tokens of a pair: the session and how often it was rotated.        *)
Tokens == [session : Ids, gen : Nat]
None == [session |-> 0, gen |-> 0]
Maybe == Tokens \cup {None}

Rows == [gen : Nat, ended : BOOLEAN, lapsed : BOOLEAN]

(* at: "idle", or within authorized "enter" and "held" (refresh, before    *)
(* and with its mutex), "answered", "returned" (ok: refresh's result),     *)
(* "send".  sent counts the requests refused so far, calm is a ghost.      *)
Idle == [at |-> "idle", access |-> None, token |-> None, ok |-> FALSE,
         sent |-> 0, calm |-> FALSE]

ThreadStates ==
  [at : {"idle", "enter", "held", "answered", "returned", "send"},
   access : Maybe, token : Maybe, ok : BOOLEAN, sent : 0 .. 1, calm : BOOLEAN]

Requests == [kind : {"refresh", "logout"}, token : Tokens]

TypeOK ==
  /\ sessions \in [Ids -> Rows]
  /\ account \in [refresh : Maybe, access : Maybe]
  /\ account.access # None => account.access = account.refresh
  /\ saved \in Maybe
  /\ phase \in {"fresh", "early", "expired"}
  /\ refresh_running \in BOOLEAN /\ refresher \in Threads \cup {Nobody}
  /\ thread \in [Threads -> ThreadStates]
  /\ \A t \in Threads : refresher = t <=> thread[t].at \in {"held", "answered"}
  /\ logins \subseteq Ids
  /\ wire \subseteq Requests
  /\ left \subseteq Ids /\ lost \subseteq Ids /\ burnt \subseteq Ids
  /\ spent \in 0 .. MaxEvents

SignedOut == [refresh |-> None, access |-> None]

Init ==
  /\ sessions = [k \in Ids |-> [gen |-> 0, ended |-> FALSE, lapsed |-> FALSE]]
  /\ account = SignedOut /\ saved = None /\ phase = "fresh"
  /\ refresh_running = FALSE /\ refresher = Nobody
  /\ thread = [t \in Threads |-> Idle]
  /\ logins = {}
  /\ wire = {} /\ left = {} /\ lost = {} /\ burnt = {}
  /\ spent = 0

-----------------------------------------------------------------------------
(* The server. *)

Usable(tok) == sessions[tok.session].gen = tok.gen /\ ~sessions[tok.session].ended

(* _load_session *)
Valid(access) == Usable(access) /\ ~sessions[access.session].lapsed

Reused(tok) == sessions[tok.session].gen = tok.gen + 1 /\ ~sessions[tok.session].ended

End(k) == [sessions EXCEPT ![k].ended = TRUE]

(* rotate_session: the row is locked, the next request finds what this one *)
(* left.                                                                   *)
RotateSession(tok) ==
  LET k == tok.session
  IN  \/ /\ Usable(tok)
         /\ sessions' = [sessions EXCEPT ![k].gen = @ + 1, ![k].lapsed = FALSE]
         /\ UNCHANGED burnt
      \/ /\ Reused(tok)
         /\ sessions' = End(k) /\ burnt' = burnt \cup {k}
      \/ /\ ~Usable(tok) /\ ~Reused(tok)
         /\ UNCHANGED <<sessions, burnt>>

Event == spent < MaxEvents /\ spent' = spent + 1

(* What a call that is under way cannot be promised to survive.            *)
Unsettled == [t \in Threads |-> [thread[t] EXCEPT !.calm = FALSE]]

(* Sessions the game has, or is about to have. *)
InUse == {account.refresh.session} \cup logins

(* Another device, a new password or the years end a session.              *)
EndElsewhere(k) ==
  /\ k \in InUse /\ ~sessions[k].ended
  /\ Event
  /\ sessions' = End(k) /\ thread' = Unsettled
  /\ UNCHANGED <<account, saved, phase, refresh_running, refresher, logins, wire, left,
                 lost, burnt>>

(* The access token runs out on the server, early for a game whose steady  *)
(* clock stood still while the machine slept.                              *)
Lapse(k) ==
  /\ Event
  /\ k \in InUse /\ ~sessions[k].lapsed
  /\ sessions' = [sessions EXCEPT ![k].lapsed = TRUE] /\ thread' = Unsettled
  /\ UNCHANGED <<account, saved, phase, refresh_running, refresher, logins, wire, left,
                 lost, burnt>>

(* A request whose sender has given up, crashed or never waited.           *)
HandleOrphan(r) ==
  /\ r \in wire /\ wire' = wire \ {r}
  /\ \/ r.kind = "refresh" /\ RotateSession(r.token)
     \/ /\ r.kind = "logout"
        /\ sessions' = IF Valid(r.token) THEN End(r.token.session) ELSE sessions
        /\ UNCHANGED burnt
  /\ thread' = Unsettled
  /\ UNCHANGED <<account, saved, phase, refresh_running, refresher, logins, left, lost, spent>>

-----------------------------------------------------------------------------
(* Signing in and out. *)

(* The account screen offers to sign in while nobody is signed in; it can  *)
(* be left and opened again while an answer is out.  An answer that never   *)
(* comes leaves a session nobody uses.                                     *)
SignIn(k) ==
  /\ account.refresh = None
  /\ sessions[k].gen = 0 /\ \A j \in 1 .. k - 1 : sessions[j].gen > 0
  /\ sessions' = [sessions EXCEPT ![k].gen = 1]
  /\ logins' = logins \cup {k}
  /\ UNCHANGED <<account, saved, phase, refresh_running, refresher, thread, wire, left, lost,
                 burnt, spent>>

(* save_locked.  When the new file cannot be renamed over the old one, the *)
(* old one is removed, and then the renaming may fail again.  A file that  *)
(* is left as it was holds a token the server has replaced, as if the      *)
(* answer were lost.                                                       *)
SaveFails ==
  /\ Event
  /\ saved' \in {saved, None}
  /\ lost' = lost \cup ({saved'.session} \cap Ids)

Save(tok) == (saved' = tok /\ UNCHANGED <<lost, spent>>) \/ SaveFails

(* apply_locked *)
ApplyTokens(tok) ==
  account' = [refresh |-> tok, access |-> tok] /\ phase' = "fresh" /\ Save(tok)

(* authenticate: whatever has happened since the request. *)
SignInAnswered(k) ==
  /\ k \in logins
  /\ ApplyTokens([session |-> k, gen |-> 1])
  /\ logins' = logins \ {k} /\ thread' = Unsettled
  /\ UNCHANGED <<sessions, refresh_running, refresher, wire, left, burnt>>

(* clear_locked *)
Clear_KeepsAccess ==
  account' = [account EXCEPT !.refresh = None] /\ phase' = "fresh" /\ Save(None)

Clear == account' = SignedOut /\ phase' = "fresh" /\ Save(None)

(* sign_out, and use_server: another server's sessions are others.  The    *)
(* player has left the session for good once account.json says so.         *)
SignOut ==
  /\ account.refresh # None
  /\ wire' = IF account.access = None THEN wire
             ELSE wire \cup {[kind |-> "logout", token |-> account.access]}
  /\ Clear /\ thread' = Unsettled
  /\ left' = IF saved' = None THEN left \cup {account.refresh.session} ELSE left
  /\ UNCHANGED <<sessions, refresh_running, refresher, logins, burnt>>

-----------------------------------------------------------------------------
(* refresh(stale_access), on the thread t. *)

MutexFree_Always == TRUE

MutexFree == refresher = Nobody

Return(t, ok) ==
  [thread EXCEPT ![t].at = "returned", ![t].ok = ok, ![t].token = None]

(* Whether another thread has refreshed while this one waited. *)
Renewed_Never(t) == FALSE

Renewed(t) == account.access # None /\ account.access # thread[t].access

TakeMutex(t) ==
  /\ thread[t].at = "enter" /\ MutexFree
  /\ \/ /\ Renewed(t)
        /\ thread' = Return(t, TRUE) /\ UNCHANGED refresher
     \/ /\ ~Renewed(t) /\ account.refresh = None
        /\ thread' = Return(t, FALSE) /\ UNCHANGED refresher
     \/ /\ ~Renewed(t) /\ account.refresh # None
        /\ thread' = [thread EXCEPT ![t].at = "held", ![t].token = account.refresh]
        /\ refresher' = t
  /\ UNCHANGED <<sessions, account, saved, phase, refresh_running, logins, wire, left, lost,
                 burnt, spent>>

HandleRefresh(t) ==
  /\ thread[t].at = "held"
  /\ RotateSession(thread[t].token)
  /\ thread' = [thread EXCEPT ![t].at = "answered", ![t].ok = Usable(thread[t].token)]
  /\ UNCHANGED <<account, saved, phase, refresh_running, refresher, logins, wire, left, lost,
                 spent>>

(* The answer is of the session the account still has. *)
StillOurs_Always(t) == TRUE

StillOurs(t) == account.refresh = thread[t].token

ApplyAnswer(t) ==
  LET tok == thread[t].token
  IN  /\ thread[t].at = "answered"
      /\ \/ /\ ~StillOurs(t)
            /\ thread' = Return(t, account.access # None)
            /\ UNCHANGED <<account, saved, phase, lost, spent>>
         \/ /\ StillOurs(t) /\ thread[t].ok
            /\ ApplyTokens([tok EXCEPT !.gen = @ + 1])
            /\ thread' = Return(t, TRUE)
         \/ /\ StillOurs(t) /\ ~thread[t].ok
            /\ Clear
            /\ thread' = Return(t, FALSE)
      /\ refresher' = Nobody
      /\ UNCHANGED <<sessions, refresh_running, logins, wire, left, burnt>>

(* What a failed request does to the account: nothing. *)
OnFailure_Clears(t) ==
  IF StillOurs(t) THEN account' = SignedOut /\ phase' = "fresh" /\ saved' = None
                  ELSE UNCHANGED <<account, saved, phase>>

OnFailure(t) == UNCHANGED <<account, saved, phase>>

(* The request times out or is answered with another error: it was never   *)
(* handled, may still arrive, or was handled and only the answer is lost.  *)
RefreshFails(t) ==
  LET tok == thread[t].token
  IN  /\ Event
      /\ \/ thread[t].at = "held" /\ UNCHANGED <<wire, lost>>
         \/ /\ thread[t].at = "held"
            /\ wire' = wire \cup {[kind |-> "refresh", token |-> tok]}
            /\ lost' = lost \cup {tok.session}
         \/ /\ thread[t].at = "answered"
            /\ lost' = lost \cup {tok.session} /\ UNCHANGED wire
      /\ OnFailure(t)
      /\ thread' = [Unsettled EXCEPT ![t].at = "returned", ![t].token = None,
                                     ![t].ok = ~StillOurs(t) /\ account.access # None]
      /\ refresher' = Nobody
      /\ UNCHANGED <<sessions, refresh_running, logins, left, burnt>>

-----------------------------------------------------------------------------
(* authorized *)

Starting == [Idle EXCEPT !.access = account.access,
                         !.calm = account.refresh # None /\ Usable(account.refresh)]

(* Only for a token that is not expired, and one at a time. *)
RefreshEarly == account.access # None /\ phase = "early" /\ ~refresh_running

StartCall(c) ==
  /\ thread[c].at = "idle"
  /\ account.refresh # None
  /\ LET expired == account.access = None \/ phase = "expired"
         call == [Starting EXCEPT !.at = IF expired THEN "enter" ELSE "send"]
     IN  \/ /\ RefreshEarly
            /\ refresh_running' = TRUE
            /\ thread' = [thread EXCEPT ![c] = call,
                 !["early"] = [Idle EXCEPT !.at = "enter", !.access = account.access]]
         \/ /\ ~RefreshEarly
            /\ thread' = [thread EXCEPT ![c] = call]
            /\ UNCHANGED refresh_running
  /\ UNCHANGED <<sessions, account, saved, phase, refresher, logins, wire, left, lost, burnt,
                 spent>>

Ends(t) == thread' = [thread EXCEPT ![t] = Idle]

(* After a refresh: the first request needs a token, the second one is     *)
(* made only if the refresh succeeded.                                     *)
Resume(c) ==
  /\ thread[c].at = "returned"
  /\ \/ /\ thread[c].sent = 0 /\ account.access = None
        /\ Ends(c)
     \/ /\ thread[c].sent = 1 /\ ~thread[c].ok
        /\ Ends(c)
     \/ /\ IF thread[c].sent = 0 THEN account.access # None ELSE thread[c].ok
        /\ thread' = [thread EXCEPT ![c].at = "send", ![c].access = account.access,
                                    ![c].ok = FALSE]
  /\ UNCHANGED <<sessions, account, saved, phase, refresh_running, refresher, logins, wire,
                 left, lost, burnt, spent>>

Accepted(c) == thread[c].access # None /\ Valid(thread[c].access)

(* A request without a token is refused with another code than one whose   *)
(* token is not valid.                                                     *)
CallAnswered(c) ==
  LET accepted == Accepted(c)
      again == thread[c].access # None /\ thread[c].sent = 0
  IN  /\ thread[c].at = "send"
      /\ \/ /\ accepted \/ ~again
            /\ Ends(c)
         \/ /\ ~accepted /\ again
            /\ thread' = [thread EXCEPT ![c].at = "enter", ![c].sent = 1]
      /\ UNCHANGED <<sessions, account, saved, phase, refresh_running, refresher, logins, wire,
                     left, lost, burnt, spent>>

EarlyRunning_StaysOnFailure == ~thread["early"].ok

EarlyRunning == FALSE

EarlyEnds ==
  /\ thread["early"].at = "returned"
  /\ refresh_running' = EarlyRunning
  /\ phase' = IF ~thread["early"].ok /\ phase = "early" THEN "fresh" ELSE phase
  /\ Ends("early")
  /\ UNCHANGED <<sessions, account, saved, refresher, logins, wire, left, lost, burnt, spent>>

BootEnds ==
  /\ thread["boot"].at = "returned"
  /\ Ends("boot")
  /\ UNCHANGED <<sessions, account, saved, phase, refresh_running, refresher, logins, wire,
                 left, lost, burnt, spent>>

-----------------------------------------------------------------------------

TimePasses ==
  /\ account.access # None /\ phase # "expired" /\ Event
  /\ phase' = IF phase = "fresh" THEN "early" ELSE "expired"
  /\ thread' = Unsettled
  /\ UNCHANGED <<sessions, account, saved, refresh_running, refresher, logins, wire, left, lost,
                 burnt>>

(* The game dies and is started again: load.  A request that was out may   *)
(* still arrive.                                                           *)
Restart ==
  /\ Event
  /\ LET waiting == Threads \cap {refresher}
         out == {[kind |-> "refresh", token |-> thread[t].token] :
                   t \in {u \in waiting : thread[u].at = "held"}}
     IN  /\ wire' \in {wire, wire \cup out}
         /\ lost' = lost \cup {thread[t].token.session : t \in waiting}
  /\ logins' = {}
  /\ account' = [refresh |-> saved, access |-> None] /\ phase' = "fresh"
  /\ refresh_running' = FALSE /\ refresher' = Nobody
  /\ thread' = [t \in Threads |->
       IF t = "boot" /\ saved # None THEN [Idle EXCEPT !.at = "enter"] ELSE Idle]
  /\ UNCHANGED <<sessions, saved, left, burnt>>

RefreshStep(t) == TakeMutex(t) \/ HandleRefresh(t) \/ ApplyAnswer(t)

Step(t) ==
  \/ RefreshStep(t)
  \/ t \in Callers /\ (Resume(t) \/ CallAnswered(t))
  \/ t = "early" /\ EarlyEnds
  \/ t = "boot" /\ BootEnds

Next ==
  \/ \E k \in Ids : SignIn(k) \/ SignInAnswered(k) \/ EndElsewhere(k) \/ Lapse(k)
  \/ SignOut \/ TimePasses \/ Restart
  \/ \E r \in wire : HandleOrphan(r)
  \/ \E c \in Callers : StartCall(c)
  \/ \E t \in Threads : Step(t) \/ RefreshFails(t)

Spec == Init /\ [][Next]_vars

(* Threads run, and a request is answered or given up.                     *)
FairSpec == Spec /\ \A t \in Threads : WF_vars(Step(t))

-----------------------------------------------------------------------------

(* The game never makes the server take its own refresh for a stolen       *)
(* token: a session is revoked for reuse only if an answer to one of its   *)
(* refreshes did not reach the game, or its file.                          *)
NoSelfRevocation == burnt \subseteq lost

(* Once signed out of a session, also in account.json, neither an answer   *)
(* that was still out nor a restart signs the player in to it again.       *)
SignOutHolds == account.refresh # None => account.refresh.session \notin left

(* Only the player and the server end a session: no failure to reach the   *)
(* server, no answer about an older token and no crash takes away a        *)
(* refresh token that still works, unless it could not be saved.           *)
NeverDroppedAlive ==
  [][account.refresh # None /\ account'.refresh = None =>
       SignOut \/ ~Usable(account.refresh) \/ saved # account.refresh]_vars

(* A call made with a session that works is accepted, whatever refreshes   *)
(* of other threads overtake it, unless the session ends or is replaced, a *)
(* refresh fails or the token ages meanwhile.                              *)
CallsGoThrough ==
  [][\A c \in Callers : thread[c].calm /\ thread'[c].at = "idle" =>
       (thread[c].at = "send" /\ Accepted(c)) \/ Restart]_vars

(* No call waits for ever on the mutex or the server, and an early refresh *)
(* does not stay marked as running, which would disable all later ones.    *)
CallsEnd ==
  /\ \A c \in Callers : thread[c].at # "idle" ~> thread[c].at = "idle"
  /\ refresh_running ~> ~refresh_running
=============================================================================
