--------------------------- MODULE SessionsProofs ---------------------------
(***************************************************************************)
(* Why the game's threads never use a refresh token twice, drop one that   *)
(* works or return to a session they left, for any number of callers and   *)
(* sign-ins.                                                               *)
(***************************************************************************)
EXTENDS Sessions, TLAPS

Waiting(t) == thread[t].at \in {"held", "answered"}

(* A token the server has issued, to a sign-in that has its answer.        *)
Issued(tok) ==
  /\ tok.gen \in 1 .. sessions[tok.session].gen
  /\ tok.session \notin logins

AccountIssued ==
  account.refresh # None => Issued(account.refresh) /\ account.refresh.session \notin left

(* The game has no two tokens of one session. *)
WaitingIssued ==
  \A t \in Threads : Waiting(t) =>
    /\ Issued(thread[t].token)
    /\ thread[t].at = "answered" /\ thread[t].ok =>
         thread[t].token.gen < sessions[thread[t].token.session].gen
    /\ account.refresh.session = thread[t].token.session => StillOurs(t)

WireIssued ==
  \A r \in wire : Issued(r.token) /\ (r.kind = "refresh" => r.token.session \in lost)

LoginsNew == \A k \in logins : sessions[k].gen = 1 /\ k \notin left

LeftIssued == \A k \in left : sessions[k].gen > 0

(* No answer to a refresh of the session is lost, and it has not ended.    *)
Sound(k) == k \notin lost /\ ~sessions[k].ended

(* The token a refresh sends is the newest; answered, it is the one before.*)
WaitingNewest ==
  \A t \in Threads : Waiting(t) /\ Sound(thread[t].token.session) =>
    /\ thread[t].at = "held" => Usable(thread[t].token)
    /\ thread[t].at = "answered" /\ thread[t].ok => Reused(thread[t].token)

RefusedIsDead ==
  \A t \in Threads : thread[t].at = "answered" /\ ~thread[t].ok => ~Usable(thread[t].token)

(* The account's token is the newest, or the answer with the newest is in. *)
AccountNewest ==
  account.refresh # None /\ Sound(account.refresh.session) =>
    \/ Usable(account.refresh)
    \/ \E t \in Threads : thread[t].at = "answered" /\ thread[t].ok /\ StillOurs(t)

Tracked ==
  /\ AccountIssued /\ WaitingIssued /\ WireIssued /\ LoginsNew /\ LeftIssued
  /\ WaitingNewest /\ RefusedIsDead /\ AccountNewest /\ NoSelfRevocation

(* account.json holds a token of a session that goes on, the account's own *)
(* unless a save has failed.                                               *)
SavedIssued == saved # None => Issued(saved) /\ saved.session \notin left

SavedNewest == saved \in {None, account.refresh} \/ saved.session \in lost

Backed == SavedIssued /\ SavedNewest

EarlyIsMarked == ~refresh_running => thread["early"].at = "idle"

WaitingHasToken == \A t \in Threads : Waiting(t) => thread[t].token \in Tokens

Typed == TypeOK /\ EarlyIsMarked /\ WaitingHasToken

IInv == Typed /\ Tracked /\ Backed

-----------------------------------------------------------------------------

LEMMA NoneIsNoToken ==
  None \notin Tokens /\ None \in Maybe /\ \A tok \in Maybe : tok # None => tok \in Tokens
  BY BoundsAssumption DEF None, Tokens, Maybe, Ids

LEMMA ThreadsDiffer ==
  /\ \A c \in Callers : c # "early" /\ c # "boot"
  /\ "early" \in Threads /\ "boot" \in Threads /\ Callers \subseteq Threads
  /\ Nobody \notin Threads
  BY BoundsAssumption DEF Threads, Nobody

LEMMA TypeInit == Init => Typed
<1> SUFFICES ASSUME Init PROVE Typed
  OBVIOUS
<1>1. None \in Maybe
  BY NoneIsNoToken
<1>2. Idle \in ThreadStates
  BY <1>1 DEF Idle, ThreadStates
<1>3. \A t \in Threads : thread[t] = Idle /\ Idle.at = "idle"
  BY DEF Init, Idle
<1>4. \A t \in Threads : refresher = t <=> thread[t].at \in {"held", "answered"}
  BY <1>3, ThreadsDiffer DEF Init
<1>5. sessions \in [Ids -> Rows]
  BY DEF Init, Rows
<1>6. account \in [refresh : Maybe, access : Maybe] /\ account.access = account.refresh
  BY <1>1 DEF Init, SignedOut
<1>7. spent \in 0 .. MaxEvents
  BY BoundsAssumption DEF Init
<1>8. TypeOK
  BY <1>1, <1>2, <1>4, <1>5, <1>6, <1>7 DEF Init, TypeOK
<1>9. EarlyIsMarked /\ WaitingHasToken
  BY <1>3, ThreadsDiffer DEF EarlyIsMarked, WaitingHasToken, Waiting
<1>10. QED
  BY <1>8, <1>9 DEF Typed

(* A step that ends or unsettles threads, or leaves them as they are.      *)
LEMMA UnsettledTyped ==
  ASSUME Typed
  PROVE  /\ Unsettled \in [Threads -> ThreadStates]
         /\ \A t \in Threads : /\ Unsettled[t].at = thread[t].at
                               /\ Unsettled[t].token = thread[t].token
                               /\ Unsettled[t].ok = thread[t].ok
  BY DEF Typed, TypeOK, Unsettled, ThreadStates

(* A save that fails leaves the old token in account.json, or none.        *)
LEMMA SaveEffect ==
  ASSUME Typed, NEW tok \in Maybe, Save(tok)
  PROVE  /\ saved' \in Maybe /\ lost' \subseteq Ids /\ spent' \in 0 .. MaxEvents
         /\ lost \subseteq lost'
         /\ saved' \in {tok, None} \/ (saved' = saved /\ saved.session \in lost')
<1>1. saved \in Maybe /\ lost \subseteq Ids /\ spent \in 0 .. MaxEvents
  BY DEF Typed, TypeOK
<1>2. saved = None \/ saved.session \in Ids
  BY <1>1, NoneIsNoToken DEF Tokens
<1>3. CASE saved' = tok /\ UNCHANGED <<lost, spent>>
  BY <1>1, <1>3
<1>4. CASE SaveFails
  <2>1. spent' \in 0 .. MaxEvents
    BY <1>1, <1>4, BoundsAssumption DEF SaveFails, Event
  <2>2. saved' \in {saved, None} /\ lost' = lost \cup ({saved'.session} \cap Ids)
    BY <1>4 DEF SaveFails
  <2>3. QED
    BY <1>1, <1>2, <2>1, <2>2, NoneIsNoToken
<1>5. QED
  BY <1>3, <1>4 DEF Save

LEMMA RotateTyped ==
  ASSUME Typed, NEW tok \in Tokens, RotateSession(tok)
  PROVE  sessions' \in [Ids -> Rows] /\ burnt' \subseteq Ids
<1>1. tok.session \in Ids
  BY DEF Tokens
<1>2. sessions \in [Ids -> Rows] /\ burnt \subseteq Ids
  BY DEF Typed, TypeOK
<1>3. CASE Usable(tok) /\ sessions' = [sessions EXCEPT ![tok.session].gen = @ + 1,
                                                      ![tok.session].lapsed = FALSE]
                        /\ UNCHANGED burnt
  BY <1>1, <1>2, <1>3 DEF Rows
<1>4. CASE sessions' = End(tok.session) /\ burnt' = burnt \cup {tok.session}
  BY <1>1, <1>2, <1>4 DEF End, Rows
<1>5. CASE UNCHANGED <<sessions, burnt>>
  BY <1>2, <1>5
<1>6. QED
  BY <1>3, <1>4, <1>5 DEF RotateSession

LEMMA SignInTyped ==
  ASSUME Typed, NEW k \in Ids,
         SignIn(k) \/ SignInAnswered(k) \/ EndElsewhere(k) \/ Lapse(k)
  PROVE  Typed'
<1> USE NoneIsNoToken, UnsettledTyped, ThreadsDiffer, BoundsAssumption
<1>1. CASE SignIn(k)
  BY <1>1 DEF Typed, TypeOK, EarlyIsMarked, WaitingHasToken, Waiting, SignIn, Rows
<1>2. CASE SignInAnswered(k)
  <2> DEFINE tok == [session |-> k, gen |-> 1]
  <2>1. tok \in Maybe
    BY DEF Tokens, Maybe
  <2>2. /\ account' = [refresh |-> tok, access |-> tok] /\ phase' = "fresh" /\ Save(tok)
        /\ logins' = logins \ {k} /\ thread' = Unsettled
        /\ UNCHANGED <<sessions, refresh_running, refresher, wire, left, burnt>>
    BY <1>2 DEF SignInAnswered, ApplyTokens
  <2>3. saved' \in Maybe /\ lost' \subseteq Ids /\ spent' \in 0 .. MaxEvents
    BY <2>1, <2>2, SaveEffect
  <2> HIDE DEF tok
  <2>4. QED
    BY <2>1, <2>2, <2>3 DEF Typed, TypeOK, EarlyIsMarked, WaitingHasToken, Waiting
<1>3. CASE EndElsewhere(k) \/ Lapse(k)
  <2>1. sessions' \in [Ids -> Rows]
    <3>1. sessions \in [Ids -> Rows]
      BY DEF Typed, TypeOK
    <3>2. CASE EndElsewhere(k)
      BY <3>1, <3>2 DEF EndElsewhere, End, Rows
    <3>3. CASE Lapse(k)
      BY <3>1, <3>3 DEF Lapse, Rows
    <3>4. QED
      BY <1>3, <3>2, <3>3
  <2>2. spent' \in 0 .. MaxEvents
    BY <1>3 DEF EndElsewhere, Lapse, Event, Typed, TypeOK
  <2>3. thread' = Unsettled
        /\ UNCHANGED <<account, saved, phase, refresh_running, refresher, logins, wire, left,
                       lost, burnt>>
    BY <1>3 DEF EndElsewhere, Lapse
  <2>4. QED
    BY <2>1, <2>2, <2>3 DEF Typed, TypeOK, EarlyIsMarked, WaitingHasToken, Waiting
<1>5. QED
  BY <1>1, <1>2, <1>3

LEMMA OutsideTyped ==
  ASSUME Typed, SignOut \/ TimePasses \/ Restart \/ (\E r \in wire : HandleOrphan(r))
  PROVE  Typed'
<1> USE NoneIsNoToken, UnsettledTyped, ThreadsDiffer, BoundsAssumption
<1>1. CASE SignOut
  <2>1. account.refresh \in Tokens /\ account.refresh.session \in Ids
    BY <1>1 DEF SignOut, Typed, TypeOK, Tokens
  <2>2. wire' \subseteq Requests
    BY <1>1 DEF SignOut, Typed, TypeOK, Requests
  <2>3. /\ account' = SignedOut /\ phase' = "fresh" /\ Save(None) /\ thread' = Unsettled
        /\ left' \in {left, left \cup {account.refresh.session}}
        /\ UNCHANGED <<sessions, refresh_running, refresher, logins, burnt>>
    BY <1>1 DEF SignOut, Clear
  <2>4. saved' \in Maybe /\ lost' \subseteq Ids /\ spent' \in 0 .. MaxEvents
    BY <2>3, SaveEffect
  <2>5. QED
    BY <2>1, <2>2, <2>3, <2>4
    DEF Typed, TypeOK, EarlyIsMarked, WaitingHasToken, Waiting, SignedOut
<1>2. CASE TimePasses
  BY <1>2 DEF Typed, TypeOK, EarlyIsMarked, WaitingHasToken, Waiting, TimePasses, Event
<1>3. CASE Restart
  <2> DEFINE waiting == Threads \cap {refresher}
             out == {[kind |-> "refresh", token |-> thread[t].token] :
                       t \in {u \in waiting : thread[u].at = "held"}}
             dropped == {thread[t].token.session : t \in waiting}
             booting == [Idle EXCEPT !.at = "enter"]
  <2>1. \A t \in waiting : thread[t].token \in Tokens
    BY DEF Typed, TypeOK, WaitingHasToken, Waiting
  <2>2. out \subseteq Requests /\ dropped \subseteq Ids
    BY <2>1 DEF Requests, Tokens
  <2>3. /\ Idle \in ThreadStates /\ Idle.at = "idle"
        /\ booting \in ThreadStates /\ booting.at = "enter"
    <3>1. Idle \in ThreadStates /\ Idle.at = "idle"
      BY DEF Idle, ThreadStates
    <3>2. QED
      BY <3>1 DEF ThreadStates
  <2>4. /\ wire' \in {wire, wire \cup out} /\ lost' = lost \cup dropped
        /\ Event
        /\ account' = [refresh |-> saved, access |-> None]
        /\ logins' = {} /\ phase' = "fresh" /\ refresh_running' = FALSE /\ refresher' = Nobody
        /\ UNCHANGED <<sessions, saved, left, burnt>>
    BY <1>3 DEF Restart
  <2>5. thread' = [t \in Threads |->
                     IF t = "boot" /\ saved # None THEN booting ELSE Idle]
    BY <1>3 DEF Restart
  <2> HIDE DEF waiting, out, dropped, booting
  <2>6. wire' \subseteq Requests /\ lost' \subseteq Ids /\ spent' \in 0 .. MaxEvents
    BY <2>2, <2>4 DEF Typed, TypeOK, Event
  <2>7. account' \in [refresh : Maybe, access : Maybe] /\ account'.access = None
    BY <2>4 DEF Typed, TypeOK
  <2>8. /\ thread' \in [Threads -> ThreadStates]
        /\ \A t \in Threads : thread'[t].at \in {"idle", "enter"}
        /\ thread'["early"].at = "idle"
    BY <2>3, <2>5, "early" \in Threads
  <2>9. TypeOK'
    BY <2>4, <2>6, <2>7, <2>8 DEF Typed, TypeOK
  <2>10. QED
    BY <2>8, <2>9 DEF Typed, EarlyIsMarked, WaitingHasToken, Waiting
<1>4. ASSUME NEW r \in wire, HandleOrphan(r) PROVE Typed'
  <2>1. r.token \in Tokens /\ r.token.session \in Ids
    BY DEF Typed, TypeOK, Requests, Tokens
  <2>2. sessions' \in [Ids -> Rows] /\ burnt' \subseteq Ids
    <3>1. CASE RotateSession(r.token)
      BY <2>1, <3>1, RotateTyped
    <3>2. sessions \in [Ids -> Rows] /\ burnt \subseteq Ids
      BY DEF Typed, TypeOK
    <3>3. CASE sessions' = End(r.token.session) /\ UNCHANGED burnt
      BY <2>1, <3>2, <3>3 DEF End, Rows
    <3>4. CASE UNCHANGED <<sessions, burnt>>
      BY <3>2, <3>4
    <3>5. QED
      BY <1>4, <3>1, <3>3, <3>4 DEF HandleOrphan
  <2>3. QED
    BY <1>4, <2>2 DEF Typed, TypeOK, EarlyIsMarked, WaitingHasToken, Waiting, HandleOrphan
<1>5. QED
  BY <1>1, <1>2, <1>3, <1>4

-----------------------------------------------------------------------------
(* What the steps of one thread do to it. *)

Moves(t, new) == new \in ThreadStates /\ thread' = [thread EXCEPT ![t] = new]

LEMMA MovesOne ==
  ASSUME Typed, NEW t \in Threads, NEW new, Moves(t, new)
  PROVE  /\ thread' \in [Threads -> ThreadStates] /\ thread'[t] = new
         /\ \A u \in Threads : u # t => thread'[u] = thread[u]
  BY DEF Moves, Typed, TypeOK

LEMMA TakeMutexMoves ==
  ASSUME Typed, NEW t \in Threads, TakeMutex(t)
  PROVE  \E new : /\ Moves(t, new)
                  /\ \/ new.at = "returned" /\ UNCHANGED refresher
                     \/ /\ new.at = "held" /\ new.token = account.refresh
                        /\ account.refresh # None /\ refresher = Nobody /\ refresher' = t
<1>1. thread \in [Threads -> ThreadStates] /\ account.refresh \in Maybe
  BY DEF Typed, TypeOK
<1>2. ASSUME NEW ok \in BOOLEAN, thread' = Return(t, ok), UNCHANGED refresher
      PROVE  \E new : Moves(t, new) /\ new.at = "returned" /\ UNCHANGED refresher
  <2> DEFINE new == [thread[t] EXCEPT !.at = "returned", !.ok = ok, !.token = None]
  <2>1. new \in ThreadStates /\ new.at = "returned"
    BY <1>1, NoneIsNoToken DEF ThreadStates
  <2>2. thread' = [thread EXCEPT ![t] = new]
    BY <1>1, <1>2 DEF Return
  <2>3. QED
    BY <1>2, <2>1, <2>2 DEF Moves
<1>3. CASE /\ account.refresh # None /\ MutexFree /\ refresher' = t
           /\ thread' = [thread EXCEPT ![t].at = "held", ![t].token = account.refresh]
  <2> DEFINE new == [thread[t] EXCEPT !.at = "held", !.token = account.refresh]
  <2>1. new \in ThreadStates /\ new.at = "held" /\ new.token = account.refresh
    BY <1>1 DEF ThreadStates
  <2>2. thread' = [thread EXCEPT ![t] = new]
    BY <1>1, <1>3
  <2>3. Moves(t, new)
    BY <2>1, <2>2 DEF Moves
  <2> HIDE DEF new
  <2>4. QED
    BY <1>3, <2>1, <2>3 DEF MutexFree
<1>4. QED
  BY <1>2, <1>3 DEF TakeMutex

LEMMA HandleRefreshMoves ==
  ASSUME Typed, NEW t \in Threads, HandleRefresh(t)
  PROVE  \E new : /\ Moves(t, new)
                  /\ new.at = "answered" /\ new.token = thread[t].token
                  /\ new.ok = Usable(thread[t].token)
<1> DEFINE new == [thread[t] EXCEPT !.at = "answered", !.ok = Usable(thread[t].token)]
<1>1. thread \in [Threads -> ThreadStates]
  BY DEF Typed, TypeOK
<1>2. Usable(thread[t].token) \in BOOLEAN
  BY DEF Usable
<1>3. /\ new \in ThreadStates /\ new.at = "answered"
      /\ new.token = thread[t].token /\ new.ok = Usable(thread[t].token)
  BY <1>1, <1>2 DEF ThreadStates
<1>4. thread' = [thread EXCEPT ![t] = new]
  BY <1>1 DEF HandleRefresh
<1>5. QED
  BY <1>3, <1>4 DEF Moves

LEMMA ApplyAnswerMoves ==
  ASSUME Typed, NEW t \in Threads, ApplyAnswer(t)
  PROVE  \E new : Moves(t, new) /\ new.at = "returned"
<1>1. thread \in [Threads -> ThreadStates]
  BY DEF Typed, TypeOK
<1>2. ASSUME NEW ok \in BOOLEAN, thread' = Return(t, ok)
      PROVE  \E new : Moves(t, new) /\ new.at = "returned"
  <2> DEFINE new == [thread[t] EXCEPT !.at = "returned", !.ok = ok, !.token = None]
  <2>1. new \in ThreadStates /\ new.at = "returned"
    BY <1>1, NoneIsNoToken DEF ThreadStates
  <2>2. thread' = [thread EXCEPT ![t] = new]
    BY <1>1, <1>2 DEF Return
  <2>3. QED
    BY <2>1, <2>2 DEF Moves
<1>3. QED
  BY <1>2 DEF ApplyAnswer

LEMMA MovesTyped ==
  ASSUME Typed, NEW t \in Threads, NEW new, Moves(t, new),
         new.at \in {"held", "answered"} => /\ refresher \in {t, Nobody} /\ refresher' = t
                                            /\ new.token \in Tokens,
         new.at \notin {"held", "answered"} =>
           refresher' = IF refresher = t THEN Nobody ELSE refresher
  PROVE  /\ thread' \in [Threads -> ThreadStates]
         /\ refresher' \in Threads \cup {Nobody}
         /\ \A u \in Threads : refresher' = u <=> thread'[u].at \in {"held", "answered"}
         /\ WaitingHasToken'
<1>1. /\ thread' \in [Threads -> ThreadStates] /\ thread'[t] = new
      /\ \A u \in Threads : u # t => thread'[u] = thread[u]
  BY MovesOne
<1>2. /\ refresher \in Threads \cup {Nobody} /\ Nobody \notin Threads
      /\ \A u \in Threads : refresher = u <=> thread[u].at \in {"held", "answered"}
      /\ \A u \in Threads : thread[u].at \in {"held", "answered"} => thread[u].token \in Tokens
  BY ThreadsDiffer DEF Typed, TypeOK, WaitingHasToken, Waiting
<1>3. refresher' \in Threads \cup {Nobody}
  BY <1>2
<1>4. ASSUME NEW u \in Threads
      PROVE  refresher' = u <=> thread'[u].at \in {"held", "answered"}
  BY <1>1, <1>2
<1>5. WaitingHasToken'
  BY <1>1, <1>2 DEF WaitingHasToken, Waiting
<1>6. QED
  BY <1>1, <1>3, <1>4, <1>5

(* The marks of the early refresh outlast every step but its last.         *)
LEMMA MarkStays ==
  ASSUME Typed, NEW t \in Threads, NEW new, Moves(t, new), thread[t].at # "idle",
         UNCHANGED refresh_running
  PROVE  EarlyIsMarked'
<1>1. \A u \in Threads : u # t => thread'[u] = thread[u]
  BY MovesOne
<1>2. "early" \in Threads /\ (~refresh_running => thread["early"].at = "idle")
  BY ThreadsDiffer DEF Typed, EarlyIsMarked
<1>3. QED
  BY <1>1, <1>2 DEF EarlyIsMarked

LEMMA TakeMutexTyped ==
  ASSUME Typed, NEW t \in Threads, TakeMutex(t)
  PROVE  Typed'
<1>1. PICK new : /\ Moves(t, new)
                 /\ \/ new.at = "returned" /\ UNCHANGED refresher
                    \/ /\ new.at = "held" /\ new.token = account.refresh
                       /\ account.refresh # None /\ refresher = Nobody /\ refresher' = t
  BY TakeMutexMoves
<1>2. /\ thread[t].at = "enter" /\ refresher # t
      /\ UNCHANGED <<sessions, account, saved, phase, refresh_running, logins, wire, left, lost,
                     burnt, spent>>
  BY DEF TakeMutex, Typed, TypeOK
<1>3. account.refresh # None => account.refresh \in Tokens
  BY NoneIsNoToken DEF Typed, TypeOK
<1>4. EarlyIsMarked'
  BY <1>1, <1>2, MarkStays
<1>5. /\ thread' \in [Threads -> ThreadStates]
      /\ refresher' \in Threads \cup {Nobody}
      /\ \A u \in Threads : refresher' = u <=> thread'[u].at \in {"held", "answered"}
      /\ WaitingHasToken'
  BY <1>1, <1>2, <1>3, MovesTyped
<1>6. QED
  BY <1>2, <1>4, <1>5 DEF Typed, TypeOK

LEMMA HandleRefreshTyped ==
  ASSUME Typed, NEW t \in Threads, HandleRefresh(t)
  PROVE  Typed'
<1>1. PICK new : /\ Moves(t, new)
                 /\ new.at = "answered" /\ new.token = thread[t].token
                 /\ new.ok = Usable(thread[t].token)
  BY HandleRefreshMoves
<1>2. /\ thread[t].at = "held" /\ refresher = t /\ thread[t].token \in Tokens
      /\ RotateSession(thread[t].token)
      /\ UNCHANGED <<account, saved, phase, refresh_running, refresher, logins, wire, left, lost,
                     spent>>
  BY DEF HandleRefresh, Typed, TypeOK, WaitingHasToken, Waiting
<1>3. sessions' \in [Ids -> Rows] /\ burnt' \subseteq Ids
  BY <1>2, RotateTyped
<1>4. EarlyIsMarked'
  BY <1>1, <1>2, MarkStays
<1>5. /\ thread' \in [Threads -> ThreadStates]
      /\ refresher' \in Threads \cup {Nobody}
      /\ \A u \in Threads : refresher' = u <=> thread'[u].at \in {"held", "answered"}
      /\ WaitingHasToken'
  BY <1>1, <1>2, MovesTyped
<1>6. QED
  BY <1>2, <1>3, <1>4, <1>5 DEF Typed, TypeOK

(* What an answer does to the account. *)
LEMMA ApplyAnswerAccount ==
  ASSUME Typed, NEW t \in Threads, ApplyAnswer(t)
  PROVE  /\ \/ ~StillOurs(t) /\ UNCHANGED <<account, saved, lost, spent>>
            \/ /\ StillOurs(t) /\ thread[t].ok
               /\ account'.refresh = [session |-> thread[t].token.session,
                                      gen |-> thread[t].token.gen + 1]
               /\ Save(account'.refresh)
            \/ StillOurs(t) /\ ~thread[t].ok /\ account'.refresh = None /\ Save(None)
         /\ account' \in [refresh : Maybe, access : Maybe]
         /\ account'.access # None => account'.access = account'.refresh
         /\ phase' \in {"fresh", "early", "expired"}
<1> DEFINE next == [session |-> thread[t].token.session, gen |-> thread[t].token.gen + 1]
<1>1. thread[t].token \in Tokens
  BY DEF ApplyAnswer, Typed, WaitingHasToken, Waiting
<1>2. next \in Tokens /\ [thread[t].token EXCEPT !.gen = @ + 1] = next
  BY <1>1 DEF Tokens
<1>3. /\ account \in [refresh : Maybe, access : Maybe]
      /\ account.access # None => account.access = account.refresh
      /\ phase \in {"fresh", "early", "expired"}
  BY DEF Typed, TypeOK
<1>4. CASE ~StillOurs(t) /\ UNCHANGED <<account, saved, phase, lost, spent>>
  BY <1>3, <1>4
<1>5. CASE StillOurs(t) /\ thread[t].ok /\ ApplyTokens([thread[t].token EXCEPT !.gen = @ + 1])
  <2>1. account' = [refresh |-> next, access |-> next] /\ phase' = "fresh" /\ Save(next)
    BY <1>2, <1>5 DEF ApplyTokens
  <2>2. next \in Maybe
    BY <1>2 DEF Maybe
  <2> HIDE DEF next
  <2>3. QED
    BY <1>5, <2>1, <2>2 DEF next
<1>6. CASE StillOurs(t) /\ ~thread[t].ok /\ Clear
  BY <1>6, NoneIsNoToken DEF Clear, SignedOut
<1>7. QED
  BY <1>4, <1>5, <1>6 DEF ApplyAnswer

LEMMA ApplyAnswerTyped ==
  ASSUME Typed, NEW t \in Threads, ApplyAnswer(t)
  PROVE  Typed'
<1>1. PICK new : Moves(t, new) /\ new.at = "returned"
  BY ApplyAnswerMoves
<1>2. /\ thread[t].at = "answered" /\ refresher = t /\ refresher' = Nobody
      /\ UNCHANGED <<sessions, refresh_running, logins, wire, left, burnt>>
  BY DEF ApplyAnswer, Typed, TypeOK
<1>3. EarlyIsMarked'
  BY <1>1, <1>2, MarkStays
<1>4. /\ thread' \in [Threads -> ThreadStates]
      /\ refresher' \in Threads \cup {Nobody}
      /\ \A u \in Threads : refresher' = u <=> thread'[u].at \in {"held", "answered"}
      /\ WaitingHasToken'
  BY <1>1, <1>2, MovesTyped
<1>5. saved' \in Maybe /\ lost' \subseteq Ids /\ spent' \in 0 .. MaxEvents
  <2>1. CASE UNCHANGED <<saved, lost, spent>>
    BY <2>1 DEF Typed, TypeOK
  <2>2. account'.refresh \in Maybe /\ None \in Maybe
    BY ApplyAnswerAccount, NoneIsNoToken
  <2>3. CASE Save(account'.refresh) \/ Save(None)
    BY <2>2, <2>3, SaveEffect
  <2>4. QED
    BY <2>1, <2>3, ApplyAnswerAccount
<1>6. QED
  BY <1>1, <1>2, <1>3, <1>4, <1>5, ApplyAnswerAccount DEF Typed, TypeOK

(* A thread u is as it was, up to what no refresh reads.                   *)
Same(u) ==
  /\ thread'[u].at = thread[u].at
  /\ thread'[u].token = thread[u].token /\ thread'[u].ok = thread[u].ok

LEMMA RefreshFailsMoves ==
  ASSUME Typed, NEW t \in Threads, RefreshFails(t)
  PROVE  /\ thread' \in [Threads -> ThreadStates] /\ thread'[t].at = "returned"
         /\ \A u \in Threads : u # t => Same(u)
<1> DEFINE ok == ~StillOurs(t) /\ account.access # None
           new == [Unsettled[t] EXCEPT !.at = "returned", !.token = None, !.ok = ok]
<1>1. /\ Unsettled \in [Threads -> ThreadStates]
      /\ \A u \in Threads : /\ Unsettled[u].at = thread[u].at
                            /\ Unsettled[u].token = thread[u].token
                            /\ Unsettled[u].ok = thread[u].ok
  BY UnsettledTyped
<1>2. new \in ThreadStates /\ new.at = "returned"
  BY <1>1, NoneIsNoToken DEF ThreadStates
<1>3. thread' = [Unsettled EXCEPT ![t] = new]
  BY <1>1 DEF RefreshFails
<1> HIDE DEF new
<1>4. thread' \in [Threads -> ThreadStates] /\ thread'[t] = new
  BY <1>1, <1>2, <1>3
<1>5. ASSUME NEW u \in Threads, u # t PROVE Same(u)
  <2>1. thread'[u] = Unsettled[u]
    BY <1>1, <1>3, <1>5
  <2>2. QED
    BY <1>1, <2>1 DEF Same
<1>6. QED
  BY <1>2, <1>4, <1>5

LEMMA RefreshFailsTyped ==
  ASSUME Typed, NEW t \in Threads, RefreshFails(t)
  PROVE  Typed'
<1>1. /\ thread' \in [Threads -> ThreadStates] /\ thread'[t].at = "returned"
      /\ \A u \in Threads : u # t => thread'[u].at = thread[u].at
                                     /\ thread'[u].token = thread[u].token
  BY RefreshFailsMoves DEF Same
<1>2. /\ thread[t].at \in {"held", "answered"} /\ refresher' = Nobody
      /\ spent < MaxEvents /\ spent' = spent + 1
      /\ UNCHANGED <<account, saved, phase, sessions, refresh_running, logins, left, burnt>>
      /\ wire' \in {wire, wire \cup {[kind |-> "refresh", token |-> thread[t].token]}}
      /\ lost' \in {lost, lost \cup {thread[t].token.session}}
  BY DEF RefreshFails, OnFailure, Event
<1>3. /\ refresher = t /\ thread[t].token \in Tokens
      /\ \A u \in Threads : thread[u].at \in {"held", "answered"} => refresher = u
  BY <1>2 DEF Typed, TypeOK, WaitingHasToken, Waiting
<1>4. wire' \subseteq Requests /\ lost' \subseteq Ids
  BY <1>2, <1>3 DEF Typed, TypeOK, Requests, Tokens
<1>5. \A u \in Threads : thread'[u].at \notin {"held", "answered"} /\ refresher' # u
  BY <1>1, <1>2, <1>3, ThreadsDiffer
<1>6. TypeOK'
  <2>1. spent' \in 0 .. MaxEvents
    BY <1>2, BoundsAssumption DEF Typed, TypeOK
  <2>2. refresher' \in Threads \cup {Nobody} /\ UNCHANGED burnt
    BY <1>2
  <2>3. QED
    BY <1>1, <1>2, <1>4, <1>5, <2>1, <2>2 DEF Typed, TypeOK
<1>7. EarlyIsMarked' /\ WaitingHasToken'
  BY <1>1, <1>2, <1>5, ThreadsDiffer DEF Typed, EarlyIsMarked, WaitingHasToken, Waiting
<1>8. QED
  BY <1>6, <1>7 DEF Typed

(* A step of a thread that neither takes nor returns the mutex. *)
Aside(t) ==
  /\ t \in Threads /\ ~Waiting(t) /\ thread' \in [Threads -> ThreadStates] /\ ~Waiting(t)'
  /\ \A u \in Threads : u # t => thread'[u] = thread[u]
  /\ refresher' = refresher

LEMMA AsideTyped ==
  ASSUME Typed, NEW t, Aside(t)
  PROVE  /\ \A u \in Threads : refresher' = u <=> thread'[u].at \in {"held", "answered"}
         /\ WaitingHasToken'
  BY DEF Typed, TypeOK, Aside, Waiting, WaitingHasToken

LEMMA CallerAside ==
  ASSUME Typed, NEW c \in Callers, Resume(c) \/ CallAnswered(c)
  PROVE  Aside(c) /\ UNCHANGED refresh_running /\ c # "early"
<1>1. /\ thread \in [Threads -> ThreadStates] /\ c \in Threads /\ c # "early"
      /\ account.access \in Maybe /\ None \in Maybe
  BY ThreadsDiffer, NoneIsNoToken DEF Typed, TypeOK
<1>2. ~Waiting(c) /\ UNCHANGED <<refresher, refresh_running>>
  BY DEF Resume, CallAnswered, Waiting
<1>3. Idle \in ThreadStates /\ Idle.at = "idle"
  BY <1>1 DEF Idle, ThreadStates
<1>4. CASE Ends(c)
  BY <1>1, <1>2, <1>3, <1>4 DEF Ends, Aside, Waiting
<1>5. CASE thread' = [thread EXCEPT ![c].at = "send", ![c].access = account.access,
                                    ![c].ok = FALSE]
  <2> DEFINE new == [thread[c] EXCEPT !.at = "send", !.access = account.access, !.ok = FALSE]
  <2>1. new \in ThreadStates /\ new.at = "send"
    BY <1>1 DEF ThreadStates
  <2>2. thread' = [thread EXCEPT ![c] = new]
    BY <1>1, <1>5
  <2> HIDE DEF new
  <2>3. QED
    BY <1>1, <1>2, <2>1, <2>2 DEF Aside, Waiting
<1>6. CASE thread' = [thread EXCEPT ![c].at = "enter", ![c].sent = 1]
  <2> DEFINE new == [thread[c] EXCEPT !.at = "enter", !.sent = 1]
  <2>1. new \in ThreadStates /\ new.at = "enter"
    <3>1. 1 \in 0 .. 1 /\ thread[c] \in ThreadStates
      BY <1>1
    <3>2. QED
      BY <3>1, Zenon DEF ThreadStates
  <2>2. thread' = [thread EXCEPT ![c] = new]
    BY <1>1, <1>6
  <2> HIDE DEF new
  <2>3. QED
    BY <1>1, <1>2, <2>1, <2>2 DEF Aside, Waiting
<1>7. QED
  BY <1>4, <1>5, <1>6 DEF Resume, CallAnswered

LEMMA EndsAside ==
  ASSUME Typed, NEW t \in Threads, thread[t].at = "returned", Ends(t), UNCHANGED refresher
  PROVE  Aside(t) /\ thread'[t].at = "idle"
<1>1. thread \in [Threads -> ThreadStates]
  BY DEF Typed, TypeOK
<1>2. Idle \in ThreadStates /\ Idle.at = "idle"
  BY NoneIsNoToken DEF Idle, ThreadStates
<1>3. QED
  BY <1>1, <1>2 DEF Ends, Aside, Waiting

LEMMA CallsTyped ==
  ASSUME Typed, (\E c \in Callers : Resume(c) \/ CallAnswered(c)) \/ EarlyEnds \/ BootEnds
  PROVE  Typed'
<1>1. ASSUME NEW c \in Callers, Resume(c) \/ CallAnswered(c) PROVE Typed'
  <2>1. Aside(c) /\ UNCHANGED refresh_running /\ c # "early"
    BY <1>1, CallerAside
  <2>2. UNCHANGED <<sessions, account, saved, phase, refresher, logins, wire, left, lost, burnt,
                    spent>>
    BY <1>1 DEF Resume, CallAnswered
  <2>3. /\ \A u \in Threads : refresher' = u <=> thread'[u].at \in {"held", "answered"}
        /\ WaitingHasToken'
    BY <2>1, AsideTyped
  <2>4. TypeOK'
    BY <2>1, <2>2, <2>3 DEF Typed, TypeOK, Aside
  <2>5. EarlyIsMarked'
    BY <2>1, ThreadsDiffer DEF Typed, EarlyIsMarked, Aside
  <2>6. QED
    BY <2>3, <2>4, <2>5 DEF Typed
<1>2. CASE EarlyEnds
  <2>1. Aside("early") /\ thread'["early"].at = "idle"
    BY <1>2, EndsAside, ThreadsDiffer DEF EarlyEnds
  <2>2. /\ refresh_running' = FALSE /\ phase' \in {"fresh", "early", "expired"}
        /\ UNCHANGED <<sessions, account, saved, refresher, logins, wire, left, lost, burnt, spent>>
    BY <1>2 DEF EarlyEnds, EarlyRunning, Typed, TypeOK
  <2>3. /\ \A u \in Threads : refresher' = u <=> thread'[u].at \in {"held", "answered"}
        /\ WaitingHasToken'
    BY <2>1, AsideTyped
  <2>4. TypeOK'
    BY <2>1, <2>2, <2>3 DEF Typed, TypeOK, Aside
  <2>5. QED
    BY <2>1, <2>3, <2>4 DEF Typed, EarlyIsMarked
<1>3. CASE BootEnds
  <2>1. Aside("boot")
    BY <1>3, EndsAside, ThreadsDiffer DEF BootEnds
  <2>2. UNCHANGED <<sessions, account, saved, phase, refresh_running, refresher, logins, wire,
                    left, lost, burnt, spent>>
    BY <1>3 DEF BootEnds
  <2>3. /\ \A u \in Threads : refresher' = u <=> thread'[u].at \in {"held", "answered"}
        /\ WaitingHasToken'
    BY <2>1, AsideTyped
  <2>4. TypeOK'
    BY <2>1, <2>2, <2>3 DEF Typed, TypeOK, Aside
  <2>5. EarlyIsMarked'
    BY <2>1, <2>2, ThreadsDiffer DEF Typed, EarlyIsMarked, Aside
  <2>6. QED
    BY <2>3, <2>4, <2>5 DEF Typed
<1>4. QED
  BY <1>1, <1>2, <1>3

(* A call may start the early refresh: both threads were idle.             *)
LEMMA StartCallMoves ==
  ASSUME Typed, NEW c \in Callers, StartCall(c)
  PROVE  /\ thread' \in [Threads -> ThreadStates]
         /\ \A u \in Threads : Waiting(u)' <=> Waiting(u)
         /\ \A u \in Threads : Waiting(u) => thread'[u] = thread[u]
         /\ EarlyIsMarked'
<1> DEFINE call(at) == [Starting EXCEPT !.at = at]
           early == [Idle EXCEPT !.at = "enter", !.access = account.access]
<1>1. /\ thread \in [Threads -> ThreadStates] /\ account.access \in Maybe
      /\ c \in Threads /\ "early" \in Threads /\ c # "early" /\ thread[c].at = "idle"
      /\ ~refresh_running => thread["early"].at = "idle"
  BY ThreadsDiffer DEF Typed, TypeOK, EarlyIsMarked, StartCall
<1>2. Idle \in ThreadStates
  BY NoneIsNoToken DEF Idle, ThreadStates
<1>3. Starting \in ThreadStates
  <2>1. (account.refresh # None /\ Usable(account.refresh)) \in BOOLEAN
    BY DEF Usable
  <2>2. QED
    BY <1>1, <1>2, <2>1, Zenon DEF Starting, ThreadStates
<1>4. \A at \in {"enter", "send"} : call(at) \in ThreadStates /\ call(at).at = at
  BY <1>3 DEF ThreadStates
<1>5. early \in ThreadStates /\ early.at = "enter"
  BY <1>1, <1>2 DEF ThreadStates
<1>6. PICK at \in {"enter", "send"} :
        \/ /\ RefreshEarly /\ refresh_running'
           /\ thread' = [thread EXCEPT ![c] = call(at), !["early"] = early]
        \/ /\ ~RefreshEarly /\ thread' = [thread EXCEPT ![c] = call(at)]
           /\ UNCHANGED refresh_running
  <2>1. CASE account.access = None \/ phase = "expired"
    <3> WITNESS "enter" \in {"enter", "send"}
    <3> QED
      BY <2>1 DEF StartCall
  <2>2. CASE ~(account.access = None \/ phase = "expired")
    <3> WITNESS "send" \in {"enter", "send"}
    <3> QED
      BY <2>2 DEF StartCall
  <2>3. QED
    BY <2>1, <2>2
<1>7. PICK new \in ThreadStates : new = call(at) /\ new.at = at
  BY <1>4
<1>8. PICK e \in ThreadStates : e = early /\ e.at = "enter"
  BY <1>5
<1>9. \/ /\ ~refresh_running /\ refresh_running'
         /\ thread' = [thread EXCEPT ![c] = new, !["early"] = e]
      \/ /\ thread' = [thread EXCEPT ![c] = new]
         /\ UNCHANGED refresh_running
  BY <1>6, <1>7, <1>8 DEF RefreshEarly
<1> HIDE DEF call, early
<1>10. QED
  BY <1>1, <1>7, <1>8, <1>9 DEF Waiting, EarlyIsMarked

LEMMA StartCallTyped ==
  ASSUME Typed, NEW c \in Callers, StartCall(c)
  PROVE  Typed'
<1>1. /\ thread' \in [Threads -> ThreadStates]
      /\ \A u \in Threads : Waiting(u)' <=> Waiting(u)
      /\ \A u \in Threads : Waiting(u) => thread'[u] = thread[u]
      /\ EarlyIsMarked'
  BY StartCallMoves
<1>2. /\ refresh_running' \in BOOLEAN
      /\ UNCHANGED <<sessions, account, saved, phase, refresher, logins, wire, left, lost, burnt,
                     spent>>
  BY DEF StartCall, Typed, TypeOK
<1>3. \A u \in Threads : refresher' = u <=> thread'[u].at \in {"held", "answered"}
  BY <1>1, <1>2 DEF Typed, TypeOK, Waiting
<1>4. WaitingHasToken'
  BY <1>1 DEF Typed, WaitingHasToken
<1>5. TypeOK'
  BY <1>1, <1>2, <1>3 DEF Typed, TypeOK
<1>6. QED
  BY <1>1, <1>4, <1>5 DEF Typed

LEMMA StepTyped == Typed /\ [Next]_vars => Typed'
<1> SUFFICES ASSUME Typed, [Next]_vars PROVE Typed'
  OBVIOUS
<1>1. ASSUME NEW k \in Ids, SignIn(k) \/ SignInAnswered(k) \/ EndElsewhere(k) \/ Lapse(k)
      PROVE  Typed'
  BY <1>1, SignInTyped
<1>2. CASE SignOut \/ TimePasses \/ Restart \/ (\E r \in wire : HandleOrphan(r))
  BY <1>2, OutsideTyped
<1>3. ASSUME NEW c \in Callers, StartCall(c) PROVE Typed'
  BY <1>3, StartCallTyped
<1>4. ASSUME NEW t \in Threads, Step(t) \/ RefreshFails(t) PROVE Typed'
  <2>1. CASE RefreshFails(t)
    BY <2>1, RefreshFailsTyped
  <2>2. CASE RefreshStep(t)
    BY <2>2, TakeMutexTyped, HandleRefreshTyped, ApplyAnswerTyped DEF RefreshStep
  <2>3. CASE t \in Callers /\ (Resume(t) \/ CallAnswered(t))
    BY <2>3, CallsTyped
  <2>4. CASE EarlyEnds \/ BootEnds
    BY <2>4, CallsTyped
  <2>5. QED
    BY <1>4, <2>1, <2>2, <2>3, <2>4 DEF Step
<1>5. CASE UNCHANGED vars
  BY <1>5 DEF vars, Typed, TypeOK, EarlyIsMarked, WaitingHasToken, Waiting
<1>6. QED
  BY <1>1, <1>2, <1>3, <1>4, <1>5 DEF Next

(* The sessions, the account and its threads keep their types, and the     *)
(* mutex is held by the one thread whose refresh is out.                   *)
THEOREM SessionsTyped == Spec => []TypeOK
<1>1. Typed => TypeOK
  BY DEF Typed
<1>2. QED
  BY <1>1, TypeInit, StepTyped, PTL DEF Spec

-----------------------------------------------------------------------------
(* Where the tokens are. *)

LEMMA TrackedInit == Init => Tracked
<1> SUFFICES ASSUME Init PROVE Tracked
  OBVIOUS
<1>1. /\ account.refresh = None /\ wire = {} /\ logins = {} /\ left = {} /\ burnt = {}
      /\ \A t \in Threads : thread[t].at = "idle"
  BY DEF Init, SignedOut, Idle
<1>2. QED
  BY <1>1 DEF Tracked, AccountIssued, WaitingIssued, WireIssued, LoginsNew, LeftIssued,
              WaitingNewest, RefusedIsDead, AccountNewest, NoSelfRevocation, Waiting

(* What every step may rely on, in terms of fields.                        *)
LEMMA Basics ==
  ASSUME Typed
  PROVE  /\ \A k \in Ids : sessions[k].gen \in Nat /\ sessions[k].ended \in BOOLEAN
         /\ account.refresh \in Maybe
         /\ account.refresh # None =>
              account.refresh.session \in Ids /\ account.refresh.gen \in Nat
         /\ \A t \in Threads : Waiting(t) =>
              /\ thread[t].token \in Tokens /\ thread[t].token # None
              /\ thread[t].token.session \in Ids /\ thread[t].token.gen \in Nat
         /\ \A t \in Threads : Waiting(t) <=> refresher = t
         /\ \A r \in wire : r.token.session \in Ids /\ r.token.gen \in Nat
         /\ logins \subseteq Ids /\ left \subseteq Ids
         /\ 0 \notin Ids /\ None.session = 0 /\ None.gen = 0
<1>1. /\ sessions \in [Ids -> Rows] /\ account.refresh \in Maybe /\ wire \subseteq Requests
      /\ logins \subseteq Ids /\ left \subseteq Ids
      /\ \A t \in Threads : Waiting(t) => thread[t].token \in Tokens
      /\ \A t \in Threads : Waiting(t) <=> refresher = t
  BY DEF Typed, TypeOK, WaitingHasToken, Waiting
<1>2. 0 \notin Ids /\ None.session = 0 /\ None.gen = 0
  BY BoundsAssumption DEF Ids, None
<1>3. \A k \in Ids : sessions[k].gen \in Nat /\ sessions[k].ended \in BOOLEAN
  BY <1>1 DEF Rows
<1>4. \A tok \in Tokens : tok.session \in Ids /\ tok.gen \in Nat /\ tok # None
  BY NoneIsNoToken DEF Tokens
<1>5. \A r \in wire : r.token \in Tokens
  BY <1>1 DEF Requests
<1>6. QED
  BY <1>1, <1>2, <1>3, <1>4, <1>5, NoneIsNoToken

(* Sessions may end, refreshes come back without an answer, requests be    *)
(* left behind; no token is made and none changes hands.                   *)
LEMMA FewerTracked ==
  ASSUME Typed, Tracked,
         \A k \in Ids : /\ sessions'[k].gen = sessions[k].gen
                        /\ sessions[k].ended => sessions'[k].ended,
         account'.refresh = account.refresh,
         logins' \subseteq logins, lost \subseteq lost', UNCHANGED <<left, burnt>>,
         \A r \in wire' :
           \/ r \in wire
           \/ /\ r.token.session \in lost'
              /\ \E u \in Threads : Waiting(u) /\ r.token = thread[u].token,
         \A u \in Threads : Waiting(u)' => Waiting(u) /\ Same(u),
         \A u \in Threads : Waiting(u) /\ ~Waiting(u)' =>
           thread[u].at = "held" \/ thread[u].token.session \in lost'
  PROVE  Tracked'
<1> USE Basics DEF Tracked, Issued
<1>1. AccountIssued'
  BY DEF AccountIssued
<1>2. WaitingIssued'
  BY DEF WaitingIssued, Same, StillOurs
<1>3. WireIssued'
  BY DEF WireIssued, WaitingIssued
<1>4. LoginsNew' /\ LeftIssued'
  BY DEF LoginsNew, LeftIssued
<1>5. WaitingNewest'
  BY DEF WaitingNewest, Same, Sound, Usable, Reused
<1>6. RefusedIsDead'
  BY DEF RefusedIsDead, Same, Usable, Waiting
<1>7. AccountNewest'
  <2> SUFFICES ASSUME account'.refresh # None, Sound(account.refresh.session)'
               PROVE  \/ Usable(account.refresh)'
                      \/ \E t \in Threads : /\ thread'[t].at = "answered" /\ thread'[t].ok
                                            /\ StillOurs(t)'
    BY DEF AccountNewest
  <2>1. Sound(account.refresh.session)
    BY DEF Sound
  <2>2. CASE Usable(account.refresh)
    BY <2>2 DEF Usable, Sound
  <2>3. ASSUME NEW t \in Threads, thread[t].at = "answered", thread[t].ok, StillOurs(t)
        PROVE  thread'[t].at = "answered" /\ thread'[t].ok /\ StillOurs(t)'
    <3>1. Waiting(t)'
      BY <2>3 DEF Waiting, StillOurs, Sound
    <3>2. QED
      BY <2>3, <3>1 DEF Same, StillOurs
  <2>4. QED
    BY <2>1, <2>2, <2>3 DEF AccountNewest
<1>8. NoSelfRevocation'
  BY DEF NoSelfRevocation
<1>9. QED
  BY <1>1, <1>2, <1>3, <1>4, <1>5, <1>6, <1>7, <1>8

LEMMA EndEffect ==
  ASSUME Typed, NEW k \in Ids, sessions' = End(k)
  PROVE  \A j \in Ids : /\ sessions'[j].gen = sessions[j].gen
                        /\ sessions[j].ended => sessions'[j].ended
<1>1. sessions \in [Ids -> Rows]
  BY DEF Typed, TypeOK
<1>2. QED
  BY <1>1 DEF End, Rows

(* What a rotation of a token does to the sessions. *)
LEMMA RotateEffect ==
  ASSUME Typed, NEW tok \in Tokens, RotateSession(tok)
  PROVE  LET k == tok.session
         IN  /\ \A j \in Ids : j # k => sessions'[j] = sessions[j]
             /\ \/ /\ Usable(tok) /\ UNCHANGED burnt
                   /\ sessions'[k].gen = sessions[k].gen + 1 /\ ~sessions'[k].ended
                \/ /\ Reused(tok) /\ burnt' = burnt \cup {k}
                   /\ sessions'[k].gen = sessions[k].gen /\ sessions'[k].ended
                \/ ~Usable(tok) /\ ~Reused(tok) /\ UNCHANGED <<sessions, burnt>>
<1>1. sessions \in [Ids -> Rows] /\ tok.session \in Ids
  BY DEF Typed, TypeOK, Tokens
<1>2. CASE Usable(tok) /\ sessions' = [sessions EXCEPT ![tok.session].gen = @ + 1,
                                                      ![tok.session].lapsed = FALSE]
                        /\ UNCHANGED burnt
  BY <1>1, <1>2 DEF Rows, Usable
<1>3. CASE Reused(tok) /\ sessions' = End(tok.session) /\ burnt' = burnt \cup {tok.session}
  BY <1>1, <1>3 DEF End, Rows
<1>4. CASE ~Usable(tok) /\ ~Reused(tok) /\ UNCHANGED <<sessions, burnt>>
  BY <1>4
<1>5. QED
  BY <1>2, <1>3, <1>4 DEF RotateSession

LEMMA EndsTracked ==
  ASSUME Typed, Tracked, NEW k \in Ids, EndElsewhere(k) \/ Lapse(k)
  PROVE  Tracked'
<1>1. \A j \in Ids : /\ sessions'[j].gen = sessions[j].gen
                     /\ sessions[j].ended => sessions'[j].ended
  <2>1. CASE EndElsewhere(k)
    BY <2>1, EndEffect DEF EndElsewhere
  <2>2. CASE sessions' = [sessions EXCEPT ![k].lapsed = TRUE]
    <3>1. sessions \in [Ids -> Rows]
      BY DEF Typed, TypeOK
    <3>2. QED
      BY <2>2, <3>1 DEF Rows
  <2>3. QED
    BY <2>1, <2>2 DEF Lapse
<1>2. thread' = Unsettled /\ UNCHANGED <<account, logins, wire, left, lost, burnt>>
  BY DEF EndElsewhere, Lapse
<1>3. \A u \in Threads : Same(u)
  BY <1>2, UnsettledTyped DEF Same
<1>4. QED
  BY <1>1, <1>2, <1>3, FewerTracked DEF Waiting, Same

LEMMA SignInTracked ==
  ASSUME Typed, Tracked, NEW k \in Ids, SignIn(k)
  PROVE  Tracked'
<1> USE Basics
<1>1. sessions \in [Ids -> Rows]
  BY DEF Typed, TypeOK
<1>2. /\ sessions[k].gen = 0 /\ sessions'[k].gen = 1 /\ sessions'[k].ended = sessions[k].ended
      /\ \A j \in Ids : j # k => sessions'[j] = sessions[j]
  BY <1>1 DEF SignIn, Rows
<1>3. account.refresh = None /\ logins' = logins \cup {k}
      /\ UNCHANGED <<account, thread, wire, left, lost, burnt>>
  BY DEF SignIn
<1>4. /\ k \notin left /\ k \notin logins /\ \A r \in wire : r.token.session # k
      /\ \A t \in Threads : Waiting(t) => thread[t].token.session # k
  BY <1>2 DEF Tracked, LeftIssued, LoginsNew, WireIssued, WaitingIssued, Issued
<1>5. AccountIssued' /\ AccountNewest'
  BY <1>3 DEF AccountIssued, AccountNewest
<1>6. WaitingIssued'
  BY <1>2, <1>3, <1>4 DEF Tracked, WaitingIssued, Issued, Waiting, StillOurs
<1>7. WireIssued'
  BY <1>2, <1>3, <1>4 DEF Tracked, WireIssued, Issued
<1>8. LoginsNew' /\ LeftIssued'
  BY <1>2, <1>3, <1>4 DEF Tracked, LoginsNew, LeftIssued
<1>9. WaitingNewest'
  BY <1>2, <1>3, <1>4 DEF Tracked, WaitingNewest, Sound, Usable, Reused, Waiting
<1>10. RefusedIsDead'
  BY <1>2, <1>3, <1>4 DEF Tracked, RefusedIsDead, Usable, Waiting
<1>11. NoSelfRevocation'
  BY <1>3 DEF Tracked, NoSelfRevocation
<1>12. QED
  BY <1>5, <1>6, <1>7, <1>8, <1>9, <1>10, <1>11 DEF Tracked

LEMMA SignInAnsweredTracked ==
  ASSUME Typed, Tracked, NEW k \in Ids, SignInAnswered(k)
  PROVE  Tracked'
<1> USE Basics
<1>1. /\ account'.refresh.session = k /\ account'.refresh.gen = 1
      /\ k \in logins /\ logins' = logins \ {k} /\ lost \subseteq lost'
      /\ UNCHANGED <<sessions, wire, left, burnt>>
  BY DEF SignInAnswered, ApplyTokens, Save, SaveFails
<1>2. \A u \in Threads : Same(u)
  BY UnsettledTyped DEF SignInAnswered, Same
<1>3. sessions[k].gen = 1 /\ k \notin left
  BY <1>1 DEF Tracked, LoginsNew
<1>4. \A t \in Threads : Waiting(t) => thread[t].token.session # k
  BY <1>1 DEF Tracked, WaitingIssued, Issued
<1>5. AccountIssued'
  BY <1>1, <1>3 DEF AccountIssued, Issued
<1>6. AccountNewest'
  BY <1>1, <1>3 DEF AccountNewest, Usable, Sound
<1>7. WaitingIssued'
  BY <1>1, <1>2, <1>4 DEF Tracked, WaitingIssued, Issued, Waiting, Same
<1>8. WireIssued' /\ LoginsNew' /\ LeftIssued'
  BY <1>1 DEF Tracked, WireIssued, Issued, LoginsNew, LeftIssued
<1>9. WaitingNewest' /\ RefusedIsDead'
  BY <1>1, <1>2 DEF Tracked, WaitingNewest, RefusedIsDead, Sound, Usable, Reused, Waiting, Same
<1>10. NoSelfRevocation'
  BY <1>1 DEF Tracked, NoSelfRevocation
<1>11. QED
  BY <1>5, <1>6, <1>7, <1>8, <1>9, <1>10 DEF Tracked

LEMMA SignOutTracked ==
  ASSUME Typed, Tracked, SignOut
  PROVE  Tracked'
<1> USE Basics
<1>1. /\ account.refresh # None /\ account'.refresh = None
      /\ left \subseteq left' /\ left' \subseteq left \cup {account.refresh.session}
      /\ lost \subseteq lost' /\ UNCHANGED <<sessions, logins, burnt>>
  BY DEF SignOut, Clear, SignedOut, Save, SaveFails
<1>2. \A u \in Threads : Same(u)
  BY UnsettledTyped DEF SignOut, Same
<1>3. Issued(account.refresh)
  BY <1>1 DEF Tracked, AccountIssued
<1>4. \A r \in wire' : r \in wire \/ (r.token = account.refresh /\ r.kind = "logout")
  BY DEF SignOut, Typed, TypeOK
<1>5. AccountIssued' /\ AccountNewest'
  BY <1>1 DEF AccountIssued, AccountNewest
<1>6. WaitingIssued'
  BY <1>1, <1>2 DEF Tracked, WaitingIssued, Issued, Waiting, Same
<1>7. WireIssued'
  BY <1>1, <1>3, <1>4 DEF Tracked, WireIssued, Issued
<1>8. LoginsNew' /\ LeftIssued'
  BY <1>1, <1>3 DEF Tracked, LoginsNew, LeftIssued, Issued
<1>9. WaitingNewest' /\ RefusedIsDead'
  BY <1>1, <1>2 DEF Tracked, WaitingNewest, RefusedIsDead, Sound, Usable, Reused, Waiting, Same
<1>10. NoSelfRevocation'
  BY <1>1 DEF Tracked, NoSelfRevocation
<1>11. QED
  BY <1>5, <1>6, <1>7, <1>8, <1>9, <1>10 DEF Tracked

(* An orphan's session is lost already, whatever becomes of it.            *)
LEMMA OrphanTracked ==
  ASSUME Typed, Tracked, NEW r \in wire, HandleOrphan(r)
  PROVE  Tracked'
<1> DEFINE k == r.token.session
<1> USE Basics
<1>1. \A u \in Threads : Same(u)
  BY UnsettledTyped DEF HandleOrphan, Same
<1>2. wire' \subseteq wire /\ UNCHANGED <<account, logins, left, lost>>
  BY DEF HandleOrphan
<1>3. CASE (sessions' = End(k) \/ UNCHANGED sessions) /\ UNCHANGED burnt
  <2>1. \A j \in Ids : /\ sessions'[j].gen = sessions[j].gen
                       /\ sessions[j].ended => sessions'[j].ended
    BY <1>3, EndEffect
  <2>2. QED
    BY <1>1, <1>2, <1>3, <2>1, FewerTracked DEF Waiting, Same
<1>4. CASE r.kind = "refresh" /\ RotateSession(r.token)
  <2>1. k \in lost /\ k \notin logins /\ r.token \in Tokens
    BY <1>4 DEF Tracked, WireIssued, Issued, Typed, TypeOK, Requests
  <2>2. /\ \A j \in Ids : j # k => sessions'[j] = sessions[j]
        /\ sessions'[k].gen \in {sessions[k].gen, sessions[k].gen + 1}
        /\ burnt' \subseteq burnt \cup {k}
        /\ sessions'[k].gen = sessions[k].gen => (sessions[k].ended => sessions'[k].ended)
    BY <1>4, <2>1, RotateEffect
  <2>3. AccountIssued' /\ WireIssued'
    BY <1>2, <2>2 DEF Tracked, AccountIssued, WireIssued, Issued
  <2>4. WaitingIssued'
    BY <1>1, <1>2, <2>2 DEF Tracked, WaitingIssued, Issued, Waiting, Same, StillOurs
  <2>5. LoginsNew' /\ LeftIssued'
    BY <1>2, <2>1, <2>2 DEF Tracked, LoginsNew, LeftIssued
  <2>6. WaitingNewest'
    BY <1>1, <1>2, <2>1, <2>2 DEF Tracked, WaitingNewest, Sound, Usable, Reused, Waiting, Same
  <2>7. RefusedIsDead'
    BY <1>1, <1>2, <2>2 DEF Tracked, RefusedIsDead, WaitingIssued, Issued, Usable, Waiting, Same
  <2>8. AccountNewest'
    BY <1>1, <1>2, <2>1, <2>2 DEF Tracked, AccountNewest, Sound, Usable, Same, StillOurs
  <2>9. NoSelfRevocation'
    BY <1>2, <2>1, <2>2 DEF Tracked, NoSelfRevocation
  <2>10. QED
    BY <2>3, <2>4, <2>5, <2>6, <2>7, <2>8, <2>9 DEF Tracked
<1>5. QED
  BY <1>3, <1>4 DEF HandleOrphan

(* With the mutex free no answer is out: the account's token is the newest.*)
LEMMA TakeMutexTracked ==
  ASSUME Typed, Tracked, NEW t \in Threads, TakeMutex(t)
  PROVE  Tracked'
<1> USE Basics
<1>1. PICK new : /\ Moves(t, new)
                 /\ \/ new.at = "returned" /\ UNCHANGED refresher
                    \/ /\ new.at = "held" /\ new.token = account.refresh
                       /\ account.refresh # None /\ refresher = Nobody /\ refresher' = t
  BY TakeMutexMoves
<1>2. thread'[t] = new /\ \A u \in Threads : u # t => thread'[u] = thread[u]
  BY <1>1, MovesOne
<1>3. ~Waiting(t) /\ UNCHANGED <<sessions, account, logins, wire, left, lost, burnt>>
  BY DEF TakeMutex, Waiting
<1>4. CASE new.at = "returned"
  <2>1. \A u \in Threads : (Waiting(u)' <=> Waiting(u)) /\ (Waiting(u) => Same(u))
    BY <1>2, <1>3, <1>4 DEF Waiting, Same
  <2>2. QED
    BY <1>3, <2>1, FewerTracked
<1>5. CASE new.at = "held" /\ new.token = account.refresh /\ account.refresh # None
           /\ refresher = Nobody
  <2>1. \A u \in Threads : ~Waiting(u)
    BY <1>5, ThreadsDiffer
  <2>2. \A u \in Threads : Waiting(u)' => u = t
    BY <1>2, <2>1 DEF Waiting
  <2>3. Sound(account.refresh.session) => Usable(account.refresh)
    BY <1>5, <2>1 DEF Tracked, AccountNewest, Waiting
  <2>4. Issued(account.refresh)
    BY <1>5 DEF Tracked, AccountIssued
  <2>5. AccountIssued' /\ WireIssued' /\ LoginsNew' /\ LeftIssued' /\ NoSelfRevocation'
    BY <1>3 DEF Tracked, AccountIssued, WireIssued, Issued, LoginsNew, LeftIssued,
                NoSelfRevocation
  <2>6. AccountNewest'
    BY <1>3, <2>3 DEF AccountNewest, Sound, Usable
  <2>7. WaitingIssued'
    BY <1>2, <1>3, <1>5, <2>2, <2>4 DEF WaitingIssued, Issued, StillOurs
  <2>8. WaitingNewest'
    BY <1>2, <1>3, <1>5, <2>2, <2>3 DEF WaitingNewest, Sound, Usable
  <2>9. RefusedIsDead'
    BY <1>2, <1>5, <2>2 DEF RefusedIsDead, Waiting
  <2>10. QED
    BY <2>5, <2>6, <2>7, <2>8, <2>9 DEF Tracked
<1>6. QED
  BY <1>1, <1>4, <1>5

(* The server takes the newest token, unless an answer was lost: it then   *)
(* sees one used before.                                                   *)
LEMMA HandleRefreshTracked ==
  ASSUME Typed, Tracked, NEW t \in Threads, HandleRefresh(t)
  PROVE  Tracked'
<1> DEFINE tok == thread[t].token
           k == tok.session
<1> USE Basics
<1>1. /\ thread'[t].at = "answered" /\ thread'[t].token = tok /\ thread'[t].ok = Usable(tok)
      /\ \A u \in Threads : u # t => thread'[u] = thread[u]
  BY HandleRefreshMoves, MovesOne
<1>2. /\ thread[t].at = "held" /\ Waiting(t) /\ RotateSession(tok)
      /\ UNCHANGED <<account, logins, wire, left, lost>>
  BY DEF HandleRefresh, Waiting
<1>3. /\ \A u \in Threads : Waiting(u) => u = t
      /\ \A u \in Threads : Waiting(u)' => u = t
  BY <1>1, <1>2 DEF Waiting
<1>4. /\ tok \in Tokens /\ k \in Ids /\ tok.gen \in 1 .. sessions[k].gen /\ k \notin logins
      /\ account.refresh.session = k => account.refresh = tok
  BY <1>2 DEF Tracked, WaitingIssued, Issued, StillOurs
<1>5. Sound(k) => Usable(tok)
  BY <1>2 DEF Tracked, WaitingNewest
<1>6. /\ \A j \in Ids : j # k => sessions'[j] = sessions[j]
      /\ \/ /\ Usable(tok) /\ UNCHANGED burnt
            /\ sessions'[k].gen = sessions[k].gen + 1 /\ ~sessions'[k].ended
         \/ /\ Reused(tok) /\ burnt' = burnt \cup {k}
            /\ sessions'[k].gen = sessions[k].gen /\ sessions'[k].ended
         \/ ~Usable(tok) /\ ~Reused(tok) /\ UNCHANGED <<sessions, burnt>>
  BY <1>2, <1>4, RotateEffect
<1>7. \A j \in Ids : sessions'[j].gen >= sessions[j].gen
  BY <1>6
<1> HIDE DEF k
<1>8. thread'[t].ok => /\ sessions'[k].gen = tok.gen + 1 /\ ~sessions'[k].ended
  <2>1. thread'[t].ok => Usable(tok)
    BY <1>1 DEF Usable
  <2>2. Usable(tok) => /\ sessions'[k].gen = tok.gen + 1 /\ ~sessions'[k].ended
    BY <1>4, <1>6 DEF Usable, Reused, Tokens, k
  <2>3. QED
    BY <2>1, <2>2
<1>9. AccountIssued' /\ WireIssued'
  BY <1>2, <1>6 DEF Tracked, AccountIssued, WireIssued, Issued, k
<1>10. LoginsNew' /\ LeftIssued'
  BY <1>2, <1>4, <1>6 DEF Tracked, LoginsNew, LeftIssued, k
<1>11. WaitingIssued'
  <2>1. /\ tok.gen \in 1 .. sessions'[k].gen
        /\ thread'[t].ok => tok.gen < sessions'[k].gen
    BY <1>4, <1>6, <1>8
  <2>2. QED
    BY <1>1, <1>2, <1>3, <1>4, <2>1 DEF WaitingIssued, Issued, StillOurs, k
<1>12. WaitingNewest'
  BY <1>1, <1>3, <1>8 DEF WaitingNewest, Reused, k
<1>13. RefusedIsDead'
  BY <1>1, <1>3, <1>4, <1>6 DEF RefusedIsDead, Waiting, Usable, k
<1>14. AccountNewest'
  <2> SUFFICES ASSUME account.refresh # None, Sound(account.refresh.session)'
               PROVE  \/ Usable(account.refresh)'
                      \/ \E u \in Threads : /\ thread'[u].at = "answered" /\ thread'[u].ok
                                            /\ StillOurs(u)'
    BY <1>2 DEF AccountNewest
  <2>1. CASE account.refresh.session = k
    <3>1. k \notin lost /\ ~sessions'[k].ended
      BY <1>2, <2>1 DEF Sound
    <3>2. Usable(tok)
      BY <1>4, <1>5, <1>6, <3>1 DEF Sound, k
    <3>3. thread'[t].at = "answered" /\ thread'[t].ok /\ StillOurs(t)'
      BY <1>1, <1>2, <1>4, <2>1, <3>2 DEF StillOurs
    <3>4. QED
      BY <3>3
  <2>2. CASE account.refresh.session # k
    <3>1. Sound(account.refresh.session)
      BY <1>2, <1>6, <2>2 DEF Sound, k
    <3>2. Usable(account.refresh)
      BY <1>2, <1>3, <3>1 DEF Tracked, AccountNewest, Waiting
    <3>3. QED
      BY <1>2, <1>6, <2>2, <3>2 DEF Usable, k
  <2>3. QED
    BY <2>1, <2>2
<1>15. NoSelfRevocation'
  <2>1. Reused(tok) => k \in lost
    BY <1>4, <1>5 DEF Reused, Usable, Sound, k
  <2>2. QED
    BY <1>2, <1>6, <2>1 DEF Tracked, NoSelfRevocation
<1>16. QED
  BY <1>9, <1>10, <1>11, <1>12, <1>13, <1>14, <1>15 DEF Tracked

LEMMA ApplyAnswerTracked ==
  ASSUME Typed, Tracked, NEW t \in Threads, ApplyAnswer(t)
  PROVE  Tracked'
<1> DEFINE tok == thread[t].token
           k == tok.session
<1> USE Basics
<1>1. /\ \A u \in Threads : u # t => thread'[u] = thread[u]
      /\ thread'[t].at = "returned"
  BY ApplyAnswerMoves, MovesOne
<1>2. /\ thread[t].at = "answered" /\ Waiting(t) /\ lost \subseteq lost'
      /\ UNCHANGED <<sessions, logins, wire, left, burnt>>
  BY DEF ApplyAnswer, Waiting, ApplyTokens, Clear, Save, SaveFails
<1>3. /\ \A u \in Threads : Waiting(u) => u = t
      /\ \A u \in Threads : ~Waiting(u)'
  BY <1>1, <1>2 DEF Waiting
<1>4. WaitingIssued' /\ WaitingNewest' /\ RefusedIsDead'
  BY <1>3 DEF WaitingIssued, WaitingNewest, RefusedIsDead, Waiting
<1>5. WireIssued' /\ LoginsNew' /\ LeftIssued' /\ NoSelfRevocation'
  BY <1>2 DEF Tracked, WireIssued, Issued, LoginsNew, LeftIssued, NoSelfRevocation
<1>6. AccountIssued' /\ AccountNewest'
  <2>1. CASE ~StillOurs(t) /\ UNCHANGED account
    <3>1. Sound(account.refresh.session) /\ account.refresh # None => Usable(account.refresh)
      BY <1>3, <2>1 DEF Tracked, AccountNewest, Waiting
    <3>2. QED
      BY <1>2, <2>1, <3>1 DEF Tracked, AccountIssued, AccountNewest, Issued, Sound, Usable
  <2>2. CASE /\ StillOurs(t) /\ thread[t].ok
             /\ account'.refresh = [session |-> k, gen |-> tok.gen + 1]
    <3>1. account.refresh = tok /\ tok # None /\ Issued(tok) /\ k \notin left
      BY <1>2, <2>2 DEF Tracked, WaitingIssued, AccountIssued, StillOurs
    <3>2. Sound(k) => sessions[k].gen = tok.gen + 1 /\ ~sessions[k].ended
      BY <1>2, <2>2 DEF Tracked, WaitingNewest, Reused
    <3>3. account'.refresh.session = k /\ account'.refresh.gen = tok.gen + 1
      BY <2>2
    <3>4. tok.gen + 1 \in 1 .. sessions[k].gen /\ k \in Ids
      BY <1>2, <2>2 DEF Tracked, WaitingIssued
    <3>5. AccountIssued'
      BY <1>2, <3>1, <3>3, <3>4 DEF AccountIssued, Issued
    <3>6. AccountNewest'
      BY <1>2, <3>2, <3>3 DEF AccountNewest, Sound, Usable
    <3>7. QED
      BY <3>5, <3>6
  <2>3. CASE account'.refresh = None
    BY <2>3 DEF AccountIssued, AccountNewest
  <2>4. QED
    BY <2>1, <2>2, <2>3, ApplyAnswerAccount
<1>7. QED
  BY <1>4, <1>5, <1>6 DEF Tracked

LEMMA RefreshFailsTracked ==
  ASSUME Typed, Tracked, NEW t \in Threads, RefreshFails(t)
  PROVE  Tracked'
<1>1. /\ thread'[t].at = "returned" /\ \A u \in Threads : u # t => Same(u)
  BY RefreshFailsMoves
<1>2. /\ Waiting(t) /\ lost \subseteq lost'
      /\ UNCHANGED <<sessions, account, logins, left, burnt>>
      /\ thread[t].at = "answered" => thread[t].token.session \in lost'
  BY DEF RefreshFails, OnFailure, Waiting
<1>3. \A r \in wire' :
        r \in wire \/ (r.token = thread[t].token /\ r.token.session \in lost')
  BY DEF RefreshFails
<1>4. \A u \in Threads : Waiting(u)' => Waiting(u) /\ Same(u)
  BY <1>1 DEF Waiting, Same
<1>5. \A u \in Threads : Waiting(u) => u = t
  BY <1>2, Basics
<1>6. QED
  BY <1>2, <1>3, <1>4, <1>5, FewerTracked DEF Waiting

(* The refresh that was out when the game died has lost its answer.        *)
LEMMA RestartTracked ==
  ASSUME Typed, Tracked, Backed, Restart
  PROVE  Tracked'
<1> DEFINE waiting == Threads \cap {refresher}
           out == {[kind |-> "refresh", token |-> thread[t].token] :
                     t \in {u \in waiting : thread[u].at = "held"}}
           dropped == {thread[t].token.session : t \in waiting}
<1>1. /\ wire' \in {wire, wire \cup out} /\ lost' = lost \cup dropped
      /\ logins' = {} /\ account'.refresh = saved /\ UNCHANGED <<sessions, saved, left, burnt>>
  BY DEF Restart
<1>2. \A u \in Threads : ~Waiting(u)'
  <2>1. Idle.at = "idle" /\ [Idle EXCEPT !.at = "enter"].at = "enter"
    BY DEF Idle
  <2>2. QED
    BY <2>1 DEF Restart, Waiting
<1>3. \A u \in Threads : Waiting(u) => thread[u].token.session \in lost'
  BY <1>1, Basics
<1>4. \A r \in wire' :
        \/ r \in wire
        \/ /\ r.token.session \in lost'
           /\ \E u \in Threads : Waiting(u) /\ r.token = thread[u].token
  BY <1>1, <1>3 DEF Waiting
<1> HIDE DEF waiting, out, dropped
<1>5. CASE saved = account.refresh
  BY <1>1, <1>2, <1>3, <1>4, <1>5, FewerTracked
<1>6. CASE saved # account.refresh
  <2>1. AccountIssued'
    BY <1>1 DEF Backed, SavedIssued, AccountIssued, Issued
  <2>2. AccountNewest'
    BY <1>1, <1>6 DEF Backed, SavedNewest, AccountNewest, Sound
  <2>3. WireIssued'
    BY <1>1, <1>4 DEF Tracked, WireIssued, WaitingIssued, Issued
  <2>4. LoginsNew' /\ LeftIssued' /\ NoSelfRevocation'
    BY <1>1 DEF Tracked, LoginsNew, LeftIssued, NoSelfRevocation
  <2>5. WaitingIssued' /\ WaitingNewest' /\ RefusedIsDead'
    BY <1>2 DEF WaitingIssued, WaitingNewest, RefusedIsDead, Waiting
  <2>6. QED
    BY <2>1, <2>2, <2>3, <2>4, <2>5 DEF Tracked
<1>7. QED
  BY <1>5, <1>6

(* The steps that leave every token where it is. *)
LEMMA IdleTracked ==
  ASSUME Typed, Tracked,
         UNCHANGED <<sessions, logins, wire, left, lost, burnt>>,
         account'.refresh = account.refresh,
         \A u \in Threads : (Waiting(u)' <=> Waiting(u)) /\ (Waiting(u) => Same(u))
  PROVE  Tracked'
  BY FewerTracked

LEMMA AsideTracked ==
  ASSUME Typed, Tracked, NEW t, Aside(t),
         UNCHANGED <<sessions, account, logins, wire, left, lost, burnt>>
  PROVE  Tracked'
<1>1. \A u \in Threads : (Waiting(u)' <=> Waiting(u)) /\ (Waiting(u) => Same(u))
  BY DEF Aside, Waiting, Same
<1>2. QED
  BY <1>1, IdleTracked

LEMMA StepTracked == Typed /\ Tracked /\ Backed /\ [Next]_vars => Tracked'
<1> SUFFICES ASSUME Typed, Tracked, Backed, [Next]_vars PROVE Tracked'
  OBVIOUS
<1>1. ASSUME NEW k \in Ids, SignIn(k) \/ SignInAnswered(k) \/ EndElsewhere(k) \/ Lapse(k)
      PROVE  Tracked'
  BY <1>1, SignInTracked, SignInAnsweredTracked, EndsTracked
<1>2. CASE SignOut
  BY <1>2, SignOutTracked
<1>3. CASE TimePasses
  <2>1. \A u \in Threads : Same(u)
    BY <1>3, UnsettledTyped DEF TimePasses, Same
  <2>2. UNCHANGED <<sessions, account, logins, wire, left, lost, burnt>>
    BY <1>3 DEF TimePasses
  <2>3. QED
    BY <2>1, <2>2, IdleTracked DEF Waiting, Same
<1>4. CASE Restart
  BY <1>4, RestartTracked
<1>5. CASE \E r \in wire : HandleOrphan(r)
  BY <1>5, OrphanTracked
<1>6. ASSUME NEW c \in Callers, StartCall(c) PROVE Tracked'
  <2>1. UNCHANGED <<sessions, account, logins, wire, left, lost, burnt>>
    BY <1>6 DEF StartCall
  <2>2. \A u \in Threads : (Waiting(u)' <=> Waiting(u)) /\ (Waiting(u) => Same(u))
    BY <1>6, StartCallMoves DEF Same
  <2>3. QED
    BY <2>1, <2>2, IdleTracked
<1>7. ASSUME NEW t \in Threads, Step(t) \/ RefreshFails(t) PROVE Tracked'
  <2>1. CASE RefreshFails(t)
    BY <2>1, RefreshFailsTracked
  <2>2. CASE RefreshStep(t)
    BY <2>2, TakeMutexTracked, HandleRefreshTracked, ApplyAnswerTracked DEF RefreshStep
  <2>3. CASE t \in Callers /\ (Resume(t) \/ CallAnswered(t))
    <3>1. UNCHANGED <<sessions, account, logins, wire, left, lost, burnt>>
      BY <2>3 DEF Resume, CallAnswered
    <3>2. QED
      BY <2>3, <3>1, CallerAside, AsideTracked
  <2>4. CASE EarlyEnds
    <3>1. Aside("early")
      BY <2>4, EndsAside, ThreadsDiffer DEF EarlyEnds
    <3>2. UNCHANGED <<sessions, account, logins, wire, left, lost, burnt>>
      BY <2>4 DEF EarlyEnds
    <3>3. QED
      BY <3>1, <3>2, AsideTracked
  <2>5. CASE BootEnds
    <3>1. Aside("boot")
      BY <2>5, EndsAside, ThreadsDiffer DEF BootEnds
    <3>2. UNCHANGED <<sessions, account, logins, wire, left, lost, burnt>>
      BY <2>5 DEF BootEnds
    <3>3. QED
      BY <3>1, <3>2, AsideTracked
  <2>6. QED
    BY <1>7, <2>1, <2>2, <2>3, <2>4, <2>5 DEF Step
<1>8. CASE UNCHANGED vars
  BY <1>8, IdleTracked DEF vars, Same, Waiting
<1>9. QED
  BY <1>1, <1>2, <1>3, <1>4, <1>5, <1>6, <1>7, <1>8 DEF Next

-----------------------------------------------------------------------------
(* What account.json holds. *)

(* No row loses a generation. *)
RowsGrow == \A k \in Ids : sessions'[k].gen \in Nat /\ sessions'[k].gen >= sessions[k].gen

LEMMA BasicsOfSaved ==
  ASSUME Typed
  PROVE  /\ saved \in Maybe
         /\ saved # None => saved.session \in Ids /\ saved.gen \in Nat
  BY NoneIsNoToken DEF Typed, TypeOK, Tokens

(* The sessions a step may add to logins or to left are not the saved one. *)
LEMMA KeptBacked ==
  ASSUME Typed, Backed, RowsGrow,
         saved' = saved, account'.refresh = account.refresh, lost \subseteq lost', left' = left,
         \A k \in logins' : k \in logins \/ sessions[k].gen = 0
  PROVE  Backed'
<1>1. SavedIssued'
  BY Basics, BasicsOfSaved DEF Backed, SavedIssued, Issued, RowsGrow
<1>2. SavedNewest'
  BY DEF Backed, SavedNewest
<1>3. QED
  BY <1>1, <1>2 DEF Backed

(* A step that changes the tokens saves them, or tries to.                 *)
LEMMA SaveBacked ==
  ASSUME Typed, Backed, NEW tok \in Maybe, Save(tok), UNCHANGED sessions,
         account'.refresh = tok, tok # None => Issued(tok)' /\ tok.session \notin left',
         logins' \subseteq logins, left' = left \/ saved' = None
  PROVE  Backed'
<1>1. saved' \in {tok, None} \/ (saved' = saved /\ saved.session \in lost')
  BY SaveEffect
<1>2. CASE saved' = tok
  BY <1>2 DEF Backed, SavedIssued, SavedNewest, Issued
<1>3. CASE saved' = None
  BY <1>3 DEF Backed, SavedIssued, SavedNewest
<1>4. CASE saved' = saved /\ left' = left /\ saved.session \in lost'
  BY <1>4 DEF Backed, SavedIssued, SavedNewest, Issued
<1>5. QED
  BY <1>1, <1>2, <1>3, <1>4

LEMMA RotateGrows ==
  ASSUME Typed, NEW tok \in Tokens, RotateSession(tok)
  PROVE  RowsGrow
<1>1. tok.session \in Ids
  BY DEF Tokens
<1>2. QED
  BY <1>1, RotateEffect, Basics DEF RowsGrow

LEMMA SignInBacked ==
  ASSUME Typed, Tracked, Backed, NEW k \in Ids,
         SignIn(k) \/ SignInAnswered(k) \/ EndElsewhere(k) \/ Lapse(k)
  PROVE  Backed'
<1> USE Basics
<1>1. sessions \in [Ids -> Rows]
  BY DEF Typed, TypeOK
<1>2. CASE SignIn(k)
  <2>1. RowsGrow
    BY <1>1, <1>2 DEF SignIn, Rows, RowsGrow
  <2>2. QED
    BY <1>2, <2>1, KeptBacked DEF SignIn
<1>3. CASE SignInAnswered(k)
  <2> DEFINE tok == [session |-> k, gen |-> 1]
  <2>1. tok \in Maybe /\ tok.session = k /\ tok.gen = 1
    BY DEF Tokens, Maybe
  <2>2. /\ account'.refresh = tok /\ Save(tok) /\ k \in logins /\ logins' = logins \ {k}
        /\ UNCHANGED <<sessions, left>>
    BY <1>3 DEF SignInAnswered, ApplyTokens
  <2> HIDE DEF tok
  <2>3. Issued(tok)' /\ k \notin left'
    BY <2>1, <2>2 DEF Tracked, LoginsNew, Issued
  <2>4. QED
    BY <2>1, <2>2, <2>3, SaveBacked
<1>4. CASE EndElsewhere(k)
  <2>1. RowsGrow
    BY <1>4, EndEffect DEF EndElsewhere, RowsGrow
  <2>2. QED
    BY <1>4, <2>1, KeptBacked DEF EndElsewhere
<1>5. CASE Lapse(k)
  <2>1. RowsGrow
    BY <1>1, <1>5 DEF Lapse, Rows, RowsGrow
  <2>2. QED
    BY <1>5, <2>1, KeptBacked DEF Lapse
<1>6. QED
  BY <1>2, <1>3, <1>4, <1>5

LEMMA SignOutBacked ==
  ASSUME Typed, Tracked, Backed, SignOut
  PROVE  Backed'
<1>1. /\ account'.refresh = None /\ Save(None) /\ (left' = left \/ saved' = None)
      /\ UNCHANGED <<sessions, logins>>
  BY DEF SignOut, Clear, SignedOut
<1>2. QED
  BY <1>1, SaveBacked, NoneIsNoToken

LEMMA OrphanBacked ==
  ASSUME Typed, Tracked, Backed, NEW r \in wire, HandleOrphan(r)
  PROVE  Backed'
<1> USE Basics
<1>1. r.token \in Tokens
  BY DEF Typed, TypeOK, Requests
<1>2. RowsGrow
  <2>1. CASE RotateSession(r.token)
    BY <1>1, <2>1, RotateGrows
  <2>2. CASE sessions' = End(r.token.session)
    BY <2>2, EndEffect DEF RowsGrow
  <2>3. CASE UNCHANGED sessions
    BY <2>3 DEF RowsGrow
  <2>4. QED
    BY <2>1, <2>2, <2>3 DEF HandleOrphan
<1>3. QED
  BY <1>2, KeptBacked DEF HandleOrphan

LEMMA ApplyAnswerBacked ==
  ASSUME Typed, Tracked, Tracked', Backed, NEW t \in Threads, ApplyAnswer(t)
  PROVE  Backed'
<1>1. UNCHANGED <<sessions, logins, left>>
  BY DEF ApplyAnswer
<1>2. CASE UNCHANGED <<account, saved, lost>>
  <2>1. RowsGrow
    BY <1>1, Basics DEF RowsGrow
  <2>2. QED
    BY <1>1, <1>2, <2>1, KeptBacked
<1>3. CASE Save(account'.refresh)
  <2>1. account'.refresh \in Maybe
    BY ApplyAnswerAccount
  <2>2. account'.refresh # None =>
          Issued(account.refresh)' /\ account'.refresh.session \notin left'
    BY DEF Tracked, AccountIssued
  <2>3. QED
    BY <1>1, <1>3, <2>1, <2>2, SaveBacked DEF Issued
<1>4. QED
  BY <1>2, <1>3, ApplyAnswerAccount

LEMMA RestartBacked ==
  ASSUME Typed, Backed, Restart
  PROVE  Backed'
<1>1. /\ account'.refresh = saved /\ logins' = {}
      /\ UNCHANGED <<sessions, saved, left>>
  BY DEF Restart
<1>2. QED
  BY <1>1 DEF Backed, SavedIssued, SavedNewest, Issued

LEMMA StepBacked == Typed /\ Tracked /\ Tracked' /\ Backed /\ [Next]_vars => Backed'
<1> SUFFICES ASSUME Typed, Tracked, Tracked', Backed, [Next]_vars PROVE Backed'
  OBVIOUS
<1>1. ASSUME UNCHANGED <<sessions, account, saved, logins, left>>, lost \subseteq lost'
      PROVE  Backed'
  BY <1>1, Basics, KeptBacked DEF RowsGrow
<1>2. ASSUME NEW k \in Ids, SignIn(k) \/ SignInAnswered(k) \/ EndElsewhere(k) \/ Lapse(k)
      PROVE  Backed'
  BY <1>2, SignInBacked
<1>3. CASE SignOut \/ Restart \/ \E r \in wire : HandleOrphan(r)
  BY <1>3, SignOutBacked, RestartBacked, OrphanBacked
<1>4. CASE TimePasses \/ \E c \in Callers : StartCall(c)
  BY <1>1, <1>4 DEF TimePasses, StartCall
<1>5. ASSUME NEW t \in Threads, Step(t) \/ RefreshFails(t) PROVE Backed'
  <2>1. CASE TakeMutex(t) \/ RefreshFails(t)
    BY <1>1, <2>1 DEF TakeMutex, RefreshFails, OnFailure
  <2>2. CASE HandleRefresh(t)
    <3>1. thread[t].token \in Tokens
      BY <2>2, Basics DEF HandleRefresh, Waiting
    <3>2. RowsGrow
      BY <2>2, <3>1, RotateGrows DEF HandleRefresh
    <3>3. QED
      BY <2>2, <3>2, KeptBacked DEF HandleRefresh
  <2>3. CASE ApplyAnswer(t)
    BY <2>3, ApplyAnswerBacked
  <2>4. CASE (t \in Callers /\ (Resume(t) \/ CallAnswered(t))) \/ EarlyEnds \/ BootEnds
    BY <1>1, <2>4 DEF Resume, CallAnswered, EarlyEnds, BootEnds
  <2>5. QED
    BY <1>5, <2>1, <2>2, <2>3, <2>4 DEF Step, RefreshStep
<1>6. CASE UNCHANGED vars
  BY <1>1, <1>6 DEF vars
<1>7. QED
  BY <1>2, <1>3, <1>4, <1>5, <1>6 DEF Next

LEMMA InvInit == Init => IInv
<1>1. Init => Backed
  BY DEF Init, Backed, SavedIssued, SavedNewest
<1>2. QED
  BY <1>1, TypeInit, TrackedInit DEF IInv

LEMMA InvStep == IInv /\ [Next]_vars => IInv'
  BY StepTyped, StepTracked, StepBacked DEF IInv

(* The game never makes the server take its own refresh for a stolen       *)
(* token: a session is revoked for reuse only if an answer to one of its   *)
(* refreshes did not reach the game, or its file (security.py:106).        *)
THEOREM NoRefreshIsReused == Spec => []NoSelfRevocation
<1>1. IInv => NoSelfRevocation
  BY DEF IInv, Tracked
<1>2. QED
  BY <1>1, InvInit, InvStep, PTL DEF Spec

(* Once signed out of a session, also in account.json, neither an answer   *)
(* that was still out nor a restart signs the player in to it again        *)
(* (Account.cpp:116).                                                      *)
THEOREM SignOutIsFinal == Spec => []SignOutHolds
<1>1. IInv => SignOutHolds
  BY DEF IInv, Tracked, AccountIssued, SignOutHolds
<1>2. QED
  BY <1>1, InvInit, InvStep, PTL DEF Spec

(* Only a sign-out, the server's word about a token that is dead, or the   *)
(* restart after a failed save takes a refresh token from the account      *)
(* (Account.cpp:119).                                                      *)
THEOREM NothingAliveIsDropped == Spec => NeverDroppedAlive
<1>1. ASSUME IInv, [Next]_vars, account.refresh # None, account'.refresh = None
      PROVE  SignOut \/ ~Usable(account.refresh) \/ saved # account.refresh
  <2> USE <1>1, Basics DEF IInv
  <2>1. CASE SignOut
    BY <2>1
  <2>2. ASSUME NEW t \in Threads, ApplyAnswer(t)
        PROVE  ~Usable(account.refresh)
    <3>1. thread[t].at = "answered" /\ Waiting(t) /\ thread[t].token \in Tokens
      BY <2>2 DEF ApplyAnswer, Waiting
    <3>2. StillOurs(t) /\ ~thread[t].ok
      <4>1. account'.refresh # [session |-> thread[t].token.session,
                                gen |-> thread[t].token.gen + 1]
        BY <3>1 DEF Tokens, None
      <4>2. QED
        BY <2>2, <4>1, ApplyAnswerAccount
    <3>3. QED
      BY <3>1, <3>2 DEF Tracked, RefusedIsDead, StillOurs
  <2>3. CASE \E k \in Ids : SignInAnswered(k)
    BY <2>3 DEF SignInAnswered, ApplyTokens, None
  <2>4. CASE Restart
    BY <2>4 DEF Restart, Typed, TypeOK
  <2>5. QED
    BY <2>1, <2>2, <2>3, <2>4
    DEF Next, Step, RefreshStep, SignIn, EndElsewhere, Lapse, TimePasses, HandleOrphan, StartCall,
        TakeMutex, HandleRefresh, RefreshFails, OnFailure, Resume, CallAnswered, EarlyEnds,
        BootEnds, vars
<1>2. IInv /\ [Next]_vars =>
        [account.refresh # None /\ account'.refresh = None =>
           SignOut \/ ~Usable(account.refresh) \/ saved # account.refresh]_vars
  BY <1>1
<1>3. QED
  BY <1>2, InvInit, InvStep, PTL DEF Spec, NeverDroppedAlive
=============================================================================
