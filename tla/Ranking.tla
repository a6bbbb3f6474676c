------------------------------ MODULE Ranking ------------------------------
(***************************************************************************)
(* What follows a play on the server, for one player and one key mode:     *)
(* submit_play, review_play, restrict and the jobs of tasks.py refresh the *)
(* player's bests and statistics in their own transactions (READ COMMITTED *)
(* with row locks, SQLAlchemy's unit of work), and bring the Redis board   *)
(* up to date after their commit, when others may have committed again.    *)
(***************************************************************************)
EXTENDS Naturals, FiniteSets

CONSTANTS
    Plays,           \* the replays that may be submitted
    Charts,
    ChartOf,         \* [Plays -> Charts]
    Strength,        \* [Plays -> Nat]: the order by performance and accuracy
    Casual,          \* plays without a ticket: not eligible
    Slots,           \* the threads that handle requests and jobs
    None,
    MaxReviews, MaxStatusChanges,
    MaxDisturbances  \* of restrictions, rebuilds and failures of Redis, together

ASSUME RankingAssumption ==
    /\ ChartOf \in [Plays -> Charts]
    /\ Strength \in [Plays -> Nat]
    /\ \A p, q \in Plays : Strength[p] = Strength[q] => p = q
    /\ Casual \subseteq Plays
    /\ None \notin Plays \union Charts
    /\ IsFiniteSet(Plays)
    /\ MaxReviews \in Nat /\ MaxStatusChanges \in Nat /\ MaxDisturbances \in Nat

VARIABLES
    rows,            \* the committed rows of plays
    stats,           \* the player's committed UserKeyStats, None before the first
    banned,          \* users.is_banned
    chart_ranked,    \* charts.status = RANKED
    jobs,            \* the RQ queue
    forgotten,       \* the charts whose status changed without a job that follows
    board,           \* the player's score in Redis, None when not on the board
    handler,         \* what each slot is doing
    missed,          \* the last write of the board failed or was out of date
    overlapped,      \* what transactions without a common lock may have left wrong
    spent            \* how much of each bound is used up

vars == <<rows, stats, banned, chart_ranked, jobs, forgotten, board, handler,
          missed, overlapped, spent>>

-----------------------------------------------------------------------------

Row == [status: {"verified", "rejected"}, eligible: BOOLEAN, ranked: BOOLEAN,
        chart_best: BOOLEAN, profile_best: BOOLEAN]
Stats == [plays: 0 .. Cardinality(Plays), ranked: 0 .. Cardinality(Plays),
          top: SUBSET Plays]
Job == [kind: {"apply", "refresh"}, chart: Charts]

(* A transaction and what it has in memory: the statistics it loaded, the  *)
(* chart's status it saw, the rows it has written but not committed, the   *)
(* statistics it will flush, and the standing it read for the board.       *)
Handler == [at: {"loaded", "locked", "updating", "computed", "committed", "queueing", "synced"},
            kind: {"submit", "review", "status", "apply", "refresh", "restrict", "rebuild"},
            play: Plays \union {None}, chart: Charts \union {None},
            rankable: BOOLEAN, loaded: Stats \union {None},
            mine: [Plays -> Row \union {None}], next: Stats \union {None},
            score: (SUBSET Plays) \union {None}]

ASSUME NoneAssumption == None \notin Row \union Stats \union Handler

NothingWritten == [p \in Plays |-> None]
NewHandler(kind, at) ==
    [at |-> at, kind |-> kind, play |-> None, chart |-> None, rankable |-> FALSE,
     loaded |-> None, mine |-> NothingWritten, next |-> None, score |-> None]

Idle(s) == handler[s] = None
At(s, at) == handler[s] # None /\ handler[s].at = at
Doing(s, kind, at) == At(s, at) /\ handler[s].kind = kind

Bounds == [reviews: 0 .. MaxReviews, status: 0 .. MaxStatusChanges,
           disturbances: 0 .. MaxDisturbances]

-----------------------------------------------------------------------------
(* Bests and statistics, as functions of what a transaction sees.          *)

Best(S) == {p \in S : \A q \in S : Strength[q] <= Strength[p]}
Group(v, c) == {p \in Plays : v[p] # None /\ ChartOf[p] = c}

RefreshChartBest(v, c) ==
    LET shown == {p \in Group(v, c) : v[p].status # "rejected" /\ v[p].eligible}
    IN  [p \in Plays |-> IF p \in Group(v, c)
                         THEN [v[p] EXCEPT !.chart_best = p \in Best(shown)] ELSE v[p]]

RefreshProfileBest_KeepsMark(v, c) ==
    LET ranked == {p \in Group(v, c) : v[p].ranked}
    IN  [p \in Plays |-> IF p \in Best(ranked) THEN [v[p] EXCEPT !.profile_best = TRUE] ELSE v[p]]
RefreshProfileBest(v, c) ==
    LET ranked == {p \in Group(v, c) : v[p].ranked}
    IN  [p \in Plays |-> IF p \in Group(v, c)
                         THEN [v[p] EXCEPT !.profile_best = p \in Best(ranked)] ELSE v[p]]

RefreshBests(v, c) == RefreshProfileBest(RefreshChartBest(v, c), c)

Totals_Increment(v) ==
    LET seen == {p \in Plays : v[p] # None}
    IN  [plays |-> Cardinality({p \in seen : v[p].status # "rejected"}) + 1,
         ranked |-> Cardinality({p \in seen : v[p].ranked}),
         top |-> {p \in seen : v[p].profile_best}]
Totals(v) ==
    LET seen == {p \in Plays : v[p] # None}
    IN  [plays |-> Cardinality({p \in seen : v[p].status # "rejected"}),
         ranked |-> Cardinality({p \in seen : v[p].ranked}),
         top |-> {p \in seen : v[p].profile_best}]

(* The rows a refresh updates: it takes the marks away before it sets them. *)
Touched(v, w, c) ==
    {p \in Plays : \/ w[p] # v[p]
                   \/ p \in Group(v, c) /\ (v[p].chart_best \/ v[p].profile_best)}

(* A row somebody else has updated is waited for until that transaction    *)
(* ends; so is the user's row while somebody holds it FOR UPDATE.          *)
Free(s, S) == \A t \in Slots \ {s} : ~Idle(t) => \A p \in S : handler[t].mine[p] = None
HoldsUser_Nobody(t) == FALSE
HoldsUser(t) == At(t, "locked") \/ (At(t, "computed") /\ handler[t].kind # "review")
UserFree(s) == \A t \in Slots \ {s} : ~HoldsUser(t)

View(s) == [p \in Plays |-> IF handler[s].mine[p] # None THEN handler[s].mine[p] ELSE rows[p]]

(* The unit of work writes the columns whose value differs from what was   *)
(* loaded, and leaves the others as they are by then.                      *)
Changed(h) == {k \in DOMAIN h.next : h.loaded = None \/ h.next[k] # h.loaded[k]}
Flushed(h) == [k \in DOMAIN h.next |-> IF k \in Changed(h) THEN h.next[k] ELSE stats[k]]

(* From the view v the transaction refreshes chart c's bests into w and    *)
(* the statistics, and has all of it ready to be committed.                *)
Computed(s, h, v, w, c, loaded) ==
    /\ Free(s, Touched(v, w, c))
    /\ handler' = [handler EXCEPT ![s] =
                      [h EXCEPT !.at = "computed", !.loaded = loaded, !.next = Totals(w),
                                !.mine = [p \in Plays |-> IF w[p] # rows[p] \/ p \in Touched(v, w, c)
                                                          THEN w[p] ELSE None]]]

-----------------------------------------------------------------------------

Init ==
    /\ rows = [p \in Plays |-> None]
    /\ stats = None
    /\ banned = FALSE
    /\ chart_ranked = [c \in Charts |-> TRUE]
    /\ jobs = {}
    /\ forgotten = {}
    /\ board = None
    /\ handler = [s \in Slots |-> None]
    /\ missed = FALSE
    /\ overlapped = {}
    /\ spent = [reviews |-> 0, status |-> 0, disturbances |-> 0]

(* Submissions of a player share the lock of the user's row. Whoever else  *)
(* runs alongside another transaction may leave statistics or rows wrong;  *)
(* a refresh that has the player to itself puts the statistics right. That *)
(* is remembered for the properties; the code has no such variable.        *)
Open(t) == ~Idle(t) /\ handler[t].at \notin {"committed", "queueing", "synced"}
Alongside(s, kind) ==
    \E t \in Slots \ {s} : Open(t) /\ ~(kind = "submit" /\ handler[t].kind = "submit")
OverlappedBy(s, kind) == IF Alongside(s, kind) THEN {"stats", "rows"} ELSE overlapped

Begin(s, h) == Idle(s) /\ handler' = [handler EXCEPT ![s] = h]
Spend(k, max) == spent[k] < max /\ spent' = [spent EXCEPT ![k] = @ + 1]

(* submit_play up to its lock: the user, the chart and, through            *)
(* ranking.standing, the statistics are loaded into the session. (That two *)
(* requests for one replay are told apart is the concern of Submissions.)  *)
StartSubmit(s, p) ==
    /\ ~banned
    /\ rows[p] = None
    /\ \A t \in Slots : ~Idle(t) => handler[t].kind # "submit" \/ handler[t].play # p
    /\ Begin(s, [NewHandler("submit", "loaded") EXCEPT
                    !.play = p, !.chart = ChartOf[p],
                    !.rankable = chart_ranked[ChartOf[p]], !.loaded = stats])
    /\ overlapped' = OverlappedBy(s, "submit")
    /\ UNCHANGED <<rows, stats, banned, chart_ranked, jobs, forgotten, board, missed, spent>>

(* select(User).with_for_update(): it waits for the row, and refreshes     *)
(* nothing of what is loaded already.                                      *)
LockUser(s) ==
    /\ At(s, "loaded")
    /\ UserFree(s)
    /\ handler' = [handler EXCEPT ![s].at = "locked"]
    /\ UNCHANGED <<rows, stats, banned, chart_ranked, jobs, forgotten, board, missed, overlapped, spent>>

(* A second INSERT of the player's statistics: 500, rolled back.           *)
Collided_NoRollback(s) == handler
Collided(s) == [handler EXCEPT ![s] = None]

(* The row is inserted and the bests and statistics are flushed.           *)
ComputeSubmit(s) ==
    /\ Doing(s, "submit", "locked")
    /\ LET h == handler[s]
           v == [rows EXCEPT ![h.play] =
                    [status |-> "verified", eligible |-> h.play \notin Casual,
                     ranked |-> h.play \notin Casual /\ h.rankable,
                     chart_best |-> FALSE, profile_best |-> FALSE]]
       IN  IF h.loaded = None /\ stats # None
           THEN handler' = Collided(s)
           ELSE \E w \in {RefreshBests(v, h.chart)} : Computed(s, h, v, w, h.chart, h.loaded)
    /\ UNCHANGED <<rows, stats, banned, chart_ranked, jobs, forgotten, board, missed, overlapped, spent>>

(* review_play: no lock on the user. The row of the play is flushed first, *)
(* and held until the commit.                                              *)
Review(s, p, approve) ==
    /\ rows[p] # None
    /\ Idle(s)
    /\ Free(s, {p})
    /\ Spend("reviews", MaxReviews)
    /\ LET c == ChartOf[p]
           v == [rows EXCEPT ![p].status = IF approve THEN "verified" ELSE "rejected",
                             ![p].eligible = @ \/ approve,
                             ![p].ranked = approve /\ chart_ranked[c]]
           h == [NewHandler("review", "computed") EXCEPT !.play = p, !.chart = c]
       IN  Computed(s, h, v, RefreshBests(v, c), c, stats)
    /\ overlapped' = OverlappedBy(s, "review")
    /\ UNCHANGED <<rows, stats, banned, chart_ranked, jobs, forgotten, board, missed>>

(* What a handler goes on with: all that commit go on to sync the board,   *)
(* from what they read then.                                               *)
AfterCommit_ReviewEnds(h) == IF h.kind = "review" THEN None ELSE NewHandler(h.kind, "committed")
AfterCommit(h) == NewHandler(h.kind, "committed")

(* The commit of a transaction; that of a review flushes the user's        *)
(* columns and the statistics only now, and waits for those who hold them. *)
Commit(s) ==
    /\ At(s, "computed")
    /\ Changed(handler[s]) \intersect {"plays", "ranked"} # {} => UserFree(s)
    /\ Changed(handler[s]) # {} =>
           \A t \in Slots \ {s} : ~(At(t, "computed") /\ HoldsUser(t))
    /\ rows' = View(s)
    /\ stats' = Flushed(handler[s])
    /\ handler' = [handler EXCEPT ![s] = AfterCommit(@)]
    /\ UNCHANGED <<banned, chart_ranked, jobs, forgotten, board, missed, overlapped, spent>>

(* PUT /charts/<hash>/status commits the change, and queues the job only   *)
(* then.                                                                   *)
SetChartStatus(s, c) ==
    /\ Begin(s, [NewHandler("status", "queueing") EXCEPT !.chart = c])
    /\ Spend("status", MaxStatusChanges)
    /\ chart_ranked' = [chart_ranked EXCEPT ![c] = ~@]
    /\ overlapped' = IF \E t \in Slots : Open(t) THEN {"stats", "rows"} ELSE overlapped
    /\ UNCHANGED <<rows, stats, banned, jobs, forgotten, board, missed>>

Enqueue(s) ==
    /\ At(s, "queueing")
    /\ jobs' = jobs \union {[kind |-> "apply", chart |-> handler[s].chart]}
    /\ handler' = [handler EXCEPT ![s] = None]
    /\ UNCHANGED <<rows, stats, banned, chart_ranked, forgotten, board, missed, overlapped, spent>>

(* Redis does not answer, or the server stops: nothing queues the job any  *)
(* more, and the same request again finds the status set already.          *)
EnqueueFails(s) ==
    /\ At(s, "queueing")
    /\ Spend("disturbances", MaxDisturbances)
    /\ forgotten' = forgotten \union {handler[s].chart}
    /\ handler' = [handler EXCEPT ![s] = None]
    /\ UNCHANGED <<rows, stats, banned, chart_ranked, jobs, board, missed, overlapped>>

(* Every worker takes the next job, whatever the others are at.            *)
StartJob(s, j) ==
    /\ j \in jobs
    /\ Begin(s, [NewHandler(j.kind, IF j.kind = "apply" THEN "updating" ELSE "loaded") EXCEPT
                    !.chart = j.chart, !.rankable = chart_ranked[j.chart], !.loaded = stats])
    /\ jobs' = jobs \ {j}
    /\ forgotten' = IF j.kind = "apply" THEN forgotten \ {j.chart} ELSE forgotten
    /\ overlapped' = OverlappedBy(s, j.kind) \ (IF j.kind = "refresh" /\ ~Alongside(s, "refresh")
                                               THEN {"stats"} ELSE {})
    /\ UNCHANGED <<rows, stats, banned, chart_ranked, board, missed, spent>>

(* apply_chart_status: one UPDATE over the chart's rows, then the refresh  *)
(* of its players is queued.                                               *)
ApplyChartStatus(s) ==
    /\ At(s, "updating")
    /\ LET h == handler[s]
           played == Group(rows, h.chart)
       IN  /\ Free(s, played)
           /\ rows' = [p \in Plays |->
                         IF p \in played
                         THEN [rows[p] EXCEPT !.ranked = h.rankable /\ rows[p].eligible
                                                         /\ rows[p].status # "rejected"]
                         ELSE rows[p]]
           /\ jobs' = jobs \union {[kind |-> "refresh", chart |-> ChartOf[p]] : p \in played}
    /\ handler' = [handler EXCEPT ![s] = None]
    /\ UNCHANGED <<stats, banned, chart_ranked, forgotten, board, missed, overlapped, spent>>

(* refresh_users: the statistics are loaded under the lock.                *)
ComputeRefresh(s) ==
    /\ Doing(s, "refresh", "locked")
    /\ LET c == handler[s].chart
       IN  \E w \in {RefreshProfileBest(rows, c)} : Computed(s, handler[s], rows, w, c, stats)
    /\ UNCHANGED <<rows, stats, banned, chart_ranked, jobs, forgotten, board, missed, overlapped, spent>>

(* PUT /users/<reference>/restriction.                                     *)
SetRestriction(s) ==
    /\ UserFree(s)
    /\ Spend("disturbances", MaxDisturbances)
    /\ banned' = ~banned
    /\ Begin(s, NewHandler("restrict", "committed"))
    /\ UNCHANGED <<rows, stats, chart_ranked, jobs, forgotten, board, missed, overlapped>>

-----------------------------------------------------------------------------
(* The board, after the commit.                                            *)

OnLeaderboard == ~banned /\ stats # None /\ stats.ranked > 0
Standing == IF OnLeaderboard THEN stats.top ELSE None

(* sync_leaderboard reads the standing after the commit expired it.        *)
ReadStanding(s) ==
    /\ At(s, "committed")
    /\ handler' = [handler EXCEPT ![s] =
                      [NewHandler(@.kind, "synced") EXCEPT !.score = Standing]]
    /\ UNCHANGED <<rows, stats, banned, chart_ranked, jobs, forgotten, board, missed, overlapped, spent>>

StartRebuild(s) ==
    /\ Spend("disturbances", MaxDisturbances)
    /\ Begin(s, [NewHandler("rebuild", "synced") EXCEPT !.score = Standing])
    /\ UNCHANGED <<rows, stats, banned, chart_ranked, jobs, forgotten, board, missed, overlapped>>

(* leaderboard_apply, or leaderboard_replace of a rebuild.                 *)
WriteBoard(s) ==
    /\ At(s, "synced")
    /\ board' = handler[s].score
    /\ missed' = (handler[s].score # Standing)
    /\ handler' = [handler EXCEPT ![s] = None]
    /\ UNCHANGED <<rows, stats, banned, chart_ranked, jobs, forgotten, overlapped, spent>>

(* Redis does not answer, which is logged, or the worker dies.             *)
BoardFails(s) ==
    /\ At(s, "committed") \/ At(s, "synced")
    /\ Spend("disturbances", MaxDisturbances)
    /\ missed' = TRUE
    /\ handler' = [handler EXCEPT ![s] = None]
    /\ UNCHANGED <<rows, stats, banned, chart_ranked, jobs, forgotten, board, overlapped>>

(* A review holds rows and waits for the user, somebody else holds the     *)
(* user and waits for those rows: the database ends one of them. The       *)
(* moderator sees an error, a player's client sends again, a job is        *)
(* retried.                                                                *)
WaitsForRows(s) ==
    /\ At(s, "locked")
    /\ LET h == handler[s]
           v == rows
           w == IF h.kind = "submit" THEN RefreshBests(v, h.chart) ELSE RefreshProfileBest(v, h.chart)
       IN  ~Free(s, Touched(v, w, h.chart))
Requeued(s) ==
    IF handler[s].kind \in {"apply", "refresh"}
    THEN jobs \union {[kind |-> handler[s].kind, chart |-> handler[s].chart]} ELSE jobs
BreakDeadlock(s) ==
    /\ \E r, t \in Slots :
          /\ s \in {r, t}
          /\ Doing(r, "review", "computed") /\ Changed(handler[r]) \intersect {"plays", "ranked"} # {}
          /\ WaitsForRows(t)
    /\ jobs' = Requeued(s)
    /\ handler' = [handler EXCEPT ![s] = None]
    /\ UNCHANGED <<rows, stats, banned, chart_ranked, forgotten, board, missed, overlapped, spent>>

(* The UPDATE of a status change and whoever else updates rows of its      *)
(* chart may take them in two orders, and then it is one of these.         *)
CrossUpdates(s) ==
    /\ \E r, t \in Slots :
          /\ s \in {r, t} /\ r # t
          /\ At(r, "updating") /\ (At(t, "updating") \/ At(t, "locked"))
          /\ handler[t].chart = handler[r].chart
          /\ Cardinality(Group(rows, handler[r].chart)) > 1
    /\ jobs' = Requeued(s)
    /\ handler' = [handler EXCEPT ![s] = None]
    /\ UNCHANGED <<rows, stats, banned, chart_ranked, forgotten, board, missed, overlapped, spent>>

Step(s) ==
    \/ LockUser(s) \/ ComputeSubmit(s) \/ Commit(s) \/ ApplyChartStatus(s) \/ ComputeRefresh(s)
    \/ ReadStanding(s) \/ WriteBoard(s) \/ Enqueue(s)

Next ==
    \E s \in Slots :
       \/ Step(s)
       \/ BoardFails(s) \/ EnqueueFails(s) \/ BreakDeadlock(s) \/ CrossUpdates(s)
       \/ SetRestriction(s) \/ StartRebuild(s)
       \/ \E p \in Plays : StartSubmit(s, p)
       \/ \E p \in Plays, approve \in BOOLEAN : Review(s, p, approve)
       \/ \E c \in Charts : SetChartStatus(s, c)
       \/ \E j \in jobs : StartJob(s, j)

Spec == Init /\ [][Next]_vars

(* Requests and jobs are carried on, the database looks for deadlocks, and *)
(* it gives a row that becomes free to who waits for it (its lock queues   *)
(* are first come, first served), not again and again to newcomers.        *)
FairSpec ==
    /\ Spec
    /\ \A s \in Slots : SF_vars(Step(s)) /\ WF_vars(BreakDeadlock(s))

-----------------------------------------------------------------------------

TypeOK ==
    /\ rows \in [Plays -> Row \union {None}]
    /\ stats \in Stats \union {None}
    /\ banned \in BOOLEAN
    /\ chart_ranked \in [Charts -> BOOLEAN]
    /\ jobs \subseteq Job
    /\ forgotten \subseteq Charts
    /\ board \in (SUBSET Plays) \union {None}
    /\ handler \in [Slots -> Handler \union {None}]
    /\ missed \in BOOLEAN
    /\ overlapped \subseteq {"stats", "rows"}
    /\ spent \in Bounds

Quiet == jobs = {} /\ \A s \in Slots : Idle(s)
Recorded == {p \in Plays : rows[p] # None}

(* When no request or job is left, the stored statistics are those of the  *)
(* stored rows, as a full refresh would compute them.                      *)
StatsExact ==
    Quiet => IF Recorded = {} THEN stats = None ELSE stats = Totals(rows)

(* So they are unless a review, a job or a status change overlapped with   *)
(* another transaction and no refresh has had the player to itself since:  *)
(* submissions may overlap as they like.                                   *)
StatsFollowRows == "stats" \notin overlapped => StatsExact

(* Likewise one play of a chart, the best of those that show, is the       *)
(* chart's best, and one, the best of those marked as ranked, is the       *)
(* profile's. Marked are the plays that count on a ranked chart, unless    *)
(* the job for the chart's last change of status was never queued: nothing *)
(* else loses a change of status, though jobs run and fail side by side.   *)
BeatenBy(p, S) == \E q \in S : ChartOf[q] = ChartOf[p] /\ Strength[q] > Strength[p]
BestsFollowRows ==
    LET shown == {p \in Recorded : rows[p].eligible /\ rows[p].status # "rejected"}
        marked == {p \in Recorded : rows[p].ranked}
    IN  Quiet /\ "rows" \notin overlapped =>
            \A p \in Recorded :
               /\ ChartOf[p] \notin forgotten =>
                      (p \in marked <=> p \in shown /\ chart_ranked[ChartOf[p]])
               /\ rows[p].chart_best <=> p \in shown /\ ~BeatenBy(p, shown)
               /\ rows[p].profile_best <=> p \in marked /\ ~BeatenBy(p, marked)

(* The board differs from the stored standing only while a sync is still   *)
(* to read it or to write it as it is now, or after a write of the board   *)
(* failed or came too late: nobody changes a standing and forgets it.      *)
BoardFollows ==
    board # Standing =>
        \/ missed
        \/ \E s \in Slots : At(s, "committed") \/ (At(s, "synced") /\ handler[s].score = Standing)

(* No request or job waits for ever for another, whatever jobs run at      *)
(* once: whoever is in a slot leaves it.                                   *)
EveryHandlerEnds == \A s \in Slots : []<>Idle(s)
=============================================================================
