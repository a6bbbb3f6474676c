--------------------------- MODULE RankingProofs ---------------------------
(***************************************************************************)
(* What Ranking guarantees for any plays, charts, slots and bounds: its    *)
(* types, that nobody changes a standing and forgets the board, and that   *)
(* statistics and bests follow the rows (Sound, below).                    *)
(***************************************************************************)
EXTENDS Ranking, FiniteSetTheorems, TLAPS

Rows == [Plays -> Row \union {None}]

(* A transaction that is to compute has a chart, one that is to commit has *)
(* statistics to flush, and what it loaded before is still there, since    *)
(* statistics are never deleted.                                           *)
Prepared(h, stored) ==
  /\ h.at \in {"loaded", "locked", "updating", "queueing"} => h.chart \in Charts
  /\ h.at = "computed" => h.next # None
  /\ h.loaded # None => stored # None

Typed == TypeOK /\ \A s \in Slots : handler[s] # None => Prepared(handler[s], stats)

-----------------------------------------------------------------------------
(* The types of the bests and of the statistics.                           *)

LEMMA ChartBestTyped ==
  ASSUME NEW v \in Rows, NEW c
  PROVE  RefreshChartBest(v, c) \in Rows
<1> DEFINE shown == {p \in Group(v, c) : v[p].status # "rejected" /\ v[p].eligible}
<1>1. ASSUME NEW p \in Group(v, c)
      PROVE  [v[p] EXCEPT !.chart_best = p \in Best(shown)] \in Row
  <2>1. v[p] \in Row
    BY <1>1 DEF Group, Rows
  <2>2. \A b \in BOOLEAN : [v[p] EXCEPT !.chart_best = b] \in Row
    BY <2>1 DEF Row
  <2>3. (p \in Best(shown)) \in BOOLEAN
    OBVIOUS
  <2> HIDE DEF shown
  <2>4. QED
    BY <2>2, <2>3, Zenon
<1> HIDE DEF shown
<1>2. [p \in Plays |-> IF p \in Group(v, c)
                       THEN [v[p] EXCEPT !.chart_best = p \in Best(shown)] ELSE v[p]] \in Rows
  BY <1>1 DEF Rows
<1>3. QED
  BY <1>2 DEF RefreshChartBest, shown

LEMMA ProfileBestTyped ==
  ASSUME NEW v \in Rows, NEW c
  PROVE  RefreshProfileBest(v, c) \in Rows
<1> DEFINE ranked == {p \in Group(v, c) : v[p].ranked}
<1>1. ASSUME NEW p \in Group(v, c)
      PROVE  [v[p] EXCEPT !.profile_best = p \in Best(ranked)] \in Row
  <2>1. v[p] \in Row
    BY <1>1 DEF Group, Rows
  <2>2. \A b \in BOOLEAN : [v[p] EXCEPT !.profile_best = b] \in Row
    BY <2>1 DEF Row
  <2>3. (p \in Best(ranked)) \in BOOLEAN
    OBVIOUS
  <2> HIDE DEF ranked
  <2>4. QED
    BY <2>2, <2>3, Zenon
<1> HIDE DEF ranked
<1>2. [p \in Plays |-> IF p \in Group(v, c)
                       THEN [v[p] EXCEPT !.profile_best = p \in Best(ranked)] ELSE v[p]] \in Rows
  BY <1>1 DEF Rows
<1>3. QED
  BY <1>2 DEF RefreshProfileBest, ranked

LEMMA BestsTyped ==
  ASSUME NEW v \in Rows, NEW c
  PROVE  RefreshBests(v, c) \in Rows
BY ChartBestTyped, ProfileBestTyped DEF RefreshBests

(* There are no more plays than plays.                                     *)
LEMMA CountInRange ==
  ASSUME NEW S \in SUBSET Plays
  PROVE  Cardinality(S) \in 0 .. Cardinality(Plays)
BY FS_Subset, FS_CardinalityType, RankingAssumption

(* Totals are statistics.                                                  *)
LEMMA TotalsTyped ==
  ASSUME NEW v
  PROVE  Totals(v) \in Stats
<1> DEFINE seen == {p \in Plays : v[p] # None}
<1>1. Cardinality({p \in seen : v[p].status # "rejected"}) \in 0 .. Cardinality(Plays)
  BY CountInRange
<1>2. Cardinality({p \in seen : v[p].ranked}) \in 0 .. Cardinality(Plays)
  BY CountInRange
<1>3. {p \in seen : v[p].profile_best} \in SUBSET Plays
  OBVIOUS
<1>4. QED
  BY <1>1, <1>2, <1>3 DEF Totals, Stats

(* Flushing some of the columns leaves statistics. *)
LEMMA FlushedTyped ==
  ASSUME NEW h, h.next \in Stats, h.loaded # None => stats \in Stats
  PROVE  Flushed(h) \in Stats
<1> DEFINE f == Flushed(h)
<1>1. DOMAIN h.next = {"plays", "ranked", "top"}
  BY DEF Stats
<1>2. h.loaded = None => Changed(h) = DOMAIN h.next
  BY DEF Changed
<1>3. f = [plays |-> f["plays"], ranked |-> f["ranked"], top |-> f["top"]]
  BY <1>1 DEF Flushed
<1>4. CASE h.loaded = None
  <2>1. f["plays"] = h.next["plays"] /\ f["ranked"] = h.next["ranked"] /\ f["top"] = h.next["top"]
    BY <1>1, <1>2, <1>4 DEF Flushed
  <2> HIDE DEF f
  <2>2. QED
    BY <1>3, <2>1 DEF Stats, f
<1>5. CASE h.loaded # None
  <2>1. \A k \in {"plays", "ranked", "top"} : f[k] \in {h.next[k], stats[k]}
    BY <1>1 DEF Flushed
  <2>2. stats \in Stats
    BY <1>5
  <2>3. /\ f["plays"] \in 0 .. Cardinality(Plays)
        /\ f["ranked"] \in 0 .. Cardinality(Plays)
        /\ f["top"] \in SUBSET Plays
    BY <2>1, <2>2 DEF Stats
  <2> HIDE DEF f
  <2>4. QED
    BY <1>3, <2>3 DEF Stats, f
<1>6. QED
  BY <1>4, <1>5

(* A handler that starts has its type and nothing to commit.               *)
LEMMA NewHandlerTyped ==
  ASSUME NEW kind \in {"submit", "review", "status", "apply", "refresh", "restrict", "rebuild"},
         NEW at \in {"loaded", "locked", "updating", "computed", "committed", "queueing", "synced"}
  PROVE  NewHandler(kind, at) \in Handler
BY DEF NewHandler, NothingWritten, Handler

(* What ends with Computed leaves every handler typed and prepared. *)
LEMMA ComputedTyped ==
  ASSUME Typed, NEW s \in Slots, NEW h \in Handler, NEW v, NEW w \in Rows, NEW c,
         NEW loaded \in Stats \union {None}, loaded # None => stats # None,
         Computed(s, h, v, w, c, loaded), UNCHANGED stats
  PROVE  /\ handler' \in [Slots -> Handler \union {None}]
         /\ \A t \in Slots : handler'[t] # None => Prepared(handler'[t], stats)
<1> DEFINE mine == [p \in Plays |-> IF w[p] # rows[p] \/ p \in Touched(v, w, c)
                                    THEN w[p] ELSE None]
           next == Totals(w)
           new == [h EXCEPT !.at = "computed", !.loaded = loaded, !.next = next,
                            !.mine = mine]
<1>1. mine \in Rows
  BY DEF Rows
<1>2. next \in Stats
  BY TotalsTyped
<1>3. handler' = [handler EXCEPT ![s] = new]
  BY DEF Computed
<1> HIDE DEF mine, next
<1>4. new \in Handler
  BY <1>1, <1>2 DEF Handler, Rows
<1>5. new.at = "computed" /\ new.next = next /\ new.loaded = loaded
  BY DEF Handler
<1> HIDE DEF new
<1>6. Prepared(new, stats)
  BY <1>2, <1>5, NoneAssumption DEF Prepared
<1>7. QED
  BY <1>3, <1>4, <1>6 DEF Typed, TypeOK, Prepared

-----------------------------------------------------------------------------
(* Every step keeps the types.                                             *)

LEMMA InitTyped == Init => Typed
<1> SUFFICES ASSUME Init PROVE Typed
  OBVIOUS
<1>1. spent \in Bounds
  BY RankingAssumption DEF Init, Bounds
<1>2. QED
  BY <1>1 DEF Init, Typed, TypeOK

(* The bounded events and overlaps keep their types.                       *)
LEMMA SpendTyped ==
  ASSUME Typed, NEW k \in {"reviews", "status", "disturbances"}, NEW max,
         max = (IF k = "reviews" THEN MaxReviews
                ELSE IF k = "status" THEN MaxStatusChanges ELSE MaxDisturbances),
         Spend(k, max)
  PROVE  spent' \in Bounds
<1>1. spent \in Bounds
  BY DEF Typed, TypeOK
<1>2. spent[k] + 1 \in 0 .. max
  BY <1>1, RankingAssumption DEF Bounds, Spend
<1>3. spent' = [spent EXCEPT ![k] = spent[k] + 1]
  BY DEF Spend
<1>4. CASE k = "reviews"
  BY <1>1, <1>2, <1>3, <1>4 DEF Bounds
<1>5. CASE k = "status"
  BY <1>1, <1>2, <1>3, <1>5 DEF Bounds
<1>6. CASE k = "disturbances"
  BY <1>1, <1>2, <1>3, <1>6 DEF Bounds
<1>7. QED
  BY <1>4, <1>5, <1>6

LEMMA OverlapTyped ==
  ASSUME Typed, NEW s, NEW kind
  PROVE  OverlappedBy(s, kind) \subseteq {"stats", "rows"}
BY DEF Typed, TypeOK, OverlappedBy

(* A handler that is set to something prepared, the statistics kept. *)
LEMMA HandlerTyped ==
  ASSUME Typed, NEW s \in Slots, NEW h \in Handler \union {None},
         h # None => Prepared(h, stats),
         handler' = [handler EXCEPT ![s] = h], UNCHANGED stats
  PROVE  /\ handler' \in [Slots -> Handler \union {None}]
         /\ \A t \in Slots : handler'[t] # None => Prepared(handler'[t], stats')
BY DEF Typed, TypeOK

LEMMA StartSubmitTyped ==
  ASSUME Typed, NEW s \in Slots, NEW p \in Plays, StartSubmit(s, p)
  PROVE  Typed'
<1> DEFINE h == [NewHandler("submit", "loaded") EXCEPT
                    !.play = p, !.chart = ChartOf[p],
                    !.rankable = chart_ranked[ChartOf[p]], !.loaded = stats]
<1>1. NewHandler("submit", "loaded") \in Handler
  BY NewHandlerTyped
<1>2. ChartOf[p] \in Charts /\ chart_ranked[ChartOf[p]] \in BOOLEAN
  BY RankingAssumption DEF Typed, TypeOK
<1>3. h \in Handler
  BY <1>1, <1>2 DEF Handler, Typed, TypeOK
<1>4. h.at = "loaded" /\ h.loaded = stats /\ h.chart \in Charts
  BY <1>1, <1>2 DEF Handler, NewHandler
<1>5. handler' = [handler EXCEPT ![s] = h] /\ UNCHANGED stats
  BY DEF StartSubmit, Begin
<1> HIDE DEF h
<1>6. Prepared(h, stats)
  BY <1>4 DEF Prepared
<1>7. overlapped' \subseteq {"stats", "rows"}
  BY OverlapTyped DEF StartSubmit
<1>8. QED
  BY <1>3, <1>5, <1>6, <1>7, HandlerTyped DEF StartSubmit, Typed, TypeOK

LEMMA LockUserTyped ==
  ASSUME Typed, NEW s \in Slots, LockUser(s)
  PROVE  Typed'
<1> DEFINE h == [handler[s] EXCEPT !.at = "locked"]
<1>1. handler[s] \in Handler /\ Prepared(handler[s], stats)
  BY DEF LockUser, At, Typed, TypeOK
<1>2. h \in Handler /\ h.at = "locked" /\ h.loaded = handler[s].loaded
        /\ h.chart = handler[s].chart /\ handler[s].at = "loaded"
  BY <1>1 DEF Handler, LockUser, At
<1>3. handler' = [handler EXCEPT ![s] = h]
  BY DEF LockUser
<1> HIDE DEF h
<1>4. Prepared(h, stats)
  BY <1>1, <1>2 DEF Prepared
<1>5. QED
  BY <1>2, <1>3, <1>4, HandlerTyped DEF LockUser, Typed, TypeOK

LEMMA ComputeSubmitTyped ==
  ASSUME Typed, NEW s \in Slots, ComputeSubmit(s)
  PROVE  Typed'
<1> DEFINE h == handler[s]
           row == [status |-> "verified", eligible |-> h.play \notin Casual,
                   ranked |-> h.play \notin Casual /\ h.rankable,
                   chart_best |-> FALSE, profile_best |-> FALSE]
           v == [rows EXCEPT ![h.play] = row]
<1>1. h \in Handler /\ (h.loaded # None => stats # None)
  BY DEF ComputeSubmit, Doing, At, Typed, TypeOK, Prepared
<1>2. row \in Row
  <2>1. h.rankable \in BOOLEAN
    BY <1>1 DEF Handler
  <2>2. QED
    BY <2>1 DEF Row
<1>3. v \in Rows
  <2> HIDE DEF row
  <2>1. QED
    BY <1>2 DEF Rows, Typed, TypeOK
<1>4. RefreshBests(v, h.chart) \in Rows /\ h.loaded \in Stats \union {None}
  <2>1. QED
    BY <1>1, <1>3, BestsTyped DEF Handler
<1>5. CASE h.loaded = None /\ stats # None
  <2>1. handler' = [handler EXCEPT ![s] = None]
    BY <1>5 DEF ComputeSubmit, Collided
  <2>2. QED
    BY <2>1, HandlerTyped DEF ComputeSubmit, Typed, TypeOK
<1>6. CASE ~(h.loaded = None /\ stats # None)
  <2>1. \E w \in {RefreshBests(v, h.chart)} : Computed(s, h, v, w, h.chart, h.loaded)
    BY <1>6, Zenon DEF ComputeSubmit
  <2>2. Computed(s, h, v, RefreshBests(v, h.chart), h.chart, h.loaded) /\ UNCHANGED stats
    BY <2>1, Zenon DEF ComputeSubmit
  <2> HIDE DEF h, v
  <2>3. QED
    BY <1>1, <1>4, <2>2, ComputedTyped DEF ComputeSubmit, Typed, TypeOK
<1>7. QED
  BY <1>5, <1>6

LEMMA ReviewTyped ==
  ASSUME Typed, NEW s \in Slots, NEW p \in Plays, NEW approve \in BOOLEAN,
         Review(s, p, approve)
  PROVE  Typed'
<1> DEFINE c == ChartOf[p]
           v == [rows EXCEPT ![p].status = IF approve THEN "verified" ELSE "rejected",
                             ![p].eligible = @ \/ approve,
                             ![p].ranked = approve /\ chart_ranked[c]]
           h == [NewHandler("review", "computed") EXCEPT !.play = p, !.chart = c]
<1>1. c \in Charts /\ chart_ranked[c] \in BOOLEAN
  BY RankingAssumption DEF Typed, TypeOK
<1>2. rows \in Rows /\ rows[p] \in Row
  BY DEF Review, Typed, TypeOK, Rows
<1>3. v \in Rows
  <2> HIDE DEF c
  <2> DEFINE a == rows[p].eligible \/ approve
             b == approve /\ chart_ranked[c]
             st == IF approve THEN "verified" ELSE "rejected"
             v1 == [rows EXCEPT ![p].status = st]
             v2 == [v1 EXCEPT ![p].eligible = a]
             v3 == [v2 EXCEPT ![p].ranked = b]
  <2>1. a \in BOOLEAN /\ b \in BOOLEAN /\ st \in {"verified", "rejected"}
    BY <1>1, <1>2 DEF Row
  <2> HIDE DEF b, st
  <2>2. v1 \in Rows /\ v1[p] \in Row /\ v1[p].eligible = rows[p].eligible
    BY <1>2, <2>1 DEF Row, Rows
  <2> HIDE DEF v1, a
  <2>3. v2 \in Rows /\ v2[p] \in Row
    BY <2>1, <2>2 DEF Row, Rows
  <2> HIDE DEF v2
  <2>4. v3 \in Rows
    BY <2>1, <2>3 DEF Row, Rows
  <2>5. v = v3
    BY <2>2 DEF v1, v2, v3, a, b, st
  <2>6. QED
    BY <2>4, <2>5
<1>4. h \in Handler
  <2>1. NewHandler("review", "computed") \in Handler
    BY NewHandlerTyped
  <2> HIDE DEF c
  <2>2. QED
    BY <1>1, <2>1 DEF Handler
<1>5. RefreshBests(v, c) \in Rows
  BY <1>3, BestsTyped
<1>6. Computed(s, h, v, RefreshBests(v, c), c, stats) /\ UNCHANGED stats
  BY Zenon DEF Review
<1>7. stats \in Stats \union {None}
  BY DEF Typed, TypeOK
<1>8. spent' \in Bounds
  BY SpendTyped DEF Review
<1>9. overlapped' \subseteq {"stats", "rows"}
  BY OverlapTyped DEF Review
<1> HIDE DEF c, v, h
<1>10. /\ handler' \in [Slots -> Handler \union {None}]
       /\ \A t \in Slots : handler'[t] # None => Prepared(handler'[t], stats)
  BY <1>4, <1>5, <1>6, <1>7, ComputedTyped
<1>11. QED
  BY <1>6, <1>8, <1>9, <1>10 DEF Review, Typed, TypeOK

LEMMA CommitTyped ==
  ASSUME Typed, NEW s \in Slots, Commit(s)
  PROVE  Typed'
<1> DEFINE h == handler[s]
           new == NewHandler(h.kind, "committed")
<1>1. h \in Handler /\ h.next \in Stats /\ (h.loaded # None => stats \in Stats)
  <2>1. h \in Handler /\ Prepared(h, stats) /\ h.at = "computed"
    BY DEF Commit, At, Typed, TypeOK
  <2>2. h.next \in Stats \union {None} /\ stats \in Stats \union {None}
    BY <2>1 DEF Handler, Typed, TypeOK
  <2>3. QED
    BY <2>1, <2>2 DEF Prepared
<1>2. stats' \in Stats /\ stats' # None
  BY <1>1, FlushedTyped, NoneAssumption DEF Commit
<1>3. new \in Handler
  <2>1. h.kind \in {"submit", "review", "status", "apply", "refresh", "restrict", "rebuild"}
    BY <1>1 DEF Handler
  <2>2. QED
    BY <2>1, NewHandlerTyped
<1>4. new.at = "committed" /\ new.loaded = None
  BY DEF NewHandler
<1>5. handler' = [handler EXCEPT ![s] = new]
  BY DEF Commit, AfterCommit
<1>6. rows' \in Rows
  <2>1. \A p \in Plays : View(s)[p] \in Row \union {None}
    BY <1>1 DEF View, Handler, Typed, TypeOK
  <2>2. QED
    BY <2>1 DEF Commit, View, Rows
<1> HIDE DEF new
<1>7. \A t \in Slots : handler'[t] # None => Prepared(handler'[t], stats')
  BY <1>2, <1>4, <1>5 DEF Prepared, Typed, TypeOK
<1>8. QED
  BY <1>2, <1>3, <1>5, <1>6, <1>7 DEF Commit, Typed, TypeOK, Rows

LEMMA SetChartStatusTyped ==
  ASSUME Typed, NEW s \in Slots, NEW c \in Charts, SetChartStatus(s, c)
  PROVE  Typed'
<1> DEFINE n == NewHandler("status", "queueing")
           h == [n EXCEPT !.chart = c]
<1>1. n \in Handler /\ n.at = "queueing" /\ n.loaded = None
  BY NewHandlerTyped DEF NewHandler
<1>2. handler' = [handler EXCEPT ![s] = h] /\ UNCHANGED stats
  BY DEF SetChartStatus, Begin
<1> HIDE DEF n
<1>3. h \in Handler /\ h.at = "queueing" /\ h.loaded = None /\ h.chart = c
  BY <1>1 DEF Handler
<1> HIDE DEF h
<1>4. Prepared(h, stats)
  BY <1>3 DEF Prepared
<1>5. spent' \in Bounds
  BY SpendTyped DEF SetChartStatus
<1>6. QED
  BY <1>2, <1>3, <1>4, <1>5, HandlerTyped DEF SetChartStatus, Typed, TypeOK

(* The chart of a change of status whose job is still to be queued.        *)
LEMMA QueueingTyped ==
  ASSUME Typed, NEW s \in Slots, At(s, "queueing")
  PROVE  handler[s].chart \in Charts
BY DEF At, Typed, Prepared

LEMMA EnqueueTyped ==
  ASSUME Typed, NEW s \in Slots, Enqueue(s)
  PROVE  Typed'
<1>1. jobs' \subseteq Job
  BY QueueingTyped DEF Enqueue, Job, Typed, TypeOK
<1>2. QED
  BY <1>1, HandlerTyped DEF Enqueue, Typed, TypeOK

LEMMA EnqueueFailsTyped ==
  ASSUME Typed, NEW s \in Slots, EnqueueFails(s)
  PROVE  Typed'
<1>1. spent' \in Bounds
  BY SpendTyped DEF EnqueueFails
<1>2. forgotten' \subseteq Charts
  BY QueueingTyped DEF EnqueueFails, Typed, TypeOK
<1>3. QED
  BY <1>1, <1>2, HandlerTyped DEF EnqueueFails, Typed, TypeOK

LEMMA StartJobTyped ==
  ASSUME Typed, NEW s \in Slots, NEW j, StartJob(s, j)
  PROVE  Typed'
<1> DEFINE at == IF j.kind = "apply" THEN "updating" ELSE "loaded"
           h == [NewHandler(j.kind, at) EXCEPT
                    !.chart = j.chart, !.rankable = chart_ranked[j.chart], !.loaded = stats]
<1>1. j.kind \in {"apply", "refresh"} /\ j.chart \in Charts
  BY DEF StartJob, Job, Typed, TypeOK
<1>2. NewHandler(j.kind, at) \in Handler /\ at \in {"updating", "loaded"}
  BY <1>1, NewHandlerTyped
<1>3. chart_ranked[j.chart] \in BOOLEAN
  BY <1>1 DEF Typed, TypeOK
<1>4. handler' = [handler EXCEPT ![s] = h] /\ UNCHANGED stats
  BY DEF StartJob, Begin
<1>5. (NewHandler(j.kind, at)).at = at
  BY DEF NewHandler
<1> HIDE DEF at
<1>6. h \in Handler
  BY <1>1, <1>2, <1>3 DEF Handler, Typed, TypeOK
<1>7. h.at = at /\ h.loaded = stats /\ h.chart \in Charts
  BY <1>1, <1>2, <1>5 DEF Handler
<1> HIDE DEF h
<1>8. Prepared(h, stats)
  BY <1>2, <1>7 DEF Prepared
<1>9. overlapped' \subseteq {"stats", "rows"}
  <2>1. OverlappedBy(s, j.kind) \subseteq {"stats", "rows"}
    BY OverlapTyped
  <2>2. overlapped' \subseteq OverlappedBy(s, j.kind)
    BY DEF StartJob
  <2>3. QED
    BY <2>1, <2>2
<1>10. forgotten' \subseteq Charts
  BY DEF StartJob, Typed, TypeOK
<1>11. QED
  BY <1>4, <1>6, <1>8, <1>9, <1>10, HandlerTyped DEF StartJob, Typed, TypeOK

LEMMA ApplyTyped ==
  ASSUME Typed, NEW s \in Slots, ApplyChartStatus(s)
  PROVE  Typed'
<1> DEFINE h == handler[s]
           played == Group(rows, h.chart)
           ranked(p) == h.rankable /\ rows[p].eligible /\ rows[p].status # "rejected"
<1>1. h \in Handler
  BY DEF ApplyChartStatus, At, Typed, TypeOK
<1>2. ASSUME NEW p \in played
      PROVE  [rows[p] EXCEPT !.ranked = ranked(p)] \in Row
  <2>1. rows[p] \in Row /\ h.rankable \in BOOLEAN
    BY <1>1, <1>2 DEF Group, Handler, Typed, TypeOK
  <2>2. ranked(p) \in BOOLEAN
    BY <2>1 DEF Row
  <2>3. \A b \in BOOLEAN : [rows[p] EXCEPT !.ranked = b] \in Row
    BY <2>1 DEF Row
  <2> HIDE DEF ranked, played
  <2>4. QED
    BY <2>2, <2>3, Zenon
<1>3. rows' = [p \in Plays |-> IF p \in played
                               THEN [rows[p] EXCEPT !.ranked = ranked(p)] ELSE rows[p]]
  BY DEF ApplyChartStatus
<1>4. jobs' \subseteq Job
  BY RankingAssumption DEF ApplyChartStatus, Group, Job, Typed, TypeOK
<1> HIDE DEF played, ranked
<1>5. rows' \in Rows
  BY <1>2, <1>3 DEF Rows, Typed, TypeOK
<1>6. /\ handler' \in [Slots -> Handler \union {None}]
      /\ \A t \in Slots : handler'[t] # None => Prepared(handler'[t], stats')
  BY HandlerTyped DEF ApplyChartStatus
<1>7. QED
  BY <1>4, <1>5, <1>6 DEF ApplyChartStatus, Typed, TypeOK, Rows

LEMMA ComputeRefreshTyped ==
  ASSUME Typed, NEW s \in Slots, ComputeRefresh(s)
  PROVE  Typed'
<1> DEFINE h == handler[s]
           w == RefreshProfileBest(rows, h.chart)
<1>1. h \in Handler /\ rows \in Rows /\ stats \in Stats \union {None}
  BY DEF ComputeRefresh, Doing, At, Typed, TypeOK, Rows
<1>2. w \in Rows
  BY <1>1, ProfileBestTyped
<1>3. Computed(s, h, rows, w, h.chart, stats) /\ UNCHANGED stats
  BY Zenon DEF ComputeRefresh
<1> HIDE DEF h, w
<1>4. QED
  BY <1>1, <1>2, <1>3, ComputedTyped DEF ComputeRefresh, Typed, TypeOK

LEMMA SetRestrictionTyped ==
  ASSUME Typed, NEW s \in Slots, SetRestriction(s)
  PROVE  Typed'
<1> DEFINE h == NewHandler("restrict", "committed")
<1>1. h \in Handler
  BY NewHandlerTyped
<1>2. Prepared(h, stats)
  BY DEF NewHandler, Prepared
<1>3. handler' = [handler EXCEPT ![s] = h] /\ UNCHANGED stats
  BY DEF SetRestriction, Begin
<1> HIDE DEF h
<1>4. spent' \in Bounds
  BY SpendTyped DEF SetRestriction
<1>5. QED
  BY <1>1, <1>2, <1>3, <1>4, HandlerTyped DEF SetRestriction, Typed, TypeOK

LEMMA StandingTyped == ASSUME Typed PROVE Standing \in (SUBSET Plays) \union {None}
BY DEF Typed, TypeOK, Standing, OnLeaderboard, Stats

(* A handler that has read the standing. *)
LEMMA SyncedTyped ==
  ASSUME Typed, NEW kind \in {"submit", "review", "status", "apply", "refresh", "restrict", "rebuild"}
  PROVE  LET h == [NewHandler(kind, "synced") EXCEPT !.score = Standing]
         IN  h \in Handler /\ Prepared(h, stats) /\ h.at = "synced" /\ h.score = Standing
<1> DEFINE n == NewHandler(kind, "synced")
           h == [n EXCEPT !.score = Standing]
<1>1. n \in Handler
  BY NewHandlerTyped
<1>2. n.at = "synced" /\ n.loaded = None
  BY DEF NewHandler
<1> HIDE DEF n
<1>3. h \in Handler /\ h.at = n.at /\ h.loaded = n.loaded /\ h.score = Standing
  BY <1>1, StandingTyped DEF Handler
<1>4. QED
  BY <1>2, <1>3 DEF Prepared, n

LEMMA ReadStandingTyped ==
  ASSUME Typed, NEW s \in Slots, ReadStanding(s)
  PROVE  Typed' /\ handler'[s].at = "synced" /\ handler'[s].score = Standing
                /\ handler'[s] # None
<1> DEFINE h == [NewHandler(handler[s].kind, "synced") EXCEPT !.score = Standing]
<1>1. handler[s] \in Handler
  BY DEF ReadStanding, At, Typed, TypeOK
<1>2. handler[s].kind \in {"submit", "review", "status", "apply", "refresh", "restrict", "rebuild"}
  BY <1>1 DEF Handler
<1>3. h \in Handler /\ Prepared(h, stats) /\ h.at = "synced" /\ h.score = Standing
  BY <1>2, SyncedTyped
<1>4. handler' = [handler EXCEPT ![s] = h] /\ UNCHANGED stats
  BY DEF ReadStanding
<1> HIDE DEF h
<1>5. QED
  BY <1>3, <1>4, HandlerTyped, NoneAssumption DEF ReadStanding, Typed, TypeOK

LEMMA StartRebuildTyped ==
  ASSUME Typed, NEW s \in Slots, StartRebuild(s)
  PROVE  Typed'
<1> DEFINE h == [NewHandler("rebuild", "synced") EXCEPT !.score = Standing]
<1>1. h \in Handler /\ Prepared(h, stats)
  BY SyncedTyped
<1>2. handler' = [handler EXCEPT ![s] = h] /\ UNCHANGED stats
  BY DEF StartRebuild, Begin
<1> HIDE DEF h
<1>3. spent' \in Bounds
  BY SpendTyped DEF StartRebuild
<1>4. QED
  BY <1>1, <1>2, <1>3, HandlerTyped DEF StartRebuild, Typed, TypeOK

LEMMA WriteBoardTyped ==
  ASSUME Typed, NEW s \in Slots, WriteBoard(s)
  PROVE  Typed'
<1>1. handler[s].score \in (SUBSET Plays) \union {None}
  BY DEF WriteBoard, At, Typed, TypeOK, Handler
<1>2. QED
  BY <1>1, HandlerTyped DEF WriteBoard, Typed, TypeOK

LEMMA BoardFailsTyped ==
  ASSUME Typed, NEW s \in Slots, BoardFails(s)
  PROVE  Typed'
<1>1. spent' \in Bounds
  BY SpendTyped DEF BoardFails
<1>2. QED
  BY <1>1, HandlerTyped DEF BoardFails, Typed, TypeOK

LEMMA RequeuedTyped ==
  ASSUME Typed, NEW s \in Slots,
         At(s, "updating") \/ At(s, "locked") \/ Doing(s, "review", "computed")
  PROVE  Requeued(s) \subseteq Job
<1>1. CASE handler[s].kind \in {"apply", "refresh"}
  <2>1. handler[s].chart \in Charts
    BY <1>1 DEF Typed, Prepared, Doing, At
  <2>2. QED
    BY <1>1, <2>1 DEF Requeued, Job, Typed, TypeOK
<1>2. QED
  BY <1>1 DEF Requeued, Typed, TypeOK

LEMMA BreakDeadlockTyped ==
  ASSUME Typed, NEW s \in Slots, BreakDeadlock(s)
  PROVE  Typed'
<1>1. At(s, "locked") \/ Doing(s, "review", "computed")
  BY DEF BreakDeadlock, WaitsForRows
<1>2. jobs' \subseteq Job
  BY <1>1, RequeuedTyped DEF BreakDeadlock
<1>3. QED
  BY <1>2, HandlerTyped DEF BreakDeadlock, Typed, TypeOK

LEMMA CrossUpdatesTyped ==
  ASSUME Typed, NEW s \in Slots, CrossUpdates(s)
  PROVE  Typed'
<1>1. At(s, "locked") \/ At(s, "updating")
  BY DEF CrossUpdates
<1>2. jobs' \subseteq Job
  BY <1>1, RequeuedTyped DEF CrossUpdates
<1>3. QED
  BY <1>2, HandlerTyped DEF CrossUpdates, Typed, TypeOK

LEMMA NextTyped == Typed /\ [Next]_vars => Typed'
<1> SUFFICES ASSUME Typed, [Next]_vars PROVE Typed'
  OBVIOUS
<1>1. CASE UNCHANGED vars
  BY <1>1 DEF vars, Typed, TypeOK, Prepared
<1>2. ASSUME NEW s \in Slots, Step(s) PROVE Typed'
  BY <1>2, LockUserTyped, ComputeSubmitTyped, CommitTyped, ApplyTyped, ComputeRefreshTyped,
     ReadStandingTyped, WriteBoardTyped, EnqueueTyped DEF Step
<1>3. QED
  BY <1>1, <1>2, BoardFailsTyped, EnqueueFailsTyped, BreakDeadlockTyped, CrossUpdatesTyped,
     SetRestrictionTyped, StartRebuildTyped, StartSubmitTyped, ReviewTyped, StartJobTyped,
     SetChartStatusTyped DEF Next

\* The server's rows, statistics, jobs and handlers keep their types, whoever
\* overlaps with whom: a commit finds statistics to flush, and a flush that
\* writes some of the columns finds the others there.
THEOREM RankingTyped == Spec => []TypeOK
<1>1. Typed => TypeOK
  BY DEF Typed
<1>2. QED
  BY <1>1, InitTyped, NextTyped, PTL DEF Spec

-----------------------------------------------------------------------------
(* The board.                                                              *)

BoardTyped == Typed /\ BoardFollows

(* A step that leaves the standing and the board alone, and the syncs that *)
(* are under way.                                                          *)
LEMMA BoardKept ==
  ASSUME Typed, BoardFollows, NEW s, ~At(s, "committed"), ~At(s, "synced"),
         \A t \in Slots : t # s => handler'[t] = handler[t],
         UNCHANGED <<board, missed, banned, stats>>
  PROVE  BoardFollows'
<1>1. Standing' = Standing
  BY DEF Standing, OnLeaderboard
<1> HIDE DEF Standing
<1>2. QED
  BY <1>1 DEF BoardFollows, At

(* Who changes a standing goes on to sync it.                              *)
LEMMA SyncFollows ==
  ASSUME NEW s \in Slots, handler'[s] # None, handler'[s].at = "committed"
  PROVE  BoardFollows'
BY DEF BoardFollows, At

LEMMA StepFollows ==
  ASSUME Typed, BoardFollows, NEW s \in Slots, Step(s)
  PROVE  BoardFollows'
<1>1. CASE LockUser(s)
  BY <1>1, BoardKept DEF LockUser, At, Typed, TypeOK
<1>2. CASE ComputeSubmit(s)
  <2>1. \A t \in Slots : t # s => handler'[t] = handler[t]
    BY <1>2 DEF ComputeSubmit, Collided, Computed, Typed, TypeOK
  <2>2. QED
    BY <1>2, <2>1, BoardKept DEF ComputeSubmit, Doing, At
<1>3. CASE Commit(s)
  <2> DEFINE new == NewHandler(handler[s].kind, "committed")
  <2>1. handler' = [handler EXCEPT ![s] = new]
    BY <1>3 DEF Commit, AfterCommit
  <2>2. handler[s] \in Handler
    BY <1>3 DEF Commit, At, Typed, TypeOK
  <2>3. new \in Handler /\ new.at = "committed"
    BY <2>2, NewHandlerTyped DEF Handler, NewHandler
  <2> HIDE DEF new
  <2>4. QED
    BY <2>1, <2>3, SyncFollows, NoneAssumption DEF Typed, TypeOK
<1>4. CASE ApplyChartStatus(s)
  BY <1>4, BoardKept DEF ApplyChartStatus, At, Typed, TypeOK
<1>5. CASE ComputeRefresh(s)
  <2>1. \A t \in Slots : t # s => handler'[t] = handler[t]
    BY <1>5 DEF ComputeRefresh, Computed, Typed, TypeOK
  <2>2. QED
    BY <1>5, <2>1, BoardKept DEF ComputeRefresh, Doing, At
<1>6. CASE ReadStanding(s)
  <2>1. handler'[s] # None /\ handler'[s].at = "synced" /\ handler'[s].score = Standing
    BY <1>6, ReadStandingTyped
  <2>2. Standing' = Standing
    BY <1>6 DEF ReadStanding, Standing, OnLeaderboard
  <2> HIDE DEF Standing
  <2>3. QED
    BY <2>1, <2>2 DEF BoardFollows, At
<1>7. CASE WriteBoard(s)
  <2>1. Standing' = Standing
    BY <1>7 DEF WriteBoard, Standing, OnLeaderboard
  <2> HIDE DEF Standing
  <2>2. QED
    BY <1>7, <2>1 DEF WriteBoard, BoardFollows
<1>8. CASE Enqueue(s)
  BY <1>8, BoardKept DEF Enqueue, At, Typed, TypeOK
<1>9. QED
  BY <1>1, <1>2, <1>3, <1>4, <1>5, <1>6, <1>7, <1>8 DEF Step

LEMMA NextFollows == BoardTyped /\ [Next]_vars => BoardTyped'
<1> SUFFICES ASSUME Typed, BoardFollows, [Next]_vars PROVE BoardFollows'
  BY NextTyped DEF BoardTyped
<1>1. CASE UNCHANGED vars
  <2>1. Standing' = Standing
    BY <1>1 DEF vars, Standing, OnLeaderboard
  <2> HIDE DEF Standing
  <2>2. QED
    BY <1>1, <2>1 DEF vars, BoardFollows, At
<1>2. ASSUME NEW s \in Slots, BoardFails(s) PROVE BoardFollows'
  BY <1>2 DEF BoardFails, BoardFollows
<1>3. ASSUME NEW s \in Slots, BreakDeadlock(s) \/ CrossUpdates(s) \/ EnqueueFails(s)
      PROVE  BoardFollows'
  <2>1. ~At(s, "committed") /\ ~At(s, "synced")
    BY <1>3 DEF BreakDeadlock, CrossUpdates, EnqueueFails, WaitsForRows, Doing, At
  <2>2. \A t \in Slots : t # s => handler'[t] = handler[t]
    BY <1>3 DEF BreakDeadlock, CrossUpdates, EnqueueFails, Typed, TypeOK
  <2>3. UNCHANGED <<board, missed, banned, stats>>
    BY <1>3 DEF BreakDeadlock, CrossUpdates, EnqueueFails
  <2>4. QED
    BY <2>1, <2>2, <2>3, BoardKept
<1>4. ASSUME NEW s \in Slots, SetRestriction(s) PROVE BoardFollows'
  <2> DEFINE new == NewHandler("restrict", "committed")
  <2>1. handler' = [handler EXCEPT ![s] = new]
    BY <1>4 DEF SetRestriction, Begin
  <2>2. new \in Handler /\ new.at = "committed"
    BY NewHandlerTyped DEF NewHandler
  <2> HIDE DEF new
  <2>3. QED
    BY <2>1, <2>2, SyncFollows, NoneAssumption DEF Typed, TypeOK
<1>5. ASSUME NEW s \in Slots,
             \/ StartRebuild(s)
             \/ \E p \in Plays : StartSubmit(s, p)
             \/ \E c \in Charts : SetChartStatus(s, c)
             \/ \E j \in jobs : StartJob(s, j)
      PROVE  BoardFollows'
  <2>1. Idle(s) /\ \A t \in Slots : t # s => handler'[t] = handler[t]
    BY <1>5 DEF StartRebuild, StartSubmit, SetChartStatus, StartJob, Begin, Typed, TypeOK
  <2>2. ~At(s, "committed") /\ ~At(s, "synced")
    BY <2>1 DEF Idle, At
  <2>3. UNCHANGED <<board, missed, banned, stats>>
    BY <1>5 DEF StartRebuild, StartSubmit, SetChartStatus, StartJob
  <2>4. QED
    BY <2>1, <2>2, <2>3, BoardKept
<1>6. ASSUME NEW s \in Slots, NEW p \in Plays, NEW approve \in BOOLEAN,
             Review(s, p, approve)
      PROVE  BoardFollows'
  <2>1. \A t \in Slots : t # s => handler'[t] = handler[t]
    BY <1>6 DEF Review, Computed, Typed, TypeOK
  <2>2. ~At(s, "committed") /\ ~At(s, "synced")
    BY <1>6 DEF Review, Idle, At
  <2>3. QED
    BY <1>6, <2>1, <2>2, BoardKept DEF Review
<1>7. QED
  BY <1>1, <1>2, <1>3, <1>4, <1>5, <1>6, StepFollows DEF Next

\* Whoever commits, restricts or rebuilds alongside, the board differs from the
\* stored standing only until a sync on its way writes it, or after a write
\* that failed or came too late.
THEOREM BoardIsFollowed == Spec => []BoardFollows
<1>1. Init => BoardTyped
  <2>1. Init => BoardFollows
    BY DEF Init, BoardFollows, Standing, OnLeaderboard
  <2>2. QED
    BY <2>1, InitTyped DEF BoardTyped
<1>2. BoardTyped => BoardFollows
  BY DEF BoardTyped
<1>3. QED
  BY <1>1, <1>2, NextFollows, PTL DEF Spec
-----------------------------------------------------------------------------
(* What the refreshes of the bests and the totals are of.                  *)

Marked(v) == {p \in Plays : v[p] # None /\ v[p].profile_best}
Shown(v, c) == {p \in Group(v, c) : v[p].status # "rejected" /\ v[p].eligible}
RankedIn(v, c) == {p \in Group(v, c) : v[p].ranked}

(* The marks of chart c are those of its bests, by what the rows say.      *)
ChartMarks(v, c) == \A p \in Group(v, c) : v[p].chart_best <=> p \in Best(Shown(v, c))
ProfileMarks(v, c) == \A p \in Group(v, c) : v[p].profile_best <=> p \in Best(RankedIn(v, c))

(* The same rows are there, and they agree in all but their marks.         *)
SameRow(x, y) ==
  /\ y = None <=> x = None
  /\ x # None => y.status = x.status /\ y.eligible = x.eligible /\ y.ranked = x.ranked
SameRows(v, w) == \A p \in Plays : SameRow(v[p], w[p])

(* Rows that differ only in their marks have the same bests to choose.     *)
LEMMA SameSets ==
  ASSUME NEW v, NEW w, SameRows(v, w), NEW c
  PROVE  /\ Group(w, c) = Group(v, c)
         /\ Shown(w, c) = Shown(v, c) /\ RankedIn(w, c) = RankedIn(v, c)
BY DEF SameRows, SameRow, Group, Shown, RankedIn

(* refresh_chart_best: the chart's marks are right and nothing else moves. *)
LEMMA ChartBestIs ==
  ASSUME NEW v \in Rows, NEW c
  PROVE  LET w == RefreshChartBest(v, c)
         IN  /\ w \in Rows /\ SameRows(v, w) /\ ChartMarks(w, c)
             /\ \A p \in Plays : v[p] # None => w[p].profile_best = v[p].profile_best
             /\ \A p \in Plays : ChartOf[p] # c => w[p] = v[p]
<1> DEFINE w == RefreshChartBest(v, c)
           S == Shown(v, c)
<1>1. w = [p \in Plays |-> IF p \in Group(v, c)
                           THEN [v[p] EXCEPT !.chart_best = p \in Best(S)] ELSE v[p]]
  BY DEF RefreshChartBest, Shown
<1>2. ASSUME NEW p \in Group(v, c)
      PROVE  /\ w[p] \in Row /\ SameRow(v[p], w[p])
             /\ w[p].chart_best <=> p \in Best(S)
             /\ w[p].profile_best = v[p].profile_best
  <2>1. v[p] \in Row /\ p \in Plays
    BY <1>2 DEF Group, Rows
  <2>2. \A b \in BOOLEAN :
          LET r == [v[p] EXCEPT !.chart_best = b]
          IN  /\ r \in Row /\ SameRow(v[p], r) /\ r.chart_best = b
              /\ r.profile_best = v[p].profile_best
    BY <2>1, NoneAssumption DEF Row, SameRow
  <2>3. (p \in Best(S)) \in BOOLEAN
    OBVIOUS
  <2>4. w[p] = [v[p] EXCEPT !.chart_best = p \in Best(S)]
    BY <1>1, <1>2, <2>1
  <2> HIDE DEF w, S
  <2>5. QED
    BY <2>2, <2>3, <2>4, Zenon
<1>3. \A p \in Plays : p \notin Group(v, c) => w[p] = v[p]
  BY <1>1
<1>4. \A p \in Plays : ChartOf[p] # c => p \notin Group(v, c)
  BY DEF Group
<1>5. w \in Rows
  BY ChartBestTyped
<1> HIDE DEF w, S
<1>6. SameRows(v, w)
  <2>1. \A p \in Plays : SameRow(v[p], v[p])
    BY DEF SameRow
  <2>2. QED
    BY <1>2, <1>3, <2>1 DEF SameRows
<1>7. ChartMarks(w, c)
  <2>1. Group(w, c) = Group(v, c) /\ Shown(w, c) = S
    BY <1>6, SameSets DEF S
  <2>2. QED
    BY <1>2, <2>1 DEF ChartMarks
<1>8. QED
  BY <1>2, <1>3, <1>4, <1>5, <1>6, <1>7 DEF w

(* refresh_profile_best, likewise.                                         *)
LEMMA ProfileBestIs ==
  ASSUME NEW v \in Rows, NEW c
  PROVE  LET w == RefreshProfileBest(v, c)
         IN  /\ w \in Rows /\ SameRows(v, w) /\ ProfileMarks(w, c)
             /\ \A p \in Plays : v[p] # None => w[p].chart_best = v[p].chart_best
             /\ \A p \in Plays : ChartOf[p] # c => w[p] = v[p]
<1> DEFINE w == RefreshProfileBest(v, c)
           S == RankedIn(v, c)
<1>1. w = [p \in Plays |-> IF p \in Group(v, c)
                           THEN [v[p] EXCEPT !.profile_best = p \in Best(S)] ELSE v[p]]
  BY DEF RefreshProfileBest, RankedIn
<1>2. ASSUME NEW p \in Group(v, c)
      PROVE  /\ w[p] \in Row /\ SameRow(v[p], w[p])
             /\ w[p].profile_best <=> p \in Best(S)
             /\ w[p].chart_best = v[p].chart_best
  <2>1. v[p] \in Row /\ p \in Plays
    BY <1>2 DEF Group, Rows
  <2>2. \A b \in BOOLEAN :
          LET r == [v[p] EXCEPT !.profile_best = b]
          IN  /\ r \in Row /\ SameRow(v[p], r) /\ r.profile_best = b
              /\ r.chart_best = v[p].chart_best
    BY <2>1, NoneAssumption DEF Row, SameRow
  <2>3. (p \in Best(S)) \in BOOLEAN
    OBVIOUS
  <2>4. w[p] = [v[p] EXCEPT !.profile_best = p \in Best(S)]
    BY <1>1, <1>2, <2>1
  <2> HIDE DEF w, S
  <2>5. QED
    BY <2>2, <2>3, <2>4, Zenon
<1>3. \A p \in Plays : p \notin Group(v, c) => w[p] = v[p]
  BY <1>1
<1>4. \A p \in Plays : ChartOf[p] # c => p \notin Group(v, c)
  BY DEF Group
<1>5. w \in Rows
  BY ProfileBestTyped
<1> HIDE DEF w, S
<1>6. SameRows(v, w)
  <2>1. \A p \in Plays : SameRow(v[p], v[p])
    BY DEF SameRow
  <2>2. QED
    BY <1>2, <1>3, <2>1 DEF SameRows
<1>7. ProfileMarks(w, c)
  <2>1. Group(w, c) = Group(v, c) /\ RankedIn(w, c) = S
    BY <1>6, SameSets DEF S
  <2>2. QED
    BY <1>2, <2>1 DEF ProfileMarks
<1>8. QED
  BY <1>2, <1>3, <1>4, <1>5, <1>6, <1>7 DEF w

(* refresh_bests: both marks of the chart are right, nothing else moves.   *)
RefreshedFrom(v, w, c) ==
  /\ w \in Rows /\ SameRows(v, w)
  /\ ChartMarks(w, c) /\ ProfileMarks(w, c)
  /\ \A p \in Plays : ChartOf[p] # c => w[p] = v[p]

(* refresh_bests: the marks of the chart are right, others are kept.       *)
LEMMA BestsAre ==
  ASSUME NEW v \in Rows, NEW c
  PROVE  RefreshedFrom(v, RefreshBests(v, c), c)
<1> DEFINE u == RefreshChartBest(v, c)
           w == RefreshProfileBest(u, c)
<1>1. /\ u \in Rows /\ SameRows(v, u) /\ ChartMarks(u, c)
      /\ \A p \in Plays : ChartOf[p] # c => u[p] = v[p]
  BY ChartBestIs
<1> HIDE DEF u
<1>2. /\ w \in Rows /\ SameRows(u, w) /\ ProfileMarks(w, c)
      /\ \A p \in Plays : u[p] # None => w[p].chart_best = u[p].chart_best
      /\ \A p \in Plays : ChartOf[p] # c => w[p] = u[p]
  BY <1>1, ProfileBestIs
<1>3. RefreshBests(v, c) = w
  BY DEF RefreshBests, u
<1> HIDE DEF w
<1>4. SameRows(v, w)
  BY <1>1, <1>2 DEF SameRows, SameRow
<1>5. ChartMarks(w, c)
  <2>1. Group(w, c) = Group(u, c) /\ Shown(w, c) = Shown(u, c)
    BY <1>2, SameSets
  <2>2. \A p \in Group(u, c) : w[p].chart_best = u[p].chart_best
    BY <1>2 DEF Group
  <2>3. QED
    BY <1>1, <2>1, <2>2 DEF ChartMarks
<1>6. QED
  BY <1>1, <1>2, <1>3, <1>4, <1>5 DEF RefreshedFrom

(* The totals, part by part.                                               *)
Counted(v) == {p \in Plays : v[p] # None /\ v[p].status # "rejected"}
RankedAll(v) == {p \in Plays : v[p] # None /\ v[p].ranked}

(* What the totals of some rows are.                                       *)
LEMMA TotalsAre ==
  ASSUME NEW v
  PROVE  /\ Totals(v).plays = Cardinality(Counted(v))
         /\ Totals(v).ranked = Cardinality(RankedAll(v))
         /\ Totals(v).top = Marked(v)
<1>1. /\ {p \in {q \in Plays : v[q] # None} : v[p].status # "rejected"} = Counted(v)
      /\ {p \in {q \in Plays : v[q] # None} : v[p].ranked} = RankedAll(v)
      /\ {p \in {q \in Plays : v[q] # None} : v[p].profile_best} = Marked(v)
  BY DEF Counted, RankedAll, Marked
<1>2. QED
  BY <1>1 DEF Totals

-----------------------------------------------------------------------------
(* What a submission adds.                                                 *)

(* w is v with play z inserted, the marks of z's chart refreshed.          *)
Adds(v, w, z) ==
  /\ z \in Plays /\ v[z] = None /\ w[z] # None /\ w[z].status # "rejected"
  /\ \A p \in Plays \ {z} : SameRow(v[p], w[p])
  /\ \A p \in Plays : ChartOf[p] # ChartOf[z] => w[p] = v[p]
  /\ ProfileMarks(w, ChartOf[z])

(* A set of plays that differs from the marked ones in a play whose mark   *)
(* is right can never be the marked ones again.                            *)
Gone(S, v) ==
  \E p \in Plays : /\ v[p] # None
                   /\ v[p].profile_best <=> p \in Best(RankedIn(v, ChartOf[p]))
                   /\ v[p].profile_best <=> p \notin S

(* A play that is added counts once more and takes no ranked play away.    *)
LEMMA AddsCount ==
  ASSUME NEW v, NEW w, NEW z, Adds(v, w, z)
  PROVE  /\ Totals(v).plays \in Nat /\ Totals(w).plays = Totals(v).plays + 1
         /\ Totals(v).ranked \in Nat /\ Totals(w).ranked \in Nat
         /\ Totals(v).ranked <= Totals(w).ranked
<1>1. Counted(w) = Counted(v) \cup {z} /\ z \notin Counted(v)
  BY DEF Adds, SameRow, Counted
<1>2. RankedAll(v) \subseteq RankedAll(w)
  BY DEF Adds, SameRow, RankedAll
<1>3. /\ IsFiniteSet(Counted(v)) /\ Cardinality(Counted(v)) \in Nat
      /\ IsFiniteSet(RankedAll(v)) /\ Cardinality(RankedAll(v)) \in Nat
      /\ IsFiniteSet(RankedAll(w)) /\ Cardinality(RankedAll(w)) \in Nat
  <2>1. Counted(v) \subseteq Plays /\ RankedAll(v) \subseteq Plays /\ RankedAll(w) \subseteq Plays
    BY DEF Counted, RankedAll
  <2>2. \A S \in SUBSET Plays : IsFiniteSet(S) /\ Cardinality(S) \in Nat
    BY FS_Subset, FS_CardinalityType, RankingAssumption
  <2>3. QED
    BY <2>1, <2>2
<1>4. Cardinality(Counted(w)) = Cardinality(Counted(v)) + 1
  <2>1. Cardinality(Counted(v) \cup {z}) = Cardinality(Counted(v)) + 1
    BY <1>1, <1>3, FS_AddElement
  <2>2. QED
    BY <1>1, <2>1
<1>5. Cardinality(RankedAll(v)) <= Cardinality(RankedAll(w))
  BY <1>2, <1>3, FS_Subset
<1>6. QED
  BY <1>3, <1>4, <1>5, TotalsAre

(* The plays ranked on the chart are those before and perhaps the new one. *)
LEMMA AddsRanked ==
  ASSUME NEW v, NEW w, NEW z, Adds(v, w, z), NEW c
  PROVE  /\ \A p \in Plays \ {z} : p \in RankedIn(w, c) <=> p \in RankedIn(v, c)
         /\ RankedIn(w, c) \subseteq Plays /\ RankedIn(v, c) \subseteq Plays
         /\ z \notin RankedIn(v, c)
BY DEF Adds, SameRow, RankedIn, Group

(* A best that is gone from the rows does not come back with another play. *)
LEMMA GoneStays ==
  ASSUME NEW v, NEW w, NEW z, Adds(v, w, z), NEW S, z \notin S, Gone(S, v)
  PROVE  Gone(S, w)
<1>1. PICK p \in Plays : /\ v[p] # None
                         /\ v[p].profile_best <=> p \in Best(RankedIn(v, ChartOf[p]))
                         /\ v[p].profile_best <=> p \notin S
  BY DEF Gone
<1> DEFINE c == ChartOf[p]
<1>2. p # z /\ w[p] # None /\ z \in Plays /\ w[z] # None
  BY <1>1 DEF Adds, SameRow
<1>3. CASE ChartOf[p] # ChartOf[z]
  <2>1. w[p] = v[p] /\ z \notin RankedIn(w, c)
    BY <1>2, <1>3 DEF Adds, RankedIn, Group
  <2>2. RankedIn(w, c) = RankedIn(v, c)
    BY <2>1, AddsRanked
  <2>3. QED
    BY <1>1, <1>2, <2>1, <2>2 DEF Gone
<1>4. CASE ChartOf[p] = ChartOf[z]
  <2>1. /\ w[p].profile_best <=> p \in Best(RankedIn(w, c))
        /\ w[z].profile_best <=> z \in Best(RankedIn(w, c))
    BY <1>2, <1>4 DEF Adds, ProfileMarks, Group
  <2>2. CASE p \in Best(RankedIn(w, c)) <=> p \in Best(RankedIn(v, c))
    <3>1. w[p].profile_best <=> p \notin S
      BY <1>1, <2>1, <2>2
    <3>2. QED
      BY <1>2, <2>1, <3>1 DEF Gone
  <2>3. CASE p \in Best(RankedIn(w, c)) /\ p \notin Best(RankedIn(v, c))
    <3>1. p \in RankedIn(v, c) /\ \A q \in RankedIn(v, c) : Strength[q] <= Strength[p]
      BY <1>2, <2>3, AddsRanked DEF Best
    <3>2. QED
      BY <2>3, <3>1 DEF Best
  <2>4. CASE p \notin Best(RankedIn(w, c)) /\ p \in Best(RankedIn(v, c))
    <3>1. p \in RankedIn(w, c) /\ \A q \in RankedIn(w, c) \ {z} : Strength[q] <= Strength[p]
      BY <1>2, <2>4, AddsRanked DEF Best
    <3>2. z \in RankedIn(w, c) /\ ~(Strength[z] <= Strength[p])
      BY <2>4, <3>1 DEF Best
    <3>3. \A q \in Plays : Strength[q] \in Nat
      BY RankingAssumption
    <3>4. \A q \in RankedIn(w, c) : Strength[q] <= Strength[z]
      <4> TAKE q \in RankedIn(w, c)
      <4>1. q \in Plays
        BY AddsRanked
      <4>2. QED
        BY <1>2, <3>1, <3>2, <3>3, <4>1
    <3>5. z \in Best(RankedIn(w, c))
      BY <3>2, <3>4 DEF Best
    <3>6. QED
      BY <1>2, <1>4, <2>1, <3>5 DEF Gone
  <2>5. QED
    BY <2>2, <2>3, <2>4
<1>5. QED
  BY <1>3, <1>4

(* A set of tops with such a play is not the rows' own.                    *)
LEMMA GoneDiffers ==
  ASSUME NEW v, NEW S, Gone(S, v)
  PROVE  S # Marked(v)
BY DEF Gone, Marked

(* The marked plays, once they change, are gone.                           *)
LEMMA AddsMarks ==
  ASSUME NEW v, NEW w, NEW z, Adds(v, w, z), Marked(w) # Marked(v)
  PROVE  Gone(Marked(v), w)
<1>1. PICK p \in Plays : ~(p \in Marked(w) <=> p \in Marked(v))
  BY DEF Marked
<1>2. w[p] # None /\ ChartOf[p] = ChartOf[z]
  BY <1>1 DEF Adds, SameRow, Marked
<1>3. w[p].profile_best <=> p \in Best(RankedIn(w, ChartOf[p]))
  BY <1>2 DEF Adds, ProfileMarks, Group
<1>4. w[p].profile_best <=> p \notin Marked(v)
  BY <1>1, <1>2 DEF Marked
<1>5. QED
  BY <1>2, <1>3, <1>4 DEF Gone

(* What a submission loaded before its lock: the statistics of some rows   *)
(* to which submissions have only added since.                             *)
Outdated(l, v) ==
  /\ l.plays <= Totals(v).plays /\ l.ranked <= Totals(v).ranked
  /\ \A p \in l.top : v[p] # None
  /\ l.top = Totals(v).top \/ Gone(l.top, v)

(* What was outdated when loaded is outdated after one more play.          *)
LEMMA StaysOutdated ==
  ASSUME NEW l \in Stats, NEW v, Outdated(l, v), NEW w, NEW z, Adds(v, w, z)
  PROVE  Outdated(l, w)
<1>1. l.top \subseteq Plays /\ l.plays \in Nat /\ l.ranked \in Nat
  BY DEF Stats
<1>2. \A p \in l.top : w[p] # None /\ p # z
  BY <1>1 DEF Outdated, Adds, SameRow
<1>3. l.plays <= Totals(w).plays /\ l.ranked <= Totals(w).ranked
  BY <1>1, AddsCount DEF Outdated
<1>4. l.top = Totals(w).top \/ Gone(l.top, w)
  <2>1. CASE Gone(l.top, v)
    BY <1>2, <2>1, GoneStays
  <2>2. CASE l.top = Marked(v)
    BY <2>2, AddsMarks, TotalsAre
  <2>3. QED
    BY <2>1, <2>2, TotalsAre DEF Outdated
<1>5. QED
  BY <1>2, <1>3, <1>4 DEF Outdated

(* A submission flushes the totals of its rows: what it does not write,    *)
(* because it has the value it loaded, is what is there.                   *)
LEMMA FlushIsExact ==
  ASSUME NEW h, NEW v, NEW w, NEW z, Adds(v, w, z), h.next = Totals(w),
         h.loaded = None \/ (h.loaded \in Stats /\ Outdated(h.loaded, v) /\ stats = Totals(v))
  PROVE  Flushed(h) = Totals(w)
<1> DEFINE l == h.loaded
           n == Totals(w)
           f == Flushed(h)
<1>1. n \in Stats /\ DOMAIN n = {"plays", "ranked", "top"}
  BY TotalsTyped DEF Stats
<1>2. /\ DOMAIN f = DOMAIN n
      /\ \A k \in DOMAIN n : f[k] = IF l = None \/ n[k] # l[k] THEN n[k] ELSE stats[k]
  BY <1>1 DEF Flushed, Changed
<1>3. \A k \in DOMAIN n : f[k] = n[k]
  <2>1. CASE l = None
    BY <1>2, <2>1
  <2>2. CASE l # None
    <3>1. l \in Stats /\ Outdated(l, v) /\ stats = Totals(v)
      BY <2>2
    <3>2. l.plays \in Nat /\ l.ranked \in Nat
      BY <3>1 DEF Stats
    <3>3. f["plays"] = n["plays"]
      <4>1. n.plays # l.plays
        BY <3>1, <3>2, AddsCount DEF Outdated
      <4>2. QED
        BY <1>1, <1>2, <4>1
    <3>4. f["ranked"] = n["ranked"]
      <4>1. n.ranked = l.ranked => stats.ranked = n.ranked
        BY <3>1, <3>2, AddsCount DEF Outdated
      <4>2. QED
        BY <1>1, <1>2, <4>1
    <3>5. f["top"] = n["top"]
      <4>1. n.top = l.top => stats.top = n.top
        <5>1. CASE Gone(l.top, v)
          <6>1. z \notin l.top
            BY <3>1 DEF Outdated, Adds
          <6>2. Gone(l.top, w)
            BY <5>1, <6>1, GoneStays
          <6>3. l.top # n.top
            BY <6>2, GoneDiffers, TotalsAre
          <6>4. QED
            BY <6>3
        <5>2. CASE l.top = Totals(v).top
          BY <3>1, <5>2
        <5>3. QED
          BY <3>1, <5>1, <5>2 DEF Outdated
      <4>2. QED
        BY <1>1, <1>2, <4>1
    <3>6. QED
      BY <1>1, <3>3, <3>4, <3>5
  <2>3. QED
    BY <2>1, <2>2
<1>4. f = [plays |-> f["plays"], ranked |-> f["ranked"], top |-> f["top"]]
  BY <1>1 DEF Flushed
<1>5. n = [plays |-> n["plays"], ranked |-> n["ranked"], top |-> n["top"]]
  BY <1>1 DEF Stats
<1> HIDE DEF f, n
<1>6. QED
  BY <1>1, <1>3, <1>4, <1>5 DEF f, n

-----------------------------------------------------------------------------
(* The inductive invariant of statistics and bests.                        *)

(* What a submission inserts and what a review makes of a row.             *)
NewRow(h) == [status |-> "verified", eligible |-> h.play \notin Casual,
              ranked |-> h.play \notin Casual /\ h.rankable,
              chart_best |-> FALSE, profile_best |-> FALSE]
Inserted(h) == [rows EXCEPT ![h.play] = NewRow(h)]
Reviewed(p, approve) ==
  [rows EXCEPT ![p].status = IF approve THEN "verified" ELSE "rejected",
               ![p].eligible = @ \/ approve,
               ![p].ranked = approve /\ chart_ranked[ChartOf[p]]]

(* A job for the chart is queued or being done.                            *)
PendingOf(kind, c) ==
  \/ [kind |-> kind, chart |-> c] \in jobs
  \/ \E t \in Slots : Open(t) /\ handler[t].kind = kind /\ handler[t].chart = c
Refreshed == \A c \in Charts : ~PendingOf("refresh", c)

(* A change of the chart's status has still to reach its rows, or never    *)
(* will.                                                                   *)
Queueing(c) == \E t \in Slots : At(t, "queueing") /\ handler[t].chart = c
Unapplied(c) == PendingOf("apply", c) \/ Queueing(c) \/ c \in forgotten

(* Whoever overlaps: there are statistics as soon as there is a row, and   *)
(* only what has rows is reviewed, refreshed or committed.                 *)
SlotRecorded(s) ==
  Open(s) =>
    /\ handler[s].kind \in {"review", "refresh"} => Recorded # {}
    /\ handler[s].kind = "apply" <=> handler[s].at = "updating"
    /\ handler[s].kind = "refresh" => handler[s].chart \in Charts
    /\ handler[s].kind = "submit" =>
         handler[s].play \in Plays /\ handler[s].chart = ChartOf[handler[s].play]
    /\ handler[s].at = "computed" => \E p \in Plays : View(s)[p] # None
Recording ==
  /\ stats = None <=> Recorded = {}
  /\ \A j \in jobs : j.kind = "refresh" => Recorded # {}
  /\ \A s \in Slots : SlotRecorded(s)
  /\ "rows" \notin overlapped => "stats" \notin overlapped

(* Without an overlap, several transactions are submissions of different   *)
(* plays, at most one of which has the user's row,                         *)
PairOrdered(s, t) ==
  Open(s) /\ Open(t) =>
    /\ handler[s].kind = "submit" /\ handler[t].kind = "submit"
    /\ handler[s].play # handler[t].play
    /\ handler[s].at = "loaded" \/ handler[t].at = "loaded"

(* and what one is about to commit is a refresh of the rows that are there. *)
SlotOrdered(s) ==
  Open(s) =>
    LET h == handler[s]
    IN  /\ h.kind \in {"submit", "review", "apply", "refresh"}
        /\ h.kind = "submit" =>
             /\ h.at \in {"loaded", "locked", "computed"}
             /\ rows[h.play] = None
             /\ h.at = "computed" => View(s) = RefreshBests(Inserted(h), h.chart)
        /\ h.kind = "review" =>
             /\ h.at = "computed" /\ h.loaded = stats
             /\ \E p \in Plays, approve \in BOOLEAN :
                  rows[p] # None /\ View(s) = RefreshBests(Reviewed(p, approve), ChartOf[p])
        /\ h.kind = "refresh" /\ h.at = "computed" =>
             h.loaded = stats /\ View(s) = RefreshProfileBest(rows, h.chart)
        /\ h.at = "computed" => h.next = Totals(View(s))
Ordered ==
  /\ \A s \in Slots : SlotOrdered(s)
  /\ \A s, t \in Slots : s # t => PairOrdered(s, t)

(* A submission's flush is exact, and was prepared by what it loaded.      *)
SlotFresh(s) ==
  Open(s) /\ handler[s].kind = "submit" =>
    LET h == handler[s]
    IN  IF h.at = "computed" THEN Flushed(h) = h.next
        ELSE h.loaded # None => Outdated(h.loaded, rows)
StatsSound ==
  Refreshed => /\ Recorded # {} => stats = Totals(rows)
               /\ \A s \in Slots : SlotFresh(s)

(* The marks and the ranked flags of a chart are right unless a job for it *)
(* is still to put them right.                                             *)
RankedRightly(v, c) ==
  \A p \in Group(v, c) : v[p].ranked <=> p \in Shown(v, c) /\ chart_ranked[c]
SlotRanked(s) ==
  Open(s) /\ handler[s].kind \in {"submit", "apply"} =>
    handler[s].rankable = chart_ranked[handler[s].chart]
ChartSound(c) ==
  /\ ChartMarks(rows, c)
  /\ ~PendingOf("refresh", c) => ProfileMarks(rows, c)
  /\ ~Unapplied(c) => RankedRightly(rows, c)
BestsSound ==
  /\ \A s \in Slots : SlotRanked(s)
  /\ \A c \in Charts : ChartSound(c)

Sound ==
  /\ Recording
  /\ "stats" \notin overlapped => Ordered /\ StatsSound
  /\ "rows" \notin overlapped => BestsSound

-----------------------------------------------------------------------------
(* Steps that leave the rows and the statistics alone.                     *)

(* A slot that does not move keeps what Sound asks of it.                  *)
LEMMA SlotKept ==
  ASSUME NEW t \in Slots, handler'[t] = handler[t], UNCHANGED <<rows, stats, chart_ranked>>
  PROVE  /\ Open(t)' <=> Open(t)
         /\ View(t)' = View(t)
         /\ SlotRecorded(t) => SlotRecorded(t)'
         /\ SlotOrdered(t) => SlotOrdered(t)'
         /\ SlotFresh(t) => SlotFresh(t)'
         /\ SlotRanked(t) => SlotRanked(t)'
<1>1. Open(t)' <=> Open(t)
  BY DEF Open, Idle
<1>2. View(t)' = View(t)
  BY DEF View
<1>3. Recorded' = Recorded
  BY DEF Recorded
<1>4. SlotRecorded(t) => SlotRecorded(t)'
  <2> HIDE DEF Recorded, View, Open
  <2>1. QED
    BY <1>1, <1>2, <1>3 DEF SlotRecorded
<1>5. SlotOrdered(t) => SlotOrdered(t)'
  <2>1. \A p, approve : Reviewed(p, approve)' = Reviewed(p, approve)
    BY DEF Reviewed
  <2>2. Inserted(handler[t])' = Inserted(handler[t])
    BY DEF Inserted
  <2>3. QED
    BY <1>1, <1>2, <2>1, <2>2 DEF SlotOrdered
<1>6. SlotFresh(t) => SlotFresh(t)'
  <2>1. Flushed(handler[t])' = Flushed(handler[t])
    BY DEF Flushed
  <2>2. QED
    BY <1>1, <2>1 DEF SlotFresh
<1>7. SlotRanked(t) => SlotRanked(t)'
  BY <1>1 DEF SlotRanked
<1>8. QED
  BY <1>1, <1>2, <1>4, <1>5, <1>6, <1>7

(* A slot with nothing under way needs nothing.                            *)
LEMMA ClosedSlot ==
  ASSUME NEW s \in Slots, ~Open(s)
  PROVE  /\ SlotRecorded(s) /\ SlotOrdered(s) /\ SlotFresh(s) /\ SlotRanked(s)
         /\ \A t \in Slots : PairOrdered(s, t) /\ PairOrdered(t, s)
BY DEF SlotRecorded, SlotOrdered, SlotFresh, SlotRanked, PairOrdered

(* What is pending stays so.                                               *)
Kept(kind) == \A c \in Charts : PendingOf(kind, c) => PendingOf(kind, c)'
StatusKept == \A c \in Charts : Unapplied(c) => Unapplied(c)'

(* A step of slot s alone, by what it needs before and leaves behind.      *)
OnlyMoves(s) ==
  /\ \A t \in Slots : t # s => handler'[t] = handler[t]
  /\ UNCHANGED <<rows, stats, chart_ranked>>
MovesRecorded(s) ==
  /\ SlotRecorded(s)'
  /\ \A j \in jobs' : j.kind = "refresh" => Recorded # {}
  /\ "rows" \notin overlapped' => "stats" \notin overlapped'
MovesOrdered(s) ==
  "stats" \notin overlapped' =>
    /\ SlotOrdered(s)'
    /\ \A t \in Slots : t # s => PairOrdered(s, t)'
    /\ "stats" \notin overlapped \/ \A t \in Slots : t # s => ~Open(t)
MovesFresh(s) ==
  "stats" \notin overlapped' /\ Refreshed' =>
    "stats" \notin overlapped /\ Refreshed /\ SlotFresh(s)'
MovesRanked(s) ==
  "rows" \notin overlapped' =>
    "rows" \notin overlapped /\ SlotRanked(s)' /\ Kept("refresh") /\ StatusKept

(* A step of one slot that keeps what concerns it keeps Sound.             *)
LEMMA OneMoves ==
  ASSUME Sound, NEW s \in Slots, OnlyMoves(s), MovesRecorded(s), MovesOrdered(s),
         MovesFresh(s), MovesRanked(s)
  PROVE  Sound'
<1>1. \A t \in Slots : t # s =>
         /\ Open(t)' <=> Open(t)
         /\ SlotRecorded(t) => SlotRecorded(t)'
         /\ SlotOrdered(t) => SlotOrdered(t)'
         /\ SlotFresh(t) => SlotFresh(t)'
         /\ SlotRanked(t) => SlotRanked(t)'
  BY SlotKept DEF OnlyMoves
<1>2. Recorded' = Recorded /\ rows' = rows /\ stats' = stats /\ chart_ranked' = chart_ranked
  BY DEF OnlyMoves, Recorded
<1>3. Recording'
  BY <1>1, <1>2 DEF Sound, Recording, MovesRecorded
<1>4. ASSUME "stats" \notin overlapped' PROVE Ordered'
  <2>1. \A t \in Slots : SlotOrdered(t)'
    <3> SUFFICES ASSUME NEW t \in Slots, t # s PROVE SlotOrdered(t)'
      BY <1>4 DEF MovesOrdered
    <3>1. CASE "stats" \notin overlapped
      BY <1>1, <3>1 DEF Sound, Ordered
    <3>2. CASE ~Open(t)
      BY <1>1, <3>2 DEF SlotOrdered
    <3>3. QED
      BY <1>4, <3>1, <3>2 DEF MovesOrdered
  <2>2. ASSUME NEW t \in Slots, NEW u \in Slots, t # u PROVE PairOrdered(t, u)'
    <3>1. CASE t = s
      BY <1>4, <2>2, <3>1 DEF MovesOrdered
    <3>2. CASE u = s
      <4>1. PairOrdered(s, t)'
        BY <1>4, <2>2, <3>2 DEF MovesOrdered
      <4>2. QED
        BY <4>1, <3>2 DEF PairOrdered
    <3>3. CASE t # s /\ u # s
      <4>1. handler'[t] = handler[t] /\ handler'[u] = handler[u]
        BY <3>3 DEF OnlyMoves
      <4>2. CASE "stats" \notin overlapped
        <5>1. PairOrdered(t, u)
          BY <2>2, <4>2 DEF Sound, Ordered
        <5>2. QED
          BY <1>1, <3>3, <4>1, <5>1 DEF PairOrdered
      <4>3. CASE ~Open(t)
        BY <1>1, <3>3, <4>3 DEF PairOrdered
      <4>4. QED
        BY <1>4, <3>3, <4>2, <4>3 DEF MovesOrdered
    <3>4. QED
      BY <3>1, <3>2, <3>3
  <2>3. QED
    BY <2>1, <2>2 DEF Ordered
<1>5. ASSUME "stats" \notin overlapped' PROVE StatsSound'
  <2> SUFFICES ASSUME Refreshed'
               PROVE  (Recorded' # {} => stats' = Totals(rows')) /\ \A t \in Slots : SlotFresh(t)'
    BY DEF StatsSound
  <2>1. "stats" \notin overlapped /\ Refreshed /\ SlotFresh(s)'
    BY <1>5 DEF MovesFresh
  <2>2. QED
    BY <1>1, <1>2, <2>1 DEF Sound, StatsSound
<1>6. ASSUME "rows" \notin overlapped' PROVE BestsSound'
  <2>1. "rows" \notin overlapped /\ SlotRanked(s)' /\ Kept("refresh") /\ StatusKept
    BY <1>6 DEF MovesRanked
  <2>2. \A t \in Slots : SlotRanked(t)'
    BY <1>1, <2>1 DEF Sound, BestsSound
  <2>3. ASSUME NEW c \in Charts PROVE ChartSound(c)'
    <3>1. ChartSound(c)
      BY <2>1 DEF Sound, BestsSound
    <3>2. /\ PendingOf("refresh", c) => PendingOf("refresh", c)'
          /\ Unapplied(c) => Unapplied(c)'
      BY <2>1 DEF Kept, StatusKept
    <3>3. RankedRightly(rows, c) => RankedRightly(rows, c)'
      BY <1>2 DEF RankedRightly
    <3>4. QED
      BY <1>2, <3>1, <3>2, <3>3 DEF ChartSound
  <2>4. QED
    BY <2>2, <2>3 DEF BestsSound
<1>7. QED
  BY <1>3, <1>4, <1>5, <1>6 DEF Sound

(* What a transaction has in memory once it has computed: the rows it has  *)
(* refreshed, whatever it has not written being as it is.                  *)
LEMMA ComputedView ==
  ASSUME Typed, NEW s \in Slots, NEW h \in Handler, NEW v, NEW w \in Rows, NEW c,
         NEW loaded \in Stats \union {None},
         Computed(s, h, v, w, c, loaded), UNCHANGED rows,
         \A p \in Plays : rows[p] # None => w[p] # None
  PROVE  LET n == handler'[s]
         IN  /\ n # None /\ n.at = "computed" /\ n.loaded = loaded /\ n.next = Totals(w)
             /\ n.kind = h.kind /\ n.play = h.play /\ n.chart = h.chart
             /\ n.rankable = h.rankable
             /\ View(s)' = w /\ Open(s)'
             /\ \A t \in Slots : t # s => handler'[t] = handler[t]
<1> DEFINE mine == [p \in Plays |-> IF w[p] # rows[p] \/ p \in Touched(v, w, c)
                                    THEN w[p] ELSE None]
           next == Totals(w)
           new == [h EXCEPT !.at = "computed", !.loaded = loaded, !.next = next,
                            !.mine = mine]
<1>1. handler' = [handler EXCEPT ![s] = new]
  BY DEF Computed
<1>2. \A p \in Plays : mine[p] # None => mine[p] = w[p]
  OBVIOUS
<1>3. \A p \in Plays : mine[p] = None => w[p] = rows[p]
  OBVIOUS
<1> HIDE DEF mine, next
<1>4. /\ new.at = "computed" /\ new.loaded = loaded /\ new.next = next /\ new.mine = mine
      /\ new.kind = h.kind /\ new.play = h.play /\ new.chart = h.chart
      /\ new.rankable = h.rankable
  BY DEF Handler
<1>5. new # None
  <2>1. mine \in Rows
    BY <1>2, <1>3 DEF mine, Rows
  <2>2. next \in Stats
    BY TotalsTyped DEF next
  <2>3. new \in Handler
    BY <2>1, <2>2 DEF Handler, Rows
  <2>4. QED
    BY <2>3, NoneAssumption
<1> HIDE DEF new
<1>6. handler'[s] = new
  BY <1>1 DEF Typed, TypeOK
<1>7. View(s)' = w
  <2>1. View(s)' = [p \in Plays |-> IF mine[p] # None THEN mine[p] ELSE rows[p]]
    BY <1>4, <1>6 DEF View
  <2>2. \A p \in Plays : (IF mine[p] # None THEN mine[p] ELSE rows[p]) = w[p]
    BY <1>2, <1>3
  <2>3. w = [p \in Plays |-> w[p]]
    BY DEF Rows
  <2>4. QED
    BY <2>1, <2>2, <2>3
<1>8. Open(s)'
  BY <1>4, <1>5, <1>6 DEF Open, Idle
<1>9. \A t \in Slots : t # s => handler'[t] = handler[t]
  BY <1>1 DEF Typed, TypeOK
<1>10. QED
  BY <1>4, <1>5, <1>6, <1>7, <1>8, <1>9 DEF next

(* What is not open before and after a step, with nothing new pending and  *)
(* nothing forgotten, leaves everything sound.                             *)
LEMMA ClosedMoves ==
  ASSUME Sound, NEW s \in Slots, OnlyMoves(s), ~Open(s)', UNCHANGED overlapped,
         Kept("refresh"), StatusKept,
         \A j \in jobs' : j.kind = "refresh" => Recorded # {}
  PROVE  Sound'
<1>1. /\ SlotRecorded(s)' /\ SlotOrdered(s)' /\ SlotFresh(s)' /\ SlotRanked(s)'
      /\ \A t \in Slots : PairOrdered(s, t)'
  BY DEF SlotRecorded, SlotOrdered, SlotFresh, SlotRanked, PairOrdered
<1>2. MovesRecorded(s)
  BY <1>1 DEF MovesRecorded, Sound, Recording
<1>3. MovesOrdered(s)
  BY <1>1 DEF MovesOrdered
<1>4. Refreshed' => Refreshed
  BY DEF Refreshed, Kept
<1>5. MovesFresh(s)
  BY <1>1, <1>4 DEF MovesFresh
<1>6. MovesRanked(s)
  BY <1>1 DEF MovesRanked
<1>7. QED
  BY <1>2, <1>3, <1>5, <1>6, OneMoves

(* A pending job stays so while its handler or its entry in the queue does. *)
LEMMA PendingKept ==
  ASSUME NEW s \in Slots, \A t \in Slots : t # s => handler'[t] = handler[t],
         NEW kind, jobs \subseteq jobs',
         \/ ~Open(s) \/ handler[s].kind # kind
         \/ Open(s)' /\ handler'[s].kind = handler[s].kind /\ handler'[s].chart = handler[s].chart
  PROVE  Kept(kind)
<1> SUFFICES ASSUME NEW c \in Charts, PendingOf(kind, c) PROVE PendingOf(kind, c)'
  BY DEF Kept
<1>1. CASE [kind |-> kind, chart |-> c] \in jobs
  BY <1>1 DEF PendingOf
<1>2. CASE \E t \in Slots : Open(t) /\ handler[t].kind = kind /\ handler[t].chart = c
  <2>1. PICK t \in Slots : Open(t) /\ handler[t].kind = kind /\ handler[t].chart = c
    BY <1>2
  <2>2. Open(t)' /\ handler'[t].kind = kind /\ handler'[t].chart = c
    <3>1. CASE t = s
      BY <2>1, <3>1
    <3>2. CASE t # s
      BY <2>1, <3>2 DEF Open, Idle
    <3>3. QED
      BY <3>1, <3>2
  <2>3. QED
    BY <2>2 DEF PendingOf
<1>3. QED
  BY <1>1, <1>2 DEF PendingOf

(* So does a change of status that its own slot is not at.                 *)
LEMMA UnappliedKept ==
  ASSUME NEW s \in Slots, \A t \in Slots : t # s => handler'[t] = handler[t],
         ~At(s, "queueing"), forgotten \subseteq forgotten', Kept("apply")
  PROVE  StatusKept
<1> SUFFICES ASSUME NEW c \in Charts, Unapplied(c) PROVE Unapplied(c)'
  BY DEF StatusKept
<1>1. PendingOf("apply", c) => PendingOf("apply", c)'
  BY DEF Kept
<1>2. Queueing(c) => Queueing(c)'
  BY DEF Queueing, At
<1>3. c \in forgotten => c \in forgotten'
  OBVIOUS
<1>4. QED
  BY <1>1, <1>2, <1>3 DEF Unapplied

(* Nothing is refreshed in the new state that was not in the old one.      *)
LEMMA RefreshedBefore == ASSUME Kept("refresh") PROVE Refreshed' => Refreshed
BY DEF Kept, Refreshed

(* The statistics of the rows, as just loaded.                             *)
LEMMA OutdatedNow ==
  ASSUME NEW v
  PROVE  Outdated(Totals(v), v)
<1>1. Totals(v).plays \in Nat /\ Totals(v).ranked \in Nat
  BY TotalsTyped DEF Stats
<1>2. \A p \in Totals(v).top : v[p] # None
  BY TotalsAre DEF Marked
<1>3. QED
  BY <1>1, <1>2 DEF Outdated

LEMMA BoardStepsSound ==
  ASSUME Typed, Sound, NEW s \in Slots,
         ReadStanding(s) \/ WriteBoard(s) \/ BoardFails(s) \/ SetRestriction(s) \/ StartRebuild(s)
  PROVE  Sound'
<1>1. ~Open(s)
  BY DEF ReadStanding, WriteBoard, BoardFails, SetRestriction, StartRebuild, Begin, At, Open, Idle
<1>2. ~Open(s)'
  <2>1. handler'[s] = None \/ handler'[s].at \in {"committed", "synced"}
    BY DEF ReadStanding, WriteBoard, BoardFails, SetRestriction, StartRebuild, Begin,
           NewHandler, Typed, TypeOK
  <2>2. QED
    BY <2>1 DEF Open, Idle
<1>3. OnlyMoves(s) /\ UNCHANGED <<jobs, overlapped>>
  BY DEF OnlyMoves, ReadStanding, WriteBoard, BoardFails, SetRestriction, StartRebuild, Begin,
         Typed, TypeOK
<1>4. Kept("refresh") /\ Kept("apply")
  BY <1>1, <1>3, PendingKept DEF OnlyMoves
<1>5. \A j \in jobs' : j.kind = "refresh" => Recorded # {}
  BY <1>3 DEF Sound, Recording
<1>6. ~At(s, "queueing") /\ forgotten' = forgotten
  BY DEF ReadStanding, WriteBoard, BoardFails, SetRestriction, StartRebuild, Begin, At, Idle
<1>7. StatusKept
  BY <1>3, <1>4, <1>6, UnappliedKept DEF OnlyMoves
<1>8. QED
  BY <1>2, <1>3, <1>4, <1>5, <1>7, ClosedMoves

(* A transaction that is ended: the job it did, if any, is done again.     *)
LEMMA EndedSound ==
  ASSUME Typed, Sound, NEW s \in Slots, Open(s), handler' = [handler EXCEPT ![s] = None],
         jobs' = Requeued(s),
         UNCHANGED <<rows, stats, chart_ranked, forgotten, overlapped>>
  PROVE  Sound'
<1>1. OnlyMoves(s) /\ handler'[s] = None /\ ~Open(s)'
  BY DEF OnlyMoves, Open, Idle, Typed, TypeOK
<1>2. jobs \subseteq jobs'
  BY DEF Requeued
<1>3. ASSUME NEW kind \in {"apply", "refresh"} PROVE Kept(kind)
  <2>1. CASE handler[s].kind # kind
    BY <1>1, <1>2, <2>1, PendingKept DEF OnlyMoves
  <2>2. CASE handler[s].kind = kind
    <3>1. [kind |-> kind, chart |-> handler[s].chart] \in jobs'
      BY <2>2 DEF Requeued
    <3>2. ASSUME NEW c \in Charts, PendingOf(kind, c) PROVE PendingOf(kind, c)'
      <4>1. CASE [kind |-> kind, chart |-> c] \in jobs
        BY <1>2, <4>1 DEF PendingOf
      <4>2. ASSUME NEW t \in Slots, Open(t), handler[t].kind = kind, handler[t].chart = c
            PROVE  PendingOf(kind, c)'
        <5>1. CASE t = s
          BY <3>1, <4>2, <5>1 DEF PendingOf
        <5>2. CASE t # s
          <6>1. handler'[t] = handler[t] /\ Open(t)'
            BY <1>1, <4>2, <5>2 DEF OnlyMoves, Open, Idle
          <6>2. QED
            BY <4>2, <6>1 DEF PendingOf
        <5>3. QED
          BY <5>1, <5>2
      <4>3. QED
        BY <3>2, <4>1, <4>2 DEF PendingOf
    <3>3. QED
      BY <3>2 DEF Kept
  <2>3. QED
    BY <2>1, <2>2
<1>4. Kept("apply") /\ Kept("refresh")
  BY <1>3
<1>5. StatusKept
  <2>1. ~At(s, "queueing")
    BY DEF At, Open
  <2>2. QED
    BY <1>1, <1>4, <2>1, UnappliedKept DEF OnlyMoves
<1>6. \A j \in jobs' : j.kind = "refresh" => Recorded # {}
  <2>1. \A j \in jobs : j.kind = "refresh" => Recorded # {}
    BY DEF Sound, Recording
  <2>2. handler[s].kind = "refresh" => Recorded # {}
    BY DEF Sound, Recording, SlotRecorded
  <2>3. \A j \in jobs' : j \in jobs \/ handler[s].kind = j.kind
    BY DEF Requeued
  <2>4. QED
    BY <2>1, <2>2, <2>3
<1>7. QED
  BY <1>1, <1>4, <1>5, <1>6, ClosedMoves

LEMMA DeadlockSound ==
  ASSUME Typed, Sound, NEW s \in Slots, BreakDeadlock(s) \/ CrossUpdates(s)
  PROVE  Sound'
<1>1. Open(s)
  BY DEF BreakDeadlock, CrossUpdates, WaitsForRows, Doing, At, Open, Idle
<1>2. /\ handler' = [handler EXCEPT ![s] = None] /\ jobs' = Requeued(s)
      /\ UNCHANGED <<rows, stats, chart_ranked, forgotten, overlapped>>
  BY DEF BreakDeadlock, CrossUpdates
<1>3. QED
  BY <1>1, <1>2, EndedSound

(* What changed a status queues its job, or it is known that it did not.   *)
LEMMA QueuedSound ==
  ASSUME Typed, Sound, NEW s \in Slots, Enqueue(s) \/ EnqueueFails(s)
  PROVE  Sound'
<1> DEFINE c == handler[s].chart
           job == [kind |-> "apply", chart |-> c]
<1>1. /\ handler' = [handler EXCEPT ![s] = None] /\ At(s, "queueing")
      /\ UNCHANGED <<rows, stats, chart_ranked, overlapped>>
      /\ jobs \subseteq jobs' /\ jobs' \subseteq jobs \union {job}
      /\ forgotten \subseteq forgotten'
      /\ job \in jobs' \/ c \in forgotten'
  BY DEF Enqueue, EnqueueFails
<1>2. OnlyMoves(s) /\ ~Open(s) /\ ~Open(s)'
  BY <1>1 DEF OnlyMoves, Open, Idle, At, Typed, TypeOK
<1>3. Kept("refresh") /\ Kept("apply")
  BY <1>1, <1>2, PendingKept DEF OnlyMoves
<1>4. StatusKept
  <2> SUFFICES ASSUME NEW d \in Charts, Unapplied(d) PROVE Unapplied(d)'
    BY DEF StatusKept
  <2>1. PendingOf("apply", d) => PendingOf("apply", d)'
    BY <1>3 DEF Kept
  <2>2. CASE d = c
    <3>1. PendingOf("apply", d)' \/ d \in forgotten'
      BY <1>1, <2>2 DEF PendingOf
    <3>2. QED
      BY <3>1 DEF Unapplied
  <2>3. CASE d # c
    <3>1. Queueing(d) => Queueing(d)'
      BY <1>2, <2>3 DEF Queueing, At, OnlyMoves
    <3>2. QED
      BY <1>1, <2>1, <3>1 DEF Unapplied
  <2>4. QED
    BY <2>2, <2>3
<1>5. \A j \in jobs' : j.kind = "refresh" => Recorded # {}
  <2>1. \A j \in jobs' : j.kind = "refresh" => j \in jobs
    BY <1>1
  <2>2. QED
    BY <2>1 DEF Sound, Recording
<1>6. QED
  BY <1>1, <1>2, <1>3, <1>4, <1>5, ClosedMoves

(* Who starts alone leaves what is remembered as it is.                    *)
LEMMA NotAlongside ==
  ASSUME Sound, NEW s \in Slots, NEW kind, "stats" \notin OverlappedBy(s, kind)
  PROVE  /\ OverlappedBy(s, kind) = overlapped
         /\ \A t \in Slots : t # s /\ Open(t) => kind = "submit" /\ handler[t].kind = "submit"
BY DEF OverlappedBy, Alongside

(* While no two kinds of handlers have met, only submissions overlap.      *)
LEMMA StillRecording ==
  ASSUME Sound, NEW s, NEW kind, "rows" \notin OverlappedBy(s, kind)
  PROVE  /\ "stats" \notin OverlappedBy(s, kind)
         /\ "rows" \notin overlapped /\ ~Alongside(s, kind)
BY DEF OverlappedBy, Sound, Recording

LEMMA StartSubmitSound ==
  ASSUME Typed, Sound, NEW s \in Slots, NEW p \in Plays, StartSubmit(s, p)
  PROVE  Sound'
<1> DEFINE h == [NewHandler("submit", "loaded") EXCEPT
                    !.play = p, !.chart = ChartOf[p],
                    !.rankable = chart_ranked[ChartOf[p]], !.loaded = stats]
<1>1. /\ handler' = [handler EXCEPT ![s] = h] /\ handler[s] = None
      /\ \A t \in Slots : ~Idle(t) => handler[t].kind # "submit" \/ handler[t].play # p
      /\ rows[p] = None /\ overlapped' = OverlappedBy(s, "submit")
      /\ UNCHANGED <<rows, stats, chart_ranked, jobs>>
  BY DEF StartSubmit, Begin, Idle
<1>2. /\ h.at = "loaded" /\ h.kind = "submit" /\ h.play = p /\ h.chart = ChartOf[p]
      /\ h.rankable = chart_ranked[ChartOf[p]] /\ h.loaded = stats
  BY DEF NewHandler
<1> HIDE DEF h
<1>3. handler'[s] = h /\ \A t \in Slots : t # s => handler'[t] = handler[t]
  BY <1>1 DEF Typed, TypeOK
<1>4. OnlyMoves(s) /\ ~Open(s)
  BY <1>1, <1>3 DEF OnlyMoves, Open, Idle
<1>5. Kept("refresh") /\ Kept("apply") /\ StatusKept
  <2>1. Kept("refresh") /\ Kept("apply")
    BY <1>1, <1>3, <1>4, PendingKept
  <2>2. ~At(s, "queueing") /\ forgotten' = forgotten
    BY <1>1 DEF At, StartSubmit
  <2>3. QED
    BY <1>3, <2>1, <2>2, UnappliedKept
<1>6. MovesRecorded(s)
  <2>1. SlotRecorded(s)'
    BY <1>2, <1>3 DEF SlotRecorded
  <2>2. "rows" \notin overlapped' => "stats" \notin overlapped'
    BY <1>1, StillRecording
  <2>3. QED
    BY <1>1, <2>1, <2>2 DEF MovesRecorded, Sound, Recording
<1>7. MovesOrdered(s)
  <2> SUFFICES ASSUME "stats" \notin overlapped'
               PROVE  /\ SlotOrdered(s)' /\ \A t \in Slots : t # s => PairOrdered(s, t)'
                      /\ "stats" \notin overlapped
    BY DEF MovesOrdered
  <2>1. /\ "stats" \notin overlapped
        /\ \A t \in Slots : t # s /\ Open(t) => handler[t].kind = "submit"
    BY <1>1, NotAlongside
  <2>2. SlotOrdered(s)'
    BY <1>1, <1>2, <1>3 DEF SlotOrdered
  <2>3. ASSUME NEW t \in Slots, t # s PROVE PairOrdered(s, t)'
    <3>1. Open(t)' <=> Open(t)
      BY <1>3, <2>3 DEF Open, Idle
    <3>2. Open(t) => handler[t].kind = "submit" /\ handler[t].play # p
      BY <1>1, <2>1, <2>3 DEF Open
    <3>3. QED
      BY <1>2, <1>3, <2>3, <3>1, <3>2 DEF PairOrdered
  <2>4. QED
    BY <2>1, <2>2, <2>3
<1>8. MovesFresh(s)
  <2> SUFFICES ASSUME "stats" \notin overlapped', Refreshed'
               PROVE  "stats" \notin overlapped /\ Refreshed /\ SlotFresh(s)'
    BY DEF MovesFresh
  <2>1. "stats" \notin overlapped /\ Refreshed
    BY <1>1, <1>5, NotAlongside, RefreshedBefore
  <2>2. stats # None => Outdated(stats, rows)
    <3>1. stats # None => stats = Totals(rows)
      BY <2>1 DEF Sound, StatsSound, Recording
    <3>2. QED
      BY <3>1, OutdatedNow
  <2>3. h.loaded # None => Outdated(h.loaded, rows')
    BY <1>1, <1>2, <2>2
  <2>4. SlotFresh(s)'
    BY <1>2, <1>3, <2>3 DEF SlotFresh
  <2>5. QED
    BY <2>1, <2>4
<1>9. MovesRanked(s)
  <2>1. SlotRanked(s)'
    BY <1>1, <1>2, <1>3 DEF SlotRanked
  <2>2. QED
    BY <1>1, <1>5, <2>1, StillRecording DEF MovesRanked
<1>10. QED
  BY <1>4, <1>6, <1>7, <1>8, <1>9, OneMoves

LEMMA StartJobSound ==
  ASSUME Typed, Sound, NEW s \in Slots, NEW j \in jobs, StartJob(s, j)
  PROVE  Sound'
<1> DEFINE h == [NewHandler(j.kind, IF j.kind = "apply" THEN "updating" ELSE "loaded") EXCEPT
                    !.chart = j.chart, !.rankable = chart_ranked[j.chart], !.loaded = stats]
<1>1. /\ handler' = [handler EXCEPT ![s] = h] /\ handler[s] = None /\ jobs' = jobs \ {j}
      /\ UNCHANGED <<rows, stats, chart_ranked>>
  BY DEF StartJob, Begin, Idle
<1>2. /\ h.at = (IF j.kind = "apply" THEN "updating" ELSE "loaded")
      /\ h.kind = j.kind /\ h.chart = j.chart
      /\ h.rankable = chart_ranked[j.chart] /\ h.loaded = stats
  BY DEF NewHandler
<1>3. j.kind \in {"apply", "refresh"} /\ j.chart \in Charts /\ j = [kind |-> j.kind, chart |-> j.chart]
  BY DEF Job, Typed, TypeOK
<1>4. h # None
  <2> DEFINE at == IF j.kind = "apply" THEN "updating" ELSE "loaded"
  <2>1. NewHandler(j.kind, at) \in Handler
    BY <1>3, NewHandlerTyped
  <2> HIDE DEF at
  <2>2. [NewHandler(j.kind, at) EXCEPT !.chart = j.chart, !.rankable = chart_ranked[j.chart],
                                       !.loaded = stats] \in Handler
    BY <1>3, <2>1 DEF Handler, Typed, TypeOK
  <2>3. QED
    BY <2>2, NoneAssumption DEF at
<1> HIDE DEF h
<1>5. handler'[s] = h /\ \A t \in Slots : t # s => handler'[t] = handler[t]
  BY <1>1 DEF Typed, TypeOK
<1>6. OnlyMoves(s) /\ ~Open(s) /\ Open(s)'
  BY <1>1, <1>2, <1>4, <1>5 DEF OnlyMoves, Open, Idle
<1>7. Kept("refresh") /\ Kept("apply")
  <2> SUFFICES ASSUME NEW kind, NEW c \in Charts, PendingOf(kind, c) PROVE PendingOf(kind, c)'
    BY DEF Kept
  <2>1. CASE [kind |-> kind, chart |-> c] \in jobs'
    BY <2>1 DEF PendingOf
  <2>2. CASE [kind |-> kind, chart |-> c] = j
    <3>1. j.kind = kind /\ j.chart = c
      BY <2>2
    <3>2. QED
      BY <1>2, <1>5, <1>6, <3>1 DEF PendingOf
  <2>3. CASE \E t \in Slots : Open(t) /\ handler[t].kind = kind /\ handler[t].chart = c
    <3>1. PICK t \in Slots : Open(t) /\ handler[t].kind = kind /\ handler[t].chart = c
      BY <2>3
    <3>2. t # s /\ handler'[t] = handler[t]
      BY <1>5, <1>6, <3>1
    <3>3. Open(t)'
      BY <3>1, <3>2 DEF Open, Idle
    <3>4. QED
      BY <3>1, <3>2, <3>3 DEF PendingOf
  <2>4. QED
    BY <1>1, <2>1, <2>2, <2>3 DEF PendingOf
<1>8. StatusKept
  <2> SUFFICES ASSUME NEW c \in Charts, Unapplied(c) PROVE Unapplied(c)'
    BY DEF StatusKept
  <2>1. PendingOf("apply", c) => PendingOf("apply", c)'
    BY <1>7 DEF Kept
  <2>2. Queueing(c) => Queueing(c)'
    BY <1>1, <1>5 DEF Queueing, At
  <2>3. c \in forgotten => c \in forgotten' \/ (j.kind = "apply" /\ j.chart = c)
    BY DEF StartJob
  <2>4. j.kind = "apply" /\ j.chart = c => PendingOf("apply", c)'
    BY <1>2, <1>5, <1>6 DEF PendingOf
  <2>5. QED
    BY <2>1, <2>2, <2>3, <2>4 DEF Unapplied
<1>9. /\ overlapped' \subseteq OverlappedBy(s, j.kind)
      /\ OverlappedBy(s, j.kind) \subseteq overlapped' \cup {"stats"}
      /\ "stats" \in OverlappedBy(s, j.kind) /\ "stats" \notin overlapped' =>
           j.kind = "refresh" /\ ~Alongside(s, j.kind)
  BY DEF StartJob
<1>10. "stats" \notin overlapped' => ~Alongside(s, j.kind)
  BY <1>9 DEF OverlappedBy
<1>11. ~Alongside(s, j.kind) => \A t \in Slots : t # s => ~Open(t)
  BY <1>3 DEF Alongside
<1>12. MovesRecorded(s)
  <2>1. SlotRecorded(s)'
    <3>1. j.kind = "refresh" => Recorded' # {}
      BY <1>1 DEF Sound, Recording, Recorded
    <3>2. QED
      BY <1>2, <1>3, <1>5, <3>1 DEF SlotRecorded
  <2>2. "rows" \notin overlapped' => "stats" \notin overlapped'
    BY <1>9, StillRecording
  <2>3. QED
    BY <1>1, <2>1, <2>2 DEF MovesRecorded, Sound, Recording
<1>13. MovesOrdered(s)
  <2> SUFFICES ASSUME "stats" \notin overlapped'
               PROVE  /\ SlotOrdered(s)' /\ \A t \in Slots : t # s => PairOrdered(s, t)'
                      /\ \A t \in Slots : t # s => ~Open(t)
    BY DEF MovesOrdered
  <2>1. \A t \in Slots : t # s => ~Open(t)
    BY <1>10, <1>11
  <2>2. SlotOrdered(s)'
    BY <1>2, <1>3, <1>5 DEF SlotOrdered
  <2>3. \A t \in Slots : t # s => PairOrdered(s, t)'
    BY <1>5, <2>1 DEF PairOrdered, Open, Idle
  <2>4. QED
    BY <2>1, <2>2, <2>3
<1>14. MovesFresh(s)
  <2> SUFFICES ASSUME "stats" \notin overlapped', Refreshed'
               PROVE  "stats" \notin overlapped /\ Refreshed /\ SlotFresh(s)'
    BY DEF MovesFresh
  <2>1. j.kind # "refresh"
    <3>1. j.kind = "refresh" => PendingOf("refresh", j.chart)'
      BY <1>2, <1>5, <1>6 DEF PendingOf
    <3>2. QED
      BY <1>3, <3>1 DEF Refreshed
  <2>2. "stats" \notin overlapped
    BY <1>9, <2>1, NotAlongside
  <2>3. SlotFresh(s)'
    BY <1>2, <1>3, <1>5 DEF SlotFresh
  <2>4. QED
    BY <1>7, <2>2, <2>3, RefreshedBefore
<1>15. MovesRanked(s)
  <2>1. SlotRanked(s)'
    BY <1>1, <1>2, <1>5 DEF SlotRanked
  <2>2. QED
    BY <1>7, <1>9, <1>8, <2>1, StillRecording DEF MovesRanked
<1>16. QED
  BY <1>6, <1>12, <1>13, <1>14, <1>15, OneMoves

LEMMA LockUserSound ==
  ASSUME Typed, Sound, NEW s \in Slots, LockUser(s)
  PROVE  Sound'
<1> DEFINE o == handler[s]
           h == [o EXCEPT !.at = "locked"]
<1>1. /\ handler' = [handler EXCEPT ![s] = h] /\ o # None /\ o.at = "loaded"
      /\ UNCHANGED <<rows, stats, chart_ranked, jobs, overlapped>> /\ UserFree(s)
  BY DEF LockUser, At
<1>2. o \in Handler
  BY <1>1 DEF Typed, TypeOK
<1>3. /\ h.at = "locked" /\ h.kind = o.kind /\ h.play = o.play /\ h.chart = o.chart
      /\ h.rankable = o.rankable /\ h.loaded = o.loaded /\ h \in Handler
  BY <1>2 DEF Handler
<1>4. h # None
  BY <1>3, NoneAssumption
<1> HIDE DEF h
<1>5. handler'[s] = h /\ \A t \in Slots : t # s => handler'[t] = handler[t]
  BY <1>1 DEF Typed, TypeOK
<1>6. OnlyMoves(s) /\ Open(s) /\ Open(s)'
  BY <1>1, <1>3, <1>4, <1>5 DEF OnlyMoves, Open, Idle
<1>7. Kept("refresh") /\ Kept("apply") /\ StatusKept
  <2>1. Kept("refresh") /\ Kept("apply")
    BY <1>1, <1>3, <1>5, <1>6, PendingKept
  <2>2. ~At(s, "queueing") /\ forgotten' = forgotten
    BY <1>1 DEF At, LockUser
  <2>3. QED
    BY <1>5, <2>1, <2>2, UnappliedKept
<1>8. MovesRecorded(s)
  <2>1. SlotRecorded(s)
    BY DEF Sound, Recording
  <2>2. Recorded' = Recorded
    BY <1>1 DEF Recorded
  <2>3. SlotRecorded(s)'
    BY <1>1, <1>3, <1>5, <1>6, <2>1, <2>2 DEF SlotRecorded
  <2>4. QED
    BY <1>1, <2>3 DEF MovesRecorded, Sound, Recording
<1>9. MovesOrdered(s)
  <2> SUFFICES ASSUME "stats" \notin overlapped
               PROVE  SlotOrdered(s)' /\ \A t \in Slots : t # s => PairOrdered(s, t)'
    BY <1>1 DEF MovesOrdered
  <2>1. SlotOrdered(s) /\ \A t \in Slots : t # s => PairOrdered(s, t) /\ SlotOrdered(t)
    BY DEF Sound, Ordered
  <2>2. SlotOrdered(s)'
    BY <1>1, <1>3, <1>5, <1>6, <2>1 DEF SlotOrdered
  <2>3. ASSUME NEW t \in Slots, t # s PROVE PairOrdered(s, t)'
    <3>1. Open(t)' <=> Open(t)
      BY <1>5, <2>3 DEF Open, Idle
    <3>2. ~HoldsUser(t)
      BY <1>1, <2>3 DEF UserFree
    <3>3. Open(t) => handler[t].kind = "submit" /\ handler[t].play # o.play /\ o.kind = "submit"
      BY <1>6, <2>1, <2>3 DEF PairOrdered
    <3>4. Open(t) => handler[t].at = "loaded"
      BY <2>1, <2>3, <3>2, <3>3 DEF SlotOrdered, HoldsUser, At, Open, Idle
    <3>5. QED
      BY <1>3, <1>5, <2>3, <3>1, <3>3, <3>4 DEF PairOrdered
  <2>4. QED
    BY <2>2, <2>3
<1>10. MovesFresh(s)
  <2> SUFFICES ASSUME "stats" \notin overlapped, Refreshed PROVE SlotFresh(s)'
    BY <1>1, <1>7, RefreshedBefore DEF MovesFresh
  <2>1. SlotFresh(s)
    BY DEF Sound, StatsSound
  <2>2. QED
    BY <1>1, <1>3, <1>5, <1>6, <2>1 DEF SlotFresh
<1>11. MovesRanked(s)
  <2>1. "rows" \notin overlapped => SlotRanked(s)
    BY DEF Sound, BestsSound
  <2>2. "rows" \notin overlapped => SlotRanked(s)'
    BY <1>1, <1>3, <1>5, <1>6, <2>1 DEF SlotRanked
  <2>3. QED
    BY <1>1, <1>7, <2>2 DEF MovesRanked
<1>12. QED
  BY <1>6, <1>8, <1>9, <1>10, <1>11, OneMoves

(* What a submission computes adds its play to the rows.                   *)
LEMMA NewRowTyped ==
  ASSUME NEW h \in Handler
  PROVE  NewRow(h) \in Row
<1>1. h.rankable \in BOOLEAN
  BY DEF Handler
<1>2. QED
  BY <1>1 DEF NewRow, Row

(* The inserted row is a row.                                              *)
LEMMA InsertedTyped ==
  ASSUME Typed, NEW h \in Handler
  PROVE  Inserted(h) \in Rows
BY NewRowTyped DEF Inserted, Rows, Typed, TypeOK

(* submit_play's rows: one play more, and its chart's bests refreshed.     *)
LEMMA InsertAdds ==
  ASSUME Typed, NEW h \in Handler, h.play \in Plays, h.chart = ChartOf[h.play],
         rows[h.play] = None
  PROVE  LET w == RefreshBests(Inserted(h), h.chart)
         IN  RefreshedFrom(Inserted(h), w, h.chart) /\ Adds(rows, w, h.play)
<1> DEFINE v == Inserted(h)
           w == RefreshBests(v, h.chart)
           z == h.play
<1>1. v \in Rows /\ v[z] = NewRow(h) /\ \A p \in Plays : p # z => v[p] = rows[p]
  BY InsertedTyped DEF Inserted, Typed, TypeOK
<1> HIDE DEF v
<1>2. RefreshedFrom(v, w, h.chart)
  BY <1>1, BestsAre
<1>3. NewRow(h) # None /\ (NewRow(h)).status = "verified"
  <2>1. NewRow(h) \in Row
    BY NewRowTyped
  <2>2. QED
    BY <2>1, NoneAssumption DEF NewRow
<1> HIDE DEF w
<1>4. w[z] # None /\ w[z].status # "rejected"
  <2>1. SameRow(v[z], w[z])
    BY <1>2 DEF RefreshedFrom, SameRows
  <2>2. QED
    BY <1>1, <1>3, <2>1 DEF SameRow
<1>5. \A p \in Plays \ {z} : SameRow(rows[p], w[p])
  BY <1>1, <1>2 DEF RefreshedFrom, SameRows
<1>6. \A p \in Plays : ChartOf[p] # ChartOf[z] => w[p] = rows[p]
  BY <1>1, <1>2 DEF RefreshedFrom
<1>7. Adds(rows, w, z)
  BY <1>2, <1>4, <1>5, <1>6 DEF Adds, RefreshedFrom
<1>8. QED
  BY <1>2, <1>7 DEF w, v

LEMMA ComputeSubmitSound ==
  ASSUME Typed, Sound, NEW s \in Slots, ComputeSubmit(s)
  PROVE  Sound'
<1> DEFINE h == handler[s]
           v == Inserted(h)
           w == RefreshBests(v, h.chart)
           n == handler'[s]
<1>1. /\ h # None /\ h.at = "locked" /\ h.kind = "submit"
      /\ UNCHANGED <<rows, stats, chart_ranked, jobs, overlapped>>
  BY DEF ComputeSubmit, Doing, At
<1>2. h \in Handler /\ Prepared(h, stats)
  BY <1>1 DEF Typed, TypeOK
<1>3. v \in Rows /\ w \in Rows
  BY <1>2, InsertedTyped, BestsTyped
<1>4. Open(s)
  BY <1>1 DEF Open, Idle
<1>5. CASE h.loaded = None /\ stats # None
  <2>1. handler' = [handler EXCEPT ![s] = None]
    BY <1>5 DEF ComputeSubmit, Collided
  <2>2. OnlyMoves(s) /\ ~Open(s)'
    BY <1>1, <2>1 DEF OnlyMoves, Open, Idle, Typed, TypeOK
  <2>3. Kept("refresh") /\ Kept("apply")
    BY <1>1, <2>2, PendingKept DEF OnlyMoves
  <2>4. ~At(s, "queueing") /\ forgotten' = forgotten
    BY <1>1 DEF At, ComputeSubmit
  <2>5. Kept("refresh") /\ StatusKept
    BY <2>2, <2>3, <2>4, UnappliedKept DEF OnlyMoves
  <2>6. QED
    BY <1>1, <2>2, <2>5, ClosedMoves DEF Sound, Recording
<1>6. CASE ~(h.loaded = None /\ stats # None)
  <2>1. Computed(s, h, v, w, h.chart, h.loaded)
    <3>1. v = [rows EXCEPT ![h.play] =
                    [status |-> "verified", eligible |-> h.play \notin Casual,
                     ranked |-> h.play \notin Casual /\ h.rankable,
                     chart_best |-> FALSE, profile_best |-> FALSE]]
      BY DEF Inserted, NewRow
    <3>2. \E u \in {w} : Computed(s, h, v, u, h.chart, h.loaded)
      BY <1>6, <3>1, Zenon DEF ComputeSubmit
    <3>3. QED
      BY <3>2, Zenon
  <2>2. h.loaded \in Stats \union {None}
    BY <1>2 DEF Handler
  <2>3. \A p \in Plays : rows[p] # None => w[p] # None
    <3>1. SameRows(v, w)
      BY <1>3, BestsAre DEF RefreshedFrom
    <3>2. NewRow(h) # None
      BY <1>2, NewRowTyped, NoneAssumption
    <3>3. \A p \in Plays : rows[p] # None => v[p] # None
      BY <3>2 DEF Inserted, Typed, TypeOK
    <3> HIDE DEF w, v
    <3>4. QED
      BY <3>1, <3>3 DEF SameRows, SameRow
  <2>4. /\ n # None /\ n.at = "computed" /\ n.loaded = h.loaded /\ n.next = Totals(w)
        /\ n.kind = "submit" /\ n.play = h.play /\ n.chart = h.chart
        /\ n.rankable = h.rankable
        /\ View(s)' = w /\ Open(s)'
        /\ \A t \in Slots : t # s => handler'[t] = handler[t]
    <3> DEFINE c == h.chart
               l == h.loaded
    <3>1. Computed(s, h, v, w, c, l) /\ l \in Stats \union {None} /\ UNCHANGED rows
      BY <1>1, <2>1, <2>2
    <3> HIDE DEF v, w, h, c, l
    <3>2. /\ n # None /\ n.at = "computed" /\ n.loaded = l /\ n.next = Totals(w)
          /\ n.kind = h.kind /\ n.play = h.play /\ n.chart = h.chart
          /\ n.rankable = h.rankable
          /\ View(s)' = w /\ Open(s)'
          /\ \A t \in Slots : t # s => handler'[t] = handler[t]
      BY <1>2, <1>3, <2>3, <3>1, ComputedView
    <3>3. QED
      BY <1>1, <3>2 DEF l
  <2>5. OnlyMoves(s)
    BY <1>1, <2>4 DEF OnlyMoves
  <2>6. Kept("refresh") /\ StatusKept
    <3>1. Kept("refresh") /\ Kept("apply")
      BY <1>1, <1>4, <2>4, PendingKept
    <3>2. ~At(s, "queueing") /\ forgotten' = forgotten
      BY <1>1 DEF At, ComputeSubmit
    <3>3. QED
      BY <2>4, <3>1, <3>2, UnappliedKept
  <2>7. MovesRecorded(s)
    <3>1. h.play \in Plays /\ h.chart = ChartOf[h.play]
      BY <1>1, <1>4 DEF Sound, Recording, SlotRecorded
    <3>2. w[h.play] # None
      <4>1. SameRow(v[h.play], w[h.play])
        BY <1>3, <3>1, BestsAre DEF RefreshedFrom, SameRows
      <4>2. v[h.play] = NewRow(h) /\ NewRow(h) # None
        BY <1>2, <3>1, NewRowTyped, NoneAssumption DEF Inserted, Typed, TypeOK
      <4> HIDE DEF v, w
      <4>3. QED
        BY <4>1, <4>2 DEF SameRow
    <3>3. SlotRecorded(s)'
      BY <2>4, <3>1, <3>2 DEF SlotRecorded
    <3>4. QED
      BY <1>1, <3>3 DEF MovesRecorded, Sound, Recording
  <2>8. MovesOrdered(s)
    <3> SUFFICES ASSUME "stats" \notin overlapped
                 PROVE  SlotOrdered(s)' /\ \A t \in Slots : t # s => PairOrdered(s, t)'
      BY <1>1 DEF MovesOrdered
    <3>1. SlotOrdered(s) /\ \A t \in Slots : t # s => PairOrdered(s, t)
      BY DEF Sound, Ordered
    <3>2. Inserted(handler[s])' = v
      <4>1. NewRow(n) = NewRow(h)
        BY <2>4 DEF NewRow
      <4>2. Inserted(handler[s])' = [rows EXCEPT ![n.play] = NewRow(n)]
        BY <1>1 DEF Inserted
      <4> HIDE DEF n, h
      <4>3. QED
        BY <2>4, <4>1, <4>2 DEF Inserted
    <3>3. h.play \in Plays /\ h.chart = ChartOf[h.play] /\ rows[h.play] = None
      BY <1>1, <1>4, <3>1 DEF SlotOrdered, Sound, Recording, SlotRecorded
    <3>4. SlotOrdered(s)'
      BY <1>1, <2>4, <3>2, <3>3 DEF SlotOrdered
    <3>5. ASSUME NEW t \in Slots, t # s PROVE PairOrdered(s, t)'
      <4>1. (Open(t)' <=> Open(t)) /\ PairOrdered(s, t)
        BY <2>4, <3>1, <3>5 DEF Open, Idle
      <4>2. QED
        BY <1>1, <1>4, <2>4, <3>5, <4>1 DEF PairOrdered
    <3>6. QED
      BY <3>4, <3>5
  <2>9. MovesFresh(s)
    <3> SUFFICES ASSUME "stats" \notin overlapped, Refreshed PROVE SlotFresh(s)'
      BY <1>1, <2>6, RefreshedBefore DEF MovesFresh
    <3>1. h.play \in Plays /\ h.chart = ChartOf[h.play] /\ rows[h.play] = None
      BY <1>1, <1>4 DEF Sound, Ordered, SlotOrdered, Recording, SlotRecorded
    <3>2. Adds(rows, w, h.play)
      BY <1>2, <3>1, InsertAdds
    <3>3. h.loaded # None => Outdated(h.loaded, rows)
      BY <1>1, <1>4 DEF Sound, StatsSound, SlotFresh
    <3>4. h.loaded # None => stats = Totals(rows)
      BY <1>2 DEF Prepared, Sound, Recording, StatsSound
    <3>5. n.loaded = None \/ (n.loaded \in Stats /\ Outdated(n.loaded, rows) /\ stats = Totals(rows))
      BY <2>2, <2>4, <3>3, <3>4
    <3>6. Flushed(n) = n.next
      <4> DEFINE m == n
      <4> HIDE DEF m, w
      <4>1. m.next = Totals(w)
        BY <2>4 DEF m
      <4>2. Flushed(m) = Totals(w)
        BY <3>2, <3>5, <4>1, FlushIsExact DEF m
      <4>3. QED
        BY <4>1, <4>2 DEF m
    <3>7. Flushed(handler[s])' = Flushed(n)
      BY <1>1 DEF Flushed
    <3>8. QED
      BY <2>4, <3>6, <3>7 DEF SlotFresh
  <2>10. MovesRanked(s)
    <3>1. "rows" \notin overlapped => SlotRanked(s)
      BY DEF Sound, BestsSound
    <3>2. "rows" \notin overlapped => SlotRanked(s)'
      BY <1>1, <1>4, <2>4, <3>1 DEF SlotRanked
    <3>3. QED
      BY <1>1, <2>6, <3>2 DEF MovesRanked
  <2>11. QED
    BY <2>5, <2>7, <2>8, <2>9, <2>10, OneMoves
<1>7. QED
  BY <1>5, <1>6

(* What a review makes of the rows.                                        *)
ReviewIs(v, p, approve) ==
  /\ v \in Rows
  /\ v[p].status = (IF approve THEN "verified" ELSE "rejected")
  /\ approve => v[p].eligible
  /\ v[p].ranked <=> approve /\ chart_ranked[ChartOf[p]]
  /\ v[p] # None
  /\ \A q \in Plays : q # p => v[q] = rows[q]

(* review_play's rows: one verdict more, and its chart's bests refreshed.  *)
LEMMA ReviewedIs ==
  ASSUME Typed, NEW p \in Plays, NEW approve \in BOOLEAN, rows[p] # None
  PROVE  ReviewIs(Reviewed(p, approve), p, approve)
<1> DEFINE c == ChartOf[p]
           a == rows[p].eligible \/ approve
           b == approve /\ chart_ranked[c]
           st == IF approve THEN "verified" ELSE "rejected"
           v1 == [rows EXCEPT ![p].status = st]
           v2 == [v1 EXCEPT ![p].eligible = a]
           v3 == [v2 EXCEPT ![p].ranked = b]
<1>1. c \in Charts /\ chart_ranked[c] \in BOOLEAN
  BY RankingAssumption DEF Typed, TypeOK
<1>2. rows \in Rows /\ rows[p] \in Row
  BY DEF Typed, TypeOK, Rows
<1>3. a \in BOOLEAN /\ b \in BOOLEAN /\ st \in {"verified", "rejected"} /\ (approve => a = TRUE)
  BY <1>1, <1>2 DEF Row
<1>4. Reviewed(p, approve) = v3
  BY <1>2 DEF Reviewed
<1> HIDE DEF c, b, st
<1>5. /\ v1 \in Rows /\ v1[p] \in Row /\ v1[p].eligible = rows[p].eligible /\ v1[p].status = st
      /\ \A q \in Plays : q # p => v1[q] = rows[q]
  BY <1>2, <1>3 DEF Row, Rows
<1> HIDE DEF v1, a
<1>6. /\ v2 \in Rows /\ v2[p] \in Row /\ v2[p].eligible = a /\ v2[p].status = st
      /\ \A q \in Plays : q # p => v2[q] = rows[q]
  BY <1>3, <1>5 DEF Row, Rows
<1> HIDE DEF v2
<1>7. /\ v3 \in Rows /\ v3[p] \in Row /\ v3[p].eligible = a /\ v3[p].status = st
      /\ v3[p].ranked = b /\ \A q \in Plays : q # p => v3[q] = rows[q]
  BY <1>3, <1>6 DEF Row, Rows
<1> HIDE DEF v3
<1>8. QED
  BY <1>3, <1>4, <1>7, NoneAssumption DEF ReviewIs, st, b, c

LEMMA ReviewSound ==
  ASSUME Typed, Sound, NEW s \in Slots, NEW p \in Plays, NEW approve \in BOOLEAN,
         Review(s, p, approve)
  PROVE  Sound'
<1> DEFINE c == ChartOf[p]
           v == Reviewed(p, approve)
           w == RefreshBests(v, c)
           h == [NewHandler("review", "computed") EXCEPT !.play = p, !.chart = c]
           n == handler'[s]
<1>1. /\ rows[p] # None /\ handler[s] = None /\ overlapped' = OverlappedBy(s, "review")
      /\ Computed(s, h, v, w, c, stats)
      /\ UNCHANGED <<rows, stats, chart_ranked, jobs>>
  BY Zenon DEF Review, Idle, Reviewed
<1>2. h \in Handler /\ h.kind = "review"
  <2>1. NewHandler("review", "computed") \in Handler
    BY NewHandlerTyped
  <2>2. c \in Charts
    BY RankingAssumption
  <2>3. (NewHandler("review", "computed")).kind = "review"
    BY DEF NewHandler
  <2> HIDE DEF c
  <2>4. QED
    BY <2>1, <2>2, <2>3 DEF Handler
<1>3. ReviewIs(v, p, approve)
  BY <1>1, ReviewedIs
<1> HIDE DEF v
<1>4. v \in Rows /\ RefreshedFrom(v, w, c)
  BY <1>3, BestsAre DEF ReviewIs
<1> HIDE DEF w, h, c
<1>5. w \in Rows /\ SameRows(v, w)
  BY <1>4 DEF RefreshedFrom
<1>6. \A q \in Plays : rows[q] # None => w[q] # None
  BY <1>3, <1>5 DEF ReviewIs, SameRows, SameRow
<1>7. stats \in Stats \union {None}
  BY DEF Typed, TypeOK
<1>8. /\ n # None /\ n.at = "computed" /\ n.loaded = stats /\ n.next = Totals(w)
      /\ n.kind = h.kind /\ n.play = h.play /\ n.chart = h.chart
      /\ n.rankable = h.rankable
      /\ View(s)' = w /\ Open(s)'
      /\ \A t \in Slots : t # s => handler'[t] = handler[t]
  BY <1>1, <1>2, <1>4, <1>5, <1>6, <1>7, ComputedView
<1>9. OnlyMoves(s) /\ ~Open(s)
  BY <1>1, <1>8 DEF OnlyMoves, Open, Idle
<1>10. Kept("refresh") /\ StatusKept
  <2>1. Kept("refresh") /\ Kept("apply")
    BY <1>1, <1>8, <1>9, PendingKept
  <2>2. ~At(s, "queueing") /\ forgotten' = forgotten
    BY <1>1, Zenon DEF At, Review
  <2>3. QED
    BY <1>8, <2>1, <2>2, UnappliedKept
<1>11. MovesRecorded(s)
  <2>1. Recorded' # {} /\ \E q \in Plays : w[q] # None
    BY <1>1, <1>6 DEF Recorded
  <2>2. SlotRecorded(s)'
    BY <1>2, <1>8, <2>1 DEF SlotRecorded
  <2>3. "rows" \notin overlapped' => "stats" \notin overlapped'
    BY <1>1, StillRecording
  <2>4. QED
    BY <1>1, <2>2, <2>3 DEF MovesRecorded, Sound, Recording
<1>12. MovesOrdered(s)
  <2> SUFFICES ASSUME "stats" \notin overlapped'
               PROVE  /\ SlotOrdered(s)' /\ \A t \in Slots : t # s => PairOrdered(s, t)'
                      /\ "stats" \notin overlapped
    BY DEF MovesOrdered
  <2>1. "stats" \notin overlapped /\ \A t \in Slots : t # s => ~Open(t)
    BY <1>1, NotAlongside
  <2>2. Reviewed(p, approve)' = v
    BY <1>1 DEF Reviewed, v
  <2>3. SlotOrdered(s)'
    BY <1>1, <1>2, <1>8, <2>2 DEF SlotOrdered, c, w
  <2>4. \A t \in Slots : t # s => PairOrdered(s, t)'
    BY <1>8, <2>1 DEF PairOrdered, Open, Idle
  <2>5. QED
    BY <2>1, <2>3, <2>4
<1>13. MovesFresh(s)
  <2>1. SlotFresh(s)'
    BY <1>2, <1>8 DEF SlotFresh
  <2>2. QED
    BY <1>1, <1>10, <2>1, NotAlongside, RefreshedBefore DEF MovesFresh
<1>14. MovesRanked(s)
  <2>1. SlotRanked(s)'
    BY <1>2, <1>8 DEF SlotRanked
  <2>2. QED
    BY <1>1, <1>10, <2>1, StillRecording DEF MovesRanked
<1>15. QED
  BY <1>9, <1>11, <1>12, <1>13, <1>14, OneMoves

LEMMA ComputeRefreshSound ==
  ASSUME Typed, Sound, NEW s \in Slots, ComputeRefresh(s)
  PROVE  Sound'
<1> DEFINE h == handler[s]
           c == h.chart
           w == RefreshProfileBest(rows, c)
           n == handler'[s]
<1>1. /\ h # None /\ h.at = "locked" /\ h.kind = "refresh"
      /\ Computed(s, h, rows, w, c, stats)
      /\ UNCHANGED <<rows, stats, chart_ranked, jobs, overlapped>>
  <2>1. Computed(s, h, rows, w, c, stats)
    BY Zenon DEF ComputeRefresh
  <2>2. QED
    BY <2>1 DEF ComputeRefresh, Doing, At
<1>2. h \in Handler /\ rows \in Rows /\ stats \in Stats \union {None} /\ c \in Charts
  BY <1>1 DEF Typed, TypeOK, Rows, Prepared
<1>3. Open(s)
  BY <1>1 DEF Open, Idle
<1>4. w \in Rows /\ SameRows(rows, w)
  BY <1>2, ProfileBestIs
<1> HIDE DEF w, h, c
<1>5. \A q \in Plays : rows[q] # None => w[q] # None
  BY <1>4 DEF SameRows, SameRow
<1>6. /\ n # None /\ n.at = "computed" /\ n.loaded = stats /\ n.next = Totals(w)
      /\ n.kind = h.kind /\ n.play = h.play /\ n.chart = h.chart
      /\ n.rankable = h.rankable
      /\ View(s)' = w /\ Open(s)'
      /\ \A t \in Slots : t # s => handler'[t] = handler[t]
  BY <1>1, <1>2, <1>4, <1>5, ComputedView
<1>7. OnlyMoves(s)
  BY <1>1, <1>6 DEF OnlyMoves
<1>8. Kept("refresh") /\ StatusKept
  <2>1. Kept("refresh") /\ Kept("apply")
    BY <1>1, <1>3, <1>6, PendingKept DEF h
  <2>2. ~At(s, "queueing") /\ forgotten' = forgotten
    BY <1>1 DEF At, ComputeRefresh, h
  <2>3. QED
    BY <1>6, <2>1, <2>2, UnappliedKept
<1>9. ~Refreshed'
  <2>1. ASSUME NEW d \in Charts, d = h.chart PROVE PendingOf("refresh", d)'
    BY <1>1, <1>6, <2>1 DEF PendingOf
  <2>2. QED
    BY <1>2, <2>1 DEF Refreshed, c
<1>10. MovesRecorded(s)
  <2>1. Recorded # {}
    BY <1>1, <1>3 DEF Sound, Recording, SlotRecorded, h
  <2>2. Recorded' # {} /\ \E q \in Plays : w[q] # None
    BY <1>1, <1>5, <2>1 DEF Recorded
  <2>3. SlotRecorded(s)'
    BY <1>1, <1>2, <1>6, <2>2 DEF SlotRecorded, c
  <2>4. QED
    BY <1>1, <2>3 DEF MovesRecorded, Sound, Recording
<1>11. MovesOrdered(s)
  <2> SUFFICES ASSUME "stats" \notin overlapped
               PROVE  SlotOrdered(s)' /\ \A t \in Slots : t # s => PairOrdered(s, t)'
    BY <1>1 DEF MovesOrdered
  <2>1. \A t \in Slots : t # s => ~Open(t)
    BY <1>1, <1>3 DEF Sound, Ordered, PairOrdered, h
  <2>2. SlotOrdered(s)'
    BY <1>1, <1>6 DEF SlotOrdered, w, c
  <2>3. \A t \in Slots : t # s => PairOrdered(s, t)'
    BY <1>6, <2>1 DEF PairOrdered, Open, Idle
  <2>4. QED
    BY <2>2, <2>3
<1>12. MovesFresh(s)
  BY <1>9 DEF MovesFresh
<1>13. MovesRanked(s)
  <2>1. SlotRanked(s)'
    BY <1>1, <1>6 DEF SlotRanked
  <2>2. QED
    BY <1>1, <1>8, <2>1 DEF MovesRanked
<1>14. QED
  BY <1>7, <1>10, <1>11, <1>12, <1>13, OneMoves

LEMMA SetChartStatusSound ==
  ASSUME Typed, Sound, NEW s \in Slots, NEW c \in Charts, SetChartStatus(s, c)
  PROVE  Sound'
<1> DEFINE h == [NewHandler("status", "queueing") EXCEPT !.chart = c]
<1>1. /\ UNCHANGED <<rows, stats, jobs, forgotten>>
      /\ handler' = [handler EXCEPT ![s] = h] /\ handler[s] = None
      /\ overlapped' = IF \E t \in Slots : Open(t) THEN {"stats", "rows"} ELSE overlapped
      /\ \A d \in Charts : d # c => chart_ranked'[d] = chart_ranked[d]
  BY DEF SetChartStatus, Begin, Idle, Typed, TypeOK
<1>2. h # None /\ h.at = "queueing" /\ h.chart = c
  <2> DEFINE n == NewHandler("status", "queueing")
  <2>1. n \in Handler /\ n.at = "queueing"
    BY NewHandlerTyped DEF NewHandler
  <2> HIDE DEF n
  <2>2. [n EXCEPT !.chart = c] \in Handler /\ [n EXCEPT !.chart = c].at = "queueing"
           /\ [n EXCEPT !.chart = c].chart = c
    BY <2>1 DEF Handler
  <2>3. QED
    BY <2>2, NoneAssumption DEF n
<1> HIDE DEF h
<1>3. handler'[s] = h /\ \A t \in Slots : t # s => handler'[t] = handler[t]
  BY <1>1 DEF Typed, TypeOK
<1>4. /\ ~Open(s) /\ ~Open(s)'
      /\ \A t \in Slots : t # s => handler'[t] = handler[t] /\ (Open(t)' <=> Open(t))
  BY <1>1, <1>2, <1>3 DEF Open, Idle
<1>5. "stats" \notin overlapped' => overlapped' = overlapped /\ \A t \in Slots : ~Open(t)'
  BY <1>1, <1>4
<1>6. Recording'
  <2>1. Recorded' = Recorded
    BY <1>1 DEF Recorded
  <2>2. ASSUME NEW t \in Slots PROVE SlotRecorded(t)'
    <3>1. CASE t = s
      BY <1>4, <3>1 DEF SlotRecorded
    <3>2. CASE t # s
      <4>1. View(t)' = View(t)
        BY <1>1, <1>4, <3>2 DEF View
      <4>2. SlotRecorded(t)
        BY DEF Sound, Recording
      <4>3. QED
        BY <1>4, <2>1, <3>2, <4>1, <4>2 DEF SlotRecorded
    <3>3. QED
      BY <3>1, <3>2
  <2>3. "rows" \notin overlapped' => "stats" \notin overlapped'
    BY <1>1 DEF Sound, Recording
  <2>4. QED
    BY <1>1, <2>1, <2>2, <2>3 DEF Sound, Recording
<1>7. "stats" \notin overlapped' => Ordered'
  BY <1>5 DEF Ordered, SlotOrdered, PairOrdered
<1>8. \A kind, d : PendingOf(kind, d) => PendingOf(kind, d)'
  BY <1>1, <1>4 DEF PendingOf
<1>9. "stats" \notin overlapped' => StatsSound'
  <2> SUFFICES ASSUME "stats" \notin overlapped', Refreshed' PROVE StatsSound'
    BY DEF StatsSound
  <2>1. "stats" \notin overlapped /\ Refreshed
    BY <1>5, <1>8 DEF Refreshed
  <2>2. Recorded' = Recorded
    BY <1>1 DEF Recorded
  <2>3. Recorded' # {} => stats' = Totals(rows')
    BY <1>1, <2>1, <2>2 DEF Sound, StatsSound
  <2>4. \A t \in Slots : SlotFresh(t)'
    BY <1>5 DEF SlotFresh
  <2>5. QED
    BY <2>3, <2>4 DEF StatsSound
<1>10. ASSUME "rows" \notin overlapped' PROVE BestsSound'
  <2>1. "rows" \notin overlapped /\ \A t \in Slots : ~Open(t)'
    BY <1>1, <1>4, <1>10
  <2>2. ASSUME NEW d \in Charts PROVE ChartSound(d)'
    <3>1. ChartSound(d)
      BY <2>1 DEF Sound, BestsSound
    <3>2. d = c => Unapplied(d)'
      BY <1>2, <1>3 DEF Unapplied, Queueing, At
    <3>3. Unapplied(d) => Unapplied(d)'
      <4>1. Queueing(d) => Queueing(d)'
        BY <1>1, <1>4 DEF Queueing, At
      <4>2. QED
        BY <1>1, <1>8, <4>1 DEF Unapplied
    <3>4. d # c /\ RankedRightly(rows, d) => RankedRightly(rows, d)'
      BY <1>1 DEF RankedRightly
    <3>5. QED
      BY <1>1, <1>8, <3>1, <3>2, <3>3, <3>4 DEF ChartSound
  <2>3. QED
    BY <2>1, <2>2 DEF BestsSound, SlotRanked
<1>11. QED
  BY <1>6, <1>7, <1>9, <1>10 DEF Sound

(* Rows that agree on a chart agree on what its marks should be.           *)
LEMMA Elsewhere ==
  ASSUME NEW v, NEW w, NEW d, \A p \in Plays : ChartOf[p] = d => w[p] = v[p]
  PROVE  /\ Group(w, d) = Group(v, d)
         /\ ChartMarks(v, d) => ChartMarks(w, d)
         /\ ProfileMarks(v, d) => ProfileMarks(w, d)
         /\ RankedRightly(v, d) => RankedRightly(w, d)
<1>1. Group(w, d) = Group(v, d) /\ \A p \in Group(v, d) : w[p] = v[p]
  BY DEF Group
<1>2. Shown(w, d) = Shown(v, d) /\ RankedIn(w, d) = RankedIn(v, d)
  BY <1>1 DEF Shown, RankedIn
<1>3. QED
  BY <1>1, <1>2 DEF ChartMarks, ProfileMarks, RankedRightly

LEMMA ApplySound ==
  ASSUME Typed, Sound, NEW s \in Slots, ApplyChartStatus(s)
  PROVE  Sound'
<1> DEFINE h == handler[s]
           c == h.chart
           played == Group(rows, c)
           fl(p) == h.rankable /\ rows[p].eligible /\ rows[p].status # "rejected"
           w == [p \in Plays |-> IF p \in played THEN [rows[p] EXCEPT !.ranked = fl(p)] ELSE rows[p]]
<1>1. /\ h # None /\ h.at = "updating" /\ rows' = w
      /\ jobs' = jobs \union {[kind |-> "refresh", chart |-> ChartOf[p]] : p \in played}
      /\ handler' = [handler EXCEPT ![s] = None]
      /\ UNCHANGED <<stats, chart_ranked, forgotten, overlapped>>
  BY DEF ApplyChartStatus, At
<1>2. Open(s)
  BY <1>1 DEF Open, Idle
<1>3. h \in Handler /\ h.kind = "apply"
  BY <1>1, <1>2 DEF Typed, TypeOK, Sound, Recording, SlotRecorded
<1>4. handler'[s] = None /\ \A t \in Slots : t # s => handler'[t] = handler[t]
  BY <1>1 DEF Typed, TypeOK
<1>5. ~Open(s)' /\ \A t \in Slots : t # s => (Open(t)' <=> Open(t))
  BY <1>4 DEF Open, Idle
<1>6. ASSUME NEW p \in played
      PROVE  /\ w[p] \in Row /\ w[p].status = rows[p].status /\ w[p].eligible = rows[p].eligible
             /\ w[p].chart_best = rows[p].chart_best
             /\ w[p].ranked <=> fl(p)
  <2>1. rows[p] \in Row /\ h.rankable \in BOOLEAN /\ p \in Plays
    BY <1>3, <1>6 DEF Group, Handler, Typed, TypeOK
  <2>2. \A b \in BOOLEAN :
          LET r == [rows[p] EXCEPT !.ranked = b]
          IN  /\ r \in Row /\ r.status = rows[p].status /\ r.eligible = rows[p].eligible
              /\ r.chart_best = rows[p].chart_best /\ r.ranked = b
    BY <2>1 DEF Row
  <2>3. fl(p) \in BOOLEAN
    BY <2>1 DEF Row
  <2>4. w[p] = [rows[p] EXCEPT !.ranked = fl(p)]
    BY <1>6, <2>1
  <2> HIDE DEF w, fl, played
  <2>5. QED
    BY <2>2, <2>3, <2>4, Zenon
<1>7. \A p \in Plays : p \notin played => w[p] = rows[p]
  OBVIOUS
<1>8. w = [p \in Plays |-> w[p]]
  OBVIOUS
<1>9. \A p \in played : p \in Plays /\ ChartOf[p] = c /\ rows[p] # None
  BY DEF Group
<1> HIDE DEF w, fl
<1>10. \A p \in Plays : w[p] = None <=> rows[p] = None
  BY <1>6, <1>7, <1>9, NoneAssumption
<1>11. played = {} => w = rows
  BY <1>7, <1>8 DEF Typed, TypeOK
<1>12. \A d \in Charts, p \in Plays : d # c /\ ChartOf[p] = d => w[p] = rows[p]
  BY <1>7, <1>9
<1> HIDE DEF h
<1>13. Recorded' = Recorded
  BY <1>1, <1>10 DEF Recorded
<1>14. Recording'
  <2>1. ASSUME NEW t \in Slots PROVE SlotRecorded(t)'
    <3>1. CASE t = s
      BY <1>5, <3>1 DEF SlotRecorded
    <3>2. CASE t # s
      <4>1. SlotRecorded(t) /\ handler'[t] = handler[t]
        BY <1>4, <3>2 DEF Sound, Recording
      <4>2. \A p \in Plays : View(t)[p] # None => View(t)'[p] # None
        BY <1>1, <1>10, <4>1 DEF View
      <4>3. QED
        BY <1>5, <1>13, <3>2, <4>1, <4>2 DEF SlotRecorded
    <3>3. QED
      BY <3>1, <3>2
  <2>2. \A j \in jobs' : j.kind = "refresh" => Recorded # {}
    <3>1. played # {} => Recorded # {}
      BY <1>9 DEF Recorded
    <3>2. \A j \in jobs' : j \in jobs \/ played # {}
      BY <1>1
    <3>3. QED
      BY <3>1, <3>2 DEF Sound, Recording
  <2>3. QED
    BY <1>1, <1>13, <2>1, <2>2 DEF Sound, Recording
<1>15. Kept("refresh")
  <2>1. jobs \subseteq jobs'
    BY <1>1
  <2>2. QED
    BY <1>3, <1>4, <2>1, PendingKept DEF h
<1>16. \A d \in Charts : d # c /\ PendingOf("apply", d) => PendingOf("apply", d)'
  <2> SUFFICES ASSUME NEW d \in Charts, d # c, PendingOf("apply", d) PROVE PendingOf("apply", d)'
    OBVIOUS
  <2>1. CASE [kind |-> "apply", chart |-> d] \in jobs
    BY <1>1, <2>1 DEF PendingOf
  <2>2. ASSUME NEW t \in Slots, Open(t), handler[t].kind = "apply", handler[t].chart = d
        PROVE  PendingOf("apply", d)'
    <3>1. t # s /\ handler'[t] = handler[t] /\ Open(t)'
      BY <1>4, <1>5, <2>2 DEF h
    <3>2. QED
      BY <2>2, <3>1 DEF PendingOf
  <2>3. QED
    BY <2>1, <2>2 DEF PendingOf
<1>17. ASSUME NEW d \in Charts, d # c, Unapplied(d) PROVE Unapplied(d)'
  <2>1. PendingOf("apply", d) => PendingOf("apply", d)'
    BY <1>16, <1>17
  <2>2. Queueing(d) => Queueing(d)'
    <3>1. ~At(s, "queueing")
      BY <1>1 DEF At, h
    <3>2. QED
      BY <1>4, <3>1 DEF Queueing, At
  <2>3. QED
    BY <1>1, <1>17, <2>1, <2>2 DEF Unapplied
<1>18. ASSUME NEW d \in Charts, ~PendingOf("refresh", d)', d = c
       PROVE  played = {}
  <2>1. \A p \in played : [kind |-> "refresh", chart |-> d] \in jobs'
    BY <1>1, <1>9, <1>18
  <2>2. QED
    BY <1>18, <2>1 DEF PendingOf
<1>19. "stats" \notin overlapped => \A t \in Slots : ~Open(t)'
  <2>1. "stats" \notin overlapped => \A t \in Slots : t # s => ~Open(t)
    BY <1>2, <1>3 DEF Sound, Ordered, PairOrdered, h
  <2>2. QED
    BY <1>5, <2>1
<1>20. "stats" \notin overlapped => Ordered'
  BY <1>19 DEF Ordered, SlotOrdered, PairOrdered
<1>21. ASSUME "stats" \notin overlapped PROVE StatsSound'
  <2> SUFFICES ASSUME Refreshed' PROVE StatsSound'
    BY DEF StatsSound
  <2>1. played = {}
    <3>1. \A p \in played : ChartOf[p] \in Charts
      BY <1>9, RankingAssumption
    <3>2. played # {} => c \in Charts
      BY <1>9, <3>1
    <3> HIDE DEF c, played
    <3>3. c \in Charts => \E d \in Charts : d = c
      OBVIOUS
    <3>4. QED
      BY <1>18, <3>2, <3>3 DEF Refreshed
  <2>2. Refreshed
    BY <1>15, RefreshedBefore
  <2>3. Recorded' # {} => stats' = Totals(rows')
    BY <1>1, <1>11, <1>13, <1>21, <2>1, <2>2 DEF Sound, StatsSound
  <2>4. \A t \in Slots : SlotFresh(t)'
    BY <1>19, <1>21 DEF SlotFresh
  <2>5. QED
    BY <2>3, <2>4 DEF StatsSound
<1>22. ASSUME "rows" \notin overlapped PROVE BestsSound'
  <2>1. "stats" \notin overlapped /\ BestsSound
    BY <1>22 DEF Sound, Recording
  <2>2. \A t \in Slots : SlotRanked(t)'
    BY <1>19, <2>1 DEF SlotRanked
  <2>3. ASSUME NEW d \in Charts PROVE ChartSound(d)'
    <3>1. ChartSound(d)
      BY <2>1 DEF BestsSound
    <3>2. CASE d # c
      <4>1. \A p \in Plays : ChartOf[p] = d => w[p] = rows[p]
        BY <1>12, <3>2
      <4>2. /\ ChartMarks(rows, d) => ChartMarks(w, d)
            /\ ProfileMarks(rows, d) => ProfileMarks(w, d)
            /\ RankedRightly(rows, d) => RankedRightly(w, d)
        BY <4>1, Elsewhere
      <4>3. RankedRightly(w, d) => RankedRightly(rows, d)'
        BY <1>1 DEF RankedRightly
      <4>4. PendingOf("refresh", d) => PendingOf("refresh", d)'
        BY <1>15 DEF Kept
      <4>5. QED
        BY <1>1, <1>17, <3>1, <3>2, <4>2, <4>3, <4>4 DEF ChartSound
    <3>3. CASE d = c
      <4>1. Group(w, d) = played /\ Shown(w, d) = Shown(rows, d)
        BY <1>6, <1>10, <3>3 DEF Group, Shown
      <4>2. ChartMarks(w, d)
        BY <1>6, <3>1, <3>3, <4>1 DEF ChartSound, ChartMarks
      <4>3. ~PendingOf("refresh", d)' => ProfileMarks(w, d)
        BY <1>18, <3>3, <4>1 DEF ProfileMarks
      <4>4. h.rankable = chart_ranked[c]
        BY <1>2, <1>3, <2>1 DEF BestsSound, SlotRanked, h
      <4>5. RankedRightly(w, d)
        <5>1. \A p \in played : fl(p) <=> p \in Shown(w, d) /\ chart_ranked[d]
          BY <3>3, <4>1, <4>4 DEF fl, Shown
        <5>2. QED
          BY <1>6, <4>1, <5>1 DEF RankedRightly
      <4>6. RankedRightly(w, d) => RankedRightly(rows, d)'
        BY <1>1 DEF RankedRightly
      <4>7. QED
        BY <1>1, <4>2, <4>3, <4>5, <4>6 DEF ChartSound
    <3>4. QED
      BY <3>2, <3>3
  <2>4. QED
    BY <2>2, <2>3 DEF BestsSound
<1>23. QED
  BY <1>1, <1>14, <1>20, <1>21, <1>22 DEF Sound

(* What was loaded just before is flushed over.                            *)
LEMMA FlushedAll ==
  ASSUME NEW h, h.next \in Stats, h.loaded = stats, stats \in Stats \union {None}
  PROVE  Flushed(h) = h.next
<1> DEFINE f == Flushed(h)
<1>1. DOMAIN h.next = {"plays", "ranked", "top"}
  BY DEF Stats
<1>2. /\ f["plays"] = h.next["plays"] /\ f["ranked"] = h.next["ranked"]
      /\ f["top"] = h.next["top"]
  BY <1>1 DEF Flushed, Changed
<1>3. f = [plays |-> f["plays"], ranked |-> f["ranked"], top |-> f["top"]]
  BY <1>1 DEF Flushed
<1>4. h.next = [plays |-> h.next["plays"], ranked |-> h.next["ranked"], top |-> h.next["top"]]
  BY DEF Stats
<1> HIDE DEF f
<1>5. QED
  BY <1>2, <1>3, <1>4 DEF f

(* What a chart's rows become by one transaction's refresh of it.          *)
Settles(s, c) ==
  LET w == View(s)
  IN  /\ \A p \in Plays : ChartOf[p] # c => w[p] = rows[p]
      /\ ChartMarks(w, c) /\ ProfileMarks(w, c)
      /\ RankedRightly(rows, c) => RankedRightly(w, c)

(* What a commit makes visible, by kind of handler.                        *)
LEMMA SubmitSettles ==
  ASSUME Typed, NEW s \in Slots, NEW h, h = handler[s], Open(s), h.kind = "submit",
         h.at = "computed", SlotRecorded(s), SlotOrdered(s), SlotRanked(s)
  PROVE  Settles(s, h.chart)
<1> DEFINE v == Inserted(h)
           w == View(s)
           c == h.chart
           z == h.play
<1>1. h \in Handler
  BY DEF Open, Idle, Typed, TypeOK
<1>2. /\ z \in Plays /\ c = ChartOf[z] /\ rows[z] = None /\ w = RefreshBests(v, c)
      /\ h.rankable = chart_ranked[c]
  BY DEF SlotRecorded, SlotOrdered, SlotRanked
<1>3. RefreshedFrom(v, w, c) /\ Adds(rows, w, z)
  BY <1>1, <1>2, InsertAdds
<1>4. v[z] = NewRow(h) /\ NewRow(h) # None
  BY <1>1, <1>2, NewRowTyped, NoneAssumption DEF Inserted, Typed, TypeOK
<1> HIDE DEF v, w, c
<1>5. ChartMarks(w, c) /\ ProfileMarks(w, c)
  BY <1>3 DEF RefreshedFrom
<1>6. \A p \in Plays : ChartOf[p] # c => w[p] = rows[p]
  BY <1>2, <1>3 DEF Adds
<1>7. ASSUME RankedRightly(rows, c) PROVE RankedRightly(w, c)
  <2> SUFFICES ASSUME NEW p \in Group(w, c)
               PROVE  w[p].ranked <=> p \in Shown(w, c) /\ chart_ranked[c]
    BY DEF RankedRightly
  <2>1. p \in Plays /\ w[p] # None /\ ChartOf[p] = c
    BY DEF Group
  <2>2. CASE p = z
    <3>1. SameRow(NewRow(h), w[p])
      BY <1>3, <1>4, <2>1, <2>2 DEF RefreshedFrom, SameRows
    <3>2. /\ w[p].status = "verified"
          /\ w[p].eligible = (z \notin Casual)
          /\ w[p].ranked = (z \notin Casual /\ h.rankable)
      BY <1>4, <3>1 DEF SameRow, NewRow
    <3>3. p \in Shown(w, c) <=> z \notin Casual
      BY <2>1, <3>2 DEF Shown, Group
    <3>4. QED
      BY <1>2, <3>2, <3>3
  <2>3. CASE p # z
    <3>1. SameRow(rows[p], w[p])
      BY <1>3, <2>1, <2>3 DEF Adds
    <3>2. /\ p \in Group(rows, c)
          /\ p \in Shown(w, c) <=> p \in Shown(rows, c)
          /\ w[p].ranked <=> rows[p].ranked
      BY <2>1, <3>1 DEF SameRow, Group, Shown
    <3>3. QED
      BY <1>7, <3>2 DEF RankedRightly
  <2>4. QED
    BY <2>2, <2>3
<1>8. QED
  BY <1>5, <1>6, <1>7 DEF Settles, w, c

LEMMA ReviewSettles ==
  ASSUME Typed, NEW s \in Slots, NEW p \in Plays, NEW approve \in BOOLEAN, rows[p] # None,
         View(s) = RefreshBests(Reviewed(p, approve), ChartOf[p])
  PROVE  Settles(s, ChartOf[p])
<1> DEFINE v == Reviewed(p, approve)
           w == View(s)
           c == ChartOf[p]
<1>1. ReviewIs(v, p, approve)
  BY ReviewedIs
<1> HIDE DEF v
<1>2. RefreshedFrom(v, w, c)
  BY <1>1, BestsAre DEF ReviewIs, v
<1> HIDE DEF w
<1>3. ChartMarks(w, c) /\ ProfileMarks(w, c)
  BY <1>2 DEF RefreshedFrom
<1>4. \A q \in Plays : ChartOf[q] # c => w[q] = rows[q]
  BY <1>1, <1>2 DEF RefreshedFrom, ReviewIs
<1>5. ASSUME RankedRightly(rows, c) PROVE RankedRightly(w, c)
  <2> SUFFICES ASSUME NEW q \in Group(w, c)
               PROVE  w[q].ranked <=> q \in Shown(w, c) /\ chart_ranked[c]
    BY DEF RankedRightly
  <2>1. q \in Plays /\ w[q] # None /\ ChartOf[q] = c /\ SameRow(v[q], w[q])
    BY <1>2 DEF Group, RefreshedFrom, SameRows
  <2>2. CASE q = p
    <3>1. /\ w[q].status = (IF approve THEN "verified" ELSE "rejected")
          /\ approve => w[q].eligible
          /\ w[q].ranked <=> approve /\ chart_ranked[c]
      BY <1>1, <2>1, <2>2 DEF ReviewIs, SameRow
    <3>2. q \in Shown(w, c) <=> approve
      BY <2>1, <3>1 DEF Shown, Group
    <3>3. QED
      BY <3>1, <3>2
  <2>3. CASE q # p
    <3>1. SameRow(rows[q], w[q])
      BY <1>1, <2>1, <2>3 DEF ReviewIs
    <3>2. /\ q \in Group(rows, c)
          /\ q \in Shown(w, c) <=> q \in Shown(rows, c)
          /\ w[q].ranked <=> rows[q].ranked
      BY <2>1, <3>1 DEF SameRow, Group, Shown
    <3>3. QED
      BY <1>5, <3>2 DEF RankedRightly
  <2>4. QED
    BY <2>2, <2>3
<1>6. QED
  BY <1>3, <1>4, <1>5 DEF Settles, w

LEMMA RefreshSettles ==
  ASSUME Typed, NEW s \in Slots, NEW c, View(s) = RefreshProfileBest(rows, c),
         ChartMarks(rows, c)
  PROVE  Settles(s, c)
<1> DEFINE w == View(s)
<1>1. rows \in Rows
  BY DEF Typed, TypeOK, Rows
<1>2. /\ w \in Rows /\ SameRows(rows, w) /\ ProfileMarks(w, c)
      /\ \A p \in Plays : rows[p] # None => w[p].chart_best = rows[p].chart_best
      /\ \A p \in Plays : ChartOf[p] # c => w[p] = rows[p]
  BY <1>1, ProfileBestIs
<1> HIDE DEF w
<1>3. Group(w, c) = Group(rows, c) /\ Shown(w, c) = Shown(rows, c)
  BY <1>2, SameSets
<1>4. \A p \in Group(rows, c) : p \in Plays /\ rows[p] # None
  BY DEF Group
<1>5. ChartMarks(w, c)
  BY <1>2, <1>3, <1>4 DEF ChartMarks
<1>6. RankedRightly(rows, c) => RankedRightly(w, c)
  BY <1>2, <1>3, <1>4 DEF RankedRightly, SameRows, SameRow
<1>7. QED
  BY <1>2, <1>5, <1>6 DEF Settles, w

(* With no overlap that matters, the statistics a transaction commits are  *)
(* those of the rows it commits.                                           *)
LEMMA CommitsTotals ==
  ASSUME Typed, Sound, NEW s \in Slots, At(s, "computed"), "stats" \notin overlapped,
         handler[s].kind = "submit" => Refreshed
  PROVE  Flushed(handler[s]) = Totals(View(s))
<1> DEFINE h == handler[s]
<1>1. Open(s) /\ h \in Handler /\ h.at = "computed"
  BY DEF At, Open, Idle, Typed, TypeOK
<1>2. SlotOrdered(s) /\ SlotRecorded(s)
  BY DEF Sound, Ordered, Recording
<1>3. h.next = Totals(View(s))
  BY <1>1, <1>2 DEF SlotOrdered
<1>4. CASE h.kind = "submit"
  <2>1. SlotFresh(s)
    BY <1>4 DEF Sound, StatsSound
  <2>2. QED
    BY <1>1, <1>3, <1>4, <2>1 DEF SlotFresh
<1>5. CASE h.kind # "submit"
  <2>1. h.kind \in {"review", "refresh"}
    BY <1>1, <1>2, <1>5 DEF SlotOrdered, SlotRecorded
  <2>2. h.loaded = stats
    BY <1>1, <1>2, <2>1 DEF SlotOrdered
  <2>3. h.next \in Stats
    BY <1>3, TotalsTyped
  <2>4. stats \in Stats \union {None}
    BY DEF Typed, TypeOK
  <2> HIDE DEF h
  <2>5. Flushed(h) = h.next
    BY <2>2, <2>3, <2>4, FlushedAll
  <2>6. QED
    BY <1>3, <2>5 DEF h
<1>6. QED
  BY <1>4, <1>5

(* And it settles one chart: any that is refreshed only by it is that one. *)
LEMMA CommitSettles ==
  ASSUME Typed, Sound, NEW s \in Slots, At(s, "computed"), "rows" \notin overlapped
  PROVE  \E c \in Charts : Settles(s, c) /\ (handler[s].kind = "refresh" => handler[s].chart = c)
<1> DEFINE h == handler[s]
<1>1. Open(s) /\ h \in Handler /\ h.at = "computed"
  BY DEF At, Open, Idle, Typed, TypeOK
<1>2. SlotRecorded(s) /\ SlotOrdered(s) /\ SlotRanked(s)
  BY DEF Sound, Ordered, Recording, BestsSound
<1>3. CASE h.kind = "submit"
  <2>1. Settles(s, h.chart)
    BY <1>1, <1>2, <1>3, SubmitSettles
  <2>2. h.chart \in Charts
    BY <1>1, <1>2, <1>3, RankingAssumption DEF SlotRecorded
  <2>3. QED
    BY <1>3, <2>1, <2>2
<1>4. CASE h.kind = "review"
  <2>1. PICK p \in Plays, approve \in BOOLEAN :
          rows[p] # None /\ View(s) = RefreshBests(Reviewed(p, approve), ChartOf[p])
    BY <1>1, <1>2, <1>4 DEF SlotOrdered
  <2>2. Settles(s, ChartOf[p])
    BY <2>1, ReviewSettles
  <2>3. ChartOf[p] \in Charts
    BY RankingAssumption
  <2>4. QED
    BY <1>4, <2>2, <2>3
<1>5. CASE h.kind = "refresh"
  <2>1. View(s) = RefreshProfileBest(rows, h.chart)
    BY <1>1, <1>2, <1>5 DEF SlotOrdered
  <2>2. h.chart \in Charts
    BY <1>1, <1>2, <1>5 DEF SlotRecorded
  <2>3. ChartMarks(rows, h.chart)
    BY <2>2 DEF Sound, BestsSound, ChartSound
  <2>4. QED
    BY <2>1, <2>2, <2>3, RefreshSettles
<1>6. QED
  BY <1>1, <1>2, <1>3, <1>4, <1>5 DEF SlotRecorded, SlotOrdered, Sound, Recording

LEMMA CommitSound ==
  ASSUME Typed, Sound, NEW s \in Slots, Commit(s)
  PROVE  Sound'
<1> DEFINE h == handler[s]
           w == View(s)
<1>1. /\ At(s, "computed") /\ rows' = w /\ stats' = Flushed(h)
      /\ handler' = [handler EXCEPT ![s] = NewHandler(h.kind, "committed")]
      /\ UNCHANGED <<chart_ranked, jobs, forgotten, overlapped>>
  BY DEF Commit, AfterCommit
<1>2. Open(s) /\ h \in Handler /\ h.at = "computed"
  BY <1>1 DEF At, Open, Idle, Typed, TypeOK
<1>3. /\ ~Open(s)'
      /\ \A t \in Slots : t # s => handler'[t] = handler[t] /\ (Open(t)' <=> Open(t))
  <2>1. handler'[s].at = "committed"
    BY <1>1 DEF NewHandler, Typed, TypeOK
  <2>2. \A t \in Slots : t # s => handler'[t] = handler[t]
    BY <1>1 DEF Typed, TypeOK
  <2>3. QED
    BY <2>1, <2>2 DEF Open, Idle
<1>4. \A p \in Plays : rows[p] # None => w[p] # None
  BY DEF View
<1>5. SlotRecorded(s)
  BY DEF Sound, Recording
<1>6. Recorded' # {} /\ stats' # None
  <2>1. \E p \in Plays : w[p] # None
    BY <1>2, <1>5 DEF SlotRecorded
  <2>2. h.next \in Stats /\ (h.loaded # None => stats \in Stats)
    <3>1. Prepared(h, stats) /\ h.next \in Stats \union {None} /\ stats \in Stats \union {None}
      BY <1>2 DEF Open, Idle, Typed, TypeOK, Handler
    <3>2. QED
      BY <1>2, <3>1 DEF Prepared
  <2>3. stats' \in Stats
    BY <1>1, <2>2, FlushedTyped
  <2>4. QED
    BY <1>1, <2>1, <2>3, NoneAssumption DEF Recorded
<1>7. Recording'
  <2>1. ASSUME NEW t \in Slots PROVE SlotRecorded(t)'
    <3>1. CASE t = s
      BY <1>3, <3>1 DEF SlotRecorded
    <3>2. CASE t # s
      <4>1. SlotRecorded(t) /\ handler'[t] = handler[t] /\ (Open(t)' <=> Open(t))
        BY <1>3, <3>2 DEF Sound, Recording
      <4> HIDE DEF w
      <4>2. \A p \in Plays : View(t)[p] # None => View(t)'[p] # None
        BY <1>1, <1>4, <4>1 DEF View
      <4>3. QED
        BY <1>6, <4>1, <4>2 DEF SlotRecorded
    <3>3. QED
      BY <3>1, <3>2
  <2>2. QED
    BY <1>1, <1>6, <2>1 DEF Sound, Recording
<1>8. ASSUME "stats" \notin overlapped, NEW t \in Slots, Open(t)'
      PROVE  /\ h.kind = "submit" /\ handler[t].kind = "submit" /\ handler[t].at = "loaded"
             /\ Open(t) /\ handler'[t] = handler[t] /\ t # s
             /\ Adds(rows, w, h.play) /\ handler[t].play # h.play
  <2>1. t # s /\ Open(t) /\ handler'[t] = handler[t]
    BY <1>3, <1>8
  <2>2. PairOrdered(s, t) /\ SlotOrdered(s)
    BY <1>8, <2>1 DEF Sound, Ordered
  <2>3. h.kind = "submit" /\ handler[t].kind = "submit" /\ handler[t].at = "loaded"
           /\ handler[t].play # h.play
    BY <1>2, <2>1, <2>2 DEF PairOrdered
  <2>4. h.play \in Plays /\ h.chart = ChartOf[h.play] /\ rows[h.play] = None
        /\ w = RefreshBests(Inserted(h), h.chart)
    BY <1>2, <1>5, <2>2, <2>3 DEF SlotRecorded, SlotOrdered
  <2>5. Adds(rows, w, h.play)
    BY <1>2, <2>4, InsertAdds
  <2>6. QED
    BY <2>1, <2>3, <2>5
<1>9. ASSUME "stats" \notin overlapped PROVE Ordered'
  <2>1. ASSUME NEW t \in Slots, Open(t)' PROVE SlotOrdered(t)'
    <3>1. /\ handler[t].kind = "submit" /\ handler[t].at = "loaded"
          /\ Open(t) /\ handler'[t] = handler[t]
          /\ Adds(rows, w, h.play) /\ handler[t].play # h.play
      BY <1>8, <1>9, <2>1
    <3>2. rows[handler[t].play] = None /\ handler[t].play \in Plays
      BY <1>9, <3>1 DEF Sound, Ordered, SlotOrdered, Recording, SlotRecorded
    <3>3. w[handler[t].play] = None
      BY <3>1, <3>2 DEF Adds, SameRow
    <3>4. QED
      BY <1>1, <3>1, <3>3 DEF SlotOrdered
  <2>2. ASSUME NEW t \in Slots, NEW u \in Slots, t # u PROVE PairOrdered(t, u)'
    <3> SUFFICES ASSUME Open(t)', Open(u)'
                 PROVE  PairOrdered(t, u)'
      BY DEF PairOrdered
    <3>1. /\ Open(t) /\ Open(u) /\ handler'[t] = handler[t] /\ handler'[u] = handler[u]
      BY <1>8, <1>9
    <3>2. PairOrdered(t, u)
      BY <1>9, <2>2 DEF Sound, Ordered
    <3>3. QED
      BY <3>1, <3>2 DEF PairOrdered
  <2>3. QED
    BY <2>1, <2>2 DEF Ordered, SlotOrdered
<1>10. \A kind, d : PendingOf(kind, d) =>
          PendingOf(kind, d)' \/ (handler[s].kind = kind /\ handler[s].chart = d)
  <2> SUFFICES ASSUME NEW kind, NEW d, PendingOf(kind, d), ~(handler[s].kind = kind /\ handler[s].chart = d)
               PROVE  PendingOf(kind, d)'
    OBVIOUS
  <2>1. CASE [kind |-> kind, chart |-> d] \in jobs
    BY <1>1, <2>1 DEF PendingOf
  <2>2. CASE \E t \in Slots : Open(t) /\ handler[t].kind = kind /\ handler[t].chart = d
    <3>1. PICK t \in Slots : Open(t) /\ handler[t].kind = kind /\ handler[t].chart = d
      BY <2>2
    <3>2. t # s /\ handler'[t] = handler[t] /\ Open(t)'
      BY <1>3, <3>1
    <3>3. QED
      BY <3>1, <3>2 DEF PendingOf
  <2>3. QED
    BY <2>1, <2>2 DEF PendingOf
<1>11. h.kind = "submit" /\ Refreshed' => Refreshed
  BY <1>10 DEF Refreshed
<1>12. ASSUME "stats" \notin overlapped PROVE StatsSound'
  <2> SUFFICES ASSUME Refreshed' PROVE StatsSound'
    BY DEF StatsSound
  <2>1. stats' = Totals(rows')
    BY <1>1, <1>11, <1>12, CommitsTotals
  <2>2. ASSUME NEW t \in Slots, Open(t)' PROVE SlotFresh(t)'
    <3> DEFINE l == handler[t].loaded
    <3>1. /\ h.kind = "submit" /\ handler[t].kind = "submit" /\ handler[t].at = "loaded"
          /\ Open(t) /\ handler'[t] = handler[t]
          /\ Adds(rows, w, h.play)
      BY <1>8, <1>12, <2>2
    <3>2. l # None => l \in Stats /\ Outdated(l, rows)
      <4>1. l \in Stats \union {None}
        BY <3>1 DEF Open, Idle, Typed, TypeOK, Handler
      <4>2. SlotFresh(t)
        BY <1>11, <1>12, <3>1 DEF Sound, StatsSound
      <4>3. QED
        BY <3>1, <4>1, <4>2 DEF SlotFresh
    <3> HIDE DEF l, w
    <3>3. l # None => Outdated(l, w)
      BY <3>1, <3>2, StaysOutdated
    <3>4. QED
      BY <1>1, <3>1, <3>3 DEF SlotFresh, l
  <2>3. QED
    BY <2>1, <2>2 DEF StatsSound, SlotFresh
<1>13. ASSUME "rows" \notin overlapped PROVE BestsSound'
  <2>1. \A t \in Slots : SlotRanked(t)'
    <3>1. \A t \in Slots : SlotRanked(t)
      BY <1>13 DEF Sound, BestsSound
    <3>2. QED
      BY <1>1, <1>3, <3>1 DEF SlotRanked
  <2>2. PICK c \in Charts : Settles(s, c) /\ (h.kind = "refresh" => h.chart = c)
    BY <1>1, <1>13, CommitSettles
  <2>3. ASSUME NEW d \in Charts PROVE ChartSound(d)'
    <3>1. ChartSound(d)
      BY <1>13 DEF Sound, BestsSound
    <3>2. RankedRightly(w, d) => RankedRightly(rows, d)'
      BY <1>1 DEF RankedRightly
    <3>3. Unapplied(d) => Unapplied(d)'
      <4>1. h.kind # "apply"
        BY <1>2, <1>5 DEF SlotRecorded
      <4>2. Queueing(d) => Queueing(d)'
        BY <1>2, <1>3 DEF Queueing, At
      <4>3. QED
        BY <1>1, <1>10, <4>1, <4>2 DEF Unapplied
    <3>4. CASE d = c
      BY <1>1, <2>2, <3>1, <3>2, <3>3, <3>4 DEF ChartSound, Settles
    <3>5. CASE d # c
      <4>1. \A p \in Plays : ChartOf[p] = d => w[p] = rows[p]
        BY <2>2, <3>5 DEF Settles
      <4> HIDE DEF w
      <4>2. /\ ChartMarks(rows, d) => ChartMarks(w, d)
            /\ ProfileMarks(rows, d) => ProfileMarks(w, d)
            /\ RankedRightly(rows, d) => RankedRightly(w, d)
        BY <4>1, Elsewhere
      <4>3. PendingOf("refresh", d) => PendingOf("refresh", d)'
        BY <1>10, <2>2, <3>5
      <4>4. QED
        BY <1>1, <3>1, <3>2, <3>3, <4>2, <4>3 DEF ChartSound
    <3>6. QED
      BY <3>4, <3>5
  <2>4. QED
    BY <2>1, <2>3 DEF BestsSound
<1>14. QED
  BY <1>1, <1>7, <1>9, <1>12, <1>13 DEF Sound

LEMMA NextSound == Typed /\ Sound /\ [Next]_vars => Sound'
<1> SUFFICES ASSUME Typed, Sound, [Next]_vars PROVE Sound'
  OBVIOUS
<1>1. CASE UNCHANGED vars
  <2>1. /\ UNCHANGED <<rows, stats, chart_ranked, jobs, forgotten, overlapped>>
        /\ \A t \in Slots : handler'[t] = handler[t]
    BY <1>1 DEF vars
  <2>2. \A t \in Slots : /\ Open(t)' <=> Open(t)
                         /\ SlotRecorded(t)' /\ (SlotOrdered(t) => SlotOrdered(t)')
                         /\ SlotFresh(t) => SlotFresh(t)'
                         /\ SlotRanked(t) => SlotRanked(t)'
    BY <2>1, SlotKept DEF Sound, Recording
  <2>3. Recorded' = Recorded
    BY <2>1 DEF Recorded
  <2>4. \A kind, d : PendingOf(kind, d)' <=> PendingOf(kind, d)
    BY <2>1, <2>2 DEF PendingOf
  <2>5. Recording'
    BY <2>1, <2>2, <2>3 DEF Sound, Recording
  <2>6. Ordered => Ordered'
    BY <2>1, <2>2 DEF Ordered, PairOrdered
  <2>7. StatsSound => StatsSound'
    <3>1. Refreshed' <=> Refreshed
      BY <2>4 DEF Refreshed
    <3>2. QED
      BY <2>1, <2>2, <2>3, <3>1 DEF StatsSound
  <2>8. BestsSound => BestsSound'
    <3>1. \A c \in Charts : ChartSound(c) => ChartSound(c)'
      <4>1. \A c : RankedRightly(rows, c) => RankedRightly(rows, c)'
        BY <2>1 DEF RankedRightly
      <4>2. \A c : Unapplied(c)' <=> Unapplied(c)
        BY <2>1, <2>4 DEF Unapplied, Queueing, At
      <4>3. QED
        BY <2>1, <2>4, <4>1, <4>2 DEF ChartSound
    <3>2. QED
      BY <2>2, <3>1 DEF BestsSound
  <2>9. QED
    BY <2>1, <2>5, <2>6, <2>7, <2>8 DEF Sound
<1>2. ASSUME NEW s \in Slots, Step(s) PROVE Sound'
  BY <1>2, LockUserSound, ComputeSubmitSound, CommitSound, ApplySound, ComputeRefreshSound,
     BoardStepsSound, QueuedSound DEF Step
<1>3. ASSUME NEW s \in Slots,
             BoardFails(s) \/ SetRestriction(s) \/ StartRebuild(s)
      PROVE  Sound'
  BY <1>3, BoardStepsSound
<1>4. QED
  BY <1>1, <1>2, <1>3, DeadlockSound, QueuedSound, StartSubmitSound, ReviewSound, StartJobSound,
     SetChartStatusSound DEF Next

LEMMA InitSound == Init => Sound
<1> SUFFICES ASSUME Init PROVE Sound
  OBVIOUS
<1>1. /\ \A p \in Plays : rows[p] = None
      /\ stats = None /\ jobs = {} /\ overlapped = {}
      /\ \A s \in Slots : ~Open(s)
  BY DEF Init, Open, Idle
<1>2. Recorded = {} /\ \A c : Group(rows, c) = {}
  BY <1>1 DEF Recorded, Group
<1>3. Recording
  BY <1>1, <1>2 DEF Recording, SlotRecorded
<1>4. Ordered
  BY <1>1 DEF Ordered, SlotOrdered, PairOrdered
<1>5. StatsSound
  BY <1>1, <1>2 DEF StatsSound, SlotFresh
<1>6. BestsSound
  BY <1>1, <1>2 DEF BestsSound, SlotRanked, ChartSound, ChartMarks, ProfileMarks, RankedRightly
<1>7. QED
  BY <1>3, <1>4, <1>5, <1>6 DEF Sound

(* When all is quiet no refresh is pending, and only what was forgotten is *)
(* not applied.                                                            *)
LEMMA QuietIsDone ==
  ASSUME Quiet
  PROVE  \A c : ~PendingOf("refresh", c) /\ (Unapplied(c) => c \in forgotten)
BY DEF Quiet, PendingOf, Unapplied, Queueing, At, Idle, Open

(* Sound means that the statistics follow.                                 *)
LEMMA StatsFollow == Sound => StatsFollowRows
<1> SUFFICES ASSUME Sound, "stats" \notin overlapped, Quiet
             PROVE  IF Recorded = {} THEN stats = None ELSE stats = Totals(rows)
  BY DEF StatsFollowRows, StatsExact
<1>1. Refreshed
  BY QuietIsDone DEF Refreshed
<1>2. QED
  BY <1>1 DEF Sound, Recording, StatsSound

(* The marks of a chart name what nothing of the same chart beats.         *)
LEMMA BestsFollow == Typed /\ Sound => BestsFollowRows
<1> DEFINE shown == {p \in Recorded : rows[p].eligible /\ rows[p].status # "rejected"}
           marked == {p \in Recorded : rows[p].ranked}
<1> SUFFICES ASSUME Typed, Sound, Quiet, "rows" \notin overlapped, NEW p \in Recorded
             PROVE  /\ ChartOf[p] \notin forgotten =>
                           (p \in marked <=> p \in shown /\ chart_ranked[ChartOf[p]])
                    /\ rows[p].chart_best <=> p \in shown /\ ~BeatenBy(p, shown)
                    /\ rows[p].profile_best <=> p \in marked /\ ~BeatenBy(p, marked)
  BY DEF BestsFollowRows
<1> DEFINE c == ChartOf[p]
           G == Group(rows, c)
<1>1. p \in Plays /\ rows[p] # None /\ p \in G /\ c \in Charts
  BY RankingAssumption DEF Recorded, Group
<1>2. /\ ChartMarks(rows, c) /\ ProfileMarks(rows, c)
      /\ c \notin forgotten => RankedRightly(rows, c)
  BY <1>1, QuietIsDone DEF Sound, BestsSound, ChartSound
<1>3. shown \in SUBSET Plays /\ marked \in SUBSET Plays
  BY DEF Recorded
<1>4. \A q \in Plays : q \in G <=> q \in Recorded /\ ChartOf[q] = c
  BY DEF Group, Recorded
<1>5. Shown(rows, c) = shown \cap G
  BY <1>4 DEF Shown, Group
<1>6. RankedIn(rows, c) = marked \cap G
  BY <1>4 DEF RankedIn, Group
<1>7. c \notin forgotten => (p \in marked <=> p \in shown /\ chart_ranked[c])
  BY <1>1, <1>2, <1>5 DEF RankedRightly
<1>8. /\ \A q \in shown : q \in G <=> ChartOf[q] = c
      /\ \A q \in marked : q \in G <=> ChartOf[q] = c
  <2>1. (\A q \in shown : q \in Recorded) /\ (\A q \in marked : q \in Recorded)
    OBVIOUS
  <2>2. Recorded \subseteq Plays
    BY DEF Recorded
  <2> HIDE DEF shown, marked, G
  <2>3. QED
    BY <1>4, <2>1, <2>2
<1>9. /\ rows[p].chart_best <=> p \in Best(shown \cap G)
      /\ rows[p].profile_best <=> p \in Best(marked \cap G)
  BY <1>1, <1>2, <1>5, <1>6 DEF ChartMarks, ProfileMarks
<1> HIDE DEF shown, marked, G
<1>10. ASSUME NEW S \in SUBSET Plays, \A q \in S : q \in G <=> ChartOf[q] = c
       PROVE  p \in Best(S \cap G) <=> p \in S /\ ~BeatenBy(p, S)
  <2>1. \A q, r \in S : Strength[q] <= Strength[r] <=> ~(Strength[q] > Strength[r])
    <3>1. \A q \in S : Strength[q] \in Nat
      BY RankingAssumption
    <3>2. QED
      BY <3>1
  <2>2. QED
    BY <1>1, <1>10, <2>1 DEF Best, BeatenBy
<1>11. QED
  BY <1>3, <1>7, <1>8, <1>9, <1>10

\* Once every request and every job is done, the stored statistics are those of
\* the stored rows, as a refresh of everything would compute them: however many
\* submissions of the player overlap, and whatever each of them had loaded
\* before it waited for the lock, the columns it leaves out are right already.
\* Only a review, a job or a status change that overlaps may leave them wrong,
\* until a refresh that has the player to itself.
THEOREM StatsAreFollowed == Spec => []StatsFollowRows
<1>1. Init => Typed /\ Sound
  BY InitTyped, InitSound
<1>2. Typed /\ Sound /\ [Next]_vars => (Typed /\ Sound)'
  BY NextTyped, NextSound
<1>3. Typed /\ Sound => StatsFollowRows
  BY StatsFollow
<1>4. QED
  BY <1>1, <1>2, <1>3, PTL DEF Spec

\* And as long as nothing but submissions has ever overlapped, exactly the best
\* play of each chart that shows is the chart's best, exactly the best of those
\* marked as ranked the profile's, and marked is exactly what counts on a ranked
\* chart: the two commits of a change of status, its job that is queued between
\* them, and jobs that are ended and done again lose none of it, but for a chart
\* whose job was never queued.
THEOREM BestsAreFollowed == Spec => []BestsFollowRows
<1>1. Init => Typed /\ Sound
  BY InitTyped, InitSound
<1>2. Typed /\ Sound /\ [Next]_vars => (Typed /\ Sound)'
  BY NextTyped, NextSound
<1>3. Typed /\ Sound => BestsFollowRows
  BY BestsFollow
<1>4. QED
  BY <1>1, <1>2, <1>3, PTL DEF Spec

=============================================================================
