----------------------------- MODULE MCRanking -----------------------------
(* Instances of Ranking: two plays of one chart, or of two charts.         *)
EXTENDS Ranking, TLC

CONSTANTS p1, p2, c1, c2

OneChart == p1 :> c1 @@ p2 :> c1
Rising == p1 :> 1 @@ p2 :> 2
TwoCharts == p1 :> c1 @@ p2 :> c2
=============================================================================
