----------------------------- MODULE MCScenePlay -----------------------------
(***************************************************************************)
(* A play of three notes on two lanes: a short hold, a tap inside it on    *)
(* the other lane and a tap after it.  Time passes in steps of 67 ms, so   *)
(* that three steps after a note its 200 ms window has just closed; short  *)
(* frames go on until the hold's last release is past, and the long step   *)
(* from there to the end of the play.                                      *)
(***************************************************************************)
EXTENDS ScenePlay

MCChart ==
  [i \in 0 .. 2 |->
     CASE i = 0 -> [key |-> 0, type |-> "HOLD", time |-> 0, endTime |-> 67]
       [] i = 1 -> [key |-> 1, type |-> "HIT", time |-> 67, endTime |-> 0]
       [] i = 2 -> [key |-> 0, type |-> "HIT", time |-> 201, endTime |-> 0]]

\* The hold and the tap on the other lane only.
MCShortChart == [i \in 0 .. 1 |-> MCChart[i]]

MCInputOffset == -67
MCStartPosition == -335
MCFrameTimes == {67}
MCLongTimes == {2010}
MCGap == {67}
MCNoGap == {0}
MCNoCorrection == {0}
MCForward == {0, 67}
MCSnaps == {-134, 0}
=============================================================================
