------------------------------ MODULE MCAttempt ------------------------------
(***************************************************************************)
(* A chart of two lanes for Attempt: a hold with a jack of two taps beside *)
(* its body, and a tap on the other lane.  The times are the corners of    *)
(* the ranked windows: out of reach, BAD, the better of two notes, the     *)
(* millisecond after a miss, and past the hold's last release.             *)
(***************************************************************************)
EXTENDS Attempt

MCChart ==
  [i \in 0 .. 3 |->
     CASE i = 0 -> [key |-> 0, type |-> "HOLD", time |-> 0, endTime |-> 400]
       [] i = 1 -> [key |-> 0, type |-> "HIT", time |-> 150, endTime |-> 0]
       [] i = 2 -> [key |-> 1, type |-> "HIT", time |-> 150, endTime |-> 0]
       [] i = 3 -> [key |-> 0, type |-> "HIT", time |-> 250, endTime |-> 0]]

MCTimes == {-201, -130, -2, 20, 200, 280, 351, 600, 801}

MCInputKeys == 0 .. 2
=============================================================================
