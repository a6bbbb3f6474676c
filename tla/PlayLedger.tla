------------------------------ MODULE PlayLedger ------------------------------
(***************************************************************************)
(* What submitting a play promises, whatever fails on the way: a play that *)
(* was played is recorded at most once, what was recorded stays, and it    *)
(* counts for the rankings only under the account that played it.          *)
(***************************************************************************)
CONSTANTS Plays, Users, None

VARIABLES
  player,   \* who played each play, None before it is played
  ledger    \* None, or the recorded play: its account and its eligibility

Recorded == [user: Users, eligible: BOOLEAN]

Init ==
  /\ player = [p \in Plays |-> None]
  /\ ledger = [p \in Plays |-> None]

Begin(p, u) ==
  /\ player[p] = None
  /\ player' = [player EXCEPT ![p] = u]
  /\ UNCHANGED ledger

Record(p, play) ==
  /\ player[p] # None /\ ledger[p] = None
  /\ play.eligible => play.user = player[p]
  /\ ledger' = [ledger EXCEPT ![p] = play]
  /\ UNCHANGED player

Next ==
  \/ \E p \in Plays, u \in Users : Begin(p, u)
  \/ \E p \in Plays, play \in Recorded : Record(p, play)

Spec == Init /\ [][Next]_<<player, ledger>>
=============================================================================
