---------------------------- MODULE MCSubmissions ----------------------------
(***************************************************************************)
(* Two plays and two accounts: a play finished, lost on the way and sent   *)
(* again while the next one asks for its ticket.                           *)
(***************************************************************************)
EXTENDS Submissions, TLC

CONSTANTS p1, p2, alice, bob

MCPlays == {p1, p2}
MCUsers == {alice, bob}
MCNone == {}
MCFirst == {p1}

Symmetry == Permutations(MCUsers)
=============================================================================
