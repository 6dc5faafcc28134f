------------------------------ MODULE MCPlayback ------------------------------
(***************************************************************************)
(* A log of four packages for TLC, the third with an earlier time than the *)
(* second.                                                                 *)
(***************************************************************************)
EXTENDS Playback

MCTime == [i \in 0..3 |-> <<0, 3, 1, 2>>[i + 1]]
=============================================================================
