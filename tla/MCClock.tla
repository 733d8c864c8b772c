------------------------------ MODULE MCClock ------------------------------
(* What TLC needs to check Clock.                                          *)
EXTENDS Clock, TLC

=============================================================================
