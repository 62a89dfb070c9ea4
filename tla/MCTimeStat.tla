----------------------------- MODULE MCTimeStat -----------------------------
(***************************************************************************)
(* Instances of TimeStat for TLC.                                          *)
(***************************************************************************)
EXTENDS TimeStat
=============================================================================
