----------------------------- MODULE MCLaunchFx -----------------------------
(* An instance of LaunchFx for TLC: one game, started through two reapers. *)
EXTENDS LaunchFx
CONSTANTS r1, r2, title
=============================================================================
