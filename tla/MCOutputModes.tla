----------------------------- MODULE MCOutputModes -----------------------------
(* An instance of OutputModes for TLC: a laptop that can do everything and a     *)
(* screen that can only show windows; a game and one other program.               *)
EXTENDS OutputModes
CONSTANTS eDP, TV, title, other
=============================================================================
