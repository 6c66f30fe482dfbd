---------------------------- MODULE MCAdaptiveSync ----------------------------
(* An instance of AdaptiveSync for TLC: a laptop panel with adaptive sync, a     *)
(* screen without, a game and a player.                                           *)
EXTENDS AdaptiveSync
CONSTANTS eDP, TV, title, film
=============================================================================
