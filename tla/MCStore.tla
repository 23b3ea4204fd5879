------------------------------ MODULE MCStore ------------------------------
(***************************************************************************)
(* Two recorders of two sessions put the same large payload, or another,   *)
(* or keep a small one in line, and go down twice.                         *)
(***************************************************************************)
EXTENDS Store, TLC

CONSTANTS a, b, small, v, w, r, s

\* Nothing tells recorders, sessions or large payloads apart but their states.
Alike == Permutations({v, w}) \cup Permutations({r, s}) \cup Permutations({a, b})
=============================================================================
