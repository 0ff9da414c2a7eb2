------------------------------- MODULE MCQueue -------------------------------
(***************************************************************************)
(* Queue for TLC: two requests that can be coalesced.                      *)
(***************************************************************************)
EXTENDS Queue

OneEach == [s \in Submissions |-> s]
==============================================================================
