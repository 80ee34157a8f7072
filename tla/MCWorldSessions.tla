--------------------------- MODULE MCWorldSessions ---------------------------
(* Instances of WorldSessions for TLC.  Accounts that are both privileged or
   both not are interchangeable. *)
EXTENDS WorldSessions, TLC

CONSTANTS a1, a2

Interchangeable == Permutations({a1, a2})
=============================================================================
