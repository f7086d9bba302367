---------------------------- MODULE MCSchedules ----------------------------
(* Two servers, a snoozed card and a digest. *)
EXTENDS Schedules, TLC

CONSTANTS s1, s2

MCSymmetry == Permutations({s1, s2})

=============================================================================
