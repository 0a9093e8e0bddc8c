---------------------------- MODULE MCTeamReach -----------------------------
(* Small instances of TeamReach for TLC. *)
EXTENDS TeamReach

MCSaved == {<<0, 0, 2022, 7, 14>>, <<1, 1, 2022, 7, 14>>}
MCCsqs == {<<49, 56>>}                               \* "18"
MCDates == {<<50, 48, 50, 50, 48, 55, 49, 53>>}      \* "20220715"
=============================================================================
