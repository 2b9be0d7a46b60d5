----------------------------- MODULE MCDaySeeds -----------------------------
(* Two days, two configs and two masters: one of each can follow another.  *)
EXTENDS DaySeeds
=============================================================================
