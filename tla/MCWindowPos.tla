---------------------------- MODULE MCWindowPos ----------------------------
(***************************************************************************)
(* Instances of WindowPos for TLC: lists of two places, so that they fill  *)
(* up, are read behind their end and refuse an entry.                      *)
(***************************************************************************)
EXTENDS WindowPos
MCManagers == {"exact", "framed", "stubborn"}
=============================================================================
