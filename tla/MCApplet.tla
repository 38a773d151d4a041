------------------------------ MODULE MCApplet ------------------------------
(* Two sessions, two presses of Stop, two resets at most: enough for two    *)
(* sessions that overlap, for presses that are counted while the updater    *)
(* forgets them, for a reset under a session, and for one reset too many.   *)
EXTENDS Applet
=============================================================================
