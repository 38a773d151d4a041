----------------------------- MODULE MCSession -----------------------------
(* Three sessions, so that one that fails comes between two others; two     *)
(* keys, so that one may be grabbed and another refused.                    *)
EXTENDS Session
CONSTANTS stop, pause
MCKeys == {stop, pause}
=============================================================================
