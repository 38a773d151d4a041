------------------------------ MODULE MCRecord ------------------------------
(***************************************************************************)
(* Instances of Record for TLC.  The limits are: none, events, data, both  *)
(* and time.                                                               *)
(***************************************************************************)
EXTENDS Record

None == -1
Limit(e, d, t) == [events |-> e, data |-> d, time |-> t]
MCLimits == {Limit(None, None, None), Limit(2, None, None),
             Limit(1, 2, None), Limit(0, 1, None), Limit(None, None, 1)}
=============================================================================
