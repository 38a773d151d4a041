------------------------------ MODULE MCReplay ------------------------------
(***************************************************************************)
(* Instances of Replay for TLC: short session files with device events     *)
(* around a datum, comments, primitives and lines of every other kind.     *)
(***************************************************************************)
EXTENDS Replay

Expose == <<0, 12>>
MapWindow == <<1, 8>>
AReply == <<2, 1>>
MCData == {Expose, MapWindow, AReply}
MCMinThr == -1

L(k) == [kind |-> k, datum |-> <<>>]
D(d) == [kind |-> "datum", datum |-> d]

(* A session whose data add up, a session that runs into a drift before its *)
(* events, one with a line of every kind, and one that is not accepted.     *)
MCFiles ==
    { <<L("core"), D(Expose), D(MapWindow), D(AReply), L("slave")>>,
      <<L("setting"), D(Expose), D(Expose), D(Expose), L("slave"),
        L("comment"), L("slave"), L("prim")>>,
      <<L("comment"), L("core"), L("slave"), L("master"), L("window"),
        L("comment"), L("prim")>>,
      <<L("slave"), L("core")>> }

O(sync, force, core) == [sync |-> sync, force |-> force, core |-> core]
MCOptions ==
    {O(TRUE, FALSE, FALSE), O(TRUE, TRUE, TRUE), O(FALSE, FALSE, TRUE)}
=============================================================================
