---------------------------- MODULE MCSyncBuffer ----------------------------
(***************************************************************************)
(* Instances of SyncBuffer for TLC.  Data are one event (Expose), two      *)
(* requests (MapWindow and DestroyWindow, whose number 4 is that of        *)
(* ButtonPress) and one reply.                                             *)
(***************************************************************************)
EXTENDS SyncBuffer

Expose        == <<EVENT, 12>>
MapWindow     == <<REQUEST, 8>>
DestroyWindow == <<REQUEST, 4>>
AReply        == <<REPLY, 1>>

MCData   == {Expose, MapWindow, AReply, DestroyWindow}
MCMinThr == -1
=============================================================================
