------------------------------ MODULE MCRanges ------------------------------
(***************************************************************************)
(* Instances of Ranges for TLC.  The keyboard is a range of device events  *)
(* given as events, so is ReparentNotify with its neighbour; the requests  *)
(* leave a gap and the errors are in one run or two.                       *)
(***************************************************************************)
EXTENDS Ranges

Entry(t, first, last) == [type |-> t, start |-> first, stop |-> last]
MCEntries == {Entry("event", 2, 3), Entry("event", 21, 22),
              Entry("request", 1, 2),
              Entry("request", 4, 0), Entry("error", 3, 0), Entry("error", 8, 9)}
MCExcludes == {[type |-> "device", nr |-> 2], [type |-> "delivered", nr |-> 21],
               [type |-> "request", nr |-> 1]}
MCServers == {"modern", "as_delivered", "dangerous"}
=============================================================================
