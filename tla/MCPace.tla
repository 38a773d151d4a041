-------------------------------- MODULE MCPace --------------------------------
EXTENDS Pace

E(t) == [kind |-> "event", time |-> t]
D(t) == [kind |-> "data", time |-> t]
G(t) == [kind |-> "gone", time |-> t]

(* Waits below and above the threshold of sleeping, a short one after a     *)
(* long one, one that runs backwards, and protocol data first and in        *)
(* between, at the time of an event too; a device that is gone, a line      *)
(* recorded before the first one, and a file without a line.                *)
MCFiles == {<<E(7), E(27), E(127), E(137), E(143)>>,
            <<D(5), E(9), E(12), E(14), E(17), E(15), E(40)>>,
            <<E(10), E(30), E(60), E(60), D(60), E(93), D(95), E(97)>>,
            <<E(30), G(34), E(50), E(12), G(20), E(45), E(60)>>,
            <<>>}
=============================================================================
