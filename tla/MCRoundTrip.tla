----------------------------- MODULE MCRoundTrip -----------------------------
EXTENDS RoundTrip

(* A recording of everything, and one that uses every option. *)
MCRecordings == {[firstLast |-> FALSE, action |-> {}, masters |-> TRUE],
                 [firstLast |-> FALSE, action |-> {"kStop"}, masters |-> TRUE],
                 [firstLast |-> TRUE, action |-> {"kStop"}, masters |-> FALSE]}

(* Characters that need no modifier, that two modifiers give, that Control  *)
(* gives, and one of the third level of another key.                        *)
MCKeyOf == [a |-> "kA", A |-> "kA", cA |-> "kA", at |-> "kQ"]
MCUnder == [a |-> {"none"}, A |-> {"shift", "lock"}, cA |-> {"control"},
            at |-> {"mod5"}]
MCTexts == {<<"A", "a">>, <<"at", "cA">>}

Plain == [forced |-> FALSE, asked |-> Unset, offset |-> 0, adjust |-> TRUE,
          distr |-> {}, gone |-> {}]

(* The settings of a session: with a distribution list, core events forced, *)
(* fitted to a screen of twice the width, with the resolution left alone,   *)
(* and with one of the devices of the recording missing.                    *)
MCFakings == {[Plain EXCEPT !.forced = TRUE, !.distr = {"second"}],
              [Plain EXCEPT !.distr = {"second"}, !.offset = 1],
              [Plain EXCEPT !.forced = TRUE, !.asked = 4, !.offset = 1],
              [Plain EXCEPT !.adjust = FALSE, !.gone = {"keyboard"}],
              [Plain EXCEPT !.distr = {"second"}, !.gone = {"pointer"}]}

Prim(type, what) == [dev |-> "prim", type |-> type, what |-> what]

(* Bound: a process that records plays the file it has recorded only. *)
FilesApart == recordings = 0 \/ fakings = 0 \/ recorded

MCScripts == {<<Prim("motion", 1), Prim("relative", 1), Prim("press", "b"),
                Prim("keypress", "A"), Prim("release", "b"),
                Prim("keyrelease", "A")>>}
=============================================================================
