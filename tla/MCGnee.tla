------------------------------- MODULE MCGnee -------------------------------
(* One widget of each kind, a request whose name begins that of another, an *)
(* event and a reply; a project a user has written, and a session another   *)
(* program has recorded.                                                    *)
EXTENDS Gnee
MCItems == {<<"device-event-range", "2">>, <<"request-range", "33">>,
            <<"request-range", "31">>, <<"reply-range", "1">>}
MCPredefined == {<<"predefined", "Mouse">>}
MCPrefixes == {<<"33", "31">>}
MCHandWritten ==
    {<<Line("no-synchronise", None), Line("max-threshold", "5"),
       Line("recall-window-position", None), Line("request-range", "31")>>,
     <<Line("speed-percent", "5"), Line("reply-range", "1")>>,
     <<Line("request-range", None)>>}
MCRecordings ==
    {<<Line("events-to-record", "5"), Line("device-event-range", "2")>>,
     <<Line("no-synchronise", None), Line("reply-range", "1"),
       Line("Distribution display", None)>>}
=============================================================================
