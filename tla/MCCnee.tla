------------------------------- MODULE MCCnee -------------------------------
(* One option of each kind the files are made of, and one of each kind the  *)
(* parser has; files by hand that are read to their end, that inform of the *)
(* project, and that crash.                                                 *)
EXTENDS Cnee
MCOptions ==
    {"record", "replay", "retype-file", "check-syntax", "replay-backend",
     "keyboard", "file", "project", "write-settings", "help",
     "print-event-name", "get-xinput-event-base",
     "max-threshold", "future-clients", "feedback-none", "distribute",
     "human-printout", "time"}
MCValues == {"1", "d"}
MCHandWritten ==
    {<<Line("max-threshold", "1"), Line("max-threshold", "d")>>,
     <<Line("ProjectName", "d"), Line("human-printout", None)>>,
     <<Blank, Line("device-event-range", None)>>}
=============================================================================
