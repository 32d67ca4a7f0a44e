------------------------- MODULE ScheduleFileClaims --------------------------
(***************************************************************************)
(* What a message of the program says of the schedule files, where the     *)
(* code does something else.                                               *)
(***************************************************************************)
EXTENDS MCScheduleFile

SkdWritten == pc = "move" /\ job.cmd \notin VexForms

\* unout.f:33 calls what it copies the unchanged sections from the original
\* file: with a VEX file as the original, the scans are still written.
ScansSurviveVex ==
    [][SkdWritten => job.tmp.sec["SKED"] = mem["SKED"]]_vars
=============================================================================
