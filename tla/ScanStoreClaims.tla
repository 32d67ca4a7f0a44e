--------------------------- MODULE ScanStoreClaims ---------------------------
(***************************************************************************)
(* What comments of the program say of the scan store, where the code does *)
(* something else.                                                         *)
(***************************************************************************)
EXTENDS MCScanStore

\* ptobs.f:7 says that insertion edits the schedule: a command that adds a scan
\* keeps every scan there was (newscan.f leaves nxtrec at record 1).
InsertKeepsScans ==
    [][nobs' > nobs =>
         \A i \in 1..nobs : \E j \in 1..(nobs + 1) : Sched'[j] = Sched[i]]_vars
=============================================================================
