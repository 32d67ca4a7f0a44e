--------------------------- MODULE MCScheduleFile ----------------------------
(***************************************************************************)
(* ScheduleFile with files that hold a schedule with and without fluxes.   *)
(***************************************************************************)
EXTENDS ScheduleFile

Full      == [fmt |-> "skd", sec |-> [s \in Sections |-> 1]]
NoFluxes  == [fmt |-> "skd", sec |-> [s \in Sections |-> IF s = "FLUX" THEN 0 ELSE 1]]
TwoFiles  == {Full, NoFluxes}
OneFile   == {Full}
=============================================================================
