---------------------------- MODULE ScheduleFile -----------------------------
(***************************************************************************)
(* The schedule files and the session that edits one of them: opening a    *)
(* file or starting without one (sked.f, skopn), the flags that say which  *)
(* part has changed, and WC, WR, EC, ER, their VEX forms and ABORT         *)
(* (skcls, unout, renam).  The session may be stopped at any point.        *)
(*                                                                         *)
(* A file or the memory holds one version of each section: 0 where there   *)
(* is none, and every change makes a version that was never there before.  *)
(* "SETUP" stands for the sections that are always written: $PARAM, $OP,   *)
(* $MAJOR, $DOWNTIME, $SOURCES, $STATIONS and their like.                  *)
(***************************************************************************)
EXTENDS Naturals

CONSTANTS
    Names,          \* names of schedule files
    Scratch,        \* csktmp: the file that stands in when none is named
    NoName,         \* a command without a file name
    OldFiles,       \* what a file may hold at the start
    MaxVersion,     \* bound on the changes
    Usage,          \* what the user does beyond editing and saving one file
    Faults          \* what goes wrong outside the program

Sections == {"SKED", "CODES", "FLUX", "SETUP"}
Flagged  == Sections \ {"SETUP"}        \* written only if changed
Nothing  == [s \in Sections |-> 0]
Version  == 0..MaxVersion
Content  == [Sections -> Version]
File     == [fmt : {"absent", "empty", "skd", "vex"}, sec : Content]
Absent   == [fmt |-> "absent", sec |-> Nothing]
Empty    == [fmt |-> "empty", sec |-> Nothing]
Unchanged == [s \in Sections |-> FALSE]

Creating  == {"WC", "EC", "VWC", "VEC", "VCC"}
Replacing == {"WR", "ER", "VWR", "VER"}
Staying   == {"WC", "WR", "VWC", "VWR"}     \* the session goes on
VexForms  == {"VWC", "VWR", "VEC", "VER", "VCC"}
Commands  == {c \in Creating \cup Replacing :
                /\ c \in VexForms => "vex" \in Usage
                /\ c = "VCC" => "correlator" \in Usage}

ASSUME ScratchIsNoName == Scratch \notin Names /\ NoName \notin Names \cup {Scratch}
ASSUME MaxVersionIsNat == MaxVersion \in Nat \ {0}
ASSUME OldFilesHold    == OldFiles \subseteq [fmt : {"skd"}, sec : [Sections -> 0..1]]

VARIABLES
    disk,       \* the files
    cskfil,     \* CSKFIL: the file the session has read, or Scratch
    mem,        \* the sections in memory
    made,       \* number of the latest version
    knew,       \* KNEWSK, KNEWFR, KNEWFL; KNEWPA, KNEWOP, KNEWSO and KNEWST are "SETUP"
    knewfi,     \* KNEWFI
    kflux,      \* KFLUX: a $FLUX section has been read
    cflfil,     \* version of the fluxes in CFLFIL, the copy of the section read
    pc,         \* "closed" at the file name prompt, "command", or a step of SKCLS
    job,        \* the write under way: command, target, CTMFI2; yes: the user has
                \* answered Replace?, or there was nothing to replace
    said        \* the last message

vars    == <<disk, cskfil, mem, made, knew, knewfi, kflux, cflfil, pc, job, said>>
session == <<cskfil, mem, made, kflux, cflfil>>
memory  == <<mem, made, cflfil>>

Exists(f) == disk[f].fmt # "absent"
NoJob     == [cmd |-> "none", to |-> Scratch, tmp |-> Absent, yes |-> FALSE]

Init ==
    /\ disk \in [Names \cup {Scratch} -> OldFiles \cup {Absent}]
    /\ disk[Scratch] = Absent
    /\ cskfil = Scratch
    /\ mem = Nothing
    /\ made = 1
    /\ knew = Unchanged
    /\ knewfi = FALSE
    /\ kflux = FALSE
    /\ cflfil = 0
    /\ pc = "closed"
    /\ job = NoJob
    /\ said = "nothing"

-----------------------------------------------------------------------------
(***************************************************************************)
(* The file name prompt.  SKOPN adds what it reads to what is there, which *)
(* is nothing unless an opening has failed: the prompt comes back without  *)
(* SKINI.                                                                  *)
(***************************************************************************)
Joined(file) ==
    [s \in Sections |->
        IF mem[s] = 0 THEN file.sec[s]
        ELSE IF file.sec[s] = 0 THEN mem[s]
        ELSE IF s = "SKED" THEN made + 1
        ELSE file.sec[s]]

Read(f) ==
    /\ pc = "closed"
    /\ disk[f].fmt \in {"skd", "vex"}
    /\ mem # Nothing => made < MaxVersion
    /\ mem' = Joined(disk[f])
    /\ made' = IF mem # Nothing THEN made + 1 ELSE made
    /\ cskfil' = f
    /\ kflux' = (kflux \/ (disk[f].fmt = "skd" /\ disk[f].sec["FLUX"] # 0))
    /\ cflfil' = IF disk[f].fmt = "skd" THEN disk[f].sec["FLUX"] ELSE cflfil
    /\ UNCHANGED <<disk, knew, knewfi, job>>

Open(f) ==
    /\ Read(f)
    /\ pc' = "command"
    /\ said' = "opened"

\* The last line of $STAT_SEFD cannot be read: everything else has been.
OpenBad(f) ==
    /\ "badfile" \in Faults
    /\ Read(f)
    /\ pc' = "closed"
    /\ said' = "try again"

\* A blank name: CSKFIL is opened with status unknown.
Start ==
    /\ pc = "closed"
    /\ knewfi' = TRUE
    /\ cskfil' = Scratch
    /\ disk' = IF Exists(Scratch) THEN disk ELSE [disk EXCEPT ![Scratch] = Empty]
    /\ pc' = "command"
    /\ said' = "opened"
    /\ UNCHANGED <<memory, knew, kflux, job>>

-----------------------------------------------------------------------------
(***************************************************************************)
(* Commands that change a section, with and without its flag.              *)
(***************************************************************************)
Change(s) ==
    /\ pc = "command"
    /\ made < MaxVersion
    /\ made' = made + 1
    /\ mem' = [mem EXCEPT ![s] = made + 1]
    /\ said' = "changed"
    /\ UNCHANGED <<disk, cskfil, knewfi, kflux, cflfil, pc, job>>

\* ptobs, delete_all_obs, fillcmd; frsel, frcat; flcmd, flget; sscan, snrcm, seop.
\* FLGET does not set KFLUX.
Edit(s) ==
    /\ s = "FLUX" => kflux \/ "catalogflux" \in Usage
    /\ Change(s)
    /\ knew' = [knew EXCEPT ![s] = TRUE]

\* DOWNTIME, GROUP, MAJOR, MINOR, PARAMETERS, TWIN_TELESCOPES, ...
Set == Change("SETUP") /\ UNCHANGED knew

Thin ==
    /\ "thin" \in Usage
    /\ mem["SKED"] # 0
    /\ Change("SKED")
    /\ UNCHANGED knew

-----------------------------------------------------------------------------
(***************************************************************************)
(* SKCLS, up to the answer to Replace?.  The sections of a file that is    *)
(* not new come from CSKFIL, so "elsewhere" is writing to another file.    *)
(***************************************************************************)
\* Variant: the existing file is not looked for.
TakenNever(cmd, to) == FALSE

Taken(cmd, to) == Exists(to) /\ cmd \in {"WC", "EC", "VWC", "VEC"}

Refuse(fi, words) ==
    /\ knewfi' = fi
    /\ said' = words
    /\ UNCHANGED <<disk, session, knew, pc, job>>

Begin(cmd, to, fi, yes) ==
    /\ knewfi' = fi
    /\ pc' = "check"
    /\ job' = [cmd |-> cmd, to |-> to, tmp |-> Absent, yes |-> yes]
    /\ said' = "writing"
    /\ UNCHANGED <<session, knew>>

Write(cmd, name) ==
    LET fi == knewfi \/ cmd \in Creating
        to == IF name = NoName THEN cskfil ELSE name
    IN  /\ pc = "command"
        /\ "elsewhere" \in Usage \/ fi \/ (to = cskfil /\ to # Scratch)
        /\ \/ /\ name = NoName /\ fi
              /\ Refuse(FALSE, "no name")                       \* SKCLS01
           \/ /\ name # NoName \/ ~fi
              /\ Taken(cmd, to)
              /\ Refuse(FALSE, "exists")                        \* SKCLS03
           \/ /\ name # NoName \/ ~fi
              /\ cmd \in Replacing
              /\ IF ~Exists(to) THEN Refuse(fi, "missing")      \* SKCLS04
                 ELSE \/ Refuse(fi, "left")                     \* Replace? N
                      \/ Begin(cmd, to, fi, TRUE) /\ UNCHANGED disk
           \/ /\ name # NoName
              /\ cmd \in Creating /\ ~Taken(cmd, to)
              /\ Begin(cmd, to, fi, ~Exists(to))
              /\ disk' = IF Exists(to) THEN disk ELSE [disk EXCEPT ![to] = Empty]

\* CHSKE: the selection is incomplete and the user does not want to write.
CheckFails ==
    /\ pc = "check"
    /\ pc' = "command"
    /\ said' = "left"
    /\ UNCHANGED <<disk, session, knew, knewfi, job>>

CheckPasses ==
    /\ pc = "check"
    /\ pc' = "write"
    /\ UNCHANGED <<disk, session, knew, knewfi, job, said>>

(***************************************************************************)
(* The temporary file: the sections that have changed, and UNOUT's copy of *)
(* the others from CSKFIL.  UNOUT finds none of them in a VEX file.        *)
(***************************************************************************)
FromMemory(s) ==
    \/ s = "SETUP"
    \/ knew[s]
    \/ (knewfi /\ (s = "FLUX" => kflux))

Kept(s) == IF ~knewfi /\ disk[cskfil].fmt = "skd" THEN disk[cskfil].sec[s] ELSE 0

\* Variants: a new file gets only what has changed; unchanged sections are not
\* copied.
ComposeChanged == [s \in Sections |-> IF s = "SETUP" \/ knew[s] THEN mem[s] ELSE Kept(s)]
ComposeNoCopy  == [s \in Sections |-> IF FromMemory(s) THEN mem[s] ELSE 0]

Compose == [s \in Sections |-> IF FromMemory(s) THEN mem[s] ELSE Kept(s)]

\* $FLUX of a VEX file is CFLFIL; VCC writes no $SCHEDULING_PARAMS.
ComposeVex(cmd) ==
    [s \in Sections |-> IF s \in {"FLUX", "SETUP"} /\ cmd = "VCC" THEN 0
                        ELSE IF s = "FLUX" THEN cflfil
                        ELSE mem[s]]

WriteTemp ==
    /\ pc = "write"
    /\ \/ /\ job' = [job EXCEPT !.tmp =
                       IF job.cmd \in VexForms
                         THEN [fmt |-> "vex", sec |-> ComposeVex(job.cmd)]
                         ELSE [fmt |-> "skd", sec |-> Compose]]
          /\ pc' = "move"
          /\ UNCHANGED <<knew, said>>
       \/ /\ "diskfull" \in Faults
          /\ pc' = "command"
          /\ said' = "re-issue"
          /\ knew' = [knew EXCEPT !["SETUP"] = TRUE]    \* KNEWSO, KNEWST
          /\ UNCHANGED job
    /\ UNCHANGED <<disk, session, knewfi>>

-----------------------------------------------------------------------------
(***************************************************************************)
(* renam, and what follows whatever it answers: mv's status is positive    *)
(* when it fails and SKCLS looks for a negative one.                       *)
(***************************************************************************)
Forget ==
    /\ cskfil' = Scratch
    /\ mem' = Nothing
    /\ knew' = Unchanged
    /\ knewfi' = FALSE
    /\ kflux' = FALSE
    /\ cflfil' = 0
    /\ pc' = "closed"
    /\ job' = NoJob
    /\ UNCHANGED made

\* Variant: KNEWFI goes, CSKFIL stays.
StayBehind ==
    /\ knew' = Unchanged
    /\ knewfi' = FALSE
    /\ pc' = "command"
    /\ job' = NoJob
    /\ UNCHANGED session

Stay ==
    /\ knew' = Unchanged
    /\ cskfil' = IF knewfi THEN job.to ELSE cskfil
    /\ knewfi' = FALSE
    /\ pc' = "command"
    /\ job' = NoJob
    /\ UNCHANGED <<memory, kflux>>

Move ==
    /\ pc = "move"
    /\ \/ disk' = [disk EXCEPT ![job.to] = job.tmp]
       \/ "move" \in Faults /\ UNCHANGED disk
    /\ said' = "finished"
    /\ IF job.cmd \in Staying THEN Stay ELSE Forget

-----------------------------------------------------------------------------
\* Variant: KNEWFL is not looked at.
AsksForgettingFlux == \E s \in Sections \ {"FLUX"} : knew[s]

Asks == \E s \in Sections : knew[s]

\* ABORT, answered Y if it asks.  The next run has another scratch file.
Abort ==
    /\ pc = "command"
    /\ said' = IF Asks THEN "aborted" ELSE "aborted unasked"
    /\ Forget
    /\ disk' = [disk EXCEPT ![Scratch] = Absent]

\* QUIT, or the end of the process at any point.
Stop ==
    /\ pc # "closed" \/ mem # Nothing \/ Exists(Scratch)
    /\ said' = "stopped"
    /\ Forget
    /\ disk' = [disk EXCEPT ![Scratch] = Absent]

Next ==
    \/ \E f \in Names : Open(f) \/ OpenBad(f)
    \/ Start
    \/ \E s \in Sections : Edit(s)
    \/ Set
    \/ Thin
    \/ \E cmd \in Commands, name \in Names \cup {NoName} : Write(cmd, name)
    \/ CheckFails
    \/ CheckPasses
    \/ WriteTemp
    \/ Move
    \/ Abort
    \/ Stop

Spec == Init /\ [][Next]_vars

-----------------------------------------------------------------------------
(***************************************************************************)
(* Properties.                                                             *)
(***************************************************************************)
TypeOK ==
    /\ disk \in [Names \cup {Scratch} -> File]
    /\ cskfil \in Names \cup {Scratch}
    /\ mem \in Content
    /\ made \in 1..MaxVersion
    /\ knew \in [Sections -> BOOLEAN]
    /\ knewfi \in BOOLEAN /\ kflux \in BOOLEAN
    /\ cflfil \in Version
    /\ pc \in {"closed", "command", "check", "write", "move"}
    /\ job \in [cmd : Creating \cup Replacing \cup {"none"}, to : Names \cup {Scratch},
                tmp : File, yes : BOOLEAN]

\* A section in memory that is not the one in CSKFIL has its flag set, whatever
\* has been written, refused or left half way: UNOUT copies from CSKFIL what
\* has no flag.
UnsavedIsFlagged ==
    pc # "closed" =>
        \A s \in Flagged : mem[s] # disk[cskfil].sec[s] => knew[s]

\* ABORT without a question loses no scans, frequencies or fluxes: they are in
\* the file.
AbortLosesNothing ==
    [][Abort /\ said' = "aborted unasked" =>
         \A s \in Flagged : mem[s] = disk[cskfil].sec[s]]_vars

\* A file that holds a schedule is replaced only by the write that named it,
\* after the user has answered Replace?; and the sections of the session's own
\* file that no command has flagged stay, whatever a failed opening has left of
\* another file in memory.
OnlyAskedReplaced ==
    [][\A n \in Names : disk[n].fmt \in {"skd", "vex"} /\ disk'[n] # disk[n] =>
         /\ pc = "move" /\ job.to = n /\ job.yes
         /\ cskfil = n /\ ~knewfi /\ disk[n].fmt = "skd" /\ disk'[n].fmt = "skd" =>
              \A s \in Flagged : disk'[n].sec[s] # disk[n].sec[s] => knew[s]]_vars

\* A new .skd file gets the scans and the frequencies in memory, whatever the
\* session did before.
NewFileHasAll ==
    [][\A n \in Names :
         pc = "move" /\ knewfi /\ disk'[n] # disk[n] /\ disk'[n].fmt = "skd"
         => \A s \in {"SKED", "CODES"} : disk'[n].sec[s] = mem[s]]_vars

\* A file only ever holds what the memory was when it was written: a finished
\* write is complete, and nothing that was refused, left or stopped half way
\* changes or loses what a file holds.
Promise ==
    INSTANCE Document WITH Contents <- Content, Blank <- Nothing, doc <- mem,
                           saved <- [n \in Names |-> disk[n].sec],
                           open <- pc # "closed"
FilesHoldDocuments == Promise!Spec
=============================================================================
