------------------------- MODULE ScheduleFileProofs --------------------------
(***************************************************************************)
(* Proofs about ScheduleFile for any number of files and of changes: the   *)
(* types hold whatever the user does and whatever fails; a user who edits  *)
(* and saves one file at a time, with nothing failing, never has a change  *)
(* that has no flag, and the files hold whole documents; no file but one   *)
(* that was asked for is written over, the correlator's VEX file apart;    *)
(* and a file saved under a new name has every section.                    *)
(***************************************************************************)
EXTENDS ScheduleFile, TLAPS

AllFiles == Names \cup {Scratch}

\* The constant contents, files and sections are what TypeOK asks for.
LEMMA FileTypes ==
    /\ Nothing \in Content
    /\ Absent \in File /\ Empty \in File
    /\ Unchanged \in [Sections -> BOOLEAN]
    /\ \A f \in File : f.sec \in Content
    /\ "SKED" \in Sections /\ "FLUX" \in Sections /\ "SETUP" \in Sections
  BY MaxVersionIsNat DEF Nothing, Content, Version, Absent, Empty, File, Unchanged, Sections

\* The program starts well typed.
LEMMA InitType == Init => TypeOK
<1> SUFFICES ASSUME Init PROVE TypeOK
  OBVIOUS
<1>1. OldFiles \subseteq File
  <2> SUFFICES ASSUME NEW f \in OldFiles PROVE f \in File
    OBVIOUS
  <2>1. f \in [fmt : {"skd"}, sec : [Sections -> 0..1]]
    BY OldFilesHold
  <2>2. 0..1 \subseteq Version
    BY MaxVersionIsNat DEF Version
  <2> QED
    BY <2>1, <2>2 DEF File, Content
<1>2. disk \in [AllFiles -> File]
  BY <1>1, FileTypes DEF Init, AllFiles
<1>3. mem \in Content /\ knew \in [Sections -> BOOLEAN] /\ cskfil \in AllFiles
  BY FileTypes DEF Init, AllFiles
<1>4. made \in 1..MaxVersion /\ cflfil \in Version
  BY MaxVersionIsNat DEF Init, Version
<1>5. job \in [cmd : Creating \cup Replacing \cup {"none"}, to : AllFiles,
               tmp : File, yes : BOOLEAN]
  BY FileTypes DEF Init, NoJob, AllFiles
<1> QED
  BY <1>2, <1>3, <1>4, <1>5 DEF Init, TypeOK, AllFiles

\* What ends a session leaves the types.
LEMMA ForgetType ==
  ASSUME TypeOK, Forget, disk' \in [AllFiles -> File]
  PROVE  TypeOK'
<1>1. mem' \in Content /\ knew' \in [Sections -> BOOLEAN] /\ cskfil' \in AllFiles
  BY FileTypes DEF Forget, AllFiles
<1>2. made' \in 1..MaxVersion /\ cflfil' \in Version
  BY MaxVersionIsNat DEF Forget, TypeOK, Version
<1>3. job' \in [cmd : Creating \cup Replacing \cup {"none"}, to : AllFiles,
                tmp : File, yes : BOOLEAN]
  BY FileTypes DEF Forget, NoJob, AllFiles
<1> QED
  BY <1>1, <1>2, <1>3 DEF Forget, TypeOK, AllFiles

\* Opening a file keeps the types; so do the steps below.
LEMMA ReadType ==
  ASSUME TypeOK, NEW f \in Names, Read(f), pc' \in {"closed", "command"}
  PROVE  TypeOK'
<1>1. disk[f].sec \in Content
  BY FileTypes DEF TypeOK
<1>2. Joined(disk[f]) \in Content
  <2> SUFFICES ASSUME NEW s \in Sections
               PROVE  Joined(disk[f])[s] \in Version
    BY DEF Joined, Content
  <2>1. mem[s] \in Version /\ disk[f].sec[s] \in Version
    BY <1>1 DEF TypeOK, Content
  <2>2. mem[s] # 0 => mem # Nothing
    BY DEF Nothing
  <2>3. mem # Nothing => made + 1 \in Version
    BY MaxVersionIsNat DEF Read, TypeOK, Version
  <2> QED
    BY <2>1, <2>2, <2>3 DEF Joined
<1>3. made' \in 1..MaxVersion
  BY MaxVersionIsNat DEF Read, TypeOK
<1>4. cflfil' \in Version
  BY <1>1, FileTypes DEF Read, TypeOK, Content
<1>5. kflux' \in BOOLEAN
  BY DEF Read, TypeOK
<1> QED
  BY <1>2, <1>3, <1>4, <1>5 DEF Read, TypeOK

\* A command that changes a section.
LEMMA ChangeType ==
  ASSUME TypeOK, NEW s \in Sections, Change(s), knew' \in [Sections -> BOOLEAN]
  PROVE  TypeOK'
<1>1. made' \in 1..MaxVersion /\ made + 1 \in Version
  BY MaxVersionIsNat DEF Change, TypeOK, Version
<1>2. mem' \in Content
  BY <1>1 DEF Change, TypeOK, Content
<1> QED
  BY <1>1, <1>2 DEF Change, TypeOK

\* A write command, up to the questions it asks.
LEMMA WriteType ==
  ASSUME TypeOK, NEW cmd \in Commands, NEW name \in Names \cup {NoName}, Write(cmd, name)
  PROVE  TypeOK'
<1> DEFINE fi == knewfi \/ cmd \in Creating
           to == IF name = NoName THEN cskfil ELSE name
<1>1. to \in AllFiles /\ cmd \in Creating \cup Replacing /\ fi \in BOOLEAN
  BY DEF TypeOK, AllFiles, Commands
<1>2. disk' \in [AllFiles -> File]
  <2>1. disk' = disk \/ disk' = [disk EXCEPT ![to] = Empty]
    BY DEF Write, Refuse, Begin
  <2> QED
    BY <2>1, FileTypes DEF TypeOK, AllFiles
<1>3. /\ UNCHANGED <<session, knew>>
      /\ knewfi' \in BOOLEAN
      /\ pc' \in {pc, "check"}
      /\ job' = job \/ \E yes \in BOOLEAN :
             job' = [cmd |-> cmd, to |-> to, tmp |-> Absent, yes |-> yes]
  BY <1>1 DEF Write, Refuse, Begin, Exists
<1>4. job' \in [cmd : Creating \cup Replacing \cup {"none"}, to : AllFiles,
                tmp : File, yes : BOOLEAN]
  BY <1>1, <1>3, FileTypes DEF TypeOK, AllFiles
<1> HIDE DEF fi, to
<1> QED
  BY <1>2, <1>3, <1>4 DEF TypeOK, session, AllFiles

\* What is written, by flag from memory or from the opened file, is a content.
LEMMA ComposeType ==
  ASSUME TypeOK
  PROVE  Compose \in Content /\ \A cmd : ComposeVex(cmd) \in Content
<1>1. disk[cskfil].sec \in Content
  BY FileTypes DEF TypeOK
<1>2. 0 \in Version
  BY MaxVersionIsNat DEF Version
<1>3. Compose \in Content
  BY <1>1, <1>2 DEF Compose, Kept, TypeOK, Content
<1>4. \A cmd : ComposeVex(cmd) \in Content
  BY <1>2 DEF ComposeVex, TypeOK, Content
<1> QED
  BY <1>3, <1>4

\* Every step keeps the types.
LEMMA NextType == TypeOK /\ [Next]_vars => TypeOK'
<1> SUFFICES ASSUME TypeOK, [Next]_vars PROVE TypeOK'
  OBVIOUS
<1>1. CASE \E f \in Names : Open(f) \/ OpenBad(f)
  BY <1>1, ReadType DEF Open, OpenBad
<1>2. CASE Start
  <2>1. disk' \in [AllFiles -> File]
    BY <1>2, FileTypes DEF Start, TypeOK, AllFiles
  <2> QED
    BY <1>2, <2>1 DEF Start, TypeOK, AllFiles, memory
<1>3. CASE \E s \in Sections : Edit(s)
  <2> PICK s \in Sections : Edit(s)
    BY <1>3
  <2>1. knew' \in [Sections -> BOOLEAN]
    BY DEF Edit, TypeOK
  <2> QED
    BY <2>1, ChangeType DEF Edit
<1>4. CASE Set \/ Thin
  <2>1. knew' \in [Sections -> BOOLEAN] /\ \E s \in Sections : Change(s)
    BY <1>4, FileTypes DEF Set, Thin, TypeOK
  <2> QED
    BY <2>1, ChangeType
<1>5. CASE \E cmd \in Commands, name \in Names \cup {NoName} : Write(cmd, name)
  BY <1>5, WriteType
<1>6. CASE CheckFails \/ CheckPasses
  BY <1>6 DEF CheckFails, CheckPasses, TypeOK, session
<1>7. CASE WriteTemp
  <2>1. knew' \in [Sections -> BOOLEAN]
    BY <1>7 DEF WriteTemp, TypeOK
  <2>2. [fmt |-> "skd", sec |-> Compose] \in File
    BY ComposeType DEF File
  <2>3. \A cmd : [fmt |-> "vex", sec |-> ComposeVex(cmd)] \in File
    BY ComposeType DEF File
  <2>4. job' \in [cmd : Creating \cup Replacing \cup {"none"}, to : AllFiles,
                  tmp : File, yes : BOOLEAN]
    BY <1>7, <2>2, <2>3 DEF WriteTemp, TypeOK, AllFiles
  <2> QED
    BY <1>7, <2>1, <2>4 DEF WriteTemp, TypeOK, session, AllFiles
<1>8. CASE Move
  <2>1. disk' \in [AllFiles -> File]
    BY <1>8 DEF Move, TypeOK, AllFiles
  <2>2. CASE Stay
    <3>1. knew' \in [Sections -> BOOLEAN] /\ cskfil' \in AllFiles
      BY <2>2, FileTypes DEF Stay, TypeOK, AllFiles
    <3>2. job' \in [cmd : Creating \cup Replacing \cup {"none"}, to : AllFiles,
                    tmp : File, yes : BOOLEAN]
      BY <2>2, FileTypes DEF Stay, NoJob, AllFiles
    <3> QED
      BY <2>1, <2>2, <3>1, <3>2 DEF Stay, TypeOK, memory, AllFiles
  <2>3. CASE Forget
    BY <2>1, <2>3, ForgetType
  <2> QED
    BY <1>8, <2>2, <2>3 DEF Move
<1>9. CASE Abort \/ Stop
  <2>1. Forget /\ disk' \in {disk, [disk EXCEPT ![Scratch] = Absent]}
    BY <1>9 DEF Abort, Stop
  <2>2. disk \in [AllFiles -> File] /\ Absent \in File
    BY FileTypes DEF TypeOK, AllFiles
  <2>3. disk' \in [AllFiles -> File]
    BY <2>1, <2>2
  <2> QED
    BY <2>1, <2>3, ForgetType
<1>10. CASE UNCHANGED vars
  BY <1>10 DEF vars, TypeOK
<1> QED
  BY <1>1, <1>2, <1>3, <1>4, <1>5, <1>6, <1>7, <1>8, <1>9, <1>10 DEF Next

\* Every file, section and flag keeps its type, whatever the user does and
\* whatever fails (skcls, skopn, unout).
THEOREM TypesAreKept == Spec => []TypeOK
<1>1. Init => TypeOK
  BY InitType
<1>2. TypeOK /\ [Next]_vars => TypeOK'
  BY NextType
<1> QED
  BY <1>1, <1>2, PTL DEF Spec

-----------------------------------------------------------------------------
(***************************************************************************)
(* A user who edits and saves; the disk may be full when a file is         *)
(* written, and nothing else fails.                                        *)
(***************************************************************************)
Plain == Usage = {} /\ Faults \subseteq {"diskfull"}

\* Only .skd files; no sections where there is no file; Scratch has none.
DiskInv ==
    /\ \A f \in AllFiles : disk[f].fmt # "vex"
    /\ \A f \in AllFiles : disk[f].fmt # "skd" => disk[f].sec = Nothing
    /\ disk[Scratch].sec = Nothing

\* Between sessions nothing is left; without a $FLUX section there are no fluxes.
SessionInv ==
    /\ pc = "closed" => mem = Nothing /\ ~kflux
    /\ ~kflux => mem["FLUX"] = 0

\* A write goes to a named file, the session's own unless it is new; what is in
\* the temporary file is the memory.
JobInv ==
    /\ pc \in {"check", "write", "move"} =>
         /\ job.to \in Names
         /\ job.cmd \notin VexForms
         /\ ~knewfi => job.to = cskfil
    /\ pc = "move" => job.tmp.fmt = "skd" /\ job.tmp.sec = mem

PlainInv == TypeOK /\ DiskInv /\ SessionInv /\ JobInv /\ UnsavedIsFlagged

\* Plain use has neither VEX output nor VCC among its write commands.
LEMMA PlainCommands ==
  ASSUME Plain, NEW cmd \in Commands
  PROVE  cmd \notin VexForms /\ cmd # "VCC"
BY DEF Plain, Commands, VexForms

\* The program starts with nothing unsaved.
LEMMA InitPlain == Plain /\ Init => PlainInv
<1> SUFFICES ASSUME Plain, Init PROVE PlainInv
  OBVIOUS
<1>1. TypeOK
  BY InitType
<1>2. DiskInv
  <2> SUFFICES ASSUME NEW f \in AllFiles
               PROVE  /\ disk[f].fmt # "vex"
                      /\ disk[f].fmt # "skd" => disk[f].sec = Nothing
    BY DEF DiskInv, Init, Absent
  <2>1. disk[f] \in [fmt : {"skd"}, sec : [Sections -> 0..1]] \/ disk[f] = Absent
    BY OldFilesHold DEF Init, AllFiles
  <2> QED
    BY <2>1 DEF Absent
<1>3. SessionInv /\ JobInv /\ UnsavedIsFlagged
  BY FileTypes DEF Init, SessionInv, JobInv, UnsavedIsFlagged, Nothing
<1> QED
  BY <1>1, <1>2, <1>3 DEF PlainInv

\* What is opened is the file.
LEMMA OpenPlain ==
  ASSUME PlainInv, NEW f \in Names, Open(f)
  PROVE  /\ mem' = disk[f].sec
         /\ DiskInv' /\ SessionInv' /\ JobInv' /\ UnsavedIsFlagged'
<1>1. pc = "closed" /\ mem = Nothing /\ ~kflux /\ disk' = disk /\ disk[f].fmt = "skd"
  BY DEF Open, Read, PlainInv, SessionInv, DiskInv, AllFiles
<1>2. disk[f].sec \in Content
  BY FileTypes DEF PlainInv, TypeOK
<1>3. mem' = disk[f].sec
  BY <1>1, <1>2 DEF Open, Read, Joined, Nothing, Content
<1>4. DiskInv'
  BY <1>1 DEF DiskInv, PlainInv
<1>5. SessionInv' /\ JobInv'
  BY <1>1, <1>3 DEF Open, Read, SessionInv, JobInv
<1>6. UnsavedIsFlagged'
  BY <1>1, <1>3 DEF Open, Read, UnsavedIsFlagged
<1> QED
  BY <1>3, <1>4, <1>5, <1>6

\* Starting on a new schedule changes no named file and keeps the invariant.
LEMMA StartPlain ==
  ASSUME PlainInv, Start
  PROVE  /\ mem' = mem /\ mem = Nothing
         /\ \A n \in Names : disk'[n] = disk[n]
         /\ DiskInv' /\ SessionInv' /\ JobInv' /\ UnsavedIsFlagged'
<1>1. pc = "closed" /\ mem = Nothing /\ mem' = mem /\ ~kflux /\ kflux' = kflux
  BY DEF Start, PlainInv, SessionInv, memory
<1>2. /\ \A n \in Names : disk'[n] = disk[n]
      /\ disk'[Scratch] = disk[Scratch] \/ disk'[Scratch] = Empty
  BY ScratchIsNoName DEF Start, PlainInv, TypeOK
<1>3. disk'[Scratch].sec = Nothing /\ disk'[Scratch].fmt # "vex"
  BY <1>2 DEF PlainInv, DiskInv, Empty, AllFiles
<1>4. DiskInv'
  BY <1>2, <1>3 DEF PlainInv, DiskInv, AllFiles
<1>5. SessionInv' /\ JobInv'
  BY <1>1, FileTypes DEF Start, SessionInv, JobInv, Nothing
<1>6. UnsavedIsFlagged'
  BY <1>1, <1>3 DEF Start, UnsavedIsFlagged
<1> QED
  BY <1>1, <1>2, <1>4, <1>5, <1>6

\* A change raises the flag of its section, so it keeps the invariant.
LEMMA EditPlain ==
  ASSUME Plain, PlainInv, (\E s \in Sections : Edit(s)) \/ Set
  PROVE  DiskInv' /\ SessionInv' /\ JobInv' /\ UnsavedIsFlagged'
<1> PICK s \in Sections : /\ Change(s)
                          /\ s = "FLUX" => kflux
                          /\ knew' = [knew EXCEPT ![s] = TRUE]
                             \/ (s = "SETUP" /\ knew' = knew)
  <2> DEFINE Done(s) == /\ Change(s)
                        /\ s = "FLUX" => kflux
                        /\ knew' = [knew EXCEPT ![s] = TRUE]
                           \/ (s = "SETUP" /\ knew' = knew)
  <2>1. CASE \E s \in Sections : Edit(s)
    BY <2>1 DEF Edit, Plain
  <2>2. CASE Set
    <3>1. Done("SETUP")
      BY <2>2 DEF Set
    <3> QED
      BY <3>1, FileTypes
  <2> QED
    BY <2>1, <2>2
<1>1. /\ \A x \in Sections : x # s => mem'[x] = mem[x]
      /\ \A x \in Flagged : knew'[x] = IF x = s THEN TRUE ELSE knew[x]
  BY DEF Change, PlainInv, TypeOK, Content, Flagged
<1>2. UNCHANGED <<disk, cskfil, kflux, pc, job>> /\ pc = "command"
  BY DEF Change
<1>3. DiskInv' /\ JobInv'
  BY <1>2 DEF PlainInv, DiskInv, JobInv
<1>4. SessionInv'
  BY <1>1, <1>2, FileTypes DEF PlainInv, SessionInv
<1>5. UnsavedIsFlagged'
  BY <1>1, <1>2 DEF PlainInv, UnsavedIsFlagged, Flagged
<1> QED
  BY <1>3, <1>4, <1>5

\* A write command that asks or refuses changes no section on disk.
LEMMA WritePlain ==
  ASSUME Plain, PlainInv,
         NEW cmd \in Commands, NEW name \in Names \cup {NoName}, Write(cmd, name)
  PROVE  /\ \A f \in AllFiles : disk'[f].sec = disk[f].sec
         /\ DiskInv' /\ SessionInv' /\ JobInv' /\ UnsavedIsFlagged'
<1> DEFINE fi == knewfi \/ cmd \in Creating
           to == IF name = NoName THEN cskfil ELSE name
<1>1. to \in AllFiles /\ fi \in BOOLEAN
  BY DEF PlainInv, TypeOK, AllFiles
<1>2. pc = "command" /\ (fi \/ (to = cskfil /\ to # Scratch))
  BY DEF Write, Plain
<1>3. UNCHANGED <<session, knew>>
  BY DEF Write, Refuse, Begin
<1>4. disk' = disk \/ (~Exists(to) /\ disk' = [disk EXCEPT ![to] = Empty])
  BY <1>1 DEF Write, Refuse, Begin, Exists
<1>5. \/ pc' = pc /\ job' = job
      \/ /\ pc' = "check" /\ job'.to = to /\ job'.cmd = cmd /\ (~knewfi' => ~fi)
         /\ name # NoName \/ ~fi
  <2>1. \/ \E b, words : Refuse(b, words)
        \/ /\ \E yes : Begin(cmd, to, fi, yes)
           /\ name # NoName \/ ~fi
    BY DEF Write
  <2>2. CASE \E b, words : Refuse(b, words)
    BY <2>2 DEF Refuse
  <2>3. CASE /\ \E yes : Begin(cmd, to, fi, yes)
             /\ name # NoName \/ ~fi
    <3> PICK yes : Begin(cmd, to, fi, yes)
      BY <2>3
    <3> QED
      BY <1>1, <2>3 DEF Begin
  <2> QED
    BY <2>1, <2>2, <2>3
<1>6. \A f \in AllFiles : disk'[f] = disk[f]
                        \/ (f = to /\ ~Exists(to) /\ disk'[f] = Empty)
  BY <1>1, <1>4 DEF PlainInv, TypeOK, AllFiles
<1>7. \A f \in AllFiles : disk'[f].sec = disk[f].sec /\ disk'[f].fmt # "vex"
                          /\ (disk'[f].fmt # "skd" => disk'[f].sec = Nothing)
  <2> SUFFICES ASSUME NEW f \in AllFiles
               PROVE  disk'[f].sec = disk[f].sec /\ disk'[f].fmt # "vex"
                          /\ (disk'[f].fmt # "skd" => disk'[f].sec = Nothing)
    OBVIOUS
  <2>1. CASE disk'[f] = disk[f]
    BY <2>1 DEF PlainInv, DiskInv
  <2>2. CASE f = to /\ ~Exists(to) /\ disk'[f] = Empty
    BY <2>2 DEF PlainInv, DiskInv, Exists, Empty
  <2> QED
    BY <1>6, <2>1, <2>2
<1>8. DiskInv'
  BY <1>7 DEF PlainInv, DiskInv, AllFiles
<1>9. SessionInv'
  BY <1>2, <1>3, <1>5 DEF PlainInv, SessionInv, session
<1>10. JobInv'
  <2>1. CASE pc' = pc /\ job' = job
    BY <1>2, <2>1 DEF JobInv
  <2>2. CASE /\ pc' = "check" /\ job'.to = to /\ job'.cmd = cmd /\ (~knewfi' => ~fi)
             /\ name # NoName \/ ~fi
    <3>1. to \in Names
      BY <1>1, <1>2, <2>2 DEF AllFiles
    <3>2. cskfil' = cskfil
      BY <1>3 DEF session
    <3> QED
      BY <1>2, <2>2, <3>1, <3>2, PlainCommands DEF JobInv
  <2> QED
    BY <1>5, <2>1, <2>2
<1>11. UnsavedIsFlagged'
  <2>1. cskfil \in AllFiles
    BY DEF PlainInv, TypeOK, AllFiles
  <2> HIDE DEF fi, to
  <2> QED
    BY <1>2, <1>3, <1>7, <2>1 DEF PlainInv, UnsavedIsFlagged, session
<1> QED
  BY <1>7, <1>8, <1>9, <1>10, <1>11

\* The temporary file gets the memory: what has no flag is copied unchanged.
LEMMA ComposePlain ==
  ASSUME PlainInv, pc # "closed"
  PROVE  Compose = mem
<1>1. cskfil \in AllFiles /\ mem \in Content
  BY DEF PlainInv, TypeOK, AllFiles
<1>2. ASSUME NEW s \in Sections
      PROVE  Compose[s] = mem[s]
  <2>1. CASE FromMemory(s)
    BY <2>1 DEF Compose
  <2>2. CASE ~FromMemory(s) /\ knewfi
    <3>1. s = "FLUX" /\ ~kflux
      BY <2>2 DEF FromMemory
    <3>2. Kept(s) = 0
      BY <2>2 DEF Kept
    <3> QED
      BY <2>2, <3>1, <3>2 DEF Compose, PlainInv, SessionInv
  <2>3. CASE ~FromMemory(s) /\ ~knewfi
    <3>1. s \in Flagged /\ ~knew[s]
      BY <2>3 DEF FromMemory, Flagged
    <3>2. mem[s] = disk[cskfil].sec[s]
      BY <3>1 DEF PlainInv, UnsavedIsFlagged
    <3>3. Kept(s) = disk[cskfil].sec[s]
      BY <1>1, <2>3 DEF Kept, PlainInv, DiskInv, Nothing
    <3> QED
      BY <2>3, <3>2, <3>3 DEF Compose
  <2> QED
    BY <2>1, <2>2, <2>3
<1> QED
  BY <1>1, <1>2 DEF Compose, Content

\* Writing the temporary file keeps the invariant, and so does failing to.
LEMMA TempPlain ==
  ASSUME Plain, PlainInv, WriteTemp
  PROVE  DiskInv' /\ SessionInv' /\ JobInv' /\ UnsavedIsFlagged'
<1>1. pc = "write" /\ pc' # "closed" /\ UNCHANGED <<disk, cskfil, mem, kflux, knewfi>>
  BY DEF WriteTemp, session
<1>2. job.cmd \notin VexForms /\ job.to \in Names /\ (~knewfi => job.to = cskfil)
  BY <1>1 DEF PlainInv, JobInv
<1>3. JobInv'
  <2>1. CASE pc' = "move"
    <3>1. job' = [job EXCEPT !.tmp = [fmt |-> "skd", sec |-> mem]]
      BY <1>1, <1>2, <2>1, ComposePlain DEF WriteTemp
    <3>2. job'.cmd = job.cmd /\ job'.to = job.to /\ job'.tmp = [fmt |-> "skd", sec |-> mem]
      BY <3>1 DEF PlainInv, TypeOK
    <3> QED
      BY <1>1, <1>2, <2>1, <3>2 DEF JobInv
  <2>2. CASE pc' = "command"
    BY <2>2 DEF JobInv
  <2> QED
    BY <2>1, <2>2 DEF WriteTemp
<1>4. \A s \in Flagged : knew'[s] = knew[s]
  BY DEF WriteTemp, Flagged, PlainInv, TypeOK
<1> QED
  BY <1>1, <1>3, <1>4 DEF PlainInv, DiskInv, SessionInv, UnsavedIsFlagged

\* What ends a session keeps the invariant.
LEMMA ForgetPlain ==
  ASSUME Forget, DiskInv'
  PROVE  DiskInv' /\ SessionInv' /\ JobInv' /\ UnsavedIsFlagged'
<1>1. pc' = "closed" /\ mem' = Nothing /\ ~kflux'
  BY DEF Forget
<1>2. mem'["FLUX"] = 0
  BY <1>1, FileTypes DEF Nothing
<1> QED
  BY <1>1, <1>2 DEF SessionInv, JobInv, UnsavedIsFlagged

\* The rename gives the file asked for the whole memory, and keeps the invariant.
LEMMA MovePlain ==
  ASSUME Plain, PlainInv, Move
  PROVE  /\ job.to \in Names
         /\ \A f \in AllFiles : disk'[f].sec = IF f = job.to THEN mem ELSE disk[f].sec
         /\ DiskInv' /\ SessionInv' /\ JobInv' /\ UnsavedIsFlagged'
<1>1. /\ pc = "move" /\ job.to \in Names /\ job.tmp.fmt = "skd" /\ job.tmp.sec = mem
      /\ ~knewfi => job.to = cskfil
  BY DEF Move, PlainInv, JobInv
<1>2. disk' = [disk EXCEPT ![job.to] = job.tmp]
  BY DEF Move, Plain
<1>3. \A f \in AllFiles : disk'[f] = IF f = job.to THEN job.tmp ELSE disk[f]
  BY <1>1, <1>2 DEF PlainInv, TypeOK, AllFiles
<1>4. Scratch # job.to
  BY <1>1, ScratchIsNoName
<1>5. DiskInv'
  BY <1>1, <1>3, <1>4 DEF PlainInv, DiskInv, AllFiles
<1>6. CASE Stay
  <2>1. /\ pc' = "command" /\ mem' = mem /\ kflux' = kflux
        /\ cskfil' = job.to
    BY <1>1, <1>6 DEF Stay, memory
  <2>2. SessionInv' /\ JobInv'
    BY <2>1 DEF PlainInv, SessionInv, JobInv
  <2>3. UnsavedIsFlagged'
    BY <1>1, <1>3, <2>1 DEF UnsavedIsFlagged, AllFiles
  <2> QED
    BY <1>1, <1>3, <1>5, <2>2, <2>3
<1>7. CASE Forget
  BY <1>1, <1>3, <1>5, <1>7, ForgetPlain
<1> QED
  BY <1>6, <1>7 DEF Move

\* Leaving, with ABORT or by a kill, changes no named file.
LEMMA EndPlain ==
  ASSUME PlainInv, Abort \/ Stop
  PROVE  /\ \A n \in Names : disk'[n] = disk[n]
         /\ DiskInv' /\ SessionInv' /\ JobInv' /\ UnsavedIsFlagged'
<1>1. Forget /\ disk' = [disk EXCEPT ![Scratch] = Absent]
  BY DEF Abort, Stop
<1>2. /\ \A n \in Names : disk'[n] = disk[n]
      /\ disk'[Scratch] = Absent
  BY <1>1, ScratchIsNoName DEF PlainInv, TypeOK
<1>3. DiskInv'
  BY <1>2 DEF PlainInv, DiskInv, AllFiles, Absent
<1> QED
  BY <1>1, <1>2, <1>3, ForgetPlain

\* The check before a write changes neither files nor memory.
LEMMA CheckPlain ==
  ASSUME PlainInv, CheckFails \/ CheckPasses \/ UNCHANGED vars
  PROVE  /\ UNCHANGED <<disk, mem>> /\ (pc' = "closed" <=> pc = "closed")
         /\ DiskInv' /\ SessionInv' /\ JobInv' /\ UnsavedIsFlagged'
<1>1. CASE UNCHANGED vars
  BY <1>1 DEF PlainInv, DiskInv, SessionInv, JobInv, UnsavedIsFlagged, vars
<1>2. CASE CheckFails \/ CheckPasses
  <2>1. /\ UNCHANGED <<disk, cskfil, mem, kflux, knew, knewfi, job>>
        /\ pc = "check" /\ pc' \in {"command", "write"}
    BY <1>2 DEF CheckFails, CheckPasses, session
  <2> QED
    BY <2>1 DEF PlainInv, DiskInv, SessionInv, JobInv, UnsavedIsFlagged
<1> QED
  BY <1>1, <1>2

\* Every step of plain use keeps the invariant.
LEMMA NextPlain == Plain /\ PlainInv /\ [Next]_vars => PlainInv'
<1> SUFFICES ASSUME Plain, PlainInv, [Next]_vars PROVE PlainInv'
  OBVIOUS
<1>1. TypeOK'
  BY NextType DEF PlainInv
<1>2. DiskInv' /\ SessionInv' /\ JobInv' /\ UnsavedIsFlagged'
  <2>1. CASE \E f \in Names : Open(f) \/ OpenBad(f)
    BY <2>1, OpenPlain DEF OpenBad, Plain
  <2>2. CASE Start
    BY <2>2, StartPlain
  <2>3. CASE (\E s \in Sections : Edit(s)) \/ Set
    BY <2>3, EditPlain
  <2>4. CASE Thin
    BY <2>4 DEF Thin, Plain
  <2>5. CASE \E cmd \in Commands, name \in Names \cup {NoName} : Write(cmd, name)
    BY <2>5, WritePlain
  <2>6. CASE CheckFails \/ CheckPasses \/ UNCHANGED vars
    BY <2>6, CheckPlain
  <2>7. CASE WriteTemp
    BY <2>7, TempPlain
  <2>8. CASE Move
    BY <2>8, MovePlain
  <2>9. CASE Abort \/ Stop
    BY <2>9, EndPlain
  <2> QED
    BY <2>1, <2>2, <2>3, <2>4, <2>5, <2>6, <2>7, <2>8, <2>9 DEF Next
<1> QED
  BY <1>1, <1>2 DEF PlainInv

\* Whatever is written, refused, left half way or stopped, what has changed
\* since the file was read or written has its flag (skcls, unout).
THEOREM ChangesAreFlagged == ASSUME Plain PROVE Spec => []UnsavedIsFlagged
<1>1. Init => PlainInv
  BY InitPlain
<1>2. PlainInv /\ [Next]_vars => PlainInv'
  BY NextPlain
<1>3. PlainInv => UnsavedIsFlagged
  BY DEF PlainInv
<1> QED
  BY <1>1, <1>2, <1>3, PTL DEF Spec

\* ABORT without a question loses no scans, frequencies or fluxes (skcls).
THEOREM AbortIsSafe == ASSUME Plain PROVE Spec => AbortLosesNothing
<1>1. Init => PlainInv
  BY InitPlain
<1>2. PlainInv /\ [Next]_vars => PlainInv'
  BY NextPlain
<1>3. PlainInv /\ [Next]_vars =>
        [Abort /\ said' = "aborted unasked" =>
           \A s \in Flagged : mem[s] = disk[cskfil].sec[s]]_vars
  <2> SUFFICES ASSUME PlainInv, Abort, said' = "aborted unasked", NEW s \in Flagged
               PROVE  mem[s] = disk[cskfil].sec[s]
    OBVIOUS
  <2>1. pc # "closed" /\ ~knew[s]
    BY DEF Abort, Asks, Flagged
  <2> QED
    BY <2>1 DEF PlainInv, UnsavedIsFlagged
<1> QED
  BY <1>1, <1>2, <1>3, PTL DEF Spec, AbortLosesNothing

-----------------------------------------------------------------------------
(***************************************************************************)
(* The files hold documents.                                               *)
(***************************************************************************)
Saved == [n \in Names |-> disk[n].sec]

\* The abstract files are a function of the contents on disk alone.
LEMMA SavedStays ==
  ASSUME \A n \in Names : disk'[n].sec = disk[n].sec
  PROVE  Saved' = Saved
BY DEF Saved

\* The initial states map to initial states of Document.
LEMMA InitDocument == Plain /\ Init => Promise!Init
<1> SUFFICES ASSUME Plain, Init PROVE Promise!Init
  OBVIOUS
<1>1. TypeOK
  BY InitType
<1>2. \A n \in Names : disk[n].sec \in Content
  BY <1>1, FileTypes DEF TypeOK
<1> QED
  BY <1>2 DEF Promise!Init, Init

\* Every step maps to a step of Document or changes nothing it sees.
LEMMA NextDocument ==
  ASSUME Plain, PlainInv, PlainInv', [Next]_vars
  PROVE  [Promise!Next]_<<mem, Saved, pc # "closed">>
<1>1. CASE \E f \in Names : Open(f) \/ OpenBad(f)
  <2> PICK f \in Names : Open(f)
    BY <1>1 DEF OpenBad, Plain
  <2>1. /\ pc = "closed" /\ pc' = "command" /\ disk' = disk
        /\ mem' = disk[f].sec
    BY OpenPlain DEF Open, Read
  <2> QED
    BY <2>1 DEF Promise!Next, Promise!Open
<1>2. CASE Start
  <2>1. pc = "closed" /\ pc' = "command" /\ mem' = Nothing /\ Saved' = Saved
    BY <1>2, StartPlain, SavedStays DEF Start
  <2> QED
    BY <2>1 DEF Promise!Next, Promise!Open, Saved
<1>3. CASE (\E s \in Sections : Edit(s)) \/ Set
  <2>1. pc = "command" /\ pc' = "command" /\ disk' = disk
    BY <1>3 DEF Edit, Set, Change
  <2>2. mem' \in Content
    BY DEF PlainInv, TypeOK
  <2> QED
    BY <2>1, <2>2 DEF Promise!Next, Promise!Change
<1>4. CASE \E cmd \in Commands, name \in Names \cup {NoName} : Write(cmd, name)
  <2> PICK cmd \in Commands, name \in Names \cup {NoName} : Write(cmd, name)
    BY <1>4
  <2>1. Saved' = Saved
    BY WritePlain, SavedStays DEF AllFiles
  <2>2. mem' = mem /\ pc = "command" /\ pc' \in {"command", "check"}
    BY DEF Write, Refuse, Begin, session
  <2> QED
    BY <2>1, <2>2
<1>5. CASE CheckFails \/ CheckPasses \/ UNCHANGED vars
  <2>1. UNCHANGED <<disk, mem>> /\ (pc' = "closed" <=> pc = "closed")
    BY <1>5, CheckPlain
  <2>2. Saved' = Saved /\ (pc # "closed")' = (pc # "closed")
    BY <2>1 DEF Saved
  <2> QED
    BY <2>1, <2>2
<1>6. CASE WriteTemp
  <2>1. UNCHANGED <<disk, mem>> /\ pc = "write" /\ pc' \in {"move", "command"}
    BY <1>6 DEF WriteTemp, session
  <2> QED
    BY <2>1 DEF Saved
<1>7. CASE Move
  <2>1. /\ job.to \in Names
        /\ \A n \in Names : disk'[n].sec = IF n = job.to THEN mem ELSE disk[n].sec
    BY <1>7, MovePlain DEF AllFiles
  <2>2. Saved' = [Saved EXCEPT ![job.to] = mem]
    BY <2>1 DEF Saved
  <2>3. /\ pc = "move"
        /\ \/ pc' = "command" /\ mem' = mem
           \/ pc' = "closed" /\ mem' = Nothing
    BY <1>7 DEF Move, Stay, Forget, memory
  <2>4. \E n \in Names : Promise!Save(n)
    BY <2>1, <2>2, <2>3 DEF Promise!Save, Promise!Close, Saved
  <2>5. Promise!Next
    BY <2>4 DEF Promise!Next
  <2> QED
    BY <2>5 DEF Saved
<1>8. CASE Abort \/ Stop
  <2>1. Saved' = Saved
    BY <1>8, EndPlain, SavedStays
  <2>2. pc' = "closed" /\ mem' = Nothing
    BY <1>8 DEF Abort, Stop, Forget
  <2>3. pc = "closed" => mem = Nothing
    BY DEF PlainInv, SessionInv
  <2>4. CASE pc = "closed"
    BY <2>1, <2>2, <2>3, <2>4
  <2>5. CASE pc # "closed"
    BY <2>1, <2>2, <2>5 DEF Promise!Next, Promise!Drop, Promise!Close, Saved
  <2> QED
    BY <2>4, <2>5
<1> QED
  BY <1>1, <1>2, <1>3, <1>4, <1>5, <1>6, <1>7, <1>8 DEF Next, Thin, Plain

\* A file only ever holds what the memory was when it was written (skcls).
THEOREM FilesAreDocuments == ASSUME Plain PROVE Spec => FilesHoldDocuments
<1>1. Plain /\ Init => PlainInv /\ Promise!Init
  BY InitPlain, InitDocument
<1>2. PlainInv /\ [Next]_vars => PlainInv'
  BY NextPlain
<1>3. PlainInv /\ PlainInv' /\ [Next]_vars => [Promise!Next]_<<mem, Saved, pc # "closed">>
  BY NextDocument
<1> QED
  BY <1>1, <1>2, <1>3, PTL DEF Spec, FilesHoldDocuments, Promise!Spec, Saved
-----------------------------------------------------------------------------
(***************************************************************************)
(* Any use of the files, and any fault.                                    *)
(***************************************************************************)
\* A write under way has had its answer, or there was nothing to lose.
AnswerInv ==
    pc \in {"check", "write", "move"} =>
        job.yes \/ disk[job.to].fmt \in {"absent", "empty"}

\* The temporary file of a new schedule has the scans and the frequencies.
WholeInv ==
    pc = "move" /\ knewfi /\ job.tmp.fmt = "skd" =>
        \A s \in {"SKED", "CODES"} : job.tmp.sec[s] = mem[s]

\* The temporary file of the session's own file has the sections of that file
\* that have no flag.
KeptInv ==
    pc = "move" /\ ~knewfi /\ job.tmp.fmt = "skd" /\ disk[cskfil].fmt = "skd" =>
        \A s \in Flagged : ~knew[s] => job.tmp.sec[s] = disk[cskfil].sec[s]

\* A write command starts a write only after an answer or where there is no
\* file; VCC is the one that does not look.
LEMMA WriteAsks ==
  ASSUME "VCC" \notin Commands, TypeOK,
         NEW cmd \in Commands, NEW name \in Names \cup {NoName}, Write(cmd, name)
  PROVE  /\ \A f \in AllFiles : Exists(f) => disk'[f] = disk[f]
         /\ \/ pc' = "command"
            \/ /\ pc' = "check"
               /\ job'.yes \/ disk'[job'.to].fmt \in {"absent", "empty"}
<1> DEFINE fi == knewfi \/ cmd \in Creating
           to == IF name = NoName THEN cskfil ELSE name
<1>1. to \in AllFiles /\ pc = "command"
  BY DEF Write, TypeOK, AllFiles
<1>2. \/ /\ UNCHANGED <<disk, pc>>
      \/ Begin(cmd, to, fi, TRUE) /\ UNCHANGED disk
      \/ /\ cmd \in Creating /\ ~Taken(cmd, to)
         /\ Begin(cmd, to, fi, ~Exists(to))
         /\ disk' = IF Exists(to) THEN disk ELSE [disk EXCEPT ![to] = Empty]
  BY DEF Write, Refuse
<1>3. CASE UNCHANGED <<disk, pc>>
  BY <1>1, <1>3
<1>4. CASE Begin(cmd, to, fi, TRUE) /\ UNCHANGED disk
  BY <1>4 DEF Begin
<1>5. CASE /\ cmd \in Creating /\ ~Taken(cmd, to)
           /\ Begin(cmd, to, fi, ~Exists(to))
           /\ disk' = IF Exists(to) THEN disk ELSE [disk EXCEPT ![to] = Empty]
  <2>1. ~Exists(to)
    BY <1>5 DEF Taken, Creating
  <2>2. pc' = "check" /\ job'.to = to /\ job'.yes = TRUE
    BY <1>5, <2>1 DEF Begin
  <2>3. \A f \in AllFiles : f # to => disk'[f] = disk[f]
    BY <1>5, <2>1 DEF TypeOK, AllFiles
  <2> QED
    BY <2>1, <2>2, <2>3
<1> QED
  BY <1>2, <1>3, <1>4, <1>5

\* What each step does to the files that hold something.
LEMMA DiskSteps ==
  ASSUME "VCC" \notin Commands, TypeOK, [Next]_vars, NEW f \in AllFiles
  PROVE  \/ disk'[f] = disk[f]
         \/ f = Scratch
         \/ ~Exists(f)
         \/ pc = "move" /\ Move /\ f = job.to
<1>1. CASE \E g \in Names : Open(g) \/ OpenBad(g)
  BY <1>1 DEF Open, OpenBad, Read
<1>2. CASE Start \/ Abort \/ Stop
  BY <1>2 DEF Start, Abort, Stop, TypeOK, AllFiles
<1>3. CASE (\E s \in Sections : Edit(s)) \/ Set \/ Thin
  BY <1>3 DEF Edit, Set, Thin, Change
<1>4. CASE \E cmd \in Commands, name \in Names \cup {NoName} : Write(cmd, name)
  BY <1>4, WriteAsks
<1>5. CASE CheckFails \/ CheckPasses \/ WriteTemp \/ UNCHANGED vars
  BY <1>5 DEF CheckFails, CheckPasses, WriteTemp, vars
<1>6. CASE Move
  BY <1>6 DEF Move, TypeOK, AllFiles
<1> QED
  BY <1>1, <1>2, <1>3, <1>4, <1>5, <1>6 DEF Next

\* No step leaves a write without its answer.
LEMMA AnswerSteps ==
  ASSUME "VCC" \notin Commands, TypeOK, AnswerInv, [Next]_vars
  PROVE  AnswerInv'
<1>1. CASE \E f \in Names : Open(f) \/ OpenBad(f)
  BY <1>1 DEF Open, OpenBad, AnswerInv
<1>2. CASE Start \/ Abort \/ Stop
  BY <1>2 DEF Start, Abort, Stop, Forget, AnswerInv
<1>3. CASE (\E s \in Sections : Edit(s)) \/ Set \/ Thin
  BY <1>3 DEF Edit, Set, Thin, Change, AnswerInv
<1>4. CASE \E cmd \in Commands, name \in Names \cup {NoName} : Write(cmd, name)
  BY <1>4, WriteAsks DEF AnswerInv
<1>5. CASE CheckFails \/ CheckPasses \/ UNCHANGED vars
  BY <1>5 DEF CheckFails, CheckPasses, vars, AnswerInv
<1>6. CASE WriteTemp
  <2>1. pc = "write" /\ disk' = disk /\ job'.to = job.to /\ job'.yes = job.yes
    BY <1>6 DEF WriteTemp, TypeOK
  <2> QED
    BY <2>1 DEF AnswerInv
<1>7. CASE Move
  BY <1>7 DEF Move, Stay, Forget, AnswerInv
<1> QED
  BY <1>1, <1>2, <1>3, <1>4, <1>5, <1>6, <1>7 DEF Next

\* No step leaves a new schedule's temporary file without scans or frequencies,
\* or that of the session's own file without the sections that have not changed.
LEMMA WholeSteps ==
  ASSUME TypeOK, WholeInv, KeptInv, [Next]_vars
  PROVE  WholeInv' /\ KeptInv'
<1>1. CASE WriteTemp
  <2>1. UNCHANGED <<disk, cskfil, mem, knewfi>>
    BY <1>1 DEF WriteTemp, session
  <2>2. CASE pc' = "command"
    BY <2>2 DEF WholeInv, KeptInv
  <2>3. CASE /\ job' = [job EXCEPT !.tmp =
                          IF job.cmd \in VexForms
                            THEN [fmt |-> "vex", sec |-> ComposeVex(job.cmd)]
                            ELSE [fmt |-> "skd", sec |-> Compose]]
             /\ knew' = knew
    <3>1. job'.tmp.fmt = "skd" => job'.tmp.sec = Compose
      BY <2>3 DEF TypeOK
    <3>2. knewfi => \A s \in {"SKED", "CODES"} : Compose[s] = mem[s]
      BY DEF Compose, FromMemory, Sections
    <3>3. ~knewfi /\ disk[cskfil].fmt = "skd" =>
            \A s \in Flagged : ~knew[s] => Compose[s] = disk[cskfil].sec[s]
      BY DEF Compose, FromMemory, Kept, Flagged
    <3> QED
      BY <2>1, <2>3, <3>1, <3>2, <3>3 DEF WholeInv, KeptInv
  <2> QED
    BY <1>1, <2>2, <2>3 DEF WriteTemp
<1>2. CASE UNCHANGED vars
  BY <1>2 DEF vars, WholeInv, KeptInv
<1>3. CASE Next /\ ~WriteTemp
  <2>1. pc' # "move"
    <3>1. CASE \E f \in Names : Open(f) \/ OpenBad(f)
      BY <3>1 DEF Open, OpenBad
    <3>2. CASE Start \/ Abort \/ Stop \/ CheckFails \/ CheckPasses
      BY <3>2 DEF Start, Abort, Stop, Forget, CheckFails, CheckPasses
    <3>3. CASE (\E s \in Sections : Edit(s)) \/ Set \/ Thin
      BY <3>3 DEF Edit, Set, Thin, Change
    <3>4. CASE \E cmd \in Commands, name \in Names \cup {NoName} : Write(cmd, name)
      BY <3>4 DEF Write, Refuse, Begin
    <3>5. CASE Move
      BY <3>5 DEF Move, Stay, Forget
    <3> QED
      BY <1>3, <3>1, <3>2, <3>3, <3>4, <3>5 DEF Next
  <2> QED
    BY <2>1 DEF WholeInv, KeptInv
<1> QED
  BY <1>1, <1>2, <1>3

\* A file that holds a schedule is replaced only by the write that named it,
\* after the user has answered Replace?, and the session's own file keeps what
\* has no flag, whatever fails and whatever else the user does; VCC, for the
\* correlator, writes over a file unasked (skcls, unout).
THEOREM ReplacedWhenAsked ==
  ASSUME "VCC" \notin Commands PROVE Spec => OnlyAskedReplaced
<1> DEFINE FileInv == TypeOK /\ AnswerInv /\ WholeInv /\ KeptInv
           Asked(n) ==
             /\ pc = "move" /\ job.to = n /\ job.yes
             /\ cskfil = n /\ ~knewfi /\ disk[n].fmt = "skd" /\ disk'[n].fmt = "skd" =>
                  \A s \in Flagged : disk'[n].sec[s] # disk[n].sec[s] => knew[s]
<1>1. Init => FileInv
  BY InitType DEF Init, AnswerInv, WholeInv, KeptInv
<1>2. FileInv /\ [Next]_vars => FileInv'
  BY NextType, AnswerSteps, WholeSteps
<1>3. FileInv /\ [Next]_vars =>
        [\A n \in Names : disk[n].fmt \in {"skd", "vex"} /\ disk'[n] # disk[n] => Asked(n)]_vars
  <2> SUFFICES ASSUME FileInv, [Next]_vars, NEW n \in Names,
                      disk[n].fmt \in {"skd", "vex"}, disk'[n] # disk[n]
               PROVE  Asked(n)
    OBVIOUS
  <2>1. n \in AllFiles /\ n # Scratch /\ Exists(n)
    BY ScratchIsNoName DEF AllFiles, Exists
  <2>2. pc = "move" /\ Move /\ n = job.to
    BY <2>1, DiskSteps
  <2>3. disk'[n] = job.tmp
    BY <2>2 DEF Move, TypeOK
  <2> QED
    BY <2>2, <2>3 DEF AnswerInv, KeptInv
<1> QED
  BY <1>1, <1>2, <1>3, PTL DEF Spec, OnlyAskedReplaced

\* A new .skd file gets the scans and the frequencies in memory, whatever the
\* session did before and whatever failed (skcls, unout).
THEOREM NewFileIsWhole == Spec => NewFileHasAll
<1>1. Init => TypeOK /\ WholeInv /\ KeptInv
  BY InitType DEF Init, WholeInv, KeptInv
<1>2. TypeOK /\ WholeInv /\ KeptInv /\ [Next]_vars => (TypeOK /\ WholeInv /\ KeptInv)'
  BY NextType, WholeSteps
<1>3. TypeOK /\ WholeInv /\ [Next]_vars =>
        [\A n \in Names :
           pc = "move" /\ knewfi /\ disk'[n] # disk[n] /\ disk'[n].fmt = "skd"
           => \A s \in {"SKED", "CODES"} : disk'[n].sec[s] = mem[s]]_vars
  <2> SUFFICES ASSUME TypeOK, WholeInv, [Next]_vars, NEW n \in Names, pc = "move", knewfi,
                      disk'[n] # disk[n], disk'[n].fmt = "skd"
               PROVE  \A s \in {"SKED", "CODES"} : disk'[n].sec[s] = mem[s]
    OBVIOUS
  <2>1. Move \/ Stop
    BY DEF Next, Open, OpenBad, Read, Start, Edit, Set, Thin, Change, Write, CheckFails,
           CheckPasses, WriteTemp, Abort, vars
  <2>2. ~Stop
    BY ScratchIsNoName DEF Stop, TypeOK
  <2>3. disk'[n] = job.tmp
    BY <2>1, <2>2 DEF Move, TypeOK
  <2> QED
    BY <2>3 DEF WholeInv
<1> QED
  BY <1>1, <1>2, <1>3, PTL DEF Spec, NewFileHasAll
=============================================================================
