# A verification project for sked

sked is the interactive scheduler for VLBI sessions: the user builds a list of
scans (which stations observe which source, when, for how long), checks it,
and writes it to a schedule file (`.skd`) or a VEX file. `drudg` turns that file
into what each station's field system runs. Both are sequential Fortran
programs: nothing in them runs concurrently, and nothing is shared with another
process but files. What is hard is elsewhere: some two hundred commands in any
order over a few hundred COMMON variables, with caches (the CUR variables,
change flags, counters, station numbers) that each command must leave
consistent for the next; and files that are created, copied and renamed while
the user may stop the program at any prompt; and a C library for VEX files, called
from Fortran through static variables, in which each statement is described in
four places by hand.

This directory holds TLA+ models of the parts where that matters, the TLC runs
that check them and TLAPS proofs about them.

## 1. Inventory

| Component | State | Operations | Where it is hard |
|---|---|---|---|
| Scan store and cursor (`sked/gtobs.f`, `ptobs.f`, `delcm.f`, `licmd.f`, `modcu.f`, `obs_sort.f`) | `cskobs` (records), `iskrec`/`nobs` (index), `nxtrec`, `ircur`, `irecgo`, CUR variables | insert, replace, delete, list, next, back, previous, modify, delete all | records and index can part; the cursor and CUR are caches of the index; off-by-one at either end |
| Session and schedule files (`sked/sked.f`, `skini.f`, `skopn.f`, `skcls.f`, `unout.f`, `renam.f`) | `cskfil`, `KNEWxx` flags, `knewfi`, `kflux`, files on disk, scratch files | open, start, WC/WR/EC/ER, VWC/VWR/VEC/VER/VCC, ABORT, QUIT | sections copied from a file or written from memory by a flag; a kill or a failure between create, write and rename |
| Making a scan (`newob.f`, `chksrcup4scan.f`, `slewt.f`, `when_at_next_source.f`) | CUR variables of each station | a new scan by hand; start time from slewing, cable wrap, calibration | a station dropped half way; a scan timed from stale CUR variables |
| Downtime (`downtime.f`, `kstatup.f`, `itime_to_down.f`) | list of (station, begin, end) | set, remove one, remove all, OFF; "is it up", "when is it down next" | touching and overlapping intervals; merging in order of entry; closed intervals |
| Check and tag along (`chcmd.f`, `auchk.f`, `chske.f`) | scan records edited in place | CHECK, ADD, REMOVE, TAGALONG, SHIFT | records replaced while the walk goes on; CUR as scratch variables |
| Automatic scheduling (`nextc.f`, `find_best_scan.f`, `make_scans.f`, minor and major options) | trial (TST) variables, scores | AUTOSKED | choice among candidates by floating-point scores; must end |
| Fill, thin, bad SNR (`fillcmd.f`, `thin_cmd.f`, `remove_bad_snr.f`) | scan durations, index | FILL, THIN | index edited without cursor or flag |
| Station tables (`save_station_state.f`, `twin_mod.f`, `group_mod.f`, `max_stat_scan.f`) | tables by station number or name | SELECT STATIONS, TWIN, GROUP, MAX_STAT_SCAN | numbers change with the selection, tables must follow |
| Selection and catalogues (`stsel.f`, `sosel.f`, `frsel.f`, `read_*_cat.f`) | selected stations, sources, frequencies | menus | text input, display |
| Fluxes and SNR (`flcmd.f`, `obsfl.f`, `snrok.f`, `snrac.f`) | flux models, SNR targets | FLUX, SNR | numerical |
| Optimisation (`solve.f`, `simul.f`, `op*.f`, `matrix/`) | normal matrix | OPTIMIZE, covariance | numerical |
| Summaries, plots, lists (`sumcm.f`, `soplt.f`, `visss.f`, `xlcmd.f`) | none | SUMMARY, PLOT, ... | display only |
| VEX library, writing (`vex/vex_put.c`, `vex_util.c`, `print_vex.c`, grammar `vex.y`, `vex.yy.l`, wrappers `vexf_put.c`) | lists of the open definition, block and file, element list, five flags, all static | one `create_` function per statement, `add_` functions for list elements, `create_vex` prints the file | which list a call closes hangs on flags; wrapper, constructor, field table and grammar must agree on 115 statements; the grammar's answer to a bad one is `exit` |
| VEX library, reading (`vex/vexf.c`, `vex_get.c`; `skdrut/vread.f`, `vstinp.f`, `vmoinp.f`, `vsoinp.f`, `vobinp.f`, `newscan.f`, `ivgtmo.f`, `vunp*.f`) | parse tree, one static place per walk, `save_ptr` with `save_type`, last n and scan | first and next calls of a dozen walks, the nth station or transfer of a scan, number and date conversions | walks borrow each other's places; a pointer read as the struct of a remembered type; tables and loops at their limits |
| VEX output from sked (`sked/v*out.f`, `vexout.f`) | none of its own | formats COMMON into calls of the library | order of the calls |
| Time arithmetic (`skdrut/tmadd.f`, `timeadd.f`, `sked/addsec2ut.f`, `isecdif.f`) | none | add, subtract, compare | day and year boundaries |
| drudg (`drudg/snap.f`, `procs.f`, `lists.f`, `label.f`, `skdshft.f`) | recorder position, last scan | SNAP file, procedures, lists, labels, shift | gaps between scans; recorder state across scans |
| Libraries (`skdrlnfch`, `matrix`, `curses`) | none | characters, matrices, menus | none |
| Master schedule, database (`master_cmd.f`, `mysql_int.c`) | none | look up a session | I/O |

How they interact: `sked.f` reads one command at a time and calls its handler.
The handlers share COMMON blocks. A scan enters through `newob` or `nextc` into
CUR (or TST) variables, `pakup` packs these into a record, `ptobs` stores it;
every reading command goes the other way through `gtobs` and `unpak`. Writing
goes through `skcls`: `chske` unpacks every scan to check it, `skout` writes the
sections whose flag is up and `unout` copies the others from the file that was
opened. Station selection rewrites every table that is indexed by station
number. A VEX file is written by `v*out.f` through the library's `create_` calls, and
read by `vread.f`: stations, modes, sources, then scans, each first by name and
then by the lines that hang on the name. Nothing calls back, but handlers leave CUR, `ircur` and the flags as
their message to the next handler.

What makes each of them correct, in the order of the table:

- **Scan store.** The list of scans the user sees is changed only as the command
  says: no scan is lost, doubled or overwritten by another; where the cursor is on a
  scan, that scan is in the CUR variables, and they hold the last scan of every station
  up to the cursor, because `newob` starts the next scan from them.
- **Schedule files.** What is written is what is in memory; a changed section has
  its flag up as long as the file opened has the old one; a file is replaced only
  after a yes; a kill or a failure leaves every file as it was.
- **Making a scan.** No station is in two scans at once, and each has time to get
  there; a station dropped on the way leaves the rest of the scan valid.
- **Downtime.** A station is down exactly when its user said, by name, whatever
  happens to station numbers; no scan runs into a downtime.
- **Check, tag along, fill, thin.** The walk visits each scan once, stores what it
  changed in the place it came from, and leaves cursor, CUR and flags valid.
- **Automatic scheduling.** Ends; takes only scans that a user could have made.
- **Station tables.** A table entry belongs to the same station name before and
  after a selection.
- **VEX, writing.** A file has a block, a definition and a line for every call, in the
  order of the calls; a statement that is complete can be read, and its fields
  are the arguments it was made from; an argument that is missing is refused
  when the statement is made and not by the parser.
- **VEX, reading.** A walk gives each line that answers its question once, in order,
  whatever other walk was left unfinished; the record made of a scan has that
  scan's stations and transfers and no others; the reading ends.
- **Time arithmetic.** `addsec2ut`, `tmadd` and `isecdif` agree with a linear count
  of seconds over day and year ends.
- **drudg.** A tape or disk position is where the recorder will be; shifting a
  schedule shifts every scan by the same amount.

## 2. Modules

| Module | Models | Code |
|---|---|---|
| `ScanStore` | records, index, free record, cursor, CUR variables | `ptobs.f`, `gtobs.f`, `obs_sort.f`, `delcm.f`, `licmd.f`, `modcu.f`, `delete_all_obs.f`, `chske.f`, `skdrut/newscan.f`, part of `newob.f`, `skopn.f`, `skcls.f` |
| `Schedule` | what the store promises: a list of scans with a current place | |
| `ScheduleFile` | files, flags, the session, the steps of a write | `sked.f`, `skini.f`, `skopn.f`, `skcls.f`, `skout.f`, `unout.f`, `renam.f`, and the commands that raise flags |
| `Document` | what the files promise: a file holds what was saved there | |
| `Downtime` | the list of downtimes, its renumbering, its lines in the schedule, the commands that ask it | `downtime.f`, `downtime_out.f`, `kstatup.f`, `itime_to_down.f`, `save_station_state.f`, part of `newob.f`, `fillcmd.f`, `chcmd.f` |
| `Availability` | what DOWNTIME promises: by name, the moments a station is down | |
| `VexShape` | notation for statements: arguments, entries, slots | `vex.h` |
| `VexForward`, `VexPut`, `VexFields`, `VexGrammar` | the four tables of statements: wrappers, constructors, fields, grammar | `vexf_put.c`, `vex_put.c`, `vex_util.c`, `vex.y` |
| `VexStatement` | one statement from its call through the printed line and the parser to its reader | `print_vex.c`, `vex.yy.l` |
| `VexWriter` | the lists and flags of the writer, between its calls | `vex_put.c` 57–560, `print_vex.c` |
| `VexDocument` | what the writer promises: the document its calls describe | |
| `VexLists` | the lists of a parsed file and the searches in them | `vex_get.c` |
| `VexWalks` | the walks over definitions and their lines, and who calls them | `vex_get.c`, `vexf.c`, `vstinp.f`, `vmoinp.f`, `vsoinp.f` |
| `VexAnswers` | what a walk promises: each answer once, in order | |
| `VexNumbers` | which fields convert to numbers, quantities and dates | `vexf.c` |
| `VexScans` | the scans, their stations and data transfers | `vobinp.f`, `newscan.f`, `addscan.f`, `ivgtmo.f`, `vex_get.c`, `vexf.c` |
| `ScanTable` | what a command that edits a whole schedule works on: scans, cursor, CUR | `unpak.f`, `pakup.f`, `when_at_next_source.f`, part of `gtobs.f` |
| `Fill` | FILL: its three loops | `fillcmd.f` |
| `Thin` | THIN: its turns | `thin_cmd.f` |
| `CheckWalk` | the loop of CHECK, SHIFT, TAGALONG, ADD, REMOVE, UNTAG, REWRITE | `chcmd.f`, `auchk.f`, `autot.f`, `gtpre.f`, `destn.f`, part of `gtobs.f`, `ptobs.f` |
| `ScanEdits` | one of these commands on any schedule, from any cursor | `chpar.f`, `sked.f` |
| `MC...` | values of the constants for TLC, one per module that is run | |
| `ScanStoreClaims`, `ScheduleFileClaims` | what comments and messages say, where the code does something else | |
| `ScanStoreProofs`, `ScheduleFileProofs`, `DowntimeProofs`, `VexWriterProofs`, `VexWalksProofs`, `VexScansProofs`, `ScanEditsProofs` | theorems | |
| `ListLemmas` | least elements of sets of naturals, what is left of a list, lists joined one after the other: what several proofs need | |

`PROJECT.json` maps each definition to its lines. Definitions under the comment
"Variant" are not part of a specification: each is a plausible mistake in the
definition that follows it, which the run named in `PROJECT.json` must detect.

### ScanStore

A scan is `[t, src, sta]`: a start, a source and the stations in order; duration,
wrap and format are the same for every property here. `rec` is `cskobs`, `index`
is `iskrec(1..nobs)` and `behind` what deletions have left in the entries after
it (the entries after these are not set), `nxtrec` and `ircur` are themselves, `irecgo` is the place
GTOBS is asked to go to, `cur` is the part of the CUR variables that has a memory
(time and source by station) plus the list of the current scan. One action is one
command: `Insert` and `InsertBehind` (NEWCM or one scan of NEXTC, then PTOBS and `obs_sort`),
`Modify`, `Delete`, `DeleteAll`, `List`, `NextScans`, `BackScans`,
`PreviousScans`, `ListNothing`, `WriteContinue`. GTOBS is the operators `GtStart`
(first call) and `GtRest` (the calls that follow), with the read of every record
passed over, which is how CUR stays right. `Insert` allows any scan for which no
station is asked before it is free; slewing time is part of that choice.

The count of NEXT, PREVIOUS and BACK is any integer of `Counts`, for `licmd.f:80` looks at
none. A negative one takes PREVIOUS on over scans that are not read, or behind the last
scan, where the cursor stays until a command reads from the start. What can be done
there is modelled as the code does it: LIST and DELETE read the entry at the cursor, if one
is left there; `InsertBehind` moves no entry and sorts all up to the cursor; MODIFY
writes over a record that the list no longer has; DELETE may raise NOBS. After an
edit there `status` is `"upset"`: the session goes on, with scans listed twice or
lost, and what is said of the list is no longer said (section 6). Deleting
all scans ends it. `MaxPlace` bounds how far such a PREVIOUS goes.

LIST of the nominal start from a later cursor rewinds, finds CUR "resident" and hands LSCUR a
station without a source. `Listed` has the three outcomes: a subscript in front of
`csorna` that stops the session (`status = "failed"`), or reads other memory where the build does
not check, or none at all, because LSCUR has returned for want of the station
or the source asked for (`lscur.f:118`, `121`). In the last two the cursor rests at place 0.
With an elevation limit LSCUR first asks CVPOS for the position of the source, whose
table has no entry -1 either (`cvpos.f:113`). A line that LICMD refuses leaves IRECGO as
it was set (`ListNothing`).
Elsewhere a subscript that leaves its array ends the session where
the build checks bounds, and where it does not and the effect is memory of
another variable. `obs_sort` is given as the set of orders its comparison
allows; scan names, which it also makes, are left to the plan.

### ScheduleFile

A section is a version number: 0 where there is none, a fresh number for each
change. The sections that have a flag of their own that matters are `SKED`,
`CODES` and `FLUX`; all that are written every time are `SETUP`. The commands are
steps: `Write` (up to and including the Replace? question and the creation of the
file), the check (`CheckPasses`, `CheckFails`), `WriteTemp` (the temporary file,
section by section), `Move` (`mv`). `Stop` may come at every one of them.
`Usage` says what the user does beyond editing and saving one file, and `Faults`
what goes wrong outside, so that a run and a theorem can say under which use a
property holds.

### Downtime

Stations are names; the list holds numbers, as in the code. `Set`, `RemoveOne`,
`RemoveAll` and `Off` are the four forms of DOWNTIME; `Select` is a new selection
of stations (`save_station_state` keeps names and restores numbers); `Reopen` and
`ReadLine` write the list to a schedule and read it back a line at a time through
the same merging code; `Schedule`, `Fill` and `TagAlong` are the commands that
ask. In DOWNTIME the order in which the stations of a subnet are taken does not
matter but for the order of new entries, so any order of those is allowed. OFF
reads variables it never set: its stations are any set, or a subscript outside.
TAGALONG does the same for the station it asks about on the first scan, and
asks for the duration of the first station of each scan, not its own.

### VexStatement

A text is the number of the caller's argument that carries it, so that a property can
ask where each argument arrived. `VexForward` has, for every statement, the arguments its
Fortran wrapper passes on, in their order (`Forwarded` with those of its list); `VexPut` has, for every statement, the arguments its
`create_` function takes, the tests on them and the struct it builds; `VexFields`
the fields `vex_field` hands out of that struct, for printing and for reading alike;
`VexGrammar` the forms `vex.y` accepts and the struct its actions build. Each table
is one definition per block of the file, as the sources have them; `Joined` puts the blocks together. `Create` is a
call with any arguments empty and any one with a blank in it, `Write` what
`print_vex` prints (quotes, units, fields that are empty), `Read` the parser and the
caller's fields. A statement the grammar refuses ends the program: `progress` is
`"stopped"`. The file `sked/y.tab.c` is a parser generated from another version of
the grammar and is linked into nothing; the grammar in `vex/` is the reference.

### VexWriter

One action per call of `vex_put.c`'s interface, with every list and flag it sets.
Statements inside definitions are one call, `CreateStatement`, and the list
statements three (`BeginList`, `AddElement`, `CloseList`), for the elements wait in
`q_list` until the statement that takes them. The number of a call stands for what
it carries. `ClosedByBlock` and `ClosedByVex` are the two places that turn flags into
a tree; they are written separately in the code, and differ. `CreateVex` prints, or
ends the program at a line `print_vex` has no case for. `EndNoDef` is the call of `end_def` that
`vex_end_section_comment` makes behind the scans. Names of definitions are left out: one with
"comment" in it is printed without its `def` and `enddef` lines (`print_vex.c:86`). The caller is sked: it
writes the version first, each block once, and closes a list before anything else.

### VexWalks

A pointer into a list is the rest of the list. `def_walk`, `ref_walk`, `all_walk` and
`source_walk` are the static variables of `vex_get.c`; `Advance` is the common body of
the three walks over references. `save_ptr` and `save_type` are those of `vexf.c`. The
caller's loops over names are `FirstName`, `StoreName` and `NamesStored`, with the full
table as each of the three loops treats it; then it asks for lines (`AskLines`),
goes on (`MoreLines`, `FgetLiteral`) or leaves the walk for another, which covers the
orders in which `vunp*.f` ask.

### VexScans

The whole of `vobinp.f`: one action for each way a turn of its loops can go.
`FgetNth` is `fget_station_scan` and `fget_data_transfer_scan` with what they
remember between calls. A line is what `vobinp` asks of it: a station, three
numbers, whether they convert. A scan without any line is left out: `fget_scan` takes it for
the end of the file. The question "Ignore this error?" may be answered
either way, and is not asked again after a yes. `ixfer_beg(0)` is an element of the
model, because a first scan without a known station writes there.

### ScanTable, Fill, Thin, CheckWalk, ScanEdits

These commands replace and delete scans and never insert one, so no two places share a
record and a schedule is a sequence of scans: start, source, stations in order, and
here also a duration for each station, for that is what FILL changes and what AUCHK
asks. Slewing takes one time between any two sources (`Slew`), and a unit of time is longer than the five
seconds AUCHK tolerates (`auchk.f:309`). The commands begin with the cursor on a scan of the
list; `ScanStore` says when it may be elsewhere. Whether a source is
up, a station is down or its signal too weak is a choice where the code asks.
`was` is the schedule when the command was typed, which the properties compare with.

`Fill` has a phase for each of the three loops: `ReadScan`, `PassStation`, `Stay` and
`NextScan` go over the scans and look back at what each station did last;
`SkipStation` and `FillLastScan` go over the stations that are left; `Trim` shortens
the station that observes longest. `fill` holds the variables that one loop leaves for
the next (`kstat_do`, `iprv_scan`, `iobs_beg_fill`, `iobs_end_fill`, ISTAT). In `Thin`
`listed` is the set of places not struck out of IOBS_STAT yet; a `Turn` is one scan that
loses the station, with the choice it makes when no gap is short enough; `EndThin` closes
up the index. In `CheckWalk` a turn is one action
named for the command (`Look`, `Rewrite`, `Tag`, `NoTag`, `AddOn`, `TakeOff`,
`UntagFirst`, `Untag`) with its PTOBS, and `GetNext` reads the scan after it and, for
SHIFT, moves it; `walk.pre` is what the stations did before. `ScanEdits` gives one of
the nine commands and runs it to its end.

## 3. Runs

Deadlock is not checked in any run: a session may end, at a failed subscript, at
the end of a file that is read, after the one command of `scan_edits`, or at the bounds.

| Run | Question | Bounds | States |
|---|---|---|---|
| `scan_store` | Are the stations up to date after any sequence of commands, and does the store implement the plain list? | two disjoint subnets of one station (symmetric), start times 1 and 2, one source, three records, no file or one of two scans out of order, edits to start time 1, counts 1 and 2 | 83,828 |
| `scan_store_ahead` | What survives a negative count, which takes the cursor behind the last scan? | one station, start times 1 and 2, three records, counts -2 and 1, the cursor at most at place 2 after PREVIOUS | 60,455 |
| `schedule_file` | In plain use, full disk or not, is every change flagged, is ABORT safe, does a file only ever hold a whole document? | two names, three versions, old files with and without fluxes; a kill at any step, a full disk | 266,362 |
| `rough_schedule_file` | What survives thinning, writing to other files, catalog fluxes, bad files, a full disk and a failing `mv`? | two names, two versions | 1.6 million |
| `downtime` | Are stations down exactly when told, and do scans keep clear? | three stations (symmetric), intervals 2..4, 3..3, 4..5, two entries, scans from 2 and 3 of at most 2 units, both only with one entry | 87,597 |
| `vex_statement` | Does every statement arrive as it was put? | all 115 statements, lists of up to three elements, up to four arguments missing, a blank in one | 15,548 |
| `vex_writer` | Does a file hold what its calls said, whatever the flags went through? | nine calls on four blocks: references, scans, definitions of references and of statements; one file | 500,015 |
| `vex_walks` | Does every walk answer its question, beside and after any other? | five calls for lines, seven questions, a file with every way to find a line and one name more than a table holds | 20,332 |
| `vex_scans` | Are scans, stations and transfers read as they were written? | some 3,500 files of one to four scans, tables of three records and three stations, a scan whose mode is in no table | 68,571 |
| `scan_edits` | Does a command that goes over a schedule change what was asked and nothing else, leave its stations in time and end? | three stations, two sources, 72 schedules of two or three scans (a scan's first station observes longest, or the others do), three time ranges, every cursor, any scan in CUR | 988,933 |
| `insert_keeps_scans`, `scans_survive_vex` | Does the code do what this comment or message says? Each finds that it does not (section 6). | as the run above on the same module | |

What the properties say:

- `RecordsDistinct`: two places of the list never share a record, and the next
  insertion writes behind all of them. `CursorValid`: whenever there are scans CUR names a
  source, or is rewound as a whole, so that MODIFY can tell by one station; `RewoundInFront`: it
  comes to be rewound only in front of the first scan. `MoveBringsCurrent`: where a listing
  leaves the cursor on a scan, that scan is in CUR. `DeleteRefreshesSubnets`, `WalkKeepsSubnets`:
  stations are where their last scan left them. `AppendNeverOverlaps`: no station is put in two
  scans at once. `KeepsSchedule`: the store implements `Schedule`. `MoveBringsCurrent` and
  `WalkKeepsSubnets` except PREVIOUS with a negative count or from behind the last scan
  (`Strays`), `RecordsDistinct` and `KeepsSchedule` end with an edit made there (`Sound`).
  What concerns records and cursor is checked in `scan_store_ahead`, where counts are any;
  section 4 proves all of it for every set of counts and stations.
- `UnsavedIsFlagged`: a section that differs from the file opened has its flag up.
  `AbortLosesNothing`: ABORT that does not ask loses nothing. `OnlyAskedReplaced`:
  a schedule is replaced only by the write that named it, after a yes, and the sections of
  the session's own file that no command flagged stay, whatever a failed opening left in memory.
  `NewFileHasAll`: a new file gets all scans and frequencies. `FilesHoldDocuments`:
  the session implements `Document`.
- `CompleteArrives`: a complete statement is handed on whole by its wrapper, is never refused, never stops the reader, and
  gives it the arguments in their order. `NothingMoves`: whatever is left out, no
  text slips into another field and no value takes its neighbour for its units.
  `TestedIsReadable`: where a constructor tests its arguments, a missing one is
  refused there. `QuotedArrives`: a blank in a quoted field does no harm.
- `FlagsAgree`: the flags tell which list holds the lines in hand. `FilesAreDocuments`: the writer implements `VexDocument`.
  That no tree is built that `print_vex` gives up on is proved (`WriterPrints`, section 4), and
  so are the types of this module, of `VexWalks` and of `ScheduleFile`.
- `FieldsFit`: the pointer `vex_field` reads is of the type `vexf.c` believes.
  `NamesStoredAll`: the names in a table are the first of the file, in order.
  `WalksAnswer`: the walks implement `VexAnswers`. `ReadingEnds`: if stations and
  sources fit their tables, all parts are read to their end.
- `NthLine`: the nth line is the nth, by either path. `OwnScan`: a record mixes no two
  scans, also when the reading broke off, and has its scan's mode if the file has that mode. `ReadAsWritten`: a plain file (no more scans
  than records, no more lines of a kind in a scan than its loop has turns, a known station in
  each) is read whole, transfers included. `ReadingEnds`: the reading ends if the first scan has
  a known station among the lines asked for.
- `UpIsClear`: `kstatup` is right. `ScansStayClear`: no new scan, and no scan made
  longer by FILL, runs into a downtime, and TAGALONG takes a station into one only in the
  first scan it takes it into, or where another station of the scan observes shorter. `DowntimesHold`: the list implements
  `Availability`.

- `FillOnTime`: FILL makes no station late for its next scan. `FillLeavesNoneAlone`: it leaves no
  station observing alone at the end of a scan it has made longer, but where a station of its subnet was
  done before that scan (section 6). `DoesAsAsked`: each scan a
  command leaves is one that was there, in order, with the change that was asked for
  and no other, and none is lost that need not be. `WalkLeavesInTime`: whom UNTAG,
  SHIFT, TAGALONG let pass has the time from its scan before, in the schedule as
  stored, and REMOVE leaves none behind; for SHIFT this holds of the stations the loop knew
  when it moved the scan before (section 6). `StaysInside`: which subscripts can leave
  their arrays, and that the cursor is on a scan in the end. `CommandsEnd`: a command
  that runs ends.

Why the bounds are enough. *Scan store*: two disjoint subnets are what it takes for
one scan to be scheduled behind a later one, so that sorting moves it away from
the cursor, and for a walk to leave a station behind; three records allow a block
in the middle, the last record and a full table after a deletion. The stations are
interchangeable in every constant, so that symmetry is sound. Behind the list one station
is enough: what can go wrong is between the entries of the index, and with a count of -2 and
places up to 2 (3 after an insertion, `iskrec` being full then) the cursor passes over a scan, rests on a left entry, on one never set and
on the last of `iskrec`. *Files*: with
two names there is a file that the session has not opened; three versions allow
an edit, a write, another edit and a second write. The run also passes with four
versions (1.6 million states). *Downtime*: two entries are enough to meet, to
overlap and to overflow; the intervals meet, hold one another, lie
inside a scan and at its ends. TAGALONG needs a second scan, and there one downtime is
enough (`OneByOne`). The run also passes without `OneByOne` (497,530 states) and with three
entries and scans from 2 (215,242 states). VEX output is not in
`rough_schedule_file`, where it makes the state space too large; it is in
`scans_survive_vex`. *VEX statements*: every statement of the library is tried, so only
lists are bounded, and three elements tell the first, the middle and the last
apart; four missing arguments empty every two values of a statement with their
units. *VEX writer*: nine calls
are two blocks with two definitions each and a line in both, or a list of
elements between them. *VEX walks*: five calls leave one walk in the middle, go
through a second and come back. *VEX scans*: three scans let one without lines
stand between two with some; `MaxXfer`, the number of transfers read, is no bound
of the code, which has none: it cuts off only files whose first scan is read
again and again.

*Scan edits*: three scans give a station a scan before, one it is left out of and one
after; three stations let a scan lose one and stay, or lose two and go, and let one of
them observe alone; the starts leave room, none, or a day and midnight between
them; two sources make a station slew or not; the time ranges begin before, at and
behind the first scan and end between scans and behind the last. One command is
enough: what it leaves is among, or is like, the schedules and states of CUR the next
begins with.

Fairness. In `ScanStore`, `ScheduleFile`, `Downtime` and `VexWriter` none is assumed: `sked`
waits for a person who need never type another command, so every property is a
safety property. Reading a VEX file is a loop in one process that waits for nobody.
`VexWalks` has weak fairness of the steps of the loops over names (`FirstName`,
`StoreName`, `NamesStored`) and of `NextPart`, by which the caller is done with the lines
of a part: its calls for lines are as many as its program text has (`MaxCalls`), and
they need not be fair. `VexScans` has weak fairness of the whole step: the program
takes its next statement, and the one question on the way is answered. Both
`ReadingEnds` have conditions, and are false without them (section 6). In `ScanEdits` `Step`,
the next statement of the command that runs, is weakly fair: it waits for nobody. Only
`CommandsEnd` uses it; no command has to be given.

## 4. Proofs

All theorems hold for every value of the constants that the named assumptions
allow. They are checked by TLAPS to the last leaf.

**ScanStoreProofs.** For any counts, negative ones too, any bound `MaxPlace` and either kind of build.
`TypesAreKept` and `IndexedRecordsAreScans` from `StoreInv`: `TypeOK`, that every record in the
index is a scan, that every record left behind it is one, and that CUR has stations if there are
scans. `TypeOK` alone is not inductive, since reading an unused record would put a wrong
source into CUR; the entries behind the list matter because the cursor may rest on one. The
proof has one lemma per command and one for each half of GTOBS; DELETE first gets
a normal form (`DeleteShapes`: fails, takes out a block, takes in entries from behind, or
empties the list).
`RecordsStayDistinct` from `DistinctInv` (records distinct and below `nxtrec`) under
`~VexFile`: for a schedule read from VEX it is false (`insert_keeps_scans`).
`CursorStaysValid` and `MovesBringCurrent` from `ValidInv` (`StoreInv` and `CursorValid`).
`CursorValid` admits the rewound CUR, in all stations at once, for LIST may rest at place 0 with it;
every way out of there reads a scan or rewinds again. `SourceLostInFront` is the other half: a command
that rewinds and reads nothing leaves the cursor at place 0. `DeletionsRefreshSubnets` needs
`StoreInv` only, for DELETE reads from the start: what `ReadTo` leaves in CUR is the
latest scan of each station (`LatestStart`).

In the same module, on the order of the scans: `AppendsNeverOverlap` and `WalksKeepSubnets` under `~VexFile`.
Both use `SubnetUpToDate` in the form that each station stands where its last scan up to the
cursor left it (`Stands`, `AllStand`), which needs no choice of that scan. A station without a source has by it no scan up to the cursor, so that `newob` may
start it where CUR says. The second theorem needs that the sort keeps every
scan of its range (`SortKeepsAll`: an order of finitely many places that meets none
twice meets all, by the library's facts about injections), and that
in a list in order of time the latest place of a station is its latest scan. A walk that began
behind the list or was given a negative count is excepted in both statement and
proof; the walk that follows one is not.

`StoreKeepsSchedule`, under `~VexFile`, from `DistinctInv` and `StoreInv`: initial states to initial
states and every command to `Insert`, `Replace`, `RemoveBlock`, `Clear` or `Move` of `Schedule`, or
to a stutter, as long as `kept` (`Sound`) holds. An edit is a `Replace` because no other place has its record.
`Schedule` lets the promise end only with a failed program or with an edit made while its
place is behind its last scan, and begin again only with an empty list.

**ScheduleFileProofs.** `TypesAreKept` holds for any usage and faults.
`ChangesAreFlagged`, `AbortIsSafe` and `FilesAreDocuments` assume `Plain` (`Usage = {}`
and `Faults \subseteq {"diskfull"}`): a full disk they survive. Beyond it they are false, by TLC for
each use and fault alone: THIN raises no flag, a write elsewhere or of VEX takes them
down, fluxes of a catalog go with them, a file that cannot be read leaves the memory empty under the
old name, and a failed `mv` is reported as a finished file (section 6). `ReplacedWhenAsked` and
`NewFileIsWhole` hold for any usage and faults, the first unless `VCC` is among the
commands: for the correlator's file nobody is asked (section 6). `KeptInv`, which the
first needs for its second half, says that before the `mv` the temporary file has the unflagged
sections of the file it replaces. The invariant is `PlainInv`: `UnsavedIsFlagged` with what makes it
inductive — what the files on disk hold, that the opened file still holds what was
read (`SessionInv`), and that the temporary file holds the memory between writing
and `mv` (`JobInv`). `FilesAreDocuments` is the full refinement: initial states to
initial states, each step to a step of `Document` or to none.

**DowntimeProofs.** `DowntimeInv` is `TypeOK` and that every interval in the list and
in the unread lines goes forward. `UpIsRight` and `DowntimesAreKept` assume
`TypedForward`, that nobody types an interval whose end is before its beginning:
`downtime.f` does not look, and a reversed interval that meets a downtime makes it
shorter. `ScansNeverEnterDowntimes` needs no such assumption; of TAGALONG it uses that from
its second scan on the number of the station is set (`TagStaysClear`). The refinement proof
compares, moment by moment, what an entry blocks before and after: merging
(`SetRefines`), renumbering (`SelectRefines`), grouping into lines and reading back
(the lines not yet read count as blocked).

**VexWriterProofs.** For any blocks and any number of calls: `WriterTypes`, `WriterFlags`
and `WriterPrints` (`create_vex` never meets a tree it cannot print) from `IInv`, which adds
to them what the caller's order leaves in the writer (`CallerInv`: which flags can be
up in which block, and that nothing is pending between two files but the last
block) and which kinds of line are in hand and in the lists (`LinesInv`, with
`HereKinds`). `WriterWritesDocument` is the refinement of `VexDocument` under
`MaxFiles = 1`: a call that opens, closes or adds maps to the step of the document
with the same name, because `ClosedByBlock` of the lists after the call is that of
before with one node more. The condition is needed: after `create_vex` the last
block stays in hand, and a second file begins with it (section 6).

The module also has the theorem about `VexStatement`, `StatementNothingMoves`: for lists of any length,
any texts and any arguments left out, what can be read is read as it was made. The
inductive invariant (`StatementTraced`) says where the struct, the printed fields and the
reader's struct come from, so that what is left is a fact about the four tables, `Kept`, for each of
the 115 statements. For all of them but one it follows from three things that each table can be
asked for row by row (`Agrees`): column i of `vex_field` shows member i and asks at most for members
up to its own (`Ordered`); the forms of the grammar give field i to member i and
what follows to the list (`Aligned`); a branch of the create function fills one entry for
each column and, where a column asks for a member, has tested its text or left it NULL (`Fits`). Why this is enough is
`RoundTrip`: an entry made of a printed field shows what the field showed (`MadeAlike`), a field left empty
is nothing in both structs, and what follows the columns becomes the list, in its order
(`MembersOf`). The fan-out, where two fields make one member and
nothing is shown after half a pair, needs an argument of its own (`FanoutKept`). That no statement
is in two blocks, so that each block means in the whole table what it says, is checked block by block
(`PutBlocks`, `GetBlocks`, `FormsBlocks`).

**VexWalksProofs.** `PlacesKeepTypes` and `FieldsAlwaysFit`, for any file, any table, any
questions and any number of calls. `vexf.c` remembers the statement asked for at the
first call of a walk only, so `WalksInv` says, besides the types of the places
(`PlacesInv`), that the place the caller would go on with is over or is after that
statement (`AskedInv`); `get_all_lowl` shares the three places with the other walks, and
the caller begins anew after each. `WalksAlwaysAnswer` is the refinement of `VexAnswers`. What a
walk has still to give is a function of its place: of the lines under the references
from the current one on (`Ahead`), and in `get_all_lowl` of the sections from the current one
on (`AllAhead`). One lemma for each function says that a call gives the first of them and
leaves the others (`Yields`), so that a first call begins with all the lines that answer
the question, `Held`, and the next go on. `TablesHoldNames` adds the loops that fill the
tables: `StoredInv` says that a table with room, the name in hand and those its walk has
still to give make up the names of the file. Lists joined one after the other are the
subject of `ListLemmas`.

**VexScansProofs.** For any files whose lines are lines, any stations, modes and sizes of the tables.
`NthLineFound` from `WalkInv`: from the second call on for a scan, what
`fget_station_scan` and `fget_data_transfer_scan` remember, whichever path they took, is the lines of
their kind still to come (`Standing`), and the walk over the scans stands behind the scan in hand
(`Taken` counts the scans up to there). What they remember of an earlier scan can do no harm because
`vobinp` asks for n = 1 first. `RecordsOwn` from `OwnInv`: the record in hand followed by the known
stations of the lines still to come (`KnownFrom`) is the known stations of the scan; before the
first of them no record is there, and the mode's index, if it was found, is where the table has
it (`ModeFound`), and there are fewer records than scans taken, which is why `newscan`
finds room. `PlainFilesRead` from `ReadInv`: before the scan in hand every scan is a record, its
transfers in the range the record names (`Finished`), and the transfers of the scan in hand are the end
of the table (`Moving`). `Plain` states the three conditions under which nothing is left out.

**ScanEditsProofs.** For schedules of any length, any stations, sources, slewing time, time
ranges, subnets and numbers: `FilledOnTime`, `AsAsked`, `LeftInTime`, `InsideBounds`, the four
safety properties of `ScanEdits`. They speak of the end of a command and say nothing of the
way there, so none is inductive. `Inv` is `Waiting`, `Filling`, `Thinning` or
`Walking`, whichever the program is at, and each has what its loops leave for one another:

- `Filling`: in the first loop, `iprv_scan` is the place of each station's last scan in the window
  (`Seen`), so that a station made to stay longer there (`Stay`) has been looked at with the scan
  that follows; in the second, that a station's next scan is behind the window (`Rest`); from then
  on `LeftOnTime`. Throughout, scans have only the durations changed, and only those of the stations
  named have grown (`Longer`).
- `Thinning`: exactly the scans struck from IOBS_STAT have lost the station, and what is left of the
  number asked for counts the others; at the end, what is closed up is a selection of
  the places in their order (`ThinAsAsked`).
- `Walking`: `Loop`, the types and where the cursor may be in each phase, holds always. The
  rest needs CUR to have been the scan at the cursor in the first turn (`Synced`), for otherwise that
  turn may put it over another. `Following` says that the scans up to the cursor are those of before
  with the change asked for (`Traced`), those behind it untouched, and the
  scan of the turn in CUR. `Minding` says what PRE, the only memory the loop has, is worth in the
  schedule as it is stored: for TAGALONG it has the station's last scan or has forgotten one that
  is long ago (`Tagged`), for UNTAG it allows the station no less time than it needs (`Untagged`), for
  SHIFT it has the time a scan was moved to if station and first station were known (`ShiftedOn`),
  and for REMOVE the station is gone (`Removed`). `Minding` is not claimed if
  the loop ended because CUR had lost all its stations (`Lost`, `irecgo = 1`), which is why
  `WalkLeavesInTime` asks for `irecgo = 0`.

The four disjuncts were checked by TLC on all states of `scan_edits` before they were proved. Each
step has a lemma of its own; the turns of the loop are brought into one form first (`Turned`: store
what was asked, delete, or leave the schedule alone).

Checked by TLC only: of `VexStatement`, `CompleteArrives`, `TestedIsReadable` and `QuotedArrives`, which
ask of single rows of finite tables what the run tries for every row (only the
length of a list has no bound); `FillLeavesNoneAlone`; and liveness: `CommandsEnd`
and both `ReadingEnds`. Liveness under fairness, ENABLED,
and what a recursive definition computes for every input are beyond the prover.

## 5. Plan

Modules, in this order:

1. `SchedClock`: `addsec2ut`, `tmadd`, `timeadd`, `isecdif` against a count of seconds;
   used by fill, thin and the shift of drudg.
2. `StationTables`: twin, group, max_stat_scan and subnets across a selection; abstract
   specification by station name, as `Availability` is for downtimes.
3. `ScanNames`: the names `obs_sort` gives within a minute.
4. `AutoSked`: `nextc` and `make_scans` as a choice among candidates; termination.
5. `Snap`: recorder state across scans in `snap.f`; `skdshft`.
6. `VexOutput`: `v*out.f` over `VexWriter`, so that scans go out and come back.

`ScanEdits` with the records and the insertions of `ScanStore`, so that several commands
follow one another, is the composition still to be made.

Proofs: the refinement of `StationTables`, with the module.

Hazards of the components still to come, which the list in `PROJECT.json` leaves out:
`obs_scan_counters.f:68` (the scan counters only go up), `obs_sort.f:63` (letters of scan
names within a minute), `addsec2ut.f:12` (carries one day and borrows none),
`newob.f:342` and `remove_bad_snr.f:47` (a station dropped for low SNR is marked by a negative
number, by a loop whose index is used twice), `nextc.f:312` (the earliest time from the latest), `twin_mod.f:280` (no look
at the table's limit), `stat_sefd_out.f:76`.

## 6. Findings

Each is a run that ends in a counterexample, and quotes the line it contradicts.

| Run | Code | What happens |
|---|---|---|
| `insert_keeps_scans` | `skdrut/newscan.f:136` | After a VEX file is read NXTREC is still 1; the first new scan overwrites one of the file (`ptobs.f:7`). |
| `scans_survive_vex` | `sked/skcls.f:398` | WR after VWC or VWR writes a schedule without scans (`unout.f:33`). |

### Other disagreements

Met while reading, present in the models as the code has them but for those marked
(not modelled), without a run:

- `delcm.f:110`: DELETE of a time range also takes the first scan beyond it, though
  `delcm.f:104` says otherwise.
- `ptobs.f:58`: records of deleted scans are not used again; an insertion subscripts
  past the table while `wrerr.f:150` would still report room.
- `thin_cmd.f:200`: THIN raises no flag, so WR writes the schedule of before, against
  `skcom.ftni:140`.
- `skcls.f:425`: a failed `mv` is reported as a finished file (`skcls.f:435`).
- `downtime.f:99`: DOWNTIME OFF removes the downtimes of whatever stations unset variables
  name, though `downtime.f:87` means all of them.
- `chcmd.f:290`: TAGALONG asks about another station on the first scan, or none, and takes
  the station into its downtime (`chcmd.f:155`).
- `modcu.f:75`: MODIFY replaces the record in place and sorts nothing, so the index is
  no longer "time-ordered" (`skobs.ftni:34`) if the start time was edited.
- `chske.f:34` with `skcls.f:484`: the check before a write unpacks every scan into CUR;
  GTOBS is then asked to go to the place the cursor is already at and reads nothing,
  so CUR holds the last scan. The scan listed is not the current one, and the next
  MODIFY writes the edited last scan over it. `WalkKeepsSubnets` excepts this write.
- `licmd.f:90`: where n reaches back to the first scan or beyond, PREVIOUS n lists one
  scan past the current one and leaves the cursor there, though `licmd.f:52` has it
  "list thru current obs".
- `licmd.f:80`: any integer is a count. PREVIOUS with a negative one puts the cursor behind the last scan, and
  GTOBS leaves it there (`gtobs.f:213`); the next insertion moves no entry (`ptobs.f:64`) and sorts what
  deletions left behind the list into it, which loses scans and has others twice
  (8 scans, DELETE of 3 in the middle, PREVIOUS -3 at the last, an insertion: 1,2,6,6,7,7).
- `licmd.f:139`: the same command sets the cursor past scans that are never read, though `gtobs.f:9` says that
  "the observations all `pass through` the CUR variables".
- `lscur.f:118` and `121`: LIST of the nominal start for a station or source that the first
  scan does not have returns with the rewound CUR and leaves the cursor in front of the list, where
  `gtobs.f:162` reports a "valid record in the CUR variables" (`gtobs.f:28`).
- `licmd.f:106`: a NEXT or BACK that is refused for its source or station leaves IRECGO set,
  and the next DELETE begins at that place ("Set back to zero when done", `gtobs.f:136`).
- `delcm.f:93`: a counted delete from before the first scan leaves the cursor at 0 and
  takes the scans from the end of the list; `gtdtr.f:43` has "time string to next 10".
- `skcls.f:472`: after WR to a file other than the one opened, CSKFIL stays, so
  `unout.f:3`'s unchanged sections come from a file that lacks the changes the
  flags no longer show.
- `skcls.f:192`: the output file is created before the check; when the write then fails,
  `skout.f:44` says to re-issue WC, which is refused because the file now exists.
- `skcls.f:441`: ABORT asks by the flags, and settings that have none (downtimes among
  them) are lost without a question.
- `sked.f:250`: a failed opening returns to the prompt behind the initialisation, so the
  next file is read on top of what the first left, though `sked.f:78` records
  that COMMON is initialised before a schedule is processed.
- `skcls.f:302`: `$FLUX` goes to a new file only if KFLUX says that the file read had one
  (`skcom.ftni:138`); FLUX does not set it, so a second new file lacks the fluxes.
- `skcls.f:178` and `209`: VCC (`change_log.txt:375`) is in neither list of commands that
  refuse or ask about an existing file, and replaces it silently.

In the commands that edit a schedule:

- `fillcmd.f:534`: the loop over the stations left sets the end of the range to clean up to the last scan it touched,
  over the one of `fillcmd.f:472`; scans behind it that the first loop made longer are not
  looked at again, though `fillcmd.f:542` has "Make sure no station observes alone".
- `fillcmd.f:484`: the loop over the stations left does not ask for the source list, so
  FILL for one source also lengthens last scans on others; one without a scan turns off
  the station ISTAT still names (`fillcmd.f:489`).
- `fillcmd.f:550`: the cleanup shortens whoever observes longest, also stations and scans
  FILL was not asked about, though `fillcmd.f:525` has "NEVER reduce a scan"; if the window
  reaches behind the last scan it reads `iskrec(nobs+1)`.
- `thin_cmd.f:158`: without a gap below a day THIN takes the scan of the turn before again
  (a subscript 0), or one never set; a scan at midnight counts as none before it
  (`thin_cmd.f:166`); the cursor stays where it was (`thin_cmd.f:219`).
- `ptobs.f:105`: after the deletion of the first scan the cursor is not moved back
  (`ptobs.f:47`, "leaves" the "counter pointing to the correct location"), and REMOVE
  and UNTAG pass over the scan that takes its place.
- `gtobs.f:160`: the nominal start, typed from a later cursor, finds the rewound CUR and leaves
  the loop at place 0 with no source; REMOVE and UNTAG then delete the last scan.
  Elsewhere the range begins behind the time typed, though `gtobs.f:68` has "=>".
- `gtobs.f:160` with `chske.f:34`: if CUR is not the scan at the cursor, the first turn puts
  it over another.
- `chcmd.f:584`: SHIFT is to quit at an error ("We must quit"), but KERR is 0 there.
- `chcmd.f:272`: the stations UNTAG takes from its first scan leave CUR and not the record.
- `auchk.f:243`: a warning about slewing ends AUCHK before the times are looked at, so UNTAG
  lets late stations pass; a scan with a first station SHIFT has not met is not
  moved (`auchk.f:267`), as the record has that station's time.
- `auchk.f:259`: SHIFT moves only the stations PRE knows in CUR, and the scan whole
  (`auchk.f:271`, "same time for all stns"). One the loop had not met keeps its old time in
  CUR and so in PRE, and its next scan may be left where it comes too late.
- `chcmd.f:470`: ADD stores a late station with the time of its own last scan in CUR.

In writing VEX:

- `vex_put.c:157`: `create_vex` leaves the block in hand and its flag, so that a second
  file of a session begins with the last block of the first (`vex_put.c:62`, "Create a
  block"). The theorem and the run are about one file.
- `create_headstack` and `create_record_density` test their first argument only,
  `create_tape_length` forgets its units, and `delta_psi` and `delta_eps` do not ask for
  units as the other lists of `$EOP` do: the parser then stops at the statement.
- A list without elements is printed without its "=", a station with more than two
  drives, an odd number of bit streams in a fan-in, and a blank in a text or a unit
  that is not quoted end the reader; a fan-out of more than two bit streams ends
  the program already in `vex_field`.
- `create_ref` inside an ordinary definition is printed as if it were a reference to
  another file; `fcreate_external_ref` documents its arguments in another order;
  comments put before `create_version` are lost; `fcreate_sefd` declares a fourth
  argument that it does not pass on.

In reading VEX:

- `vstinp.f:92`: when the table of stations is full the loop prints its message and does
  not ask for the next name, so it prints it forever, though `vstinp.f:94` says
  "Ignored"; `vsoinp.f:72` does the same for sources (`vmoinp.f` does not).
- `ivgtmo.f:41`: the loop leaves its index at the last mode whether that matched or not,
  so a mode that is not in the table is read as the last one, though `ivgtmo.f:25`
  says "ELSE 0" and `vobinp.f:159` has a message for it.
- `vobinp.f:116`: the file is named anew as long as there is no record, so a file whose
  first scan has no known station is read from its beginning without end, its data
  transfers are stored without bound, and `ixfer_beg(0)` is written.
- `vobinp.f:163`: only as many station lines are asked for as stations are known, so
  that a known station behind unknown ones is dropped.
- `vobinp.f:278`: only `Max_Stn` data transfers of a scan are read; those behind them are dropped
  without a message.
- A later scan with no known station resets the transfers of the record before it,
  and a scan for which `newscan` finds no room renames the last record.
- `vobinp.f:328` says "use beginning of scan" for a transfer without a begin time, and
  the code takes its end (not modelled).
- `fget_scan` answers −4 or −5 as if the file had ended; −4 and −5 are swapped in its
  comments; a line n that was not found is not asked for again, but n + 1 is.
- `fget_literal` returns −3 with the last text. `get_mode_lowl` looks at the lines of a
  definition without asking whether they are references. Names of exactly the caller's length get no NUL (not modelled).
- The grammar admits comment lines among references (`vex.y:447`), which `vex_get.c:591` reads as a
  reference, and a scan without lines (`vex.y:501`), at which `fget_scan` ends the file (`vexf.c:745`) (not modelled).
- Any error of the parser ends the program, so `vex_open`'s −2 is never returned; a
  text beyond 128 characters ends it in the lexer (not modelled).

## 7. Not modelled

Geometry, SNR, optimisation and scoring are floating point; their results are
choices here. Menus, catalogues, listings and plots are text input and display.
The VEX grammar is modelled by the forms it accepts, not as a parser: its errors end the
program, and the lexer's buffers are not in the model. The wrappers of the writer's
other calls (`vexf_put.c` 51–360) forward their arguments; `v*out.f` format COMMON into calls and `vunp*.f` the lines back;
literals are not in the writer; the exits of a write that cannot create its file or open the original (`skcls.f:193`, `399`)
are not in `ScheduleFile`; `fget_scan_station` and `fget_scan_data_transfer` are
called by the test program only. `skdrlnfch`, `matrix` and `curses` are utilities. Logging
and messages are left out, but for the few a property is about. The database
and the master schedule are I/O. In the editing commands the sky and the signal are choices, and
one command is a behaviour. The components of section 5 are not modelled yet.
Compilers may keep a variable that is read before it is set at any value; the models
take every station number, and a subscript outside the array.
