------------------------------ MODULE VexFields ------------------------------
(***************************************************************************)
(* The get_X_field functions of vex_util.c: the fields of a statement, in  *)
(* the order in which they are printed after the keyword and read back by  *)
(* number.  vex_field hands out field n of any statement; it is used by    *)
(* print_vex.c to write a file and by vexf.c to read one.                  *)
(***************************************************************************)
EXTENDS VexShape

(* A field: how it is printed, its text and its units.  A "text" is quoted *)
(* when it needs to be (name = 1), a "word" is printed as it stands, a     *)
(* "link" has an ampersand in front.                                       *)
Field(kind, text, units) == [kind |-> kind, text |-> text, units |-> units]

(* A column: the entry of the slot it shows, and the slots that must be    *)
(* long enough: a statement ends at the first column that lacks one.       *)
Column(slot, kind)     == [slot |-> slot, at |-> 1, kind |-> kind, needs |-> {}]
Text(slot)             == Column(slot, "text")
Link(slot)             == Column(slot, "link")
Word(slot)             == Column(slot, "word")
Number(slot)           == Column(slot, "value")    \* a dvalue, with its units
Bare(slot)             == Column(slot, "bare")     \* a dvalue, its units left out
NumberAsText(slot)     == Column(slot, "name")     \* a dvalue printed with name = 1
Ending(column, needs)  == [column EXCEPT !.needs = needs]
Bit(slot, n, kind)     == [Column(slot, kind) EXCEPT !.at = n, !.needs = {<<slot, n>>}]

(* The columns, and what the elements of the last slot are, when the       *)
(* fields go on with its list.                                             *)
Fixed(columns)        == [columns |-> columns, rest |-> "none"]
Listed(columns, kind) == [columns |-> columns, rest |-> kind]

-----------------------------------------------------------------------------
GetFreq ==
    [chan_def |-> Listed(<<Link(1), Number(2), Text(3), Number(4), Link(5),
                           Link(6), Link(7)>>, "value"),
     switching_cycle |-> Listed(<<Text(1)>>, "value")]

(* The start position is an empty field when there is none. *)
GetSched ==
    [station |-> Listed(<<Text(1), Number(2), Number(3), Number(4), Text(5),
                          Link(6)>>, "value"),
     data_transfer |-> Fixed(<<Text(1), Text(2), Text(3), Number(4), Number(5),
                               Text(6)>>)]

GetAntenna ==
    [axis_type       |-> Fixed(<<Text(1), Text(2)>>),
     antenna_motion  |-> Fixed(<<Text(1), Number(2), Number(3)>>),
     pointing_sector |-> Fixed(<<Link(1), Text(2), Number(3), Number(4), Text(5),
                                 Number(6), Number(7)>>)]

GetBbcClock ==
    [BBC_assign  |-> Fixed(<<Link(1), Number(2), Link(3)>>),
     clock_early |-> Fixed(<<Text(1), Number(2), Ending(Text(3), {<<3, 1>>}),
                             Ending(Number(4), {<<3, 1>>})>>)]

GetDas ==
    [headstack   |-> Fixed(<<Number(1), Text(2), Bare(3)>>),
     tape_length |-> Fixed(<<Number(1), Ending(Text(2), {<<2, 1>>}),
                             Ending(Number(3), {<<2, 1>>})>>),
     tape_motion |-> Fixed(<<Text(1), Ending(Number(2), {<<2, 1>>}),
                             Ending(Number(3), {<<3, 1>>}),
                             Ending(Number(4), {<<2, 1>>, <<3, 1>>})>>)]

GetHeadPos == [headstack_pos |-> Listed(<<Number(1)>>, "value")]

GetIf ==
    [if_def |-> Fixed(<<Link(1), Text(2), Text(3), Number(4), Text(5),
                        Ending(Number(6), {<<6, 1>>}),
                        Ending(Number(7), {<<7, 1>>})>>),
     phase_cal_detect |-> Listed(<<Link(1)>>, "value")]

GetSetup ==
    [setup_always |-> Fixed(<<Text(1), NumberAsText(2)>>),
     parity_check |-> Fixed(<<Text(1), Number(2)>>),
     tape_prepass |-> Fixed(<<Text(1), Number(2)>>)]

GetCal ==
    [s \in {"preob_cal", "midob_cal", "postob_cal"} |->
       Fixed(<<Text(1), Number(2), Text(3)>>)]

GetSefd == [sefd |-> Listed(<<Link(1), Number(2)>>, "value")]

GetSite ==
    [site_position    |-> Fixed(<<Number(1), Number(2), Number(3)>>),
     site_velocity    |-> Fixed(<<Number(1), Number(2), Number(3)>>),
     ocean_load_vert  |-> Fixed(<<Number(1), Number(2)>>),
     ocean_load_horiz |-> Fixed(<<Number(1), Number(2)>>)]

GetSourceModel ==
    [source_model |-> Fixed(<<Number(1), Link(2), Number(3), Number(4), Number(5),
                              Number(6), Number(7), Number(8)>>)]

GetVsn == [VSN |-> Fixed(<<Number(1), Text(2), Word(3), Word(4)>>)]

(* The bit streams are names in turn linked and plain.  A fan-out has one  *)
(* such pair, and nothing after it is shown when the pair is not whole.    *)
GetFan ==
    [fanin_def  |-> Listed(<<Text(1), Number(2), Number(3)>>, "bits"),
     fanout_def |-> Listed(<<Text(1), Bit(2, 1, "link"), Bit(2, 2, "text"),
                             Number(3)>>, "value")]

GetVlba ==
    [VLBA_frmtr_sys_trk |-> Fixed(<<Number(1), Text(2), Number(3),
                                    Ending(Number(4), {<<4, 1>>})>>),
     S2_data_source |-> Fixed(<<Text(1), Ending(Link(2), {<<2, 1>>}),
                                Ending(Link(3), {<<2, 1>>})>>)]

-----------------------------------------------------------------------------
(* vex_field: the statements that share a function. *)
GetValue ==
    [s \in {"VEX_rev", "sample_rate", "bits_per_sample", "antenna_diam",
            "axis_offset", "number_drives", "record_density",
            "recording_system_ID", "TAI_UTC", "A1_TAI", "num_eop_points",
            "eop_interval", "num_nut_points", "nut_interval", "exper_num",
            "tape_change", "headstack_motion", "new_source_command",
            "new_tape_setup", "roll_reinit_period", "roll_inc_period",
            "zen_atmos", "inclination", "eccentricity", "arg_perigee",
            "ascending_node", "mean_anomaly", "semi_major_axis", "mean_motion",
            "ra_rate", "dec_rate", "velocity_wrt_LSR"} |-> Fixed(<<Number(1)>>)]

GetName ==
    [s \in {"mode", "source", "record_transport_type", "electronics_rack_type",
            "tape_control", "nut_model", "exper_name", "exper_description",
            "PI_name", "PI_email", "contact_name", "contact_email",
            "scheduler_name", "scheduler_email", "target_correlator",
            "procedure_name_prefix", "roll", "sefd_model", "site_type",
            "site_name", "site_ID", "site_position_epoch", "site_position_ref",
            "occupation_code", "source_name", "IAU_name", "ref_coord_frame",
            "source_position_ref", "source_position_epoch",
            "track_frame_format", "data_modulation", "S2_recording_mode"} |->
       Fixed(<<Text(1)>>)]

(* A date, a right ascension, a declination: never quoted. *)
GetDate ==
    [s \in {"start", "eop_ref_epoch", "nut_ref_epoch", "exper_nominal_start",
            "exper_nominal_stop", "orbit_epoch"} |-> Fixed(<<Word(1)>>)]

GetPosition == [ra |-> Fixed(<<Word(1)>>), dec |-> Fixed(<<Word(1)>>)]

GetList ==
    [s \in {"ut1_utc", "x_wobble", "y_wobble", "delta_psi", "delta_eps",
            "S2_group_order", "roll_def", "horizon_map_az", "horizon_map_el",
            "VLBA_trnsprt_sys_trk"} |-> Listed(<< >>, "value")]

GetNames == [s \in {"pass_order", "source_type"} |-> Listed(<< >>, "word")]

(* vex_field: which function answers for a statement. *)
Get ==
    Joined({GetFreq, GetSched, GetAntenna, GetBbcClock, GetDas, GetHeadPos,
            GetIf, GetSetup, GetCal, GetSefd, GetSite, GetSourceModel,
            GetVsn, GetFan, GetVlba, GetValue, GetName, GetDate, GetPosition,
            GetList, GetNames})

-----------------------------------------------------------------------------
(* What an entry looks like in a field; an entry that is not there leaves  *)
(* the field empty.                                                        *)
Units(entry) == IF Len(entry) = 2 THEN entry[2] ELSE 0

Shown(kind, entry) ==
    CASE kind = "bare" -> Field("value", entry[1], 0)
      [] kind = "name" -> Field("text", entry[1], Units(entry))
      [] OTHER         -> Field(kind, entry[1], Units(entry))

ColumnField(column, item) ==
    IF column.at <= Len(item[column.slot])
    THEN Shown(column.kind, item[column.slot][column.at])
    ELSE Shown(column.kind, <<0>>)

BitKind(j) == IF j % 2 = 1 THEN "link" ELSE "text"

RestFields(kind, list) ==
    [j \in DOMAIN list |->
       Shown(IF kind = "bits" THEN BitKind(j) ELSE kind, list[j])]

Ends(column, item) == \E need \in column.needs : Len(item[need[1]]) < need[2]

(* The fields 1, 2, ... of a statement, up to the one vex_field refuses. *)
Fields(stmt, item) ==
    LET line  == Get[stmt]
        stops == {i \in DOMAIN line.columns : Ends(line.columns[i], item)}
        shown == [i \in DOMAIN line.columns |-> ColumnField(line.columns[i], item)]
    IN  CASE stops # {} ->
               SubSeq(shown, 1, Min(stops) - 1)
          [] stops = {} /\ line.rest = "none" -> shown
          [] OTHER -> shown \o RestFields(line.rest, item[Len(item)])

=============================================================================
