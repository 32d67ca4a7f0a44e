------------------------------- MODULE VexPut -------------------------------
(***************************************************************************)
(* The create functions of vex_put.c: for every statement the arguments    *)
(* that make it, the tests on them and the struct that is built.  Each     *)
(* definition is one block of the file.                                    *)
(***************************************************************************)
EXTENDS VexShape

(* $SCHED: none of the arguments is tested. *)
PutSched ==
    [start         |-> Unchecked(1, <<Str(1)>>),
     mode          |-> Unchecked(1, <<Str(1)>>),
     source        |-> Unchecked(1, <<Str(1)>>),
     station       |-> [Listing(9, <<Str(1), Unit(2), Unit(4), Unit(6), Str(8),
                                     Str(9), Many>>, "value")
                          EXCEPT !.empty = << <<0, 0>> >>],
     data_transfer |-> Unchecked(8, <<Str(1), Str(2), Str(3), Unit(4), Unit(6),
                                      Str(8)>>)]

(* Variant: the units of the diameter are not tested. *)
PutAntennaLoose ==
    [antenna_diam    |-> Branches(2, << Branch({1}, <<Unit(1)>>) >>),
     axis_type       |-> Checked(2, <<Str(1), Str(2)>>),
     axis_offset     |-> Checked(2, <<Unit(1)>>),
     antenna_motion  |-> Checked(5, <<Str(1), Unit(2), Unit(4)>>),
     pointing_sector |-> Checked(11, <<Str(1), Str(2), Unit(3), Unit(5), Str(7),
                                       Unit(8), Unit(10)>>)]

(* $ANTENNA *)
PutAntenna ==
    [antenna_diam    |-> Checked(2, <<Unit(1)>>),
     axis_type       |-> Checked(2, <<Str(1), Str(2)>>),
     axis_offset     |-> Checked(2, <<Unit(1)>>),
     antenna_motion  |-> Checked(5, <<Str(1), Unit(2), Unit(4)>>),
     pointing_sector |-> Checked(11, <<Str(1), Str(2), Unit(3), Unit(5), Str(7),
                                       Unit(8), Unit(10)>>)]

(* $BBC *)
PutBbc == [BBC_assign |-> Checked(3, <<Str(1), Value(2), Str(3)>>)]

(* $CLOCK: the start is optional, and so are the origin and rate together. *)
PutClock ==
    [clock_early |-> Branches(5,
        << Branch(1 .. 5, <<Str(1), Unit(2), Str(4), Value(5)>>),
           Branch(2 .. 5, <<Null, Unit(2), Str(4), Value(5)>>),
           Branch(1 .. 3, <<Str(1), Unit(2), Null, Null>>),
           Branch(2 .. 3, <<Null, Unit(2), Null, Null>>) >>)]

(* $DAS, the equipment: only the first argument of a call is tested. *)
PutDas ==
    [record_transport_type |-> Checked(1, <<Str(1)>>),
     electronics_rack_type |-> Checked(1, <<Str(1)>>),
     number_drives         |-> Checked(1, <<Value(1)>>),
     headstack  |-> Branches(3, << Branch({1}, <<Value(1), Str(2), Value(3)>>) >>),
     record_density |-> Branches(2, << Branch({1}, <<Unit(1)>>) >>),
     tape_length    |-> Branches(4,
        << Branch({1, 3, 4}, <<Unit(1), Str(3), Value(4)>>),
           Branch({1}, <<Unit(1), Null, Null>>) >>)]

(* $DAS, the tape motion: early, then late and gap together. *)
PutTape ==
    [recording_system_ID |-> Checked(1, <<Value(1)>>),
     tape_motion |-> Branches(7,
        << Branch(1 .. 7, <<Str(1), Unit(2), Unit(4), Unit(6)>>),
           Branch(1 .. 3, <<Str(1), Unit(2), Null, Null>>),
           Branch({1}, <<Str(1), Null, Null, Null>>) >>),
     tape_control |-> Checked(1, <<Str(1)>>)]

(* $EOP, earth rotation. *)
PutEop ==
    [TAI_UTC        |-> Checked(2, <<Unit(1)>>),
     A1_TAI         |-> Checked(2, <<Unit(1)>>),
     eop_ref_epoch  |-> Checked(1, <<Str(1)>>),
     num_eop_points |-> Checked(1, <<Value(1)>>),
     eop_interval   |-> Checked(2, <<Unit(1)>>)]

(* $EOP, the lists: an element without its units ends the list. *)
PutEopLists ==
    [ut1_utc  |-> Listing(0, <<Many>>, "strict"),
     x_wobble |-> Listing(0, <<Many>>, "strict"),
     y_wobble |-> Listing(0, <<Many>>, "strict")]

(* $EOP, nutation. *)
PutNutation ==
    [nut_ref_epoch  |-> Checked(1, <<Str(1)>>),
     num_nut_points |-> Checked(1, <<Value(1)>>),
     nut_interval   |-> Checked(2, <<Unit(1)>>),
     delta_psi      |-> Listing(0, <<Many>>, "unit"),
     delta_eps      |-> Listing(0, <<Many>>, "unit"),
     nut_model      |-> Checked(1, <<Str(1)>>)]

(* $EXPER, the experiment. *)
PutExper ==
    [exper_name          |-> Checked(1, <<Str(1)>>),
     exper_num           |-> Checked(1, <<Value(1)>>),
     exper_description   |-> Checked(1, <<Str(1)>>),
     exper_nominal_start |-> Checked(1, <<Str(1)>>),
     exper_nominal_stop  |-> Checked(1, <<Str(1)>>)]

(* $EXPER, the people. *)
PutPeople ==
    [s \in {"PI_name", "PI_email", "contact_name", "contact_email",
            "scheduler_name", "scheduler_email", "target_correlator"} |->
       Checked(1, <<Str(1)>>)]

(* $FREQ: a channel and a cycle wait in string[] for their lists. *)
PutFreq ==
    [chan_def |-> Listing(9, <<Str(1), Unit(2), Str(4), Unit(5), Str(7), Str(8),
                               Str(9), Many>>, "value"),
     sample_rate     |-> Checked(2, <<Unit(1)>>),
     bits_per_sample |-> Checked(1, <<Value(1)>>),
     switching_cycle |-> Listing(1, <<Str(1), Many>>, "unit")]

(* $HEAD_POS *)
PutHeadPos == [headstack_pos |-> Listing(1, <<Value(1), Many>>, "strict")]

(* $IF: the spacing and the base of the calibration tones are optional. *)
PutIf ==
    [if_def |-> Branches(10,
        << Branch(7 .. 10, <<Str(1), Str(2), Str(3), Unit(4), Str(6), Unit(7),
                             Unit(9)>>),
           Branch({7, 8}, <<Str(1), Str(2), Str(3), Unit(4), Str(6), Unit(7), Null>>),
           Branch({}, <<Str(1), Str(2), Str(3), Unit(4), Str(6), Null, Null>>) >>)]

(* $PASS_ORDER *)
PutPassOrder ==
    [pass_order     |-> Listing(0, <<Many>>, "name"),
     S2_group_order |-> Listing(0, <<Many>>, "value")]

(* $PHASE_CAL_DETECT *)
PutPhaseCal == [phase_cal_detect |-> Listing(1, <<Str(1), Many>>, "value")]

(* $PROCEDURES: nothing is tested. *)
PutProcedures ==
    [tape_change           |-> Unchecked(2, <<Unit(1)>>),
     headstack_motion      |-> Unchecked(2, <<Unit(1)>>),
     new_source_command    |-> Unchecked(2, <<Unit(1)>>),
     new_tape_setup        |-> Unchecked(2, <<Unit(1)>>),
     setup_always          |-> Unchecked(3, <<Str(1), Unit(2)>>),
     parity_check          |-> Unchecked(3, <<Str(1), Unit(2)>>),
     tape_prepass          |-> Unchecked(3, <<Str(1), Unit(2)>>),
     preob_cal             |-> Unchecked(4, <<Str(1), Unit(2), Str(4)>>),
     midob_cal             |-> Unchecked(4, <<Str(1), Unit(2), Str(4)>>),
     postob_cal            |-> Unchecked(4, <<Str(1), Unit(2), Str(4)>>),
     procedure_name_prefix |-> Unchecked(1, <<Str(1)>>)]

(* $ROLL *)
PutRoll ==
    [roll               |-> Unchecked(1, <<Str(1)>>),
     roll_reinit_period |-> Unchecked(2, <<Unit(1)>>),
     roll_inc_period    |-> Unchecked(1, <<Value(1)>>),
     roll_def           |-> Listing(0, <<Many>>, "value")]

(* $SEFD *)
PutSefd ==
    [sefd_model |-> Unchecked(1, <<Str(1)>>),
     sefd       |-> Listing(3, <<Str(1), Unit(2), Many>>, "value")]

(* $SITE, the place. *)
PutSite ==
    [site_name           |-> Unchecked(1, <<Str(1)>>),
     site_type           |-> Unchecked(1, <<Str(1)>>),
     site_ID             |-> Unchecked(1, <<Str(1)>>),
     site_position_epoch |-> Unchecked(1, <<Str(1)>>),
     site_position_ref   |-> Unchecked(1, <<Str(1)>>),
     occupation_code     |-> Unchecked(1, <<Str(1)>>),
     site_position       |-> Unchecked(6, <<Unit(1), Unit(3), Unit(5)>>),
     site_velocity       |-> Unchecked(6, <<Unit(1), Unit(3), Unit(5)>>),
     horizon_map_az      |-> Listing(0, <<Many>>, "unit"),
     horizon_map_el      |-> Listing(0, <<Many>>, "unit"),
     ocean_load_vert     |-> Unchecked(4, <<Unit(1), Unit(3)>>),
     ocean_load_horiz    |-> Unchecked(4, <<Unit(1), Unit(3)>>),
     zen_atmos           |-> Unchecked(2, <<Unit(1)>>)]

(* $SITE and $SOURCE, the orbit of a satellite. *)
PutOrbit ==
    [inclination     |-> Unchecked(2, <<Unit(1)>>),
     arg_perigee     |-> Unchecked(2, <<Unit(1)>>),
     ascending_node  |-> Unchecked(2, <<Unit(1)>>),
     mean_anomaly    |-> Unchecked(2, <<Unit(1)>>),
     semi_major_axis |-> Unchecked(2, <<Unit(1)>>),
     eccentricity    |-> Unchecked(1, <<Value(1)>>),
     mean_motion     |-> Unchecked(1, <<Value(1)>>),
     orbit_epoch     |-> Unchecked(1, <<Str(1)>>)]

(* $SOURCE: one or two types, the names and the position. *)
PutSource ==
    [source_type           |-> Branches(2,
                                 << Branch({1, 2}, << << <<1>>, <<2>> >> >>),
                                    Branch({1}, <<Str(1)>>),
                                    Branch({2}, <<Str(2)>>),
                                    Branch({}, <<Null>>) >>),
     source_name           |-> Unchecked(1, <<Str(1)>>),
     ra                    |-> Unchecked(1, <<Str(1)>>),
     IAU_name              |-> Unchecked(1, <<Str(1)>>),
     dec                   |-> Unchecked(1, <<Str(1)>>),
     ref_coord_frame       |-> Unchecked(1, <<Str(1)>>),
     source_position_ref   |-> Unchecked(1, <<Str(1)>>),
     source_position_epoch |-> Unchecked(1, <<Str(1)>>),
     ra_rate               |-> Unchecked(2, <<Unit(1)>>),
     dec_rate              |-> Unchecked(2, <<Unit(1)>>),
     velocity_wrt_LSR      |-> Unchecked(2, <<Unit(1)>>)]

PutSourceModel ==
    [source_model |-> Unchecked(13, <<Value(1), Str(2), Unit(3), Unit(5), Value(7),
                                      Unit(8), Unit(10), Unit(12)>>)]

(* $TAPELOG_OBS *)
PutVsn == [VSN |-> Unchecked(4, <<Value(1), Str(2), Str(3), Str(4)>>)]

(* $TRACKS, fan-in and fan-out: a bit stream with an empty name is skipped. *)
PutFan ==
    [fanin_def  |-> Listing(3, <<Str(1), Value(2), Value(3), Many>>, "name"),
     fanout_def |->
        [Listing(4, <<Str(1), Null, Value(4), Many>>, "value") EXCEPT
           !.forms = << Branch({2, 3}, <<Str(1), << <<2>>, <<3>> >>, Value(4), Many>>),
                        Branch({2}, <<Str(1), Str(2), Value(4), Many>>),
                        Branch({3}, <<Str(1), Str(3), Value(4), Many>>),
                        Branch({}, <<Str(1), Null, Value(4), Many>>) >>]]

(* $TRACKS, the formats. *)
PutTracks ==
    [track_frame_format   |-> Unchecked(1, <<Str(1)>>),
     data_modulation      |-> Unchecked(1, <<Str(1)>>),
     S2_recording_mode    |-> Unchecked(1, <<Str(1)>>),
     VLBA_frmtr_sys_trk   |-> Branches(4,
                                << Branch({4}, <<Value(1), Str(2), Value(3), Value(4)>>),
                                   Branch({}, <<Value(1), Str(2), Value(3), Null>>) >>),
     VLBA_trnsprt_sys_trk |-> Unchecked(2, << << <<1, 0>>, <<2, 0>> >> >>),
     S2_data_source       |-> Branches(3,
                                << Branch({2, 3}, <<Str(1), Str(2), Str(3)>>),
                                   Branch({}, <<Str(1), Null, Null>>) >>)]

(* Every statement the writer knows. *)
Put ==
    Joined({PutSched, PutAntenna, PutBbc, PutClock, PutDas, PutTape, PutEop,
            PutEopLists, PutNutation, PutExper, PutPeople, PutFreq,
            PutHeadPos, PutIf, PutPassOrder, PutPhaseCal, PutProcedures,
            PutRoll, PutSefd, PutSite, PutOrbit, PutSource, PutSourceModel,
            PutVsn, PutFan, PutTracks})

Statements == DOMAIN Put

=============================================================================
