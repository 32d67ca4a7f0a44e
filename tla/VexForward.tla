----------------------------- MODULE VexForward ------------------------------
(***************************************************************************)
(* The wrappers of vexf_put.c, by which Fortran calls the create functions *)
(* of VexPut: for every statement the arguments its wrapper passes on, and *)
(* those passed on with each element of its list.  There are no prototypes *)
(* on either side, so no compiler compares the two.  The definitions       *)
(* follow the file.                                                        *)
(***************************************************************************)
EXTENDS Naturals, Sequences, SequencesExt, TLC

(* The arguments in their order: n of the statement, m of each element. *)
Straight(n) == [k \in 1 .. n |-> k]
WithList(n, m) == [scalars |-> Straight(n), element |-> Straight(m)]
Passes(n) == WithList(n, 0)

Each(stmts, wrapper) == [s \in stmts |-> wrapper]

(* $SCHED *)
ForwardScan == Each({"start", "mode", "source"}, Passes(1))
ForwardStation == [station |-> WithList(9, 1), data_transfer |-> Passes(8)]

(* $ANTENNA and $BBC *)
ForwardAntenna ==
    Each({"antenna_diam", "axis_type", "axis_offset"}, Passes(2))
    @@ [antenna_motion |-> Passes(5)]
ForwardSector == [pointing_sector |-> Passes(11), BBC_assign |-> Passes(3)]

(* $CLOCK and $DAS *)
ForwardClock == [clock_early |-> Passes(5)]
ForwardDas ==
    Each({"record_transport_type", "electronics_rack_type", "number_drives"}, Passes(1))
    @@ [headstack |-> Passes(3), record_density |-> Passes(2)]
ForwardTape ==
    Each({"recording_system_ID", "tape_control"}, Passes(1))
    @@ [tape_length |-> Passes(4), tape_motion |-> Passes(7)]

(* $EOP: the lists have wrappers for their elements only. *)
ForwardEop ==
    Each({"TAI_UTC", "A1_TAI", "eop_interval"}, Passes(2))
    @@ Each({"eop_ref_epoch", "num_eop_points"}, Passes(1))
ForwardEopLists == Each({"ut1_utc", "x_wobble", "y_wobble"}, WithList(0, 2))
ForwardNutation ==
    Each({"nut_ref_epoch", "num_nut_points", "nut_model"}, Passes(1))
    @@ Each({"delta_psi", "delta_eps"}, WithList(0, 2))
    @@ [nut_interval |-> Passes(2)]

(* $EXPER *)
ForwardExper ==
    Each({"exper_num", "exper_name", "exper_description", "exper_nominal_start",
          "exper_nominal_stop"}, Passes(1))
ForwardPeople ==
    Each({"PI_name", "PI_email", "contact_name", "contact_email", "scheduler_name",
          "scheduler_email", "target_correlator"}, Passes(1))

(* $FREQ *)
ForwardChannel == [chan_def |-> WithList(9, 1)]
ForwardFreq ==
    [sample_rate |-> Passes(2), bits_per_sample |-> Passes(1),
     switching_cycle |-> WithList(1, 2)]

(* Variant: the wrapper turns the base and the spacing of the tones round. *)
ForwardIfTurned ==
    [headstack_pos |-> WithList(1, 2),
     if_def |-> [scalars |-> <<1, 2, 3, 4, 5, 6, 9, 10, 7, 8>>, element |-> << >>]]

(* $HEAD_POS and $IF *)
ForwardIf == [headstack_pos |-> WithList(1, 2), if_def |-> Passes(10)]

(* $PHASE_CAL_DETECT, $PASS_ORDER and $PROCEDURES *)
ForwardPassOrder ==
    Each({"S2_group_order", "pass_order"}, WithList(0, 1))
    @@ [phase_cal_detect |-> WithList(1, 1), tape_change |-> Passes(2)]
ForwardCommands ==
    Each({"new_tape_setup", "new_source_command", "headstack_motion"}, Passes(2))
ForwardChecks == Each({"tape_prepass", "parity_check", "setup_always"}, Passes(3))
ForwardCals == Each({"postob_cal", "midob_cal", "preob_cal"}, Passes(4))

(* $ROLL, with the prefix of the procedures *)
ForwardRoll ==
    Each({"roll", "procedure_name_prefix", "roll_inc_period"}, Passes(1))
    @@ [roll_reinit_period |-> Passes(2), roll_def |-> WithList(0, 1)]

(* $SEFD: the fourth argument of the wrapper is not passed on. *)
ForwardSefd == [sefd_model |-> Passes(1), sefd |-> WithList(3, 1)]

(* $SITE *)
ForwardSite ==
    Each({"site_name", "site_type", "site_ID", "site_position_epoch"}, Passes(1))
    @@ [site_position |-> Passes(6)]
ForwardHorizon ==
    Each({"horizon_map_az", "horizon_map_el"}, WithList(0, 2))
    @@ [site_position_ref |-> Passes(1), site_velocity |-> Passes(6)]
ForwardOcean ==
    Each({"ocean_load_vert", "ocean_load_horiz"}, Passes(4))
    @@ [zen_atmos |-> Passes(2), occupation_code |-> Passes(1)]

(* $SITE and $SOURCE, the orbit *)
ForwardAngles ==
    Each({"inclination", "arg_perigee", "ascending_node", "mean_anomaly"}, Passes(2))
    @@ [eccentricity |-> Passes(1)]
ForwardOrbit ==
    Each({"mean_motion", "orbit_epoch"}, Passes(1)) @@ [semi_major_axis |-> Passes(2)]

(* $SOURCE *)
ForwardSource ==
    Each({"source_name", "ra", "IAU_name", "dec", "ref_coord_frame"}, Passes(1))
    @@ [source_type |-> Passes(2)]
ForwardRates ==
    Each({"source_position_ref", "source_position_epoch"}, Passes(1))
    @@ Each({"ra_rate", "dec_rate", "velocity_wrt_LSR"}, Passes(2))

(* $SOURCE, the model, and $TAPELOG_OBS *)
ForwardModel == [source_model |-> Passes(13), VSN |-> Passes(4)]

(* $TRACKS: a fan-out takes its four arguments in calls of their own. *)
ForwardFan == [fanin_def |-> WithList(3, 1), fanout_def |-> WithList(4, 1)]
ForwardFormats ==
    Each({"track_frame_format", "data_modulation"}, Passes(1))
    @@ [VLBA_frmtr_sys_trk |-> Passes(4)]
ForwardTransports ==
    [VLBA_trnsprt_sys_trk |-> Passes(2), S2_recording_mode |-> Passes(1),
     S2_data_source |-> Passes(3)]

Forward ==
    ForwardScan @@ ForwardStation @@ ForwardAntenna @@ ForwardSector @@ ForwardClock
    @@ ForwardDas @@ ForwardTape @@ ForwardEop @@ ForwardEopLists @@ ForwardNutation
    @@ ForwardExper @@ ForwardPeople @@ ForwardChannel @@ ForwardFreq @@ ForwardIf
    @@ ForwardPassOrder @@ ForwardCommands @@ ForwardChecks @@ ForwardCals
    @@ ForwardRoll @@ ForwardSefd @@ ForwardSite @@ ForwardHorizon @@ ForwardOcean
    @@ ForwardAngles @@ ForwardOrbit @@ ForwardSource @@ ForwardRates
    @@ ForwardModel @@ ForwardFan @@ ForwardFormats @@ ForwardTransports

-----------------------------------------------------------------------------
(* For a call with a list of count elements, the caller's argument that    *)
(* each argument of the create functions comes from.                       *)
Forwarded(stmt, count) ==
    LET n == Len(Forward[stmt].scalars)
        m == Len(Forward[stmt].element)
    IN  Forward[stmt].scalars
          \o FlattenSeq([j \in 1 .. count |->
               [k \in 1 .. m |-> n + (j - 1) * m + Forward[stmt].element[k]]])
=============================================================================
