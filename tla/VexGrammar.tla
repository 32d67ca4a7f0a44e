----------------------------- MODULE VexGrammar -----------------------------
(***************************************************************************)
(* The statements the grammar vex.y accepts, and what its actions build.   *)
(*                                                                         *)
(* The reader sees a statement as the sequence of its fields, a field as   *)
(* the sequence of its tokens, a token as its class and its text.  The     *)
(* letters of a form say what a field must be:                             *)
(*   N  a name          V  a value (a name kept as a dvalue)               *)
(*   U  unit_value, two names      O  unit_option, one or two              *)
(*   L  a link          A  an angle         e  nothing                     *)
(*   n u l  one of these or nothing         d  unit_value2                 *)
(***************************************************************************)
EXTENDS VexShape

Token(class, text) == [class |-> class, text |-> text]
Shape(field)       == [i \in DOMAIN field |-> field[i].class]

Name  == <<"name">>
Pair  == <<"name", "name">>

Admits ==
    [N |-> {Name},             V |-> {Name},          U |-> {Pair},
     O |-> {Name, Pair},       L |-> {<<"link">>},    A |-> {<<"angle">>},
     n |-> {Name, << >>},      u |-> {Pair, << >>},   l |-> {<<"link">>, << >>},
     d |-> {Pair, << >>},      e |-> {<< >>}]

(* The member a field becomes: NULL, a string or a dvalue. *)
Made(letter, field) ==
    IF field = << >> THEN IF letter = "d" THEN << <<0, 0>> >> ELSE Null
    ELSE IF Len(field) = 2 THEN << <<field[1].text, field[2].text>> >>
         ELSE IF letter \in {"V", "O"} THEN << <<field[1].text, 0>> >>
              ELSE << <<field[1].text>> >>

-----------------------------------------------------------------------------
(* A form: its letters, the member each field goes to, the letters of the  *)
(* list that may follow (in turn; the last one repeats when same is TRUE), *)
(* how long the list may be, and the number of members.                    *)
Form(letters, slots, width) ==
    [letters |-> letters, slots |-> slots, width |-> width,
     list |-> << >>, least |-> 0, most |-> 0]

InOrder(letters, width) == Form(letters, [i \in DOMAIN letters |-> i], width)

Only(letters) == {InOrder(letters, Len(letters))}

Repeating(form, list, least, most) ==
    [form EXCEPT !.list = list, !.least = least, !.most = most]

Values(letters, least, most) ==
    {Repeating(InOrder(letters, Len(letters) + 1), <<"V">>, least, most)}

\* The mark of a list that the grammar sets no bound to, not a length.
Endless == 99

(* unit_list: the first needs its units, the others may leave them out. *)
UnitList(letters) ==
    {Repeating(InOrder(letters, Len(letters) + 1), <<"U", "O">>, 1, Endless)}

(* The letter of the j-th element: the last one goes on, except that a     *)
(* list of bit streams is made of pairs.                                   *)
ListLetter(form, j) ==
    IF form.list = <<"L", "N">> THEN IF j % 2 = 1 THEN "L" ELSE "N"
    ELSE form.list[IF j <= Len(form.list) THEN j ELSE Len(form.list)]

-----------------------------------------------------------------------------
SchedForms ==
    [start         |-> Only(<<"N">>),
     mode          |-> Only(<<"N">>),
     source        |-> Only(<<"N">>),
     station       |-> {InOrder(<<"N", "U", "U", "u", "n", "l", "e">>, 7)}
                         \cup Values(<<"N", "U", "U", "u", "n", "l">>, 1, 2),
     data_transfer |-> {InOrder(<<"n", "n", "n", "d", "d", "n">>, 6),
                        InOrder(<<"n", "n", "n", "d", "d">>, 6)}]

AntennaForms ==
    [antenna_diam    |-> Only(<<"U">>),
     axis_type       |-> Only(<<"N", "N">>),
     axis_offset     |-> Only(<<"U">>),
     antenna_motion  |-> Only(<<"N", "U", "U">>),
     pointing_sector |-> Only(<<"L", "N", "U", "U", "N", "U", "U">>)]

BbcForms == [BBC_assign |-> Only(<<"L", "V", "L">>)]

ClockForms ==
    [clock_early |-> {InOrder(<<"n", "U">>, 4), InOrder(<<"n", "U", "N", "O">>, 4)}]

(* Variant: a tape motion of two fields has its value for the late start. *)
DasFormsShifted ==
    [record_transport_type |-> Only(<<"N">>),
     electronics_rack_type |-> Only(<<"N">>),
     tape_control          |-> Only(<<"N">>),
     number_drives         |-> Only(<<"V">>),
     recording_system_ID   |-> Only(<<"V">>),
     headstack             |-> Only(<<"V", "n", "V">>),
     record_density        |-> Only(<<"U">>),
     tape_length           |-> {InOrder(<<"U">>, 3), InOrder(<<"U", "N", "V">>, 3)},
     tape_motion           |-> {InOrder(<<"N">>, 4), Form(<<"N", "U">>, <<1, 3>>, 4),
                                InOrder(<<"N", "U", "U", "U">>, 4)}]

DasForms ==
    [record_transport_type |-> Only(<<"N">>),
     electronics_rack_type |-> Only(<<"N">>),
     tape_control          |-> Only(<<"N">>),
     number_drives         |-> Only(<<"V">>),
     recording_system_ID   |-> Only(<<"V">>),
     headstack             |-> Only(<<"V", "n", "V">>),
     record_density        |-> Only(<<"U">>),
     tape_length           |-> {InOrder(<<"U">>, 3), InOrder(<<"U", "N", "V">>, 3)},
     tape_motion           |-> {InOrder(<<"N">>, 4), InOrder(<<"N", "U">>, 4),
                                InOrder(<<"N", "U", "U", "U">>, 4)}]

EopForms ==
    [TAI_UTC        |-> Only(<<"U">>),
     A1_TAI         |-> Only(<<"U">>),
     eop_interval   |-> Only(<<"U">>),
     nut_interval   |-> Only(<<"U">>),
     eop_ref_epoch  |-> Only(<<"N">>),
     nut_ref_epoch  |-> Only(<<"N">>),
     nut_model      |-> Only(<<"N">>),
     num_eop_points |-> Only(<<"V">>),
     num_nut_points |-> Only(<<"V">>),
     ut1_utc        |-> UnitList(<< >>) \cup {InOrder(<<"e">>, 1)},
     x_wobble       |-> UnitList(<< >>) \cup {InOrder(<<"e">>, 1)},
     y_wobble       |-> UnitList(<< >>) \cup {InOrder(<<"e">>, 1)},
     delta_psi      |-> UnitList(<< >>) \cup {InOrder(<<"e">>, 1)},
     delta_eps      |-> UnitList(<< >>) \cup {InOrder(<<"e">>, 1)}]

ExperForms ==
    [exper_name          |-> Only(<<"N">>),
     exper_description   |-> Only(<<"N">>),
     exper_nominal_start |-> Only(<<"N">>),
     exper_nominal_stop  |-> Only(<<"N">>),
     PI_name             |-> Only(<<"N">>),
     PI_email            |-> Only(<<"N">>),
     contact_name        |-> Only(<<"N">>),
     contact_email       |-> Only(<<"N">>),
     scheduler_name      |-> Only(<<"N">>),
     scheduler_email     |-> Only(<<"N">>),
     target_correlator   |-> Only(<<"N">>),
     exper_num           |-> Only(<<"V">>)]

FreqForms ==
    [chan_def        |-> Values(<<"l", "U", "N", "U", "L", "L", "L">>, 0, Endless),
     sample_rate     |-> Only(<<"U">>),
     bits_per_sample |-> Only(<<"V">>),
     switching_cycle |-> UnitList(<<"N">>)]

HeadPosForms == [headstack_pos |-> UnitList(<<"V">>)]

IfForms ==
    [if_def |-> {InOrder(<<"L", "N", "N", "U", "N">>, 7),
                 InOrder(<<"L", "N", "N", "U", "N", "u">>, 7),
                 InOrder(<<"L", "N", "N", "U", "N", "e", "e">>, 7),
                 InOrder(<<"L", "N", "N", "U", "N", "U", "u">>, 7)}]

PassOrderForms ==
    [pass_order     |-> {Repeating(InOrder(<< >>, 1), <<"N">>, 1, Endless)},
     S2_group_order |-> Values(<< >>, 1, Endless)]

PhaseCalForms == [phase_cal_detect |-> Values(<<"L">>, 0, Endless)]

ProceduresForms ==
    [tape_change           |-> Only(<<"U">>),
     headstack_motion      |-> Only(<<"U">>),
     new_source_command    |-> Only(<<"U">>),
     new_tape_setup        |-> Only(<<"U">>),
     setup_always          |-> Only(<<"N", "U">>),
     parity_check          |-> Only(<<"N", "U">>),
     tape_prepass          |-> Only(<<"N", "U">>),
     preob_cal             |-> Only(<<"N", "U", "N">>),
     midob_cal             |-> Only(<<"N", "U", "N">>),
     postob_cal            |-> Only(<<"N", "U", "N">>),
     procedure_name_prefix |-> Only(<<"N">>)]

RollForms ==
    [roll_reinit_period |-> Only(<<"U">>),
     roll_inc_period    |-> Only(<<"V">>),
     roll               |-> Only(<<"N">>),
     roll_def           |-> Values(<< >>, 1, Endless)]

SefdForms ==
    [sefd_model |-> Only(<<"N">>),
     sefd       |-> Values(<<"L", "U">>, 1, Endless)]

SiteForms ==
    [site_type           |-> Only(<<"N">>),
     site_name           |-> Only(<<"N">>),
     site_ID             |-> Only(<<"N">>),
     site_position_epoch |-> Only(<<"N">>),
     site_position_ref   |-> Only(<<"N">>),
     occupation_code     |-> Only(<<"N">>),
     site_position       |-> Only(<<"U", "U", "U">>),
     site_velocity       |-> Only(<<"U", "U", "U">>),
     horizon_map_az      |-> UnitList(<< >>),
     horizon_map_el      |-> UnitList(<< >>),
     ocean_load_vert     |-> Only(<<"U", "U">>),
     ocean_load_horiz    |-> Only(<<"U", "U">>),
     zen_atmos           |-> Only(<<"U">>)]

OrbitForms ==
    [inclination     |-> Only(<<"U">>),
     arg_perigee     |-> Only(<<"U">>),
     ascending_node  |-> Only(<<"U">>),
     mean_anomaly    |-> Only(<<"U">>),
     semi_major_axis |-> Only(<<"U">>),
     eccentricity    |-> Only(<<"V">>),
     mean_motion     |-> Only(<<"V">>),
     orbit_epoch     |-> Only(<<"N">>)]

SourceForms ==
    [source_name           |-> Only(<<"N">>),
     IAU_name              |-> Only(<<"N">>),
     ra                    |-> Only(<<"N">>),
     ref_coord_frame       |-> Only(<<"N">>),
     source_position_ref   |-> Only(<<"N">>),
     source_position_epoch |-> Only(<<"N">>),
     ra_rate               |-> Only(<<"U">>),
     dec_rate              |-> Only(<<"U">>),
     velocity_wrt_LSR      |-> Only(<<"U">>),
     source_type           |-> {Form(<<"N">>, <<1>>, 1), Form(<<"N", "N">>, <<1, 1>>, 1)},
     dec                   |-> Only(<<"A">>),
     source_model          |-> Only(<<"V", "L", "U", "U", "V", "U", "U", "U">>)]

TapelogForms == [VSN |-> Only(<<"V", "N", "N", "N">>)]

(* One or two bit streams in a fan-out: the writer never makes more. *)
FanForms ==
    [fanin_def  |-> {Repeating(InOrder(<<"N", "V", "V">>, 4), <<"L", "N">>, 2, Endless)},
     fanout_def |-> {Repeating(Form(<<"n", "L", "N", "V">>, <<1, 2, 2, 3>>, 4),
                               <<"V">>, 1, Endless),
                     Repeating(Form(<<"n", "L", "N", "L", "N", "V">>,
                                    <<1, 2, 2, 2, 2, 3>>, 4), <<"V">>, 1, Endless)}]

TracksForms ==
    [track_frame_format   |-> Only(<<"N">>),
     data_modulation      |-> Only(<<"N">>),
     S2_recording_mode    |-> Only(<<"N">>),
     VLBA_frmtr_sys_trk   |-> {InOrder(<<"V", "N", "V">>, 4),
                               InOrder(<<"V", "N", "V", "V">>, 4)},
     VLBA_trnsprt_sys_trk |-> {Form(<<"V", "V">>, <<1, 1>>, 1)},
     S2_data_source       |-> {InOrder(<<"N">>, 3), InOrder(<<"N", "L", "L">>, 3)}]

Forms ==
    Joined({SchedForms, AntennaForms, BbcForms, ClockForms, DasForms,
            EopForms, ExperForms, FreqForms, HeadPosForms, IfForms,
            PassOrderForms, PhaseCalForms, ProceduresForms, RollForms,
            SefdForms, SiteForms, OrbitForms, SourceForms, TapelogForms,
            FanForms, TracksForms})

-----------------------------------------------------------------------------
Letter(form, i) ==
    IF i <= Len(form.letters) THEN form.letters[i]
    ELSE ListLetter(form, i - Len(form.letters))

Matches(form, fields) ==
    LET more == Len(fields) - Len(form.letters)
    IN  /\ form.least <= more /\ (form.most = Endless \/ more <= form.most)
        /\ form.list = <<"L", "N">> => more % 2 = 0
        /\ \A i \in DOMAIN fields : Shape(fields[i]) \in Admits[Letter(form, i)]

(* A member is made of its fields, in their order. *)
MemberOf(form, i) == IF i <= Len(form.letters) THEN form.slots[i] ELSE form.width

Member(form, fields, slot) ==
    FlattenSeq([i \in DOMAIN fields |->
                  IF MemberOf(form, i) = slot THEN Made(Letter(form, i), fields[i])
                  ELSE << >>])

Accepted(stmt, fields) == \E form \in Forms[stmt] : Matches(form, fields)

Parse(stmt, fields) ==
    LET form == CHOOSE form \in Forms[stmt] : Matches(form, fields)
    IN  [slot \in 1 .. form.width |-> Member(form, fields, slot)]

=============================================================================
