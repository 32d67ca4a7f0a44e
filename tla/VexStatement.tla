---------------------------- MODULE VexStatement ----------------------------
(***************************************************************************)
(* One statement of a VEX file from the caller's arguments through the     *)
(* file to the caller who reads it.                                        *)
(*                                                                         *)
(* fcreate_X (VexForward) passes its arguments on; create_X (VexPut) tests *)
(* them and builds the struct; print_vex asks vex_field (VexFields) for    *)
(* one field after the other and prints it; the grammar (VexGrammar)       *)
(* accepts the fields or yyerror stops the program; and the reader asks    *)
(* vex_field again.  The four tables were written by hand, one beside the  *)
(* other, and only their agreement makes a file mean what its writer said. *)
(***************************************************************************)
EXTENDS VexForward, VexPut, VexFields, VexGrammar

CONSTANTS
    Tried,      \* the statements put, one at a time
    MaxMany,    \* the longest list of elements added to one
    MaxMissing  \* the most arguments left empty in one call

ASSUME StatementAssumption ==
    Tried \subseteq Statements /\ MaxMany \in Nat /\ MaxMissing \in Nat

VARIABLES
    progress,   \* "ready", "refused", "made", "printed", "read", "stopped"
    call,       \* the call: statement, arguments given, elements, blanks
    item,       \* the struct in the statement list
    line,       \* the printed fields, as tokens
    back        \* the struct the reader made of them

statement == <<progress, call, item, line, back>>

NoCall == [stmt |-> "start", given |-> {}, count |-> 0, spaced |-> {}]

-----------------------------------------------------------------------------
(* Printing. *)

(* The two words of a text with a blank in it. *)
Halves(k) == <<k + 100, k + 200>>

Words(class, k, spaced) ==
    IF k \in spaced THEN [h \in 1 .. 2 |-> Token(class, Halves(k)[h])]
    ELSE <<Token(class, k)>>

(* The class the lexer gives to an unquoted word: a declination is an      *)
(* angle, anything else a name.                                            *)
Class(stmt, kind) ==
    IF kind = "link" THEN "link" ELSE IF stmt = "dec" THEN "angle" ELSE "name"

(* Variant: print_svalue quotes nothing. *)
TokensUnquoted(stmt, field, spaced) ==
    IF field.text = 0 THEN << >>
    ELSE Words(Class(stmt, field.kind), field.text, spaced)
         \o IF field.units = 0 THEN << >> ELSE Words("name", field.units, spaced)

(* print_lowl_st: a field without a value prints nothing, not even its     *)
(* units; print_svalue quotes a text with a blank in it.                   *)
Tokens(stmt, field, spaced) ==
    LET quoted == IF field.kind \in {"text", "link"} THEN {} ELSE spaced
        value  == Words(Class(stmt, field.kind), field.text, quoted)
    IN  IF field.text = 0 THEN << >>
        ELSE IF field.units = 0 THEN value
             ELSE value \o Words("name", field.units, spaced)

Printed(stmt, built, spaced) ==
    LET fields == Fields(stmt, built)
    IN  [i \in DOMAIN fields |-> Tokens(stmt, fields[i], spaced)]

-----------------------------------------------------------------------------
(* The arguments of a call with a list of count elements, and their texts  *)
(* as the create functions get them.                                       *)
Arguments(stmt, count) == DOMAIN Forwarded(stmt, count)

Passed(stmt, given, count) ==
    LET from == Forwarded(stmt, count)
    IN  [k \in DOMAIN from |-> IF from[k] \in given THEN from[k] ELSE 0]

(* An element is added when its first text is there; the lists called      *)
(* "strict" also ask for the units.                                        *)
Added(stmt, texts, count) ==
    \A j \in 1 .. count :
        LET args == ElementArgs(Put[stmt].args, Put[stmt].each, j)
        IN  IF Put[stmt].each = "strict" THEN \A k \in args : texts[k] # 0
            ELSE texts[Min(args)] # 0

Counts(stmt) == IF Put[stmt].each = "none" THEN {0} ELSE 0 .. MaxMany

AtRest ==
    /\ progress = "ready"
    /\ call = NoCall
    /\ item = << >> /\ line = << >> /\ back = << >>

(* Up to MaxMissing arguments are empty; a blank is tried in one of them   *)
(* at a time, when all of them are there.                                  *)
Create(stmt, given, count, spaced) ==
    LET texts == Passed(stmt, given, count)
    IN  /\ progress = "ready"
        /\ Added(stmt, texts, count)
        /\ call' = [stmt |-> stmt, given |-> given, count |-> count, spaced |-> spaced]
        /\ IF Accepts(Put[stmt], texts)
           THEN progress' = "made" /\ item' = Build(Put[stmt], texts, count)
           ELSE progress' = "refused" /\ UNCHANGED item
        /\ UNCHANGED <<line, back>>

Write ==
    /\ progress = "made"
    /\ line' = Printed(call.stmt, item, call.spaced)
    /\ progress' = "printed"
    /\ UNCHANGED <<call, item, back>>

Read ==
    /\ progress = "printed"
    /\ IF Accepted(call.stmt, line)
       THEN progress' = "read" /\ back' = Parse(call.stmt, line)
       ELSE progress' = "stopped" /\ UNCHANGED back
    /\ UNCHANGED <<call, item, line>>

(* The next statement; a stopped program does not come back. *)
Again ==
    /\ progress \in {"refused", "read"}
    /\ progress' = "ready" /\ call' = NoCall
    /\ item' = << >> /\ line' = << >> /\ back' = << >>

Missing(stmt, count) ==
    UNION {kSubset(n, Arguments(stmt, count)) :
             n \in 0 .. Min({MaxMissing, Cardinality(Arguments(stmt, count))})}

Blanks(missing, given) ==
    IF missing = {} THEN {{}} \cup {{k} : k \in given} ELSE {{}}

Advance ==
    \/ \E stmt \in Tried : \E count \in Counts(stmt) :
         \E missing \in Missing(stmt, count) :
            LET given == Arguments(stmt, count) \ missing
            IN  \E spaced \in Blanks(missing, given) : Create(stmt, given, count, spaced)
    \/ Write
    \/ Read
    \/ Again

StatementSpec == AtRest /\ [][Advance]_statement

-----------------------------------------------------------------------------
(* What a reader gets of a struct: the texts of its fields, in order. *)
Said(k) == IF k = 0 THEN << >> ELSE <<k>>

Texts(stmt, struct) ==
    LET fields == Fields(stmt, struct)
    IN  FlattenSeq([i \in DOMAIN fields |->
                      Said(fields[i].text) \o Said(fields[i].units)])

(* Lists are never empty; bit streams come in pairs, and a station has at  *)
(* most two drives.                                                        *)
Proper ==
    /\ Put[call.stmt].each = "none" \/ call.count > 0
    /\ call.stmt = "fanin_def" => call.count % 2 = 0
    /\ call.stmt = "station" => call.count <= 2

Complete == Proper /\ call.given = Arguments(call.stmt, call.count)

(* A statement that lacks nothing arrives: it is not refused, it does not  *)
(* stop the reader, and the reader's fields are the caller's arguments,    *)
(* each of them once and in the order of the call.                         *)
CompleteArrives ==
    Complete /\ call.spaced = {} =>
        /\ progress \notin {"refused", "stopped"}
        /\ progress = "read" =>
             Texts(call.stmt, back)
               = [k \in 1 .. Cardinality(call.given) |-> k]

(* Field by field, without the empty fields at the end. *)
Meaning(stmt, struct) ==
    LET fields == Fields(stmt, struct)
        filled == {i \in DOMAIN fields : fields[i].text # 0}
    IN  [i \in 1 .. Max(filled \cup {0}) |->
           IF fields[i].text = 0 THEN <<0, 0>> ELSE <<fields[i].text, fields[i].units>>]

(* Whatever is left out, a statement that can be read is read as it was    *)
(* made: no text slips into the field of another, and no value takes the   *)
(* text of the next for its units.                                         *)
NothingMoves ==
    progress = "read" /\ call.spaced = {} =>
        Meaning(call.stmt, back) = Meaning(call.stmt, item)

(* The statements whose create functions test their arguments.  Five of    *)
(* the same blocks are left out: create_headstack and create_record_density *)
(* test the first argument only, create_tape_length forgets its units, and *)
(* the nutation lists, unlike the other lists of $EOP, do not ask for any. *)
Tested ==
    (DOMAIN PutAntenna \cup DOMAIN PutBbc \cup DOMAIN PutClock \cup DOMAIN PutDas
       \cup DOMAIN PutTape \cup DOMAIN PutEop \cup DOMAIN PutEopLists
       \cup DOMAIN PutNutation \cup DOMAIN PutExper \cup DOMAIN PutPeople)
    \ {"headstack", "record_density", "tape_length", "delta_psi", "delta_eps"}

(* What the tests are for: an argument left out is refused when the        *)
(* statement is made, never by the grammar, which would end the program.   *)
TestedIsReadable ==
    call.stmt \in Tested /\ Proper /\ call.spaced = {} => progress # "stopped"

(* The arguments that go to a field print_svalue quotes. *)
QuotedArguments(stmt, struct) ==
    {f.text : f \in {x \in ToSet(Fields(stmt, struct)) : x.kind = "text"}}

(* A blank in one of them does no harm: the statement is read as it was    *)
(* made, and the text is whole.                                            *)
QuotedArrives ==
    progress \in {"read", "stopped"} /\ Complete
      /\ call.spaced \subseteq QuotedArguments(call.stmt, item) =>
        progress = "read" /\ Meaning(call.stmt, back) = Meaning(call.stmt, item)

=============================================================================
