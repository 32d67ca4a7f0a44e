------------------------------ MODULE VexShape ------------------------------
(***************************************************************************)
(* The notation in which the statements of a VEX file are written down.    *)
(*                                                                         *)
(* The VEX library knows every statement four times: fcreate_X of          *)
(* vexf_put.c says which arguments of a Fortran call it takes, create_X of *)
(* vex_put.c what they make, get_X_field of vex_util.c in which order the  *)
(* parts are printed and read, and the grammar vex.y what a reader         *)
(* accepts.  VexForward, VexPut, VexFields and VexGrammar translate the    *)
(* four tables; VexStatement compares them.                                *)
(*                                                                         *)
(* A text is the number of the argument that carries it, 0 when it is      *)
(* empty: what the text says does not matter here, where it ends up does.  *)
(*   an entry  <<k>>     a string                                          *)
(*             <<k, u>>  a value with its units (struct dvalue)            *)
(*   a slot    a member of the statement's struct, as a sequence of        *)
(*             entries: <<>> is a NULL pointer, one entry a string or a    *)
(*             dvalue, and a linked list is the sequence of its entries    *)
(***************************************************************************)
EXTENDS Naturals, Sequences, SequencesExt

Null     == << >>
Str(k)   == << <<k>> >>
Unit(k)  == << <<k, k + 1>> >>       \* value k with units k + 1
Value(k) == << <<k, 0>> >>           \* a value made with units NULL

(* Tables, no two of which have the same statement, as one. *)
Joined(tables) ==
    [x \in UNION {DOMAIN t : t \in tables} |-> (CHOOSE t \in tables : x \in DOMAIN t)[x]]

(* Where the elements of the caller's list go. *)
Many == << << >> >>

-----------------------------------------------------------------------------
(* A create function: the number of its scalar arguments, its branches in  *)
(* the order they are tried, each with the arguments that must not be      *)
(* empty and the slots it fills; the kind of the elements added one call   *)
(* at a time ("none" for a statement without a list); and what stands in   *)
(* the list when nothing was added.                                        *)

Branch(needs, slots) == [needs |-> needs, slots |-> slots]

Branches(n, forms) ==
    [args |-> n, forms |-> forms, each |-> "none", empty |-> << >>]

(* Refused, with a message, unless every argument is given. *)
Checked(n, slots) == Branches(n, << Branch(1 .. n, slots) >>)

(* Written whatever is given. *)
Unchecked(n, slots) == Branches(n, << Branch({}, slots) >>)

(* A statement closed by a call with an empty string. *)
Listing(n, slots, each) ==
    [Unchecked(n, slots) EXCEPT !.each = each]

(* The arguments of the j-th element of a list, after the n scalar ones. *)
ElementArgs(n, each, j) ==
    IF each \in {"unit", "strict"} THEN {n + 2 * j - 1, n + 2 * j} ELSE {n + j}

Element(n, each, j) ==
    CASE each \in {"unit", "strict"} -> <<n + 2 * j - 1, n + 2 * j>>
      [] each = "value"              -> <<n + j, 0>>
      [] OTHER                       -> <<n + j>>

(* The texts of the arguments: texts[k] is 0 for an empty string. *)
Mask(entry, texts) ==
    [i \in DOMAIN entry |-> IF entry[i] = 0 THEN 0 ELSE texts[entry[i]]]

Fill(stmt, texts, count, slot) ==
    IF slot = Many
    THEN IF count = 0 THEN stmt.empty
         ELSE [j \in 1 .. count |->
                 Mask(Element(stmt.args, stmt.each, j), texts)]
    ELSE [i \in DOMAIN slot |-> Mask(slot[i], texts)]

(* The branches whose needs are met; the first of them is taken. *)
Met(stmt, texts) ==
    {i \in DOMAIN stmt.forms : \A k \in stmt.forms[i].needs : texts[k] # 0}

Accepts(stmt, texts) == Met(stmt, texts) # {}

(* The struct a create call leaves in the statement list. *)
Build(stmt, texts, count) ==
    LET slots == stmt.forms[Min(Met(stmt, texts))].slots
    IN  [i \in DOMAIN slots |-> Fill(stmt, texts, count, slots[i])]

=============================================================================
