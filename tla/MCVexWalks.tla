----------------------------- MODULE MCVexWalks ------------------------------
(***************************************************************************)
(* A file with every way to find a line: two definitions of one statement, *)
(* references that do and do not apply to a station, a reference to a      *)
(* definition that is missing and one to a block that is, a comment among  *)
(* definitions and more modes than the table holds.                        *)
(***************************************************************************)
EXTENDS VexWalks

Line(statement, texts) == [statement |-> statement, item |-> texts]
Def(name, refs) == [statement |-> "def", name |-> name, refs |-> refs]
Comment == [statement |-> "comment", item |-> <<"c">>]
Ref(primitive, name, stations) ==
    [statement |-> "ref", primitive |-> primitive, name |-> name, qualifiers |-> stations]

MCVex ==
    <<[block |-> "GLOBAL",
       items |-> <<Ref("EXPER", "e", << >>), Ref("PARAMS", "p", << >>),
                   Ref("DAS", "d1", << >>)>>],
      [block |-> "MODE",
       items |-> <<Def("m1", <<Ref("DAS", "d3", <<"B">>),
                               Ref("DAS", "d1", <<"B", "A">>),
                               Ref("DAS", "missing", << >>),
                               Ref("DAS", "d2", << >>),
                               Ref("CLOCK", "d1", << >>)>>),
                   Comment,
                   Def("m2", << >>), Def("m3", << >>)>>],
      [block |-> "STATION",
       items |-> <<Comment, Def("A", <<Ref("DAS", "d3", << >>), Ref("DAS", "d2", << >>)>>),
                   Def("B", << >>)>>],
      [block |-> "DAS",
       items |-> <<Def("d1", <<Line("head", <<"h1">>), Line("rack", <<"r1">>)>>),
                   Def("d2", <<Line("rack", <<"r2">>), Line("head", <<"h2">>)>>),
                   Def("d3", <<Line("rack", <<"r3">>)>>)>>],
      [block |-> "EXPER", items |-> <<Def("e", <<Line("name", <<"n">>)>>)>>],
      [block |-> "SOURCE",
       items |-> <<Def("S", <<Line("name", <<"s1">>), Line("ra", <<"r">>),
                              Line("name", <<"s2">>)>>)>>],
      [block |-> "PARAMS",
       items |-> <<Def("p", <<Line("literal", <<"t1", "t2">>), Line("literal", <<"t3">>)>>)>>]>>

Ask(kind, station, mode, source, primitive, statement) ==
    [kind |-> kind, station |-> station, mode |-> mode, source |-> source,
     primitive |-> primitive, statement |-> statement]

MCQueries ==
    {Ask("all", "A", "m1", "", "DAS", "head"),
     Ask("all", "B", "m1", "", "CLOCK", "head"),
     Ask("all", "", "", "", "PARAMS", "literal"),
     Ask("mode", "A", "m1", "", "DAS", "head"),
     Ask("station", "A", "", "", "DAS", "rack"),
     Ask("global", "", "", "", "EXPER", "name"),
     Ask("source", "", "", "S", "", "name")}

MCMaxNames == [k \in Kinds |-> 2]
=============================================================================
