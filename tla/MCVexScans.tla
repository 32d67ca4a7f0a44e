----------------------------- MODULE MCVexScans ------------------------------
(***************************************************************************)
(* Files of two and of three scans over two stations that are known and    *)
(* one that is not, in many orders and numbers, with and without data      *)
(* transfers; and files of four scans, with comments, or with one thing    *)
(* wrong.                                                                  *)
(***************************************************************************)
EXTENDS VexScans

Sec    == [text |-> "number", units |-> <<"sec">>]
Bare   == [text |-> "number", units |-> << >>]
Rate   == [text |-> "number", units |-> <<"deg", "min">>]
Word   == [text |-> "word", units |-> <<"sec">>]
Minus  == [text |-> "negative", units |-> << >>]

Comment == [statement |-> "comment"]
Source(key) == [statement |-> "source", key |-> key]
Station(key, begin, end, drive) ==
    [statement |-> "station", key |-> key, begin |-> begin, end |-> end, drive |-> drive]
Good(key) == Station(key, Sec, Sec, Bare)
Transfer(key, method) == [statement |-> "data_transfer", key |-> key, method |-> method]

ScanWith(name, start, mode, lines) ==
    [statement |-> "scan", name |-> name, start |-> start, mode |-> mode, refs |-> lines]

Listed(keys) == [i \in DOMAIN keys |-> Good(keys[i])]

(* The start line tells the lines of one scan from those of another. *)
ScanOf(name, keys, moved) ==
    ScanWith(name, 5, "m1",
             <<[statement |-> "start", key |-> name], Source("S")>> \o Listed(keys)
               \o [i \in DOMAIN moved |-> Transfer(moved[i], "in2net")])

Shapes ==
    {<<keys, moved>> :
        keys \in {<<"A">>, <<"A", "B">>, <<"B", "A">>, <<"X", "A">>, <<"B", "X">>, <<"X">>,
                  << >>, <<"A", "B", "X">>, <<"X", "A", "B">>},
        moved \in {<< >>, <<"A">>, <<"B", "A">>}}

Pairs == {<<ScanOf("s1", p[1], p[2]), ScanOf("s2", q[1], q[2])>> : p, q \in Shapes}

Triples ==
    LET few == {p \in Shapes : Len(p[2]) < 2 /\ p[1] \notin {<< >>, <<"X", "A", "B">>}}
    IN  {<<ScanOf("s1", p[1], p[2]), ScanOf("s2", q[1], q[2]), ScanOf("s3", r[1], r[2])>> :
           p, q, r \in few}

Long == {<<ScanOf("s1", <<"A", "B">>, <<"A">>), Comment, ScanOf("s2", keys, << >>),
           ScanOf("s3", <<"B">>, <<"B">>)>> : keys \in {<<"A">>, <<"X">>, <<"B", "A">>}}

TooMany == {<<ScanOf("s1", <<"A">>, << >>), ScanOf("s2", <<"A">>, << >>),
              ScanOf("s3", <<"A">>, << >>), ScanOf("s4", keys, <<"A">>)>> :
              keys \in {<<"A", "B">>, <<"B", "A">>}}

Wrong(second) == <<ScanOf("s1", <<"A", "B">>, <<"A">>), second, ScanOf("s3", <<"A">>, << >>)>>

Faulty ==
    {<<Comment>>,
     Wrong(ScanWith("w", 1, "m1", <<Source("S"), Good("A")>>)),
     Wrong(ScanWith("w", 2, "m2", <<Source("S"), Good("A")>>)),
     Wrong(ScanWith("w", 5, "m2", <<Source("S"), Good("A"), Good("B")>>)),
     Wrong(ScanWith("w", 5, "m3", <<Source("S"), Good("A")>>)),
     Wrong(ScanWith("w", 5, "m1", <<Good("A")>>)),
     Wrong(ScanWith("w", 5, "m1", <<Source("T"), Good("A")>>)),
     Wrong(ScanWith("w", 5, "m1", <<Source("S"), Good("B"), Station("A", Bare, Sec, Bare)>>)),
     Wrong(ScanWith("w", 5, "m1", <<Source("S"), Station("A", Rate, Rate, Bare)>>)),
     Wrong(ScanWith("w", 5, "m1", <<Source("S"), Station("A", Sec, Word, Bare)>>)),
     Wrong(ScanWith("w", 5, "m1", <<Source("S"), Station("A", Sec, Sec, Minus)>>)),
     Wrong(ScanOf("w", <<"A", "B">>, <<"A", "B", "A", "B">>)),
     Wrong(ScanWith("w", 5, "m1", <<Source("S"), Good("A"), Transfer("A", "mail")>>)),
     Wrong(ScanWith("w", 5, "m1", <<Source("S"), Good("A"), Transfer("X", "in2net")>>))}

MCFiles == Pairs \cup Triples \cup Long \cup TooMany \cup Faulty

MCModes == <<"m1", "m2">>

MCRecorded == {<<"A", 1>>, <<"B", 1>>, <<"A", 2>>}
=============================================================================
