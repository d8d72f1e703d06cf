-------------------------- MODULE MCUniversalIngestion --------------------------
(* Small sites of each university, with the pages that are refused, for TLC.   *)
EXTENDS UniversalIngestion

Texts ==
    ("Unikalnyi kod" :> {"unikalnyi", "kod"}) @@ ("No" :> {"no"})
    @@ ("Summa" :> {"summa"}) @@ ("Vid konkursa" :> {"vid konkursa", "id"})
    @@ ("Osobaya kvota" :> {"osobaya kvota"}) @@ ("Bez vstupitelnykh" :> {"bez vstupitelnykh"})
    @@ ("Platnye mesta, osobaya kvota" :> {"platn", "osobaya kvota"}) @@ ("Obshchii" :> {})
A == "1000001"
B == "1000002"
CodeCells == (A :> A) @@ (B :> B) @@ ("1000001 02" :> A)
CodesAnywhere == CodeCells @@ ("kod 1000002" :> B)
DigitTexts == {A, B, "1", "2", "3"}

Header == <<"No", "Unikalnyi kod", "Vid konkursa", "Summa">>
Row(no, code, contest) == <<no, code, contest, "250">>
Table(codes) ==
    <<<<"Obshchii">>, Header>> \o [k \in DOMAIN codes |-> Row("1", codes[k], "Osobaya kvota")]
\* a page with a short table beside the list
PageOf(codes) == <<<<Header>>, Table(codes)>>

Link(href, title) ==
    [href |-> href, title |-> title, bachelor |-> TRUE, budget |-> TRUE]
\* two lists; the second holds the codes of rest
Linked(rest) ==
    [index |-> <<Link(2, "Obshchii"), Link(1, "Osobaya kvota"), Link(2, "Platnye mesta, osobaya kvota"),
                 [Link(3, "Obshchii") EXCEPT !.bachelor = FALSE, !.budget = FALSE]>>,
     pages |-> (1 :> PageOf(<<A, "", B>>)) @@ (2 :> rest)]

Rnimu(kind, second) ==
    LET List(type, order) ==
            [kind |-> "object", program |-> "Lechebnoe delo", type |-> type,
             applicants |-> <<[title |-> A, order |-> order], [title |-> None, order |-> NotANumber]>>]
    IN  [campaigns |->
            <<[specialist |-> FALSE, versions |-> << >>],
              [specialist |-> TRUE,
               versions |-> <<<<[file |-> 1, page |-> List("Obshchii", 1)],
                                [file |-> 2, page |-> [List("Osobaya kvota", second) EXCEPT
                                                           !.kind = kind]]>>>>]>>]

Gubkin(positions, type) ==
    [form |-> TRUE, bachelors |-> TRUE,
     groups |-> [g \in 1..2 |->
        [id |-> g,
         types |-> <<[id |-> type, page |->
            [kind |-> "object", data |->
                [k \in DOMAIN positions |-> [fio |-> A, position |-> positions[k]]]]]>>]]]

Stankin(codes) ==
    [index |-> <<[href |-> 1, text |-> "Obshchii", direction |-> TRUE],
                 [href |-> 2, text |-> "Obshchii", direction |-> FALSE],
                 [href |-> 1, text |-> "Obshchii", direction |-> TRUE]>>,
     pages |-> (1 :> [k \in DOMAIN codes |-> [code |-> codes[k]]])]

\* a code with a registration number, and one with other text before it
MsuRow(code) == <<"1", code, "1">>
Msu(extra) ==
    [index |-> <<1, 1>>,
     pages |-> (1 :>
        <<[id |-> "p1", isCondition |-> FALSE, text |-> "Obshchii", tables |-> << >>],
          [id |-> None, isCondition |-> TRUE, text |-> "Obshchii", tables |-> << >>],
          [id |-> "c1", isCondition |-> TRUE, text |-> "Bez vstupitelnykh",
           tables |-> <<<<MsuRow("1000001 02"), <<"2", B>>, MsuRow("kod 1000002")>>>>],
          [id |-> "c2", isCondition |-> TRUE, text |-> "Obshchii",
           tables |-> <<<<MsuRow(B)>> \o extra>>]>>)]

Numbered(index, page) == [index |-> index, pages |-> [h \in 1..3 |-> page]]

AllSites ==
    [mpei     |-> <<Linked(PageOf(<<A>>)), Linked(PageOf(<<A, A>>)), Linked(PageOf(<<B>>))>>,
     misis    |-> <<Linked(PageOf(<<A, B>>)), Linked(<<<<>>>>), Linked(<<>>)>>,
     fa       |-> <<<<<<Header, Row("1", A, "Osobaya kvota")>>>>,
                    <<<<Header, Row("1", A, "Osobaya kvota"), Row("2", A, "Obshchii")>>>>>>,
     rnimu    |-> <<Rnimu("object", 2), Rnimu("array", 2), Rnimu("object", NotANumber),
                    Rnimu("object", 0)>>,
     gubkin   |-> <<Gubkin(<<1, 2>>, 1), Gubkin(<<0>>, 2), [form |-> TRUE, bachelors |-> FALSE]>>,
     stankin  |-> <<Stankin(<<A, B, A>>), Stankin(<<None>>), Stankin(<<B>>)>>,
     msu      |-> <<Msu(<< >>), Msu(<<<<"Obshchii">>>>)>>,
     rudn     |-> <<Numbered(<<3, 1, 2, 1>>, PageOf(<<A>>)), Numbered(<<3>>, <<<<<<"1", B>>>>>>)>>,
     sechenov |-> <<Numbered(<<1, 0>>, PageOf(<<A, B>>)), Numbered(<<1>>, PageOf(<<A, A>>))>>]

SomeSettings ==
    {<<"itmo", "mpei", "sechenov">>, <<"hse", "msu", "fa">>, <<"stankin", "rudn">>,
     <<"gubkin">>, <<"misis">>, <<"rnimu", "mephi">>}
FaSettings == {<<"fa">>}

\* admitted without tests, an applicant has no score
HseRecord(rank, bvi) ==
    [fields |-> TRUE, uid |-> A, rank |-> rank, score |-> IF bvi THEN None ELSE 300, bvi |-> bvi]
HsePages ==
    LET discovery == <<[wellFormed |-> TRUE, ids |-> FALSE, group |-> 1],
                       [wellFormed |-> TRUE, ids |-> TRUE, group |-> 2]>>
    IN  {[discovery |-> discovery, page |-> [paged |-> TRUE, records |-> rs]] :
            rs \in {<<HseRecord(1, TRUE), HseRecord(2, FALSE)>>,
                    <<HseRecord(2, TRUE), HseRecord(1, FALSE)>>}}
=============================================================================
