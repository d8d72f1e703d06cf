------------------------------ MODULE ListParsers ------------------------------
(* The parsers of the universities that the universal ingestion and the HSE    *)
(* pilot load (packages/parsers).  A text is a model value or a string; what   *)
(* the regular expressions see in it is given by the constants.  An HTML page  *)
(* is a sequence of tables, a table a sequence of rows, a row a non-empty      *)
(* sequence of cell texts; a JSON page is a record of the fields read.  Scores,*)
(* consents, priorities and statuses are data no property tells apart.         *)
EXTENDS ApplicationRows, FiniteSets, SequencesExt

CONSTANTS
    Words,     \* Words[t]: search words that occur in the text t
    CodeIn,    \* CodeIn[t]: the code of six to eight digits a code cell starts with
    CodeWithin,\* CodeWithin[t]: the first six to eight digits anywhere in t
    Digits,    \* texts of digits
    Blank,     \* the empty text
    None,      \* None
    NotANumber,\* a value int() refuses
    MinCells   \* cells of a data row of MSU (10 in the code)

-----------------------------------------------------------------------------
\* html_tables.py.  Search words are transliterated.
Patterns ==
    <<[words |-> {"osobaya kvota"}, condition |-> "by_special_quota"],
      [words |-> {"otdelnaya kvota"}, condition |-> "by_unusual_quota"],
      [words |-> {"tselevaya kvota", "tselevomu konkursu", "tselevoi konkurs"},
       condition |-> "by_target_quota"],
      [words |-> {"bvi", "bez vstupitelnykh"}, condition |-> "without_entry_tests"],
      [words |-> {"dogovor", "platn", "vnebyudzhet"}, condition |-> "paid_competition"]>>

\* map_condition: the first pattern that occurs; None and "" have none
MapCondition(t) ==
    LET found == {i \in DOMAIN Patterns :
                    t \in DOMAIN Words /\ Patterns[i].words \cap Words[t] # {}}
    IN  IF found = {} THEN "general_competition" ELSE Patterns[Min(found)].condition

\* _HEADER_SYNONYMS up to the last column that a parser here reads; a word that
\* contains another of its column is left out
Synonyms ==
    <<[words |-> {"kod", "uid", "ui", "unikalnyi"}, column |-> "code"],
      [words |-> {"no", "poryadkovyi"}, column |-> "rank"],
      [words |-> {"osnovnoi vysshii"}, column |-> "ovp"],
      [words |-> {"vysshii prokhodnoi"}, column |-> "vpp"],
      [words |-> {"prioritet"}, column |-> "priority"],
      [words |-> {"soglasie"}, column |-> "consent"],
      [words |-> {"status", "primechanie"}, column |-> "status"],
      [words |-> {"bez id"}, column |-> "score_no_ia"],
      [words |-> {"summa"}, column |-> "score"],
      [words |-> {"individualn", "id"}, column |-> "ia"],
      [words |-> {"id dop"}, column |-> "ia_extra"],
      [words |-> {"finansirovanie", "osnova"}, column |-> "financing"],
      [words |-> {"fakultet"}, column |-> "faculty"],
      [words |-> {"gruppa", "napravlenie"}, column |-> "group"],
      [words |-> {"vid konkursa"}, column |-> "contest"]>>

\* the columns a heading stands for: the first synonym that occurs, or none
ColumnOf(t) ==
    LET found == {i \in DOMAIN Synonyms :
                    t \in DOMAIN Words /\ Synonyms[i].words \cap Words[t] # {}}
    IN  IF found = {} THEN {} ELSE {Synonyms[Min(found)].column}

\* header_map: the first row that looks like a heading, or else the first
Heading(rows) ==
    LET headings == {i \in DOMAIN rows : Len(rows[i]) >= 4
                       /\ \E j \in DOMAIN rows[i] : rows[i][j] \in DOMAIN Words
                            /\ {"kod", "summa", "no"} \cap Words[rows[i][j]] # {}}
    IN  IF headings = {} THEN 1 ELSE Min(headings)
\* of two cells for one column the later wins
Columns(header) ==
    [c \in UNION {ColumnOf(header[j]) : j \in DOMAIN header} |->
        Max({j \in DOMAIN header : c \in ColumnOf(header[j])})]
IsData(row) == Len(row) >= 2 /\ (row[1] \in Digits \/ row[2] \in DOMAIN CodeIn)
DataRows(rows) == SelectSeq(SubSeq(rows, Heading(rows) + 1, Len(rows)), IsData)

\* mpei._cell: no such column, a short row and an empty cell are all None
Cell(row, columns, column) ==
    IF column \in DOMAIN columns /\ columns[column] <= Len(row)
         /\ row[columns[column]] # Blank
    THEN row[columns[column]] ELSE None

\* max(tables, key=len) is the first of the longest
Longest(tables) ==
    tables[Min({i \in DOMAIN tables : \A j \in DOMAIN tables : Len(tables[j]) <= Len(tables[i])})]

-----------------------------------------------------------------------------
\* What parse gives: a list, a ParserResult that is FAILED, or an exception.
Failed == [status |-> "failed"]
Raises == [status |-> "raises"]
ListOf(group, apps) ==
    IF apps = << >> THEN Failed ELSE [status |-> "valid", group |-> group, apps |-> apps]

\* the applications of the records or rows that name an applicant
WithUid(apps) == SelectSeq(apps, LAMBDA a : a.uid # None)

\* The common part of MpeiParser, MisisParser, FaParser and RudnParser: rows
\* without a code are left out and still counted in the rank.  The condition is
\* one for the list, or None where a column names it.
TableList(tables, group, condition) ==
    IF tables = << >> THEN Failed
    ELSE IF Longest(tables) = << >> THEN Raises
    ELSE LET rows == Longest(tables)
             columns == Columns(rows[Heading(rows)])
             data == DataRows(rows)
             App(i) == [uid |-> Cell(data[i], columns, "code"), rank |-> i,
                        condition |-> IF condition # None THEN condition
                                      ELSE MapCondition(Cell(data[i], columns, "contest"))]
         IN  IF "code" \notin DOMAIN columns THEN Failed
             ELSE ListOf(group, WithUid([i \in DOMAIN data |-> App(i)]))

MpeiList(doc) == TableList(doc.content, doc.group, MapCondition(doc.title))
MisisList(doc) == TableList(doc.content, doc.group, MapCondition(doc.title))
FaList(doc) == TableList(doc.content, "all", None)
\* The fetcher passes no condition, the parser's default stands.
RudnList(doc) == TableList(doc.content, doc.group, "general_competition")

\* RnimuParser: the rank is the record's, 0 when it has none; one program is
\* one group, whatever the type of the list.
RnimuList(doc) ==
    LET page == doc.content
        Uid(i) == page.applicants[i].title
        App(i) == [uid |-> Uid(i), rank |-> page.applicants[i].order,
                   condition |-> MapCondition(page.type)]
    IN  IF page.kind # "object" THEN Raises
        ELSE IF page.program = None \/ page.applicants = None THEN Failed
        ELSE IF \E i \in DOMAIN page.applicants :
                    Uid(i) # None /\ page.applicants[i].order = NotANumber
        THEN Raises
        ELSE ListOf(page.program, WithUid([i \in DOMAIN page.applicants |-> App(i)]))

\* the positions of the first occurrence of each uid
Firsts(uids) ==
    SelectSeq([i \in DOMAIN uids |-> i],
              LAMBDA i : uids[i] # None /\ \A j \in 1..(i - 1) : uids[j] # uids[i])

\* GubkinParser: an applicant is taken once, an unreadable position is 0.  The
\* condition the fetcher puts into the metadata is not passed on.
GubkinList(doc) ==
    LET page == doc.content
        firsts == Firsts([i \in DOMAIN page.data |-> page.data[i].fio])
    IN  IF page.kind # "object" \/ page.data = None THEN Failed
        ELSE ListOf(<<doc.group, "general_competition">>,
                [k \in DOMAIN firsts |->
                    [uid |-> page.data[firsts[k]].fio, rank |-> page.data[firsts[k]].position,
                     condition |-> "general_competition"]])

\* _grid_rows: rows that have a code cell; StankinParser takes an applicant once
\* and ranks by what it has taken.
StankinList(doc) ==
    LET rows == SelectSeq(doc.content, LAMBDA row : "code" \in DOMAIN row)
        firsts == Firsts([i \in DOMAIN rows |-> rows[i].code])
    IN  ListOf(doc.group,
            [k \in DOMAIN firsts |->
                [uid |-> rows[firsts[k]].code, rank |-> k, condition |-> MapCondition(doc.title)]])

\* _extract_data_rows: the second cell is a code and nothing else
SechenovList(doc) ==
    LET Codes == {t \in DOMAIN CodeIn : CodeIn[t] = t}
        rows == SelectSeq(FlattenSeq(doc.content), LAMBDA row : Len(row) >= 2 /\ row[2] \in Codes)
    IN  ListOf(doc.group,
            [k \in DOMAIN rows |->
                [uid |-> rows[k][2], rank |-> k, condition |-> "general_competition"]])

-----------------------------------------------------------------------------
\* split_sections: every h4 with an id starts a section that ends at the next;
\* headings that are not conditions are (as a rule) program names.  The text
\* "program" inside a block is left out, it is only part of the title.
Sections(headings) ==
    LET anchored == SelectSeq(headings, LAMBDA h : h.id # None)
    IN  [i \in DOMAIN anchored |->
            [anchor |-> anchored[i].id, tables |-> anchored[i].tables,
             condition |-> IF anchored[i].isCondition THEN MapCondition(anchored[i].text)
                           ELSE "general_competition"]]

\* _looks_like_msu_data; a row of one cell that is not a number has no row[1]
HasNoSecond(row) == Len(row) = 1 /\ row[1] \notin Digits
LooksLikeData(row) == row[1] \in Digits \/ (Len(row) > 1 /\ row[2] \in DOMAIN CodeIn)

\* MsuSectionParser: the first table with a data row; rows that are too short or
\* have no code in the second cell are left out and still counted in the rank.
MsuList(doc) ==
    LET tables == doc.content
        candidates == {i \in DOMAIN tables : \E k \in DOMAIN tables[i] : LooksLikeData(tables[i][k])}
        last == IF candidates = {} THEN Len(tables) ELSE Min(candidates)
        rows == SelectSeq(tables[last], LooksLikeData)
        Uid(i) == IF Len(rows[i]) >= MinCells /\ rows[i][2] \in DOMAIN CodeWithin
                  THEN CodeWithin[rows[i][2]] ELSE None
        App(i) == [uid |-> Uid(i), rank |-> i, condition |-> doc.condition]
    IN  IF tables = << >> THEN Failed
        ELSE IF \E i \in 1..last : \E k \in DOMAIN tables[i] : HasNoSecond(tables[i][k])
        THEN Raises
        ELSE IF candidates = {} THEN Failed
        ELSE ListOf(doc.group, WithUid([i \in DOMAIN rows |-> App(i)]))

\* resolve_selection_details: the first group with all its ids; an entry with
\* missing keys before it refuses the whole answer.
HseSelection(discovery) ==
    LET usable == {i \in DOMAIN discovery : discovery[i].ids}
    IN  IF usable = {} \/ \E i \in 1..Min(usable) : ~discovery[i].wellFormed
        THEN None ELSE discovery[Min(usable)].group

\* HseParser: any field that is not as expected, a score beyond 400 or ranks
\* that do not grow refuse the page; a missing score does not.
HseList(page, group) ==
    LET rs == page.records
    IN  IF \/ ~page.paged
           \/ \E i \in DOMAIN rs :
                 ~rs[i].fields \/ rs[i].rank <= 0 \/ rs[i].score \notin {None} \cup 0..400
           \/ \E i, j \in DOMAIN rs : i < j /\ rs[i].rank >= rs[j].rank
        THEN Failed
        ELSE [status |-> "valid", group |-> group,
              apps |-> [i \in DOMAIN rs |->
                [uid |-> rs[i].uid, rank |-> rs[i].rank,
                 condition |-> IF rs[i].bvi THEN "without_entry_tests"
                               ELSE "general_competition"]]]
=============================================================================
