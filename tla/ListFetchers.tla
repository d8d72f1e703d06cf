----------------------------- MODULE ListFetchers -----------------------------
(* The registry of sources (packages/parsers/sources.py) and the fetchers      *)
(* (universal_fetchers.py): which documents one visit to a university gives,   *)
(* in which order, and what is passed to the parser.  A site is what the       *)
(* university publishes: its index page and the pages that it links to.  Any   *)
(* request that fails fails the whole fetch; UniversalIngestion has that as an *)
(* action.  Links are numbers, so that sorted() has a meaning.                 *)
EXTENDS ListParsers

CONSTANT MaxLinks  \* links of RUDN's index that are followed (60 in the code)

Enabled == {"rnimu", "mpei", "misis", "fa", "stankin", "gubkin", "msu", "rudn", "sechenov"}

Ascending(S) == SetToSortSeq(S, LAMBDA a, b : a < b)
Each(seq, Op(_)) == [k \in DOMAIN seq |-> Op(seq[k])]
\* the entry of an index for a link: a dict keeps the last
LastOf(seq, link) == seq[Max({k \in DOMAIN seq : seq[k].href = link})]

\* the first campaign for specialists, its first version, the files in order
FetchRnimu(site) ==
    LET campaigns == {k \in DOMAIN site.campaigns : site.campaigns[k].specialist}
        versions == site.campaigns[Min(campaigns)].versions
    IN  IF campaigns = {} \/ versions = << >> THEN << >>
        ELSE Each(versions[1], LAMBDA g : [url |-> g.file, content |-> g.page])

\* the rows of the index that have a name and a link to a list of bachelors
FetchMpei(site) ==
    LET rows == SelectSeq(site.index, LAMBDA r : r.title # Blank /\ r.bachelor)
        Doc(h) == [url |-> h, group |-> h, title |-> LastOf(rows, h).title,
                   content |-> site.pages[h]]
    IN  Each(Ascending({r.href : r \in ToSet(rows)}), Doc)

\* links to budget lists; a link without a text is titled by its id
FetchMisis(site) ==
    LET links == SelectSeq(site.index, LAMBDA l : l.budget)
        Doc(h) == [url |-> h, group |-> h, title |-> LastOf(site.index, h).title,
                   content |-> site.pages[h]]
    IN  Each(Ascending({l.href : l \in ToSet(links)}), Doc)

FetchFa(site) == <<[url |-> "listabit", content |-> site]>>

\* the options whose value starts with the code of a direction, as they come;
\* the title is that value
FetchStankin(site) ==
    LET options == SelectSeq(site.index, LAMBDA o : o.direction)
    IN  Each(options, LAMBDA o : [url |-> o.href, group |-> o.href, title |-> o.text,
                                  content |-> site.pages[o.href]])

\* one document for each section of each faculty
FetchMsu(site) ==
    LET Faculty(d) ==
            Each(Sections(site.pages[d]),
                 LAMBDA s : [url |-> <<d, s.anchor>>, group |-> <<d, s.anchor>>,
                             condition |-> s.condition, content |-> s.tables])
    IN  FlattenSeq(Each(Ascending(ToSet(site.index)), Faculty))

\* the first MaxLinks links, in the same order every time
FetchRudn(site) ==
    LET links == Ascending(ToSet(site.index))
    IN  Each(SubSeq(links, 1, Min({MaxLinks, Len(links)})),
             LAMBDA h : [url |-> h, group |-> h, content |-> site.pages[h]])

FetchSechenov(site) ==
    Each(Ascending({h \in ToSet(site.index) : h > 0}),
         LAMBDA h : [url |-> h, group |-> h, content |-> site.pages[h]])

\* no form, no faculty of bachelors: nothing.  For each group the list of type
\* 1, or else of the first type.
FetchGubkin(site) ==
    LET Chosen(g) ==
            LET main == SelectSeq(g.types, LAMBDA t : t.id = 1)
            IN  IF main # << >> THEN main ELSE SubSeq(g.types, 1, Min({1, Len(g.types)}))
        Group(g) == Each(Chosen(g), LAMBDA t : [url |-> <<t.id, g.id>>, group |-> g.id,
                                                content |-> t.page])
    IN  IF ~site.form \/ ~site.bachelors THEN << >>
        ELSE FlattenSeq(Each(site.groups, Group))

\* UniversitySource.fetcher of a code
Fetched(code, site) ==
    CASE code = "rnimu"    -> FetchRnimu(site)
      [] code = "mpei"     -> FetchMpei(site)
      [] code = "misis"    -> FetchMisis(site)
      [] code = "fa"       -> FetchFa(site)
      [] code = "stankin"  -> FetchStankin(site)
      [] code = "msu"      -> FetchMsu(site)
      [] code = "rudn"     -> FetchRudn(site)
      [] code = "sechenov" -> FetchSechenov(site)
      [] code = "gubkin"   -> FetchGubkin(site)
\* asyncio.gather appends the documents of Gubkin as they arrive.
Arrivals(code, site) ==
    LET docs == Fetched(code, site)
    IN  IF code # "gubkin" THEN {docs}
        ELSE {Each(order, LAMBDA i : docs[i]) : order \in SetToSeqs(DOMAIN docs)}

\* UniversitySource.parser of a code, as _build_parser_any sets it up
Parsed(code, doc) ==
    CASE code = "rnimu"    -> RnimuList(doc)
      [] code = "mpei"     -> MpeiList(doc)
      [] code = "misis"    -> MisisList(doc)
      [] code = "fa"       -> FaList(doc)
      [] code = "stankin"  -> StankinList(doc)
      [] code = "msu"      -> MsuList(doc)
      [] code = "rudn"     -> RudnList(doc)
      [] code = "sechenov" -> SechenovList(doc)
      [] code = "gubkin"   -> GubkinList(doc)
=============================================================================
