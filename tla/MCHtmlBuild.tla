--------------------------- MODULE MCHtmlBuild ---------------------------
(* Instances of HtmlBuild: a page with any small table, with any small text, or with
   one or two directives that take in files, next to a plain page; and two plain pages of
   any two paths. *)
EXTENDS HtmlBuild

CONSTANTS a, b, included, exceptions, code, exporting, abi, feature

MCNamespaces == {"", "ns"}

MCNames == {"foo", "bar", "open", "that", "page"}

T(namespace, name) == <<namespace, name>>

Doc(dir, name, suffix) == [dir |-> dir, name |-> name, suffix |-> suffix]

(* A full build of a page at the root of Documentation/. *)
Source(declares, tab, fill, txt) ==
  [at |-> Doc(<<>>, "page", ".rst"), declares |-> declares, directives |-> <<>>, table |-> tab,
   fill |-> fill, text |-> txt]

Setting(srcdir, hasInclude, format) ==
  [srcdir |-> srcdir, hasInclude |-> hasInclude, format |-> format]

FullBuild == Setting(<<>>, TRUE, "html")

(* Tables of up to three rows of up to two cells, with up to two columns a cell; of three
   rows the last spans no more. *)
Cell(cspans, rspans) == [cspan : cspans, rspan : rspans]

MCRows == [{1} -> Cell(0 .. 1, 0 .. 2)] \cup [1 .. 2 -> Cell(0 .. 1, 0 .. 1)]

Ends(row) == \A k \in DOMAIN row : row[k].rspan = 0

MCTables ==
  UNION {[1 .. n -> MCRows] : n \in 1 .. 2} \cup {t \in [1 .. 3 -> MCRows] : Ends(t[3])}

(* Three rows with more cells, where spans from above meet spans of the row itself. *)
FirstRows == {<<c, d>> : c \in Cell(0 .. 1, {0}), d \in Cell(0 .. 1, 0 .. 2)}

MiddleRows == {<<c, d, e>> : c, d \in Cell(0 .. 1, 0 .. 1), e \in Cell(0 .. 1, {0})}

LastRows == UNION {[1 .. n -> Cell({0}, {0})] : n \in 1 .. 2}

WideTables == {<<top, mid, last>> : top \in FirstRows, mid \in MiddleRows, last \in LastRows}

TableSites(tables) ==
  {[p \in {a, b} |-> Source({}, IF p = a THEN t ELSE NoTable, fill, NoText)] :
     t \in tables, fill \in BOOLEAN}

(* Texts of three characters with up to two matches, or three of three kinds. *)
Labels == {<<"doc", "page">>, <<"abi_file", "bar">>, <<"function", "foo">>, <<"function", "bar">>,
           <<"function", "open">>, <<"struct", "foo">>, <<"struct", "that">>, <<"git", "page">>}

FewLabels == {<<"doc", "page">>, <<"function", "foo">>, <<"git", "page">>}

Matches(labels, length) ==
  {m \in [start : 0 .. length - 1, end : 1 .. length, pattern : {l[1] : l \in labels},
          name : {l[2] : l \in labels}] :
     m.start < m.end /\ <<m.pattern, m.name>> \in labels}

TextOf(namespace, length, matches) ==
  [namespace |-> namespace, length |-> length, matches |-> matches]

Candidates ==
  {TextOf(ns, 3, {m, n}) : ns \in MCNamespaces, m, n \in Matches(Labels, 3)}
    \cup {TextOf("", 3, {m, n, o}) : m, n, o \in Matches(FewLabels, 3)}

MCTexts == {t \in Candidates : AM!IsText(t)}

Declarations ==
  {{}, {T("", "foo"), T("ns", "bar"), T("", "page"), T("", "open"), T("", "that")},
   {T("", "foo"), T("ns", "foo"), T("", "bar")}}

Short == TextOf("ns", 2, {[start |-> 0, end |-> 1, pattern |-> "function", name |-> "foo"]})

TextSites ==
  {[p \in {a, b} |->
      IF p = a THEN Source({}, NoTable, FALSE, t) ELSE Source(d, NoTable, FALSE, Short)] :
     t \in MCTexts, d \in Declarations}

(* A LaTeX book of the index of netlink/, with or without the other page there. *)
LatexText(namespace) ==
  TextOf(namespace, 2, {[start |-> 0, end |-> 1, pattern |-> "function", name |-> "foo"],
                        [start |-> 1, end |-> 2, pattern |-> "struct", name |-> "bar"]})

BookSites ==
  {[setting |-> Setting(<<"netlink">>, TRUE, "latex"),
    source |-> [p \in {a, b} |->
      IF p = a
      THEN [Source(d, NoTable, FALSE, LatexText(ns)) EXCEPT !.at = Doc(<<"netlink">>, "index", ".rst")]
      ELSE [Source(e, NoTable, FALSE, Short) EXCEPT !.at = Doc(<<"netlink">>, "other", ".rst")]]] :
     ns \in MCNamespaces, d \in {{}, {T("", "foo")}}, e \in Declarations}

(* Directives: one of each kind, and some pairs. *)
MCDir == included :> "docs" @@ exceptions :> "docs" @@ code :> "drivers" @@ exporting :> "lib"
           @@ abi :> "ABI" @@ feature :> "features"

Directive(kind, file, extra, dir) == [kind |-> kind, file |-> file, extra |-> extra, dir |-> dir]

Include == Directive("include", included, Nothing, Nothing)
Xref == Directive("xref", included, exceptions, Nothing)
Warn == Directive("warn", included, Nothing, Nothing)
Code == Directive("code", included, Nothing, Nothing)
Maintainers == Directive("maintainers", included, Nothing, Nothing)
KernelDocOf == Directive("doc", code, Nothing, "lib")
AbiFiles == Directive("abi", Nothing, Nothing, "ABI")
Features == Directive("feat", Nothing, Nothing, "features")

Lists == {<<d>> : d \in {Include, Xref, Code, Maintainers, KernelDocOf, AbiFiles, Features}}

(* The lists of a page next to one with another directive: a pair with kernel-doc or the
   ABI next to the one that shares its cache. *)
Beside(other) ==
  Lists \cup (IF other = KernelDocOf THEN {<<Include, KernelDocOf>>}
             ELSE {<<AbiFiles, Include>>, <<Features, Xref>>})

With(directives) == [Source({}, NoTable, FALSE, NoText) EXCEPT !.directives = directives]

IncludeSites ==
  UNION {{[p \in {a, b} |-> With(IF p = a THEN list ELSE <<other>>)] : list \in Beside(other)} :
           other \in {KernelDocOf, AbiFiles}}
    \cup {[p \in {a, b} |-> IF p = a THEN With(<<list>>) ELSE Source(d, NoTable, FALSE, Short)] :
            list \in {Directive("xref", included, Nothing, Nothing), Warn},
            d \in {{T("", "bar")}, {T("", "foo")}}}

MCMentions == [f \in Files |-> IF f = included THEN {T("", "foo")} ELSE {}]

(* Paths: indexes, translations, and YAML with and without a parser; and directories to
   build from. *)
Docs ==
  {Doc(dir, "index", ".rst") :
     dir \in {<<>>, <<"netlink">>, <<"translations">>, <<"translations", "zh_CN">>,
              <<"translations", "it_IT", "netlink">>, <<"translations", "zh_CN", "netlink">>}}
    \cup {Doc(<<"output">>, "index", ".rst"), Doc(<<"output">>, "copy", ".rst"),
          Doc(<<"netlink", "specs">>, "spec", ".yaml"), Doc(<<"netlink">>, "schema", ".yaml"),
          Doc(<<"devicetree", "bindings", "net">>, "binding", ".yaml")}

Unknown == Doc(<<"translations", "vi_VN">>, "index", ".rst")

Tops ==
  {<<>>, <<"netlink">>, <<"netlink", "specs">>, <<"translations">>, <<"translations", "zh_CN">>,
   <<"devicetree">>, <<"devicetree", "bindings", "net">>}

Settings == {Setting(top, hasInclude, "html") : top \in Tops, hasInclude \in BOOLEAN}
              \cup {Setting(<<"netlink">>, TRUE, "latex"), Setting(<<>>, TRUE, "latex")}

Plain(doc) == [Source({}, NoTable, FALSE, NoText) EXCEPT !.at = doc]

PathSites(docs, settings) ==
  {[setting |-> how, source |-> [p \in {a, b} |-> Plain(at[p])]] :
     how \in settings, at \in {f \in [{a, b} -> docs] : f[a] # f[b]}}

Named(sources) ==
  [p \in {a, b} |-> [sources[p] EXCEPT !.at.name = IF p = a THEN "page" ELSE "other"]]

MCSites ==
  {[setting |-> FullBuild, source |-> Named(s)] :
     s \in TableSites(MCTables \cup WideTables) \cup TextSites \cup IncludeSites}
    \cup BookSites
    \cup PathSites(Docs, Settings)
    \cup PathSites({Doc(<<>>, "index", ".rst"), Unknown}, {FullBuild})

(* The vi_VN tree beside the documents it translates. *)
ViSites == PathSites({Doc(<<>>, "index", ".rst"), Doc(<<"netlink">>, "index", ".rst"), Unknown},
                     {FullBuild})

(* A page with directives has others then, or none; one that declares names, others. *)
MCRevisions(s) ==
  IF s.directives # <<>>
  THEN {[s EXCEPT !.directives = list] : list \in {<<>>, <<Include>>, <<Features, AbiFiles>>}}
  ELSE IF s.text = Short THEN {[s EXCEPT !.declares = d] : d \in Declarations}
  ELSE {}

MCPages == {a, b}
==========================================================================
