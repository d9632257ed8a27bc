---------------------------- MODULE HtmlBuild ----------------------------
(***************************************************************************)
(* Builds of the documentation with the extensions that the repository's   *)
(* conf.py loads: Conf says what the documents are, the directives of      *)
(* Includes and FlatTable and then the transform of Translations run while *)
(* pages are read, and Translations and Automarkup when they are resolved  *)
(* for writing.                                                            *)
(*                                                                         *)
(* A build is a run of Sphinx (external): it reads the pages that are      *)
(* outdated, in any order, saves the environment, and then writes: HTML    *)
(* pages, those it has read; LaTeX books, each of the pages that its       *)
(* toctrees lead to and as one document, that of its index.  The           *)
(* environment is kept from build to build; the variables of the           *)
(* extensions last as long as the process.                                 *)
(***************************************************************************)
EXTENDS Integers, FiniteSets, SequencesExt

CONSTANTS
  Pages,
  Sites,       \* what there is to build, and how: see IsSite
  Revisions(_), \* what an edit may leave of a page: sources, of its source
  Namespaces,  \* C namespaces; "" is none
  Names,       \* names of documents, functions and structures
  None,        \* a column that a cell covers
  SubprojectIndex,  \* sphinx-includes/subproject-index.rst
  Files, Dir, AbiDir, Nothing,  \* see Includes
  Mentions,    \* per file: what the cross-references made from it lead to
  MaxPageEdits, MaxFileEdits    \* bounds on edits

VARIABLES
  setting,   \* the source directory, the version of Sphinx and the format
  config,    \* of this build, see Conf
  source,    \* per page: [at, declares, directives, table, fill, text]
  env,       \* the environment as it was saved, per page
  reads,     \* the environment of this build, per page
  stage,     \* "off", "read" or "write"
  todo,      \* the pages that the stage has yet to come to
  fresh,     \* the pages read by this build
  reported,  \* the broken cross-references that this process has warned of
  menu,      \* the page written last, and the languages that it links to
  pageEdits, fileEdits,
  version, cache, page, left, xrefFiles, noted, taken,           \* see Includes
  table, fillCells, step, rows, y, x, maxCols,                   \* see FlatTable
  text, marking, cNamespace, uris, failedLookups, pending, done, repl  \* see Automarkup

buildVars == <<setting, config, source, env, reads, stage, todo, fresh, reported,
               menu, pageEdits, fileEdits>>

includeVars == <<version, cache, page, left, xrefFiles, noted, taken>>

tableVars == <<table, fillCells, step, rows, y, x, maxCols>>

markVars == <<text, marking, cNamespace, uris, failedLookups, pending, done, repl>>

vars == <<buildVars, includeVars, tableVars, markVars>>

CONF == INSTANCE Conf

TR == INSTANCE Translations

(* The documents of a build. *)
Found(conf) == {p \in Pages : CONF!Takes(conf, setting.srcdir, source[p].at)}

Docname(p) == CONF!Docname(setting.srcdir, source[p].at)

DeclaredIn(pages) == UNION {reads[p].declares : p \in pages}

(* What the domains of Sphinx know. *)
Known == DeclaredIn(Pages)

INC == INSTANCE Includes WITH Latest <- MaxFileEdits + 1
FT == INSTANCE FlatTable
AM == INSTANCE Automarkup WITH declared <- Known

NoTable == <<>>

NoMenu == [page |-> Nothing, links |-> {}]

NoText == [namespace |-> "", length |-> 0, matches |-> {}]

IsSource(s) ==
  /\ DOMAIN s = {"at", "declares", "directives", "table", "fill", "text"}
  /\ CONF!IsDoc(s.at)
  /\ s.declares \subseteq Namespaces \X Names
  /\ s.directives \in Seq(INC!Directives)
  /\ s.table # NoTable => FT!IsTable(s.table)
  /\ s.fill \in BOOLEAN
  /\ AM!IsText(s.text)

IsSite(site) ==
  /\ site.setting.srcdir \in Seq(STRING)
  /\ site.setting.hasInclude \in BOOLEAN
  /\ site.setting.format \in {"html", "latex"}
  /\ site.source = [p \in Pages |-> site.source[p]]

(* The sources that a page may have, at first or after an edit. *)
Sources ==
  LET first == {site.source[p] : site \in Sites, p \in Pages}
  IN  first \cup UNION {Revisions(s) : s \in first}

(* A directory translations/<language>/translations/... *)
TranslatedTwice(dir) == Len(dir) > 3 /\ dir[1] = "translations" /\ dir[3] = "translations"

SameName(d, e) == d.dir = e.dir /\ d.name = e.name

(* An edit does not move a page; the tree has no two documents that differ in the suffix
   only, and no translations of translations. *)
ASSUME PlaceAssumption ==
  /\ \A s \in Sources : \A r \in Revisions(s) : r.at = s.at
  /\ \A site \in Sites : \A p, q \in Pages :
       SameName(site.source[p].at, site.source[q].at) => p = q
  /\ \A s \in Sources : ~TranslatedTwice(s.at.dir)

ASSUME SiteAssumption ==
  /\ "" \in Namespaces
  /\ MaxPageEdits \in Nat /\ MaxFileEdits \in Nat
  /\ Nothing \notin Pages \cup Files
  /\ SubprojectIndex \in Files
  /\ Mentions \in [Files -> SUBSET (Namespaces \X Names)]
  /\ \A site \in Sites : IsSite(site)
  /\ \A s \in Sources : IsSource(s)
  /\ UNION {Revisions(s) : s \in Sources} \subseteq Sources

(* The environment of a page: newer are the files, and the page itself, that were
   changed after it was read; raced, an observer, that what it took in had changed
   before the reading of the page ended. *)
Unread(p) ==
  [declares |-> {}, languages |-> {}, deps |-> {}, content |-> {}, newer |-> {p},
   raced |-> FALSE]

(* The page as it is parsed: YAML without a parser is empty, the root document of a
   subproject ends in one more directive. *)
IndexDirective ==
  [kind |-> "plain", file |-> SubprojectIndex, extra |-> Nothing, dir |-> Nothing]

Parsed(p) ==
  LET s == source[p] IN
  IF CONF!Ignored(s.at)
  THEN [s EXCEPT !.declares = {}, !.directives = <<>>, !.table = NoTable, !.text = NoText]
  ELSE IF CONF!AddsIndex(config, setting.srcdir, setting.format, s.at)
  THEN [s EXCEPT !.directives = Append(@, IndexDirective)]
  ELSE s

(* What is being built has the shape that the writers rely on: rows keep their
   cells, places are within the page, of HTML only pages that were read are written. *)
TypeOK ==
  /\ \A p \in Pages : \A e \in {env[p], reads[p]} :
       /\ e.declares \subseteq Namespaces \X Names
       /\ e.deps \subseteq Files
       /\ e.content \subseteq Files \X INC!Versions
       /\ e.newer \subseteq Files \cup Pages
       /\ e.raced \in BOOLEAN
  /\ stage \in {"off", "read", "write"}
  /\ menu.page \in Pages \cup {Nothing}
  /\ menu.links \subseteq {Docname(p) : p \in Pages}
  /\ stage # "read" => page = Nothing /\ reads = env
  /\ todo \subseteq Pages
  /\ stage = "write" /\ setting.format = "html" => todo \subseteq fresh
  /\ fresh \subseteq Pages
  /\ reported \subseteq Files \X (Namespaces \X Names)
  /\ pageEdits \in 0 .. MaxPageEdits
  /\ fileEdits \in 0 .. MaxFileEdits
  /\ page \in Pages \cup {Nothing}
  /\ INC!TypeOK
  /\ FT!TypeOK
  /\ AM!TypeOK

Init ==
  /\ \E site \in Sites : setting = site.setting /\ source = site.source
  /\ config = CONF!NoConfig
  /\ menu = NoMenu
  /\ env = [p \in Pages |-> Unread(p)]
  /\ reads = env
  /\ stage = "off"
  /\ todo = {}
  /\ fresh = {}
  /\ reported = {}
  /\ pageEdits = 0
  /\ fileEdits = 0
  /\ version = [f \in Files |-> 1]
  /\ INC!Init
  /\ FT!Idle
  /\ AM!Init

----------------------------------------------------------------------------
(* The authors. *)

Newer(entries, what) == [p \in Pages |-> [entries[p] EXCEPT !.newer = @ \cup {what}]]

EditPage(p) ==
  /\ stage = "off"
  /\ pageEdits < MaxPageEdits
  /\ pageEdits' = pageEdits + 1
  /\ \E s \in Revisions(source[p]) : source' = [source EXCEPT ![p] = s]
  /\ env' = [env EXCEPT ![p].newer = @ \cup {p}]
  /\ reads' = env'
  /\ UNCHANGED <<setting, config, stage, todo, fresh, reported, menu, fileEdits>>
  /\ UNCHANGED includeVars
  /\ UNCHANGED tableVars
  /\ UNCHANGED markVars

(* The files that some page might take in; others are left alone. *)
OfInterest ==
  LET Mentioned(d) == Files \cap ({d.file, d.extra} \cup INC!In(d.dir)) IN
  UNION {UNION {Mentioned(d) : d \in ToSet(Parsed(p).directives)} : p \in Pages}

(* A file is changed, added or removed, also while pages are read. *)
EditFile(f) ==
  /\ stage \in {"off", "read"}
  /\ f \in OfInterest
  /\ fileEdits < MaxFileEdits
  /\ fileEdits' = fileEdits + 1
  /\ \E v \in {0, fileEdits + 2} \ {version[f]} : version' = [version EXCEPT ![f] = v]
  /\ env' = Newer(env, f)
  /\ reads' = Newer(reads, f)
  /\ UNCHANGED <<setting, config, source, stage, todo, fresh, reported, menu,
                 pageEdits>>
  /\ UNCHANGED <<cache, page, left, xrefFiles, noted, taken>>
  /\ UNCHANGED tableVars
  /\ UNCHANGED markVars

----------------------------------------------------------------------------
(* A build. *)

(* A dependency has changed, or there is no such file. *)
Outdated ==
  {p \in Pages :
     \/ p \in env[p].newer
     \/ \E f \in env[p].deps : f \in env[p].newer \/ version[f] = 0}

(* init_xref_docs forgets the files of the builds before. *)
StartBuild ==
  /\ stage = "off"
  /\ stage' = "read"
  /\ config' = CONF!ConfigInit(setting.srcdir, setting.hasInclude, {source[p].at : p \in Pages})
  /\ todo' = Outdated \cap Found(config')
  /\ fresh' = {}
  /\ xrefFiles' = {}
  /\ UNCHANGED <<setting, source, env, reads, reported, menu, pageEdits, fileEdits>>
  /\ UNCHANGED <<version, cache, page, left, noted, taken>>
  /\ UNCHANGED tableVars
  /\ UNCHANGED markVars

(* The page is parsed, its directives run.  The generator of YAML may raise instead. *)
ReadPage(p) ==
  /\ stage = "read"
  /\ p \in todo
  /\ todo' = todo \ {p}
  /\ page = Nothing
  /\ INC!Begin(p, Parsed(p).directives)
  /\ IF Parsed(p).table = NoTable THEN UNCHANGED tableVars
     ELSE FT!Parse(Parsed(p).table, Parsed(p).fill)
  /\ UNCHANGED <<setting, config, source, env, reads, stage, fresh, reported, menu,
                 pageEdits, fileEdits, version>>
  /\ UNCHANGED markVars

TableStep ==
  /\ FT!Step
  /\ UNCHANGED buildVars
  /\ UNCHANGED includeVars
  /\ UNCHANGED markVars

IncludeStep ==
  /\ step = "idle"
  /\ INC!Step
  /\ UNCHANGED version
  /\ UNCHANGED buildVars
  /\ UNCHANGED tableVars
  /\ UNCHANGED markVars

(* The transforms have run and the page is read: the time from which changes count as
   newer. *)
EndPage ==
  /\ step = "idle"
  /\ INC!End
  /\ ~TR!UnknownLanguage(Docname(page))
  /\ reads' = [reads EXCEPT ![page] =
                 [declares |-> Parsed(page).declares, languages |-> TR!Wanted(Docname(page)),
                  deps |-> noted, content |-> taken, newer |-> {},
                  raced |-> \E c \in taken : version[c[1]] # c[2]]]
  /\ fresh' = fresh \cup {page}
  /\ UNCHANGED <<setting, config, source, env, stage, todo, reported, menu,
                 pageEdits, fileEdits, version>>
  /\ UNCHANGED tableVars
  /\ UNCHANGED markVars

(* All pages are read: the environment is saved.  Books are always written. *)
EndReading ==
  /\ stage = "read"
  /\ page = Nothing
  /\ todo = {}
  /\ env' = reads
  /\ stage' = "write"
  /\ todo' = IF setting.format = "html" THEN fresh ELSE Found(config)
  /\ UNCHANGED <<setting, config, source, reads, fresh, reported, menu, pageEdits, fileEdits>>
  /\ UNCHANGED includeVars
  /\ UNCHANGED tableVars
  /\ UNCHANGED markVars

(* Had auto_markup been connected to doctree-read: as soon as the page is read. *)
DoctreeRead(p) == stage \in {"read", "write"} /\ p \in fresh

(* The event that auto_markup is connected to: all pages are read. *)
DoctreeResolved(p) == stage = "write" /\ p \in todo

(* The cross-references of a page, made from files by these kinds of directives, that no
   domain resolves. *)
Broken(p, kinds) ==
  UNION {{d.file} \X (Mentions[d.file] \ Known) :
           d \in {e \in ToSet(Parsed(p).directives) : e.kind \in kinds}}

(* check_missing_refs warns once of each, if its file is one of env._xref_files. *)
Missing(p) == {b \in Broken(p, {"xref", "warn"}) : b[1] \in xrefFiles}

(* process_languages: links that did not resolve are left out. *)
MenuOf(p) ==
  TR!Shown(env[p].languages, {Docname(q) : q \in Found(config)}, setting.format)

(* An HTML page is resolved by itself, and every target has a URI. *)
MarkPage(p) ==
  /\ setting.format = "html"
  /\ AM!Match(Parsed(p).text, Parsed(p).text.namespace, Known)

(* A LaTeX book, of any pages, is resolved as its index, with the namespace of that: the
   builder raises NoUri for a target outside the book, and where a target is declared both
   in it and outside, Sphinx may know either. *)
MarkBook(p) ==
  /\ setting.format = "latex"
  /\ \E book \in SUBSET Found(config) : \E index \in book :
       /\ p \in book
       /\ Docname(index) \in config.books
       /\ \E made \in SUBSET DeclaredIn(book) :
            /\ DeclaredIn(book) \ DeclaredIn(Pages \ book) \subseteq made
            /\ AM!Match(Parsed(p).text, Parsed(index).text.namespace, made)

(* The handlers of doctree-resolved and missing-reference; then the text is marked up. *)
WritePage(p) ==
  /\ DoctreeResolved(p)
  /\ todo' = todo \ {p}
  /\ reported' = reported \cup Missing(p)
  /\ menu' = [page |-> p, links |-> MenuOf(p)]
  /\ UNCHANGED <<setting, config, source, env, reads, stage, fresh, pageEdits, fileEdits>>
  /\ MarkPage(p) \/ MarkBook(p)
  /\ UNCHANGED includeVars
  /\ UNCHANGED tableVars

MarkStep ==
  /\ UNCHANGED buildVars
  /\ AM!Step
  /\ UNCHANGED includeVars
  /\ UNCHANGED tableVars

(* The process ends, and its variables with it; what it had read and not saved is
   lost. *)
EndProcess ==
  /\ stage' = "off"
  /\ reads' = env
  /\ todo' = {}
  /\ fresh' = {}
  /\ reported' = {}
  /\ menu' = NoMenu
  /\ cache' = << >>
  /\ page' = Nothing
  /\ left' = <<>>
  /\ xrefFiles' = {}
  /\ noted' = {}
  /\ taken' = {}
  /\ table' = <<>>
  /\ fillCells' = FALSE
  /\ step' = "idle"
  /\ rows' = <<>>
  /\ y' = 1
  /\ x' = 1
  /\ maxCols' = 0
  /\ text' = AM!NoText
  /\ marking' = "idle"
  /\ cNamespace' = ""
  /\ uris' = {}
  /\ failedLookups' = {}
  /\ pending' = <<>>
  /\ done' = 0
  /\ repl' = <<>>
  /\ UNCHANGED <<setting, config, source, env, pageEdits, fileEdits, version>>

(* Pages in no book are not written. *)
EndBuild ==
  /\ stage = "write"
  /\ setting.format = "html" => todo = {}
  /\ marking = "idle"
  /\ EndProcess

LanguageRaises ==
  page # Nothing /\ left = <<>> /\ TR!UnknownLanguage(Docname(page))

(* A directive, the transform of Translations or, before any of them runs, the generator
   of a YAML page raises what nobody catches. *)
Crash ==
  /\ step = "idle"
  /\ \/ INC!Raises
     \/ LanguageRaises
     \/ /\ stage = "read"
        /\ page = Nothing
        /\ \E p \in todo : source[p].at.suffix = ".yaml" /\ ~CONF!Ignored(source[p].at)
  /\ EndProcess

Kill == stage # "off" /\ EndProcess

Next ==
  \/ \E p \in Pages : EditPage(p) \/ ReadPage(p) \/ WritePage(p)
  \/ \E f \in Files : EditFile(f)
  \/ StartBuild
  \/ TableStep
  \/ IncludeStep
  \/ EndPage
  \/ EndReading
  \/ MarkStep
  \/ EndBuild
  \/ Crash
  \/ Kill

Spec == Init /\ [][Next]_vars

----------------------------------------------------------------------------
(* Properties. *)

(* However spans of columns and rows meet, the rounded table is a rectangle: every place
   is taken, and none twice (roundOffTableDefinition).  Of a table that is itself well
   formed, none of whose rows is widened by others before the spans left of it have widened
   it, and whose last cells were not widened over rows already laid out; the code does lay
   cells over others where one of the last two fails. *)
Rectangular ==
  step = "done" /\ FT!WellFormed /\ FT!InStep /\ ~FT!WidenedSpan =>
    LET grid == FT!Layout(rows) IN
    /\ grid.twice = {}
    /\ grid.taken = FT!Full(Len(rows), maxCols)

(* Whatever matches meet, markup_refs loses no character of a text; and where none
   overlap, it doubles none: the pieces joined are the text. *)
TextKept ==
  marking = "done" =>
    /\ \A c \in 0 .. text.length - 1 :
         \E k \in 1 .. Len(repl) : repl[k].from <= c /\ c < repl[k].to
    /\ AM!Disjoint => \A k \in 1 .. Len(repl) :
                        repl[k].from = IF k = 1 THEN 0 ELSE repl[k - 1].to

(* The targets that the pages declare as they stand, whenever each was read. *)
Declares == UNION {Parsed(p).declares : p \in Found(config)}

(* The directory below translations/<language>/, or Documentation/ itself. *)
Original(p) ==
  LET dir == source[p].at.dir IN
  IF Len(dir) > 1 /\ dir[1] = "translations" THEN CONF!Below(<<"", "">>, dir) ELSE dir

(* The language menu of an HTML page leads to all the other languages that its document is
   built in, and nowhere else, where the build is of the whole tree. *)
LanguagesRight ==
  menu.page # Nothing /\ setting.format = "html" /\ setting.srcdir = <<>> =>
    menu.links = {Docname(q) : q \in {r \in Found(config) \ {menu.page} :
                    /\ Original(r) = Original(menu.page)
                    /\ source[r].at.name = source[menu.page].at.name}}

(* No page is written with a broken cross-reference of a directive with :warn-broken:
   that has not been reported, on whatever page first; but a LaTeX book also has pages
   that this build did not read, of which nothing is reported. *)
BrokenReported ==
  menu.page # Nothing /\ (setting.format = "html" \/ menu.page \in fresh) =>
    Broken(menu.page, {"warn"}) \subseteq reported

(* On an HTML page a C name is linked to its own declaration on whatever page that stands:
   to that of the page's namespace if it has one, which no page written before decides, and
   to that without a namespace on a page without.  In a LaTeX book the namespace is that of
   the book's index, and the declaration has to be one that the builder makes a URI for, as
   it does if only pages of the book declare it.  No link leads to what is no longer
   declared, to what has no URI, or into another namespace.  Likewise the links of the
   language menu, and the warnings of links that are broken. *)
LinksRight ==
  marking = "done" =>
    /\ LanguagesRight
    /\ BrokenReported
    /\ LET html == setting.format = "html"
           linked == IF html THEN Declares ELSE Declares \cap uris
       IN  \A m \in text.matches :
             AM!IsC(m) =>
               LET own == AM!Target(IF html THEN text.namespace ELSE cNamespace, m.name) IN
               /\ own \in linked /\ ~AM!Skipped(m) => AM!LinkOf(m, own) \in ToSet(repl)
               /\ \A target \in Namespaces \X Names :
                    AM!LinkOf(m, target) \in ToSet(repl) =>
                      target \in linked /\ target \in {own, AM!Target("", m.name)}

(* "Proper cache invalidation" (kernel_include.py): a page that the next build will not
   read again holds what it would if it were read now, whichever directives take in
   the files, over any builds, crashes and edits between and within builds.  Not so
   a file of exceptions, a file that was not there when the page was read, and a page
   whose files changed between being parsed and the end of its reading. *)
IncludesCurrent ==
  \A p \in Pages \ Outdated :
    LET held == env[p].content
        now == INC!FromScratch(Parsed(p).directives)
    IN  env[p].raced \/
          \A c \in (held \ now) \cup (now \ held) :
            c[1] \in INC!Overlooked(Parsed(p).directives, held)

(* Built from a directory below Documentation/ (SPHINXDIRS), a document is taken if and
   only if the full build takes it, with either version of Sphinx, except in a directory
   that a pattern excludes with all below it; and the books are among what is taken,
   except those of such a directory, which config_init lists all the same. *)
SubprojectAlike ==
  stage = "read" /\ fresh = {} =>
    LET srcdir == setting.srcdir
        full == CONF!ConfigInit(<<>>, setting.hasInclude, {source[p].at : p \in Pages})
    IN  /\ \/ \E q \in full.exclude : q.depth # "in" /\ IsPrefix(q.dir, srcdir)
           \/ \A p \in Pages :
                p \in Found(config) <=>
                  IsPrefix(srcdir, source[p].at.dir) /\ CONF!Takes(full, <<>>, source[p].at)
        /\ \A book \in config.books :
             \/ \E p \in Found(config) : book = Docname(p)
             \/ \E q \in config.exclude : q.depth = "whole" /\ q.dir = Front(book)

(* "make htmldocs of the kernel finds and builds the translation by itself, without any
   configuration" (README.md): no page ends a build for the language it is in. *)
TranslationsBuild == ~LanguageRaises
=============================================================================
