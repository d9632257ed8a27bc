# A verification project for kernel-docs-vi

The repository mirrors the Linux kernel's `Documentation/` tree, keeps a
hand-made Vietnamese translation of it below `Documentation/translations/vi_VN/`,
and machine-translates the rest into `Documentation/translations/vi_VN_mt/`.
Of its 14587 files nearly all are mirrored documents. The program is small: five
shell scripts and one Python script in `scripts/`, and the Sphinx extensions and
`conf.py` that came with the mirrored tree and build it. This project models
the scripts and the extensions with logic of their own in TLA+, checks the models
with TLC and proves with TLAPS all safety properties but one for instances of any size, and
that the mirror implements an abstract one.

## 1. Inventory

### 1.1 The upstream mirror: `init-upstream.sh`, `sync-upstream.sh`, `diff-upstream.sh`, `lib/common.sh`

* State: the working tree (`Documentation/`, `COPYING`, `LICENSES/`), the
  provenance file `UPSTREAM` (ref, commit, dates), the scratch clone
  `_upstream/`, and the shell variables of each run (`REF`, `new_sha`).
* Operations: *init* imports a ref; *sync* compares the ref's commit with
  `UPSTREAM`, prints a summary from a dry run, and applies; *diff* prints the
  summary only. All begin with `sparse_clone` (remove `_upstream/`, clone, check
  out) and end with `cleanup_scratch` in an EXIT trap.
* Interaction: shared state only. `UPSTREAM` is read by the next sync, by
  `mt.py` and by `translation-status.sh`; `_upstream/` is shared by all scripts
  without a lock; `rsync --delete` spares `vi_VN/` and nothing else.
* Hard: a command that fails or a run that is killed between any two commands;
  leftovers of one run met by the next; two runs at once; a branch that moves.
* Correct when: what a run reports is true (the tree *is* the commit), `UPSTREAM`
  names what the tree mirrors, the summary names every file that changes, translators' pages
  are never touched, a preview changes nothing, and no leftover wedges the
  repository.

### 1.2 `mt.py`: thread pool, rate limit, pages

* State: the pages below `vi_VN_mt/`, the pool's queue and results, each thread's
  file, paragraph and attempt, the shared `RATE_LIMIT_UNTIL`.
* Operations: `main` picks files, `run` starts a pool and collects results,
  `translate_file` checks for the page, reads, translates and writes it,
  `translate_with_retry` waits for the shared deadline, asks, and on refusal sets
  a penalty for all threads.
* Interaction: threads share the deadline (with a lock) and the file system
  (without); results reach the main thread in order through `pool.map`.
* Hard: interleaving of threads, refusals and retries, exceptions of a worker,
  Ctrl-C, kills in the middle of a write, re-runs over what earlier runs left.
* Beside the scripts of 1.1: threads read sources that a sync replaces path by path, the
  commit in a page's header is read once per run, and `rsync --delete` removes
  `vi_VN_mt/`, which no commit has.
* Correct when: exit status 0 means what it says, finished pages are not
  overwritten, a run ends, penalties are not undone, re-runs complete the tree, a
  header names the commit its text is of, and outdated pages do not stay.

### 1.3 `mt.py`: blocks and placeholders

* `split_blocks` walks over a page's lines once and cuts it into blank,
  directive, heading, literal and prose blocks; `translate_rst` sends prose, the
  bodies of admonitions and the labels of toctrees to the translator.
* `protect` replaces inline markup by tokens, ten patterns one after the other;
  `restore` puts it back in what the translator returned.
* Hard: five inner loops over one index; heuristics that look at the previous
  block; patterns that see the tokens of earlier patterns.
* Correct when: no line and no match is lost or doubled, and what must not be
  translated is not sent and comes back as it was.

### 1.4 `translation-status.sh`

* State: a list of sources, a coverage file, the report. One snapshot of the
  tree, then one test per file, then totals from both files.
* Hard: the tree changes meanwhile; grouping depends on the sort order.
* Correct when: totals, tables and list agree with one another, what a report
  says of a page was true while it was made, a report that fails early leaves the
  old one, and reports come to describe a tree that has come to rest.

### 1.5 The build: `Documentation/sphinx/*.py`, `conf.py`, `Makefile`

* `conf.py` says which files are documents: patterns, made relative to the directory
  that is built (`config_init`), suffixes, and the books; it adds an index to the root
  of a partial build.
* `translations.py` gives a page a menu of its languages; `automarkup.py` turns names in
  text into references and caches failures; `rstFlatTable.py` lays tables out;
  `kfigure.py` converts images if they are newer; `kernel_include.py`,
  `parser_yaml.py`, `maintainers_include.py`, `kerneldoc.py`, `kernel_abi.py`,
  `kernel_feat.py` read other files into a page and record dependencies;
  `kernel_include.py` also reports references that stay broken.
* State: what Sphinx keeps from build to build (declarations, dependencies,
  converted images) and what lasts as long as a process (`c_namespace`,
  `failed_lookups`, `reported`, the tools found).
* Interaction: all pages are read before any is written, so that a reference finds
  what any page declares; writers may run in parallel over one output directory.
* Hard: incremental builds over stale outputs and stale dependencies, caches that
  outlive a page, directives that raise, parallel readers and writers, overlap of
  pattern matches, spans of rows and columns that meet.
* Correct when: no text is lost, tables are rectangles, links lead where the pages
  as they stand declare, figures show their sources as they stand, and a page that
  took in a file is read again when the file has changed; a part of the tree takes the
  documents that the whole takes; no document ends the build.

### 1.6 Not code of this project

The mirrored documents, device-tree schemas and sample programs
(`Documentation/trace/postprocess/`, `multisound.sh`, ...) are data here: no
script runs them.

`PROJECT.json` lists all of these under `components`, and under `hazards` the
places where each can go wrong.

## 2. Modules

| module | models | state, and what it is in the code |
|---|---|---|
| `UpstreamSync` | 1.1 | `tree`, `upstreamFile`, `scratchDir`/`scratchGit`/`scratchFiles` (the clone), `remote` (the kernel's refs); per run `pc` (the next command), `script`, `ref`, `newSha`, `todo` (paths rsync has yet to reach), `summary`, `outcome`; observer `torn` |
| `Mirror` | 1.1, abstract | `tree`, `upstream` (the commit `UPSTREAM` names), `applying`, `torn` |
| `UpstreamSync_proofs` | | theorems about `UpstreamSync` |
| `MtPool` | 1.2 | `source`, `upstream`; `page` and `made` (the commit in its header, the text it is of); `files`, `force`, `sha` (`upstream_sha`), `next`, `collected`, `result`; per thread `wpc`, `task`, `unit`, `attempt`, `text`, `lost`; `remaining` (`RATE_LIMIT_UNTIL - time.time()`), `exit`; observers `broken`, `owed` |
| `MtPool_proofs` | | theorems about `MtPool` |
| `Pages` | 1.1 with 1.2 | extends `MtPool`, whose `source` and `upstream` are the tree and the `UPSTREAM` of an instance of `Mirror`; `swept` (the pages the rsync has come to); observers `steady`, `atRead`, `quiet` |
| `Pages_proofs` | | theorems about `Pages` |
| `RstBlocks` | 1.3 | `lines`, `i`, `kind`, `start`, `blocks` of `split_blocks`; `rendered`, `sent`, `cut` |
| `RstBlocks_proofs` | | theorems about `RstBlocks` |
| `Placeholders` | 1.3 | `text`, `table` (the tokens), `pass`, `pos`, `out` |
| `Placeholders_proofs` | | theorems about `Placeholders` |
| `TranslateRst` | 1.3 | composes the last two: `translate_rst` from a page to its translation |
| `TranslationStatus` | 1.4 | `upstreamFile`, the sources and translations of the tree; per run `pc`, the fields read, `sources`, `coverage`, totals; the report; observer of what was true during the run |
| `TranslationStatus_proofs` | | theorems about `TranslationStatus` |
| `Figures` | 1.5, `kfigure.py` | `file` and `age` (source, intermediate SVG, output, and whose ctime is later), `tools`, the pages still to write, `work` of each writing process; observer `tainted` |
| `Figures_proofs` | | theorems about `Figures` |
| `FlatTable` | 1.5, `rstFlatTable.py` | `rows`, `y`, `x`, `maxCols` of `roundOffTableDefinition` |
| `Automarkup` | 1.5, `automarkup.py` | `cNamespace`, `failedLookups`; `uris` (the targets for which the builder raises no `NoUri`); `pending`, `done`, `repl` of `markup_refs` |
| `Includes` | 1.5, `kernel_include.py`, `maintainers_include.py`, `kerneldoc.py`, `kernel_abi.py`, `kernel_feat.py` | `version` (the files), `cache` (what the process has parsed), and of the page being read `left` (its directives), `noted` (its dependencies), `taken` (files with their versions); `xrefFiles` (`env._xref_files`) |
| `Conf` | 1.5, `conf.py`, `parser_yaml.py` | operators: patterns, what a build takes in, books, which YAML is ignored |
| `Translations` | 1.5, `translations.py` | operators: the language of a document, the links wanted and shown |
| `HtmlBuild` | 1.5 | composes the last five: `setting` (source directory, Sphinx version, format), `config`, `source`, `menu`, `reported`; `env` and `reads` (what is known of each page by the saved environment and by that of the build), `stage`, `todo`, `fresh` |
| `HtmlBuild_proofs` | | theorems about `HtmlBuild` and the components it composes |
| `MC*` | | constants of the instances for TLC |

**`UpstreamSync`.** Each command of a script that touches shared state is one
action; `Labels` lists them in order. `rm -rf` and `rsync` are not atomic:
they work entry by entry (`RemoveEntry`, `RsyncPath`), in any order. `Fail(p)` is a
command that exits with an error (`set -e`, EXIT trap), at any command;
`Kill(p)` ends a run at once, without the trap. `Refused(p)` are the commands
whose input is missing: a clone of an empty or unknown ref, a clone into a
directory that is not empty, a checkout without a clone. `UpstreamMoves` and
`LocalEdit` are the environment. git, rsync, cp and rm are external; the model
says of them what the scripts rely on. `Itemize` is what the awk filter prints of a dry run:
regular files and deletions, not symbolic links; `from` and `to` in `summary` are observers of
what the dry run compared. `torn` remembers that an apply was cut
short and that none completed since; it guards no action.

**`MtPool`.** `Take`, `Check`, `Read`, `Wait`, `Answered`/`TooMany`, `Open`,
`Write` are the steps of a thread through `translate_file`; a page is `truncated`
between opening and closing it. `Raise` is the main thread leaving the pool's
loop on an exception: the `with` block still waits for the threads. Time is
`Tick` on the remaining penalty, in units of the base backoff. `Run` takes the files
named that exist, or what `IterSourceFiles` finds, cut to `--limit`. `owed` is what is
left of the penalty that a thread's own last refusal earned; it guards no action. Its own runs
leave `source` and `upstream` alone.

**`Mirror`, `Pages`.** `Mirror` is what an import or sync promises: `Begin` a commit, `Replace`
the paths, `Forget` and then name it in `UPSTREAM` (`Complete`) only where the tree is all of
it, or `Abandon` it. `UpstreamSync` implements it, and `Pages` uses it in the place of
`UpstreamSync`: `Translate` is a step of `MtPool`, the others are those of a sync, to which
`Sweep` adds that its rsync deletes each page of `vi_VN_mt/` it comes to, once. The
observers only remember whether a sync stepped in: `quiet[f]` is "written" if none did
from the start of the run to the writing of the page, "read" if none did up to the reading
of its source.

**`RstBlocks`.** A line is its class (blank, rule, `..`, text), its role for
`translate_directive_block`, its indent, its width and whether it ends in `::`. A
turn of the outer loop is `Open`, a turn of an inner loop `Extend`, leaving it
`Close`. `sent` are the lines that reach the translator.

**`Placeholders`.** A text is a sequence of symbols: words, capitals, the marks
of inline markup, and tokens, which are numbers. Four patterns stand for the ten:
those delimited by back quotes, by asterisks, capitals, and `#`; the order
between them is the code's. The translator may leave the text alone or turn it
round.

**`TranslateRst`.** Extends both: `Split` is a step of `split_blocks`, `RenderBlock` a turn of
`translate_rst`'s loop, which calls `translate_prose` (`TranslateProse`) with the lines of a
paragraph or with the body of an admonition, and `Prose` a step of that call; `Unanswered` is a
translator that gives up, so that the lines stay. `Spellings` says which texts a paragraph may
spell; the labels of a toctree are sent out as they are, without tokens.

**`TranslationStatus`.** Each command is an action, and so is each path that `find`
meets and each turn of the loop over the sources; `SyncPath`, `SyncUpstream` and
`Translator` change the tree between any two. `Fail` is a command that exits with
an error. A path is a sequence of bytes, and `Sort` says of its result only what `sort` promises:
the same paths in the order of their bytes.

**`Figures`.** `Visit`, `CreateCode`, `WriteCode`, `Check`, `Open`, `Read`, `Write`,
`Finish` are the steps of a writing process through a figure; `Abort` is the
`TypeError` of a command without a tool. Time is only who is newer: files stamped
between two `Tick`s have the same time.

**`Includes`.** A directive is its kind, its file, a second file (the exceptions file of
`kernel-include`) and a directory (of the ABI, of features, or what the patterns of
`:export:` match); all but those of the ABI and of features name a file; what it makes of a file is the file's version. One action is one
directive; `HandleArgs`, `XrefText`, `RawText` are the files it reads, `Ran` adds to
`noted` those it notes. `Raises` are the three exceptions that nobody catches: the
message for a missing file of `kernel-include` (`self.warning` gets two arguments), that
of `maintainers-include` (`__class__.__name`), and `:code:` (`code` takes two arguments
and is given three). The `:code:` directive stands for `:number-lines:` too, whose
`include_lines` is not defined. `kernel-doc` catches everything, so it never raises.
Parsers are external: kernel-doc and the ABI parser keep what they have read for as
long as the process lives.

**`Conf`, `Translations`.** A document is its directory, name and suffix, a directory the
sequence of its names. `ConfigInit` is `config_init`, with and without the include patterns
of Sphinx 5.1; how Sphinx matches patterns (`Matches`, `Takes`) is external. `UnknownLanguage` is
the `KeyError` for a directory of `translations/` whose name is no code of the table, `en` among
them: English is in it without a code. `Wanted` are the links
that the transform makes while a page is read, `Shown` those that lead somewhere when it
is written.

**`HtmlBuild`.** A build begins with `ConfigInit` and reads the outdated pages (`ReadPage`, in any order, each in this
process or one with an empty `cache`; its directives run by `IncludeStep` and
`TableStep`), saves the environment (`EndReading`), then writes (`WritePage`; the text goes
through the actions of `Automarkup`): in HTML the pages it has read, each resolved by itself
(`MarkPage`); in LaTeX all books, whatever was read, each resolved as one document. `MarkBook`
leaves open which pages a book's toctrees lead to. Its index is one of `latex_documents`, and
its names are looked up under the index's name, so in the namespace of the index; a
target outside the book has no URI (`NoUri`), and of one that is declared both in it and outside
it is open which of the two Sphinx knows. Pages are edited
between builds, files also while pages are read. Which page is outdated is Sphinx's
rule, among the documents that are found: the page or a noted dependency is newer than the end of the last reading
(`newer` collects what was changed since then), or a dependency is missing. `Crash` is a
directive, the generator of a YAML page or the language menu that raises, and `Kill` a
build that is stopped: the process ends, and with it
`cache`, `cNamespace`, `failedLookups` and what was read and not saved. The
components with state are instances: their variables are those of `HtmlBuild`, and
`declared` of `Automarkup` is what the environment knows. `Mentions[f]` are the references that
are made from file `f` by `kernel-include` with `:generate-cross-refs:`; `Missing` are those that
`check_missing_refs` reports when a page is written. A text is its length and the matches in it,
a match its pattern, place and name. `content` and `raced` of a page are observers: what
it took in, and whether that had changed before its reading ended.

## 3. What the runs check

| run | instance | shows |
|---|---|---|
| `sync` | one slot, exclusive | 1.1 with faults anywhere, any number of runs one after the other |
| `sync_interrupted` | as `sync` | finding: `UPSTREAM` names a commit the tree does not hold |
| `mt_pool` | two threads, two source files, one file outside | 1.2 with faults anywhere, run after run |
| `mt_rerun` | as `mt_pool` | finding: a truncated page is skipped for good |
| `pages` | two threads, two source files, two commits | 1.2 beside syncs: headers and outdated pages |
| `translate_rst` | all pages of up to 4 lines of 13 kinds, and paragraphs of up to 5 symbols of 5 kinds | splitting, what is sent, `protect` and `restore` |
| `rst_literals` | the same pages, only split | finding: literal blocks are translated |
| `inline_markup` | the same texts, one by one | finding: inline markup comes back as tokens |
| `translation_status` | one sync and two changes by a translator | 1.4 over a changing tree, report after report |
| `figures` | two writers, two pages, a DOT file, an SVG file and a rendered block | conversion and its freshness test over builds, edits and failures |
| `html_build` | two pages, six files, one edit of a page and two of files; eleven paths, seven source directories; HTML and LaTeX | tables, text, links, what pages take in and which are taken, over full and incremental builds |
| `vi_build` | a document of `vi_VN/` and two others, full builds | finding: the language menu ends the build |

The properties, each stated in a comment at its definition:

* `SyncedMirrors`: a run that reports success has made the whole tree outside
  `vi_VN/` equal to the commit `UPSTREAM` names. `Provenance`: that stays so
  until an apply is cut short. `SummaryComplete`: every file that a sync makes or replaces, and
  every deletion, was announced in the right list, though the dry run and the rsync that applies
  are two commands with options of their own; where scripts overlap, that is said of the paths
  that are still as the dry run saw them. A symbolic link that is made is not announced. `ViUntouched`, `DiffReadOnly`: what no script and
  no preview may change. `InitRecovers`: after any faults, an import ends well.
  `ImplementsMirror`: whatever the order of the commands, a run is one commit replacing the
  tree, and `UPSTREAM` is emptied and then names it only once the tree is that commit
  (the refinement; `applying` is mapped to the commit of the clone while a run applies).
* `ExitHonest`: status 0 means a page for every file, complete where this run
  wrote it. `OnlyFaultsTruncate`: a truncated page has a writer or a fault behind
  it; Ctrl-C and worker exceptions do not truncate. `NoOverwrite`: without
  `--force` a complete page does not change, unless a file is named twice.
  `BackoffKept`: no thread asks again before the penalty of its own last refusal has
  passed, whatever penalties others set or wait out. `RunEnds`, `RerunCompletes`.
* `StampTrue`: the commit in a page's header is the one its text is of, if no sync was
  under way or cut short between the start of the run and the reading of the source,
  whatever came before the writing. `PagesCurrent`: beside a whole mirror, a page whose run
  no sync disturbed is of the mirrored commit; that `mt.py` skips pages that exist does not
  keep outdated ones, because each sync deletes them all.
* `Partition`: the blocks joined are the lines. `DirectivesVerbatim`,
  `UnderlinesKept`: what is never sent. `AllRendered`: the loops end.
* `TokensOnce`, `ProtectLossless`, `NothingDropped`: tokens are neither lost nor doubled, in
  whatever order they return. That the markup comes back as it was is `MarkupVerbatim`, which
  does not hold (`inline_markup`).
* `ReportConsistent`: in a report that is complete the totals of the head are those of the list,
  no file is listed twice, each section has one heading, and each has one row in the table, with
  its files and its translated files counted. `ReportTrue`: what a report says of a
  page held at some moment of its run. `OldReportKept`: a run that fails before it
  writes leaves the last report. `Converges`: once the tree rests and reports are
  made again and again without failing, the report comes to be exact, for good.
* `FiguresFresh`: when a build has written its pages, each shows its figure no older
  than when the build began, unless the last conversion was disturbed by a fault,
  an edit, or another process's empty file.
* `Rectangular`: in a rounded table every place is taken once. It is stated for tables
  that are well formed as written; not for a short row that ends in a cell
  spanning rows, which the code widens over what lies below; and not for tables in which a
  row that cells above reach down to has still to be widened by spans of its own on the left, or
  is reached from two rows (`InStep`), as the code lays cells over others in those (section 4). All `flat-table`s of the mirrored tree that have
  spans are `InStep`. `TextKept`: no
  character is lost, and none doubled where matches do not overlap. `LinksRight`: on
  an HTML page a link leads to a declaration as the pages stand, in the page's own namespace or
  without one, and a declaration in the page's namespace is linked; in a LaTeX book the same is
  said of the namespace of the book's index and of declarations that the builder has a place for;
  the language menu leads to all languages the document is built in and nowhere else; and no
  page is written with a broken reference of a `:warn-broken:` directive that was not reported,
  unless it is a page that a LaTeX build did not read.
* `SubprojectAlike`: a build of a part of the tree (`SPHINXDIRS`) takes just those documents of
  it that the full build takes, with either version of Sphinx, except inside a directory that a
  pattern excludes as a whole. Its books are among them, but for the index of such a directory,
  which `config_init` lists all the same.
* `IncludesCurrent`: a page that the next build will not read again holds what it would
  if it were read now, after any builds, crashes, kills and edits. Three exceptions are
  this code's, and stated in the property: an exceptions file is not noted; a file
  added where a pattern or a directory is scanned was not there to be noted; and a file
  that changes between being parsed (possibly for another page of the same process) and
  the end of the page's reading is older than that reading.

### Bounds, and why they suffice

* `sync`: two commits that between them change a path, add one and remove one
  (the tag and the branch may name either, so a sync goes both ways); a page of
  `vi_VN/`; a path no commit has; the removed path is a symbolic link, which one commit has and
  the other has not. Paths are treated alike and independently, so
  one of each kind stands for many. Runs are not counted: the slot is used again and
  again, so that every leftover of a run meets every later run.
* `mt_pool`: two threads and three batches (two files, one with an outside file
  between, one file twice), two attempts per unit (six in the code), penalties up to
  2 units (60 in the code). Two attempts distinguish the first, which is repeated,
  from the last, which is given up; a cap of 2 lets a penalty be cut by it.
* `pages`: two commits that change one file and add or remove another, so that a page may be of
  a commit, of another, or of a file that is gone; units and penalties play no part (no
  units, one attempt). Two threads give a run one page before and one after any step of a
  sync; they are alike, and only safety is checked, so permutations of them are symmetries.
  Syncs and runs are not counted.
* `translate_rst`: every branch of `split_blocks` depends on a line, on the one
  before and on the first line of the block; four lines give a block, its
  neighbours and a continuation. Indents 0, 3 and 7 give a body, a deeper line and a
  shallower one. The paragraph of a page of one line spells every text of up to five symbols,
  which hold a delimited match, a token within another match, and a symbol on either side; pages
  of two paragraphs, or of a paragraph and an admonition, spell a few texts, so that one call
  of `translate_prose` follows another; longer pages are only split, as a call depends on nothing
  but its text. `inline_markup` takes the same texts without pages.

* `translation_status`: two paths at the root, which sort before and after section `a`,
  and two below it, of which a sync removes or adds one; one sync and two changes by a
  translator can fall between any three commands. Reports are not counted.
* `figures`: two pages that may share a figure or not, two versions of a source (one
  edit per source), so that an output may be older than, as old as or newer than
  its source. The five toolsets reach each command, `Abort` and the raw fallback.
* `html_build`: tables of up to three rows of up to two cells, with up to two columns
  and three rows a cell: spans that meet, pass the edge, or leave a row short; and of three
  rows of two, three, and one or two cells, in which a span from above meets spans on either
  side of it. Texts
  of three characters with any two matches, or three of three kinds: apart, touching,
  nested or overlapping. One page is rich and the other plain, since tables and texts
  of two pages never meet; one edit gives an incremental build in which what one page
  declares has changed under the other. Directives: one of each kind, next
  to a page with a kernel-doc or an ABI directive, which shares its cache, and three pairs, each next
  to one of the two; two edits of
  files let one be removed and come back, or change before and after a reading. Only
  the pages that have directives or declarations are edited, and only to others of
  these, as an edit of a table is another table of the same run. Paths: any two of eleven
  documents (indexes at each depth, translations of the same and of other documents, YAML
  with a parser, excluded or not, `output/`) built from any of seven directories with both
  versions of Sphinx; a rule about paths compares two documents at most. LaTeX: `netlink/` as a
  book of its index, with or without the other page there, the text on the index with a function
  and a structure, declared in neither page, in either or in both, with or without a namespace.

### Fairness

* `UpstreamSync`: a command that runs comes to an end, with its effect or, if its
  input is missing, with an error (`WF` of `Step(p) \/ (Refused(p) /\ Fail(p))`).
  Nobody is obliged to start a script, and faults may happen for ever;
  `InitRecovers` is about behaviours in which they cease (`Faultless`).
* `MtPool`: threads are scheduled, a request returns (the code sets no timeout
  of its own), time passes. Nobody is obliged to start a run.
* `RstBlocks`, `Placeholders`, `TranslateRst`: a sequential program takes its next step.
* `TranslationStatus`: commands come to an end. Nobody is obliged to ask for a report;
  `Converges` is about behaviours in which reports are asked for again and again.
* `Pages`, `Figures`, `HtmlBuild`: none; only safety is checked.

Deadlock is checked in all other runs (in `html_build` it is what shows that a build
comes to its end). `translate_rst` and the runs of its two parts end when the page is done, so they say
`CHECK_DEADLOCK FALSE`;
`AllRendered` states the end.

## 4. Findings

1. **An interrupted sync is not traceable** (`sync_interrupted`). The tree holds
   paths of two commits, `UPSTREAM` the old one, and a sync back to the old commit
   says "nothing to do". A sync to another commit, or an import, repairs it.
2. **A truncated machine translation stays** (`mt_rerun`), unless `--force` is
   given.
3. **Literal blocks are translated** (`rst_literals`): the branch for them is
   dead, because a blank block always lies between.
4. **Vietnamese documents end the build** (`vi_build`): the table of languages has no
   `vi_VN`, so the menu of a document below `translations/vi_VN/` or `vi_VN_mt/` raises
   `KeyError`, while the README promises that `make htmldocs` builds them unconfigured.
5. **Inline markup comes back as tokens** (`inline_markup`). The tokens `ZZ0000ZZ` are capitals, so
   that the pattern for capitals makes tokens of the tokens of back-quoted and starred markup, and
   `restore`, a single pass, puts back only the last ones. `mt.py` promises that inline
   markup is preserved verbatim.

Seen while modelling, and not the subject of a run: a run killed while it writes
`UPSTREAM` leaves it empty, and then the default ref is empty too and every sync
without an argument fails until one names a ref; the summary calls each file that
exists on both sides modified; an apply deletes `vi_VN_mt/`; a file outside
`Documentation/` ends a run of `mt.py` with an exception; a page translated while a sync
runs may name another commit than its text is of, and stays until the next sync; a symbolic
link that a sync makes is in no list of its summary, as the awk filters of `sync-upstream.sh`
(lines 42-45) and `diff-upstream.sh` (lines 31-34) print lines of files and of deletions only;
in a LaTeX book the names of every page are looked up in the namespace of the book's index, a
name declared outside of the book stays text (`automarkup.py`, lines 237-244), and pages that the build
did not read again are written without a report of their broken references; on a page with a C namespace a name
declared outside of it gets no link, since a failed lookup returns the node it was given,
which counts as found, so the second candidate is never tried and no failure is noted;
scripts that overlap share
`_upstream/`, so the trap of one removes what the `rsync --delete` of another has
yet to send; bodies of admonitions lose the beginning of lines that are indented
less than their first (`Cut`); overlapping matches of `automarkup.py` double the text
they share; in a `flat-table` whose rows are [2 columns; 2 columns and 2 rows], [2 columns and 2
rows; 2 rows; one], [one; one], the places that the first row's span covers are inserted into the
second by index, while it lacks the places of its own column span, so that in the end the last cell of
the third lies over one of the second and leaves the column on the right empty (`html_build` finds
this and others without `InStep` in `Rectangular`); a failed or interrupted conversion leaves an output that is newer than its
source, and two writers may meet over the code file of one rendered block; a missing
file of `kernel-include` or `maintainers-include`, and the options `:code:` and
`:number-lines:`, abort the whole build; `_xref_files` is filled while pages are read and
so holds, in an incremental build, the files of the pages read again only; a build of
`devicetree/bindings/` alone with Sphinx before 5.1 takes its YAML, as the patterns that
exclude it begin with `../` and are dropped; `xref_text` discards what `apply_range` returns,
so line ranges have no effect on it; a full build
lists the index of `output/` or of `sphinx-includes/` as a book, if there is one, though both
are excluded (`conf.py`, lines 116-131); the parsing of the kernel's Makefile for a version gives
up at the first line without `=`.

## 5. What is proved

`UpstreamSync_proofs`, for any sets of refs, commits, paths and contents and any
number of slots, from `SyncAssumption` alone:

* `TypeCorrect`: `Spec => []TypeOK`.
* `ViPagesOurs`: `Spec => ViUntouched`; `DiffOnlyReads`: `Spec => DiffReadOnly`.
  Both hold however scripts overlap. The invariant is `HInv`: the paths in a run's
  `todo` are outside `vi_VN/`, and a `diff` is never at an applying command.
* `Mirrors`: `Exclusive |- Spec => []SyncedMirrors`; `Traceable`: `Exclusive |-
  Spec => []Provenance`. The inductive invariant is `IInv`: types; `Alone` (at most
  one run is not idle); for each run what is known at each label (`RunInv`): after
  the checkout the clone holds one commit and its files, at `rsync` the paths
  that have left `todo` equal the clone's, from `copying` on all of
  `Documentation/` does, and so on until the write of `UPSTREAM`; and
  `Provenance` itself. `SyncedMirrors` alone is not inductive, as it says nothing of
  a run under way; `Alone` is needed, as overlapping
  scripts share the clone.
* `Refinement`: `Exclusive |- Spec => ImplementsMirror`. Initial states map to initial states,
  and each step of `[Next]_vars` to a step of `Mirror` or to a stutter, one lemma per part of a
  run (`PrepareImplements`, `ReplaceImplements`, `CompleteImplements`, `FaultImplements`), from
  `MInv`: `IInv`, `HInv` (the paths replaced are not those of `vi_VN/`) and `Emptied`
  (`UPSTREAM` is empty when a run comes to write it).

* `SummariesComplete`: `Spec => SummaryComplete`, whether scripts overlap or not. The invariant is
  `SInv`: each summary lists what its own dry run saw (`LInv`), and if scripts do not overlap,
  each path that an rsync has yet to reach is, in the tree and in the clone, as the dry run saw
  it (`AInv`, from `MInv`).

`MtPool_proofs`, for any files, batches and listing, any number of threads, attempts and units
and any cap of the penalty, from `PoolAssumption` (the paths outside `Documentation/` are no
sources, a listing lists sources):

* `PoolTyped`: `Spec => []TypeOK`. `PenaltyServed`: `Spec => []BackoffKept`. The invariant is
  `PoolInv`: types; `ThreadInv` (two busy threads never have the same task, and a task under
  way has no result); `QueueInv` (tasks not taken have no result, tasks collected have one that
  counts); `RateInv` (the shared deadline is never before the end of a thread's own penalty).
  The last is what `BackoffKept` lacks to be inductive: a thread looks at the shared deadline
  only.
* `TruncatedByFaults`: `Spec => []OnlyFaultsTruncate`, with `PoolInv`.
* `FinishedKept`: `Spec => NoOverwrite`, from `PoolInv` and `FreshInv`: without `--force` and
  with every file named once, the page of a file that a thread works on is absent, and truncated
  once the thread has opened it.
* `StatusHonest`: `Spec => []ExitHonest`, from `PoolInv` and `HonestInv`: what a run of status 0
  promises of its files is true of each task as soon as the task has its result.

`Pages_proofs`, for any commits, files and threads, from `PoolAssumption` and
`ContentAssumption` (each commit has a text or nothing for each file):

* `StampsTrue`: `PagesSpec => []StampTrue`. `PagesStayCurrent`: `PagesSpec => []PagesCurrent`. The
  invariant is `PagesInv`: `PoolInv`, which no step of a sync touches; `MirrorInv` (a whole mirror
  is the commit that `UPSTREAM` names, and a page that the rsync has come to is not counted as
  written in peace); `SteadyInv` (while the mirror rests, the run's commit is the mirrored one
  and a thread past its reading holds the text of that commit); and the two properties.

`RstBlocks_proofs`, for any set of pages and lines, of any length, from `RstAssumption` (lines are
lines, and those of class `dots` are those with a role):

* `BlocksTyped`: `SplitSpec => []SplitTypeOK`. `LinesPartitioned`: `SplitSpec => []Partition`. The
  invariant is `IInv`: `SplitTypeOK`, `Partition`, the bounds of each block (`Within`) and `Begun`: a
  block being read has begun at a line before the index or is a blank or prose block at its
  first line, where its loop's test holds.
* `DirectivesUntouched`: `SplitSpec => []DirectivesVerbatim`. `UnderlinesUntouched`: `SplitSpec =>
  []UnderlinesKept`. Both speak of the finished list of blocks, so the invariant `ShapeInv` adds what
  the loops leave in each block (`Shaped`: its first line, the lines behind it, and where it
  stops), that blocks come one behind the other (`Ordered`) and leave no line out (`Covered`), and that
  only lines of a block are sent (`FromBlocks`). A line of a directive that was sent
  would lie in another block, or break the shape of its own.

`Placeholders_proofs`, for texts of any length, from `PlaceholderAssumption` (symbols are no
numbers, as numbers stand for tokens):

* `TokensTyped`: `Spec => []TypeOK`. `EachTokenOnce`: `Spec => []TokensOnce`. The invariant is
  `TokenInv`: types, `Known` (each token has an entry, and an entry holds only tokens made before
  its own) and `Once` (a token stands at one place of the text, or in one entry). `TokensOnce` counts
  the tokens; with `Once`, which names their places, the cut and paste of `Replace` can be followed.
* `SourceKept`: `Spec => []ProtectLossless`.
  `SymbolsKept`: `Spec => []NothingDropped`. The invariant is `MeaningInv`, with `TokenInv`: until
  the translator has had it, the text expands to the source; from then on it holds every symbol as
  often, and what is restored so far is what the table says of the text up to `pos`, one level deep.
  Each entry holds only earlier tokens, so what a token stands for is defined by recursion on its
  number. That adding an entry leaves the meaning of the others alone, and that the meaning of a
  joined text is the meanings joined, are inductions; they are made on the sets of the numbers and
  sequences of which the statement is true (`NumbersFrom0`, `SequencesFromEmpty`).

`TranslationStatus_proofs`, for any finite set of sources and any changes of the tree, from
`StatusAssumption`:

* `StatusTyped`: `Spec => []TypeOK`. `ReportAgrees`: `Spec => []ReportConsistent`. `ReportsTrue`:
  `Spec => []ReportTrue`. `OldReportStays`: `Spec => OldReportKept`. The invariant is `StatusInv`:
  what the run's variables hold at each command (`Stages`), that the coverage file follows the
  sorted sources (`InStep`), that what the observer has seen bounds the tree and all that the run
  has noted of it (`Bounds`, `Witnessed`), and what a complete report is (`Whole`). That each
  section has one heading and one row rests on a lemma about paths: in the order of bytes, between
  two paths of a section lie only paths of that section (`BetweenInSection`).

`Figures_proofs`, for any images, pages, tools and edits and any number of writing processes, from
`FiguresAssumption`:

* `FiguresTyped`: `Spec => []TypeOK`. `ShownFresh`: `Spec => []FiguresFresh`. The invariant is
  `FiguresInv`: the commands a process has left follow from its step and the format (`Fits`); an
  undisturbed conversion carries the present content of its source (`Holds`); and of each image
  that is neither disturbed nor being written, an output that passes for newer is the image of its
  source as it stands, and one that a page shows is no older than when the build began (`Fresh`).
  The property says nothing of outputs that no page shows; without `Fresh` the next build
  could take one of them for current.

`HtmlBuild_proofs`, for any pages, files, sources and edits, from `SiteAssumption` (the sources are
well formed, a revision of one is, and each directive but those of the ABI and of features names a
file) and `PlaceAssumption` (an edit does not move a page; no two documents differ in the suffix only;
there are no translations of translations), both true of the tree; only `LinksLeadRight` and
`BuildTyped` use the second:

* `NothingLost`: `Spec => []TextKept`. The invariant is `MarkInv`: the pieces made so far cover
  the text up to where `markup_refs` has come (`Cover`); where no matches overlap, each begins where
  the one before ends (`Chain`); and the matches that are left are sorted and ahead (`Ahead`), which
  is what makes the next piece begin there.
* `PartTakesSame`: `Spec => []SubprojectAlike`. The invariant says that a build under way has the
  configuration of its setting (`Configured`) and that documents are well formed (`Sourced`). The rest is
  about the patterns: made relative to the directory that is built, each excludes the same documents
  of it, or lies outside of it, or excludes it as a whole (`SameTaken`).
* `PagesHoldTheirFiles`: `Spec => []IncludesCurrent`. The invariant is `HeldInv`, with `Sourced`: every
  change of a file makes a version that there was not before (`Stamps`), so what the cache or a page
  holds of an older version never becomes current again; what the page being read has taken in and is
  still there was noted, was exempt, or will make the page count as raced (`ReadInv`); each entry, of the
  environment and of the build, keeps that until a file it noted changes (`Entries`); and the
  configuration on which a page's directives depend is settled (`Settled`).

* `LinksLeadRight`: `Spec => []LinksRight`. Three invariants, one per part of the property.
  `LinkInv`: the cache of failed lookups is empty, since a lookup that fails counts as found, and
  each match that `markup_refs` has come to was replaced by what it is marked up as, on an HTML page in
  its own namespace and with every declaration within reach (`Replaced`). `DeclInv`: no two pages have one name (`Placed`), and the
  entry of each page that need not be read again is as the page stands (`Right`). `WarnInv`: while a page is
  read, the files of its `:warn-broken:` directives are noted or to come (`Warned`), and the page
  written last has the menu of its document and, if this build read it, has been warned of (`MenuInv`).
* `BuildTyped`: `Spec => []TypeOK`, of the build and of the extensions it runs. The invariants
  are `TableInv` (a row has cells, and none is longer than the table once it is measured),
  `PieceInv` (pieces lie in the text and links lead to names) and `BuildInv` (what the
  environment holds, and that HTML pages are written only if they were read). That a row
  keeps its cells when others widen it rests on the closed form of `Widened`.

Model-checked only:

* `TranslateRst`, the composition: the theorems of `RstBlocks_proofs` and `Placeholders_proofs` are about
  its two parts, each by itself;
* liveness (`InitRecovers`, `RunEnds`, `RerunCompletes`, `AllRendered`, `Converges`): the proof
  system does neither liveness under fairness nor `ENABLED`;
* `Rectangular`, which is about the layout of a whole table by two nested folds over choices of the
  first free column. It needs an invariant about the places that each partly widened row
  will come to take. That its three conditions suffice is known for the tables of the run.

## 6. Plan and limits

The modules planned are written, and nothing that the runs check as an invariant or an action
property is left to prove but `Rectangular`.

Not modelled, and why:

* the wording of reports, logs and warnings, themes, LaTeX preambles and the other settings of
  `conf.py` that nothing in the repository computes with;
* `Documentation/Makefile`, which starts `sphinx-build-wrapper` of the kernel tree, and the
  kernel's own parsers that `kerneldoc.py`, `kernel_abi.py`, `kernel_feat.py` and
  `parser_yaml.py` call: this repository does not hold them;
* in `kfigure.py` the numbering of captions (`add_kernel_figure_to_std_domain`), which copies what
  Sphinx does for its own figures, and the building of nodes;
* builders that share the doctrees of one environment (the index link of a partial build is
  for HTML only, and stays in a page that another builder then writes), and pages that a
  stopped build has read and saved but not written, which Sphinx finds by the times of its
  outputs: in the model a build writes the pages it has read, and no property is about
  outputs that are older;
* the mirrored documents and sample programs, which no script runs.
