------------------------ MODULE TranslationStatus ------------------------
(***************************************************************************)
(* scripts/translation-status.sh: the coverage report.                     *)
(*                                                                         *)
(* A run lists the sources with find, tests for each whether a translation *)
(* exists, and prints totals, a table by section and the list of files     *)
(* from the two temporary files, while a sync or a translator may change   *)
(* the tree.  A path is the sequence of its bytes, because the report      *)
(* groups files by a change of section in their sorted order.              *)
(***************************************************************************)
EXTENDS Integers, FiniteSets, SequencesExt

CONSTANTS
  Sources,   \* paths of source files that there may be, as sequences of bytes
  Moving,    \* those that a sync may bring or remove
  Pages,     \* those that a translator may translate, or remove again
  Syncs,     \* how many versions of UPSTREAM there are, a bound
  Changes    \* how many changes of the tree a run may meet, a bound

Slash == 47

ASSUME StatusAssumption ==
  /\ Sources \subseteq Seq(1 .. 255)
  /\ IsFiniteSet(Sources)
  /\ Moving \subseteq Sources
  /\ Pages \subseteq Sources
  /\ Syncs \in Nat
  /\ Changes \in Nat

VARIABLES
  docs,       \* the sources below Documentation/
  vi,         \* the paths that exist below vi_VN/
  upstream,   \* the version of UPSTREAM, 0: there is no such file
  pc,         \* the next command of the run
  unseen,     \* the paths that find has yet to come to
  found,      \* the paths that it printed
  fields,     \* ref, sha and synced_at: the version each was read from
  sources,    \* $tmp_dir/sources
  coverage,   \* $tmp_dir/coverage
  total,      \* $total
  report,     \* TRANSLATION_STATUS.md
  seen        \* observer: what the tree has held since the run began

tree == <<docs, vi, upstream>>
run == <<unseen, found, fields, sources, coverage, total>>
vars == <<docs, vi, upstream, pc, unseen, found, fields, sources, coverage, total,
          report, seen>>

Labels == {"idle", "ref", "commit", "synced_at", "find", "sort", "test", "total",
           "truncate", "print"}

(* What `|| echo` puts in place of a field when there is no UPSTREAM. *)
Fallback == 0

Fields == {"ref", "commit", "synced_at"}

NoFields == [k \in Fields |-> Fallback]

Entries == [flag : {0, 1}, section : Seq(1 .. 255), rel : Sources]

NoReport == [state |-> "absent", fields |-> NoFields, total |-> 0, translated |-> 0,
             table |-> {}, list |-> <<>>]

TypeOK ==
  /\ docs \subseteq Sources
  /\ vi \subseteq Pages
  /\ upstream \in 0 .. Syncs
  /\ pc \in Labels
  /\ unseen \subseteq Sources
  /\ found \subseteq Sources
  /\ fields \in [Fields -> 0 .. Syncs]
  /\ sources \in Seq(Sources)
  /\ coverage \in Seq(Entries)
  /\ Len(coverage) <= Len(sources)
  /\ total \in 0 .. Cardinality(Sources)
  /\ report.state \in {"absent", "partial", "whole"}
  /\ report.translated \in 0 .. report.total
  /\ seen.changes \in 0 .. Changes

NothingSeen == [changes |-> 0, docs |-> {}, allDocs |-> {}, vi |-> {}, allVi |-> {},
                upstream |-> {}]

Init ==
  /\ docs = Sources
  /\ vi = {}
  /\ upstream = 0
  /\ pc = "idle"
  /\ unseen = {}
  /\ found = {}
  /\ fields = NoFields
  /\ sources = <<>>
  /\ coverage = <<>>
  /\ total = 0
  /\ report = NoReport
  /\ seen = NothingSeen

----------------------------------------------------------------------------
(* The order of the list, and sections. *)

(* Mutant: sort in a locale that looks at letters before punctuation. *)
BeforeInLocale(a, b) ==
  LET Letters(s) == SelectSeq(s, LAMBDA c : c > Slash)
      x == Letters(a)
      y == Letters(b)
  IN  \/ \E k \in 1 .. Len(x) :
           /\ k <= Len(y)
           /\ x[k] < y[k]
           /\ \A j \in 1 .. k - 1 : x[j] = y[j]
      \/ Len(x) < Len(y) /\ \A j \in 1 .. Len(x) : x[j] = y[j]

(* LC_ALL=C sort: bytes, the first that differs decides. *)
Before(a, b) ==
  \/ \E k \in 1 .. Len(a) :
       /\ k <= Len(b)
       /\ a[k] < b[k]
       /\ \A j \in 1 .. k - 1 : a[j] = b[j]
  \/ Len(a) < Len(b) /\ \A j \in 1 .. Len(a) : a[j] = b[j]

(* The lines of a set, in that order. *)
Sorted(S) ==
  {s \in [1 .. Cardinality(S) -> S] :
     /\ Range(s) = S
     /\ \A j, k \in 1 .. Cardinality(S) : j < k => Before(s[j], s[k])}

Root == <<>>

(* ${rel%%/*}, and (root) for a path without a slash. *)
Section(rel) ==
  LET slashes == {k \in 1 .. Len(rel) : rel[k] = Slash}
  IN  IF slashes = {} THEN Root
      ELSE SubSeq(rel, 1, (CHOOSE k \in slashes : \A j \in slashes : k <= j) - 1)

Marked(entries) == {k \in 1 .. Len(entries) : entries[k].flag = 1}

(* The awk script of the table: one row per section. *)
Table(entries) ==
  {[section |-> s,
    done |-> Cardinality({k \in Marked(entries) : entries[k].section = s}),
    total |-> Cardinality({k \in 1 .. Len(entries) : entries[k].section = s})] :
      s \in {entries[k].section : k \in 1 .. Len(entries)}}

(* The awk script of the list: where it prints a heading. *)
Headings(entries) ==
  {k \in 1 .. Len(entries) : k > 1 => entries[k].section # entries[k - 1].section}

----------------------------------------------------------------------------
(* The commands of a run. *)

(* mktemp -d: the temporary files of a run are its own. *)
Start ==
  /\ pc = "idle"
  /\ pc' = "ref"
  /\ seen' = [changes |-> 0, docs |-> docs, allDocs |-> docs, vi |-> vi, allVi |-> vi,
              upstream |-> {upstream}]
  /\ UNCHANGED <<tree, run, report>>

AfterField == [ref |-> "commit", commit |-> "synced_at", synced_at |-> "find"]

(* read_upstream_field opens UPSTREAM once for each field. *)
ReadField ==
  /\ pc \in Fields
  /\ fields' = [fields EXCEPT ![pc] = upstream]
  /\ pc' = AfterField[pc]
  /\ unseen' = IF pc = "synced_at" THEN Sources ELSE unseen
  /\ UNCHANGED <<tree, found, sources, coverage, total, report, seen>>

(* find comes to each path once, in any order, and prints it if it is there. *)
Find(rel) ==
  /\ pc = "find"
  /\ rel \in unseen
  /\ unseen' = unseen \ {rel}
  /\ found' = IF rel \in docs THEN found \cup {rel} ELSE found
  /\ UNCHANGED <<tree, pc, fields, sources, coverage, total, report, seen>>

Sort ==
  /\ pc = "find"
  /\ unseen = {}
  /\ pc' = "test"
  /\ sources' \in Sorted(found)
  /\ UNCHANGED <<tree, unseen, found, fields, coverage, total, report, seen>>

(* Mutant: the source tested for in place of its translation. *)
EntryOfSource(rel) ==
  [flag |-> IF rel \in docs THEN 1 ELSE 0, section |-> Section(rel), rel |-> rel]

Entry(rel) ==
  [flag |-> IF rel \in vi THEN 1 ELSE 0, section |-> Section(rel), rel |-> rel]

(* One turn of the loop: [[ -f "$VI_ROOT/$rel" ]]. *)
Test ==
  /\ pc = "test"
  /\ Len(coverage) < Len(sources)
  /\ coverage' = Append(coverage, Entry(sources[Len(coverage) + 1]))
  /\ UNCHANGED <<tree, pc, unseen, found, fields, sources, total, report, seen>>

TestsDone ==
  /\ pc = "test"
  /\ Len(coverage) = Len(sources)
  /\ pc' = "total"
  /\ UNCHANGED <<tree, run, report, seen>>

(* Mutant: one line too many. *)
CountOneMore ==
  /\ pc = "total"
  /\ total' = Len(sources) + 1
  /\ pc' = "truncate"
  /\ UNCHANGED <<tree, unseen, found, fields, sources, coverage, report, seen>>

Count ==
  /\ pc = "total"
  /\ total' = Len(sources)
  /\ pc' = "truncate"
  /\ UNCHANGED <<tree, unseen, found, fields, sources, coverage, report, seen>>

(* Mutant: a coverage file at a fixed place, which the next run finds. *)
EndRunKeeping ==
  /\ pc' = "idle"
  /\ unseen' = {}
  /\ found' = {}
  /\ fields' = NoFields
  /\ sources' = <<>>
  /\ total' = 0
  /\ seen' = NothingSeen
  /\ UNCHANGED coverage

(* The EXIT trap removes the temporary files. *)
EndRun ==
  /\ pc' = "idle"
  /\ unseen' = {}
  /\ found' = {}
  /\ fields' = NoFields
  /\ sources' = <<>>
  /\ coverage' = <<>>
  /\ total' = 0
  /\ seen' = NothingSeen

(* Mutant: the output redirected from the first command on. *)
TruncateFirst ==
  \/ /\ pc = "ref"
     /\ report' = [NoReport EXCEPT !.state = "partial"]
     /\ UNCHANGED <<tree, pc, run, seen>>
  \/ /\ pc = "truncate"
     /\ pc' = "print"
     /\ UNCHANGED <<tree, run, report, seen>>

(* > "$OUT" *)
Truncate ==
  /\ pc = "truncate"
  /\ report' = [NoReport EXCEPT !.state = "partial"]
  /\ pc' = "print"
  /\ UNCHANGED <<tree, run, seen>>

WriteReport ==
  /\ pc = "print"
  /\ report' = [state |-> "whole", fields |-> fields, total |-> total,
                translated |-> Cardinality(Marked(coverage)),
                table |-> Table(coverage), list |-> coverage]
  /\ EndRun
  /\ UNCHANGED tree

(* A command fails (find over a directory that has just gone, a full disk), or
   the run is killed. *)
Fail ==
  /\ pc # "idle"
  /\ EndRun
  /\ UNCHANGED <<tree, report>>

----------------------------------------------------------------------------
(* The environment: syncs and translators. *)

(* What is observed of a change that a run meets. *)
Observe ==
  IF pc = "idle" THEN UNCHANGED seen
  ELSE /\ seen.changes < Changes
       /\ seen' = [changes |-> seen.changes + 1,
                   docs |-> seen.docs \cup docs', allDocs |-> seen.allDocs \cap docs',
                   vi |-> seen.vi \cup vi', allVi |-> seen.allVi \cap vi',
                   upstream |-> seen.upstream \cup {upstream'}]

SyncPath(rel) ==
  /\ docs' = IF rel \in docs THEN docs \ {rel} ELSE docs \cup {rel}
  /\ UNCHANGED <<vi, upstream, pc, run, report>>
  /\ Observe

SyncUpstream ==
  /\ upstream < Syncs
  /\ upstream' = upstream + 1
  /\ UNCHANGED <<docs, vi, pc, run, report>>
  /\ Observe

Translator(rel) ==
  /\ vi' = IF rel \in vi THEN vi \ {rel} ELSE vi \cup {rel}
  /\ UNCHANGED <<docs, upstream, pc, run, report>>
  /\ Observe

Command ==
  \/ ReadField
  \/ \E rel \in Sources : Find(rel)
  \/ Sort
  \/ Test
  \/ TestsDone
  \/ Count
  \/ Truncate
  \/ WriteReport

Next ==
  \/ Start
  \/ Command
  \/ Fail
  \/ \E rel \in Moving : SyncPath(rel)
  \/ SyncUpstream
  \/ \E rel \in Pages : Translator(rel)

(* A run takes its next step.  Nobody is obliged to start one. *)
Spec == Init /\ [][Next]_vars /\ WF_vars(Command)

----------------------------------------------------------------------------
(* Properties. *)

Listed(entries) == {entries[k].rel : k \in 1 .. Len(entries)}

Done(entries) == {entries[k].rel : k \in Marked(entries)}

(* However the tree changes during a run, the head of a report, its table and its list
   agree: the totals are the numbers of lines and of marks, no file is listed twice, the
   rows of the table count the lines and the marks of all sections of the list, and a
   section has one heading; only the files at the top, which sort between the
   directories, come in several groups. *)
ReportConsistent ==
  report.state = "whole" =>
    /\ Len(report.list) = report.total
    /\ Cardinality(Listed(report.list)) = report.total
    /\ Cardinality(Marked(report.list)) = report.translated
    /\ \A k \in 1 .. Len(report.list) :
         \E row \in report.table : row.section = report.list[k].section
    /\ \A row \in report.table :
         LET lines == {k \in 1 .. Len(report.list) : report.list[k].section = row.section}
         IN  /\ row.total = Cardinality(lines)
             /\ row.done = Cardinality(lines \cap Marked(report.list))
    /\ \A j, k \in Headings(report.list) :
         report.list[j].section = report.list[k].section =>
           j = k \/ report.list[j].section = Root

(* A report says nothing that was not so during the run: every source that was
   there throughout is listed and none that never was, a mark is on every page
   that was there throughout and on none that never was, and the provenance was
   that of some moment.  Of a tree at rest it is exact. *)
ReportTrue ==
  [][report' # report /\ report'.state = "whole" =>
       /\ seen.allDocs \subseteq Listed(report'.list)
       /\ Listed(report'.list) \subseteq seen.docs
       /\ seen.allVi \cap Listed(report'.list) \subseteq Done(report'.list)
       /\ Done(report'.list) \subseteq seen.vi
       /\ \A k \in Fields : report'.fields[k] \in seen.upstream]_vars

(* A report is not touched before the run has counted and tested all that stayed
   in the tree: one that fails earlier leaves the old report whole. *)
OldReportKept ==
  [][report.state = "whole" /\ report' # report =>
       seen.allDocs \subseteq Listed(coverage) /\ total = Len(coverage)]_vars

Exact ==
  /\ Listed(report.list) = docs
  /\ Done(report.list) = vi \cap docs
  /\ \A k \in Fields : report.fields[k] = upstream

(* Once the tree is at rest and runs no longer fail, running again and again
   ends in a report that is exact, whatever earlier runs left. *)
Converges ==
  <>[][~Fail /\ UNCHANGED tree]_vars /\ []<>(pc = "ref") =>
    /\ []<>(report.state = "whole")
    /\ <>[](report.state = "whole" => Exact)
=============================================================================
