--------------------------- MODULE UpstreamSync ---------------------------
(***************************************************************************)
(* The three scripts that mirror the kernel's Documentation/ tree:         *)
(*   scripts/init-upstream.sh, scripts/sync-upstream.sh and                *)
(*   scripts/diff-upstream.sh, with the helpers of scripts/lib/common.sh.  *)
(*                                                                         *)
(* A run of a script is a process.  Each command of the script that        *)
(* touches shared state (the working tree, the UPSTREAM file, the scratch  *)
(* clone _upstream/) is an action.  A command may fail (`set -e` ends the  *)
(* script through its EXIT trap) and a run may be killed (no trap).        *)
(* git, rsync, cp and rm are external: they are modelled by what these     *)
(* scripts rely on.                                                        *)
(***************************************************************************)
EXTENDS Naturals

CONSTANTS
  Procs,       \* slots in which scripts run (one terminal or CI job each)
  Exclusive,   \* TRUE: a script starts only while no other script runs
  Refs,        \* refs of the kernel repository that a user may name
  Branches,    \* the refs that move
  Master,      \* the branch "master"
  NoRef,       \* the empty string in place of a ref
  Versions,    \* commits, numbered in the order they were made
  NoSha,       \* the empty string in place of a commit SHA
  Docs,        \* paths below Documentation/
  ViPages,     \* those below Documentation/translations/vi_VN/
  Copying,     \* the file COPYING
  Licenses,    \* the directory LICENSES/, as one path
  Blobs,       \* what a path can hold: file contents and symbolic links
  Links,       \* the symbolic links
  Absent,      \* what an absent path holds
  Content      \* Content[v][d]: what commit v holds at path d

Tracked == Docs \cup {Copying, Licenses}

(* What a path of the tree, or of a clone, can hold. *)
Held == Blobs \cup {Absent}

ASSUME SyncAssumption ==
  /\ Exclusive \in BOOLEAN
  /\ Branches \subseteq Refs
  /\ Master \in Branches
  /\ NoRef \notin Refs
  /\ Versions \subseteq Nat
  /\ NoSha \notin Versions
  /\ ViPages \subseteq Docs
  /\ Copying \notin Docs
  /\ Licenses \notin Docs
  /\ Copying # Licenses
  /\ Absent \notin Blobs
  /\ Links \subseteq Blobs
  /\ Content \in [Versions -> [Tracked -> Held]]
  /\ \A v \in Versions : Content[v][Copying] # Absent /\ Content[v][Licenses] # Absent

VARIABLES
  remote,        \* the kernel repository: what commit each ref names
  tree,          \* the working tree, path by path
  upstreamFile,  \* the UPSTREAM provenance file
  scratchDir,    \* whether _upstream/ exists
  scratchGit,    \* the clone in _upstream/.git: its branch or tag and commit
  scratchFiles,  \* the files checked out below _upstream/
  pc,            \* what each run does next
  script,        \* which script it runs
  ref,           \* its REF
  newSha,        \* its new_sha (sync, diff) or sha (init)
  todo,          \* the paths its rsync has yet to reach
  summary,       \* the paths it printed as "A", "M" and "D"; observer: what it saw
  outcome,       \* how it ended
  torn           \* observer: an apply was cut short and none completed since

scratch == <<scratchDir, scratchGit, scratchFiles>>
shared == <<remote, tree, upstreamFile, scratch>>
locals == <<script, ref, newSha, todo, summary>>
vars == <<remote, tree, upstreamFile, scratchDir, scratchGit, scratchFiles, pc,
          script, ref, newSha, todo, summary, outcome, torn>>

Scripts == {"init", "sync", "diff"}

(* The commands of a run, in the order of the scripts. *)
Labels == {"idle", "rm", "clone", "checkout", "sha", "compare", "preview", "rsync",
           "copying", "rmlic", "cplic", "truncate", "write", "trap"}

Outcomes == {"none", "synced", "current", "shown", "failed"}

(* Mutant: the --exclude option forgotten. *)
NothingExcluded == {}

(* The paths rsync neither sends nor deletes: --exclude="/translations/vi_VN". *)
Excluded == ViPages

(* The machine translations and other local output: paths that no commit has. *)
LocalPages == {d \in Docs \ ViPages : \A v \in Versions : Content[v][d] = Absent}

NoFiles == [d \in Tracked |-> Absent]

NoClone == [ref |-> NoRef, commit |-> NoSha]

(* Documentation/ as rsync compares it, on either side. *)
Compared == [Docs \ Excluded -> Held]

NoneCompared == [d \in Docs \ Excluded |-> Absent]

(* The three lists, and the two sides that the dry run compared. *)
Summaries == [added : SUBSET Docs, modified : SUBSET Docs, deleted : SUBSET Docs,
              from : Compared, to : Compared]

NoSummary == [added |-> {}, modified |-> {}, deleted |-> {},
              from |-> NoneCompared, to |-> NoneCompared]

TypeOK ==
  /\ remote \in [Refs -> Versions]
  /\ tree \in [Tracked -> Held]
  /\ upstreamFile \in [exists : BOOLEAN, ref : Refs \cup {NoRef},
                       commit : Versions \cup {NoSha}]
  /\ scratchDir \in BOOLEAN
  /\ scratchGit \in [ref : Refs \cup {NoRef}, commit : Versions \cup {NoSha}]
  /\ scratchFiles \in [Tracked -> Held]
  /\ pc \in [Procs -> Labels]
  /\ script \in [Procs -> Scripts]
  /\ ref \in [Procs -> Refs \cup {NoRef}]
  /\ newSha \in [Procs -> Versions \cup {NoSha}]
  /\ todo \in [Procs -> SUBSET Docs]
  /\ summary \in [Procs -> Summaries]
  /\ outcome \in [Procs -> Outcomes]
  /\ torn \in BOOLEAN

(* A repository before its first import. *)
Init ==
  /\ remote \in [Refs -> Versions]
  /\ tree = NoFiles
  /\ upstreamFile = [exists |-> FALSE, ref |-> NoRef, commit |-> NoSha]
  /\ scratchDir = FALSE
  /\ scratchGit = NoClone
  /\ scratchFiles = NoFiles
  /\ pc = [p \in Procs |-> "idle"]
  /\ script = [p \in Procs |-> "sync"]
  /\ ref = [p \in Procs |-> NoRef]
  /\ newSha = [p \in Procs |-> NoSha]
  /\ todo = [p \in Procs |-> {}]
  /\ summary = [p \in Procs |-> NoSummary]
  /\ outcome = [p \in Procs |-> "none"]
  /\ torn = FALSE

----------------------------------------------------------------------------
(* Starting a script. *)

At(p, label) == pc[p] = label

Goto(p, label) == pc' = [pc EXCEPT ![p] = label]

AllIdle == \A p \in Procs : At(p, "idle")

(* Mutant: read_upstream_field called with the wrong key. *)
DefaultRefWrongKey(s) ==
  IF s = "init" \/ ~upstreamFile.exists THEN Master ELSE upstreamFile.commit

(* REF without an argument: read_upstream_field fails only when the file is
   missing, an empty file yields the empty string. *)
DefaultRef(s) ==
  IF s = "init" \/ ~upstreamFile.exists THEN Master ELSE upstreamFile.ref

Start(p) ==
  /\ At(p, "idle")
  /\ Exclusive => AllIdle
  /\ \E s \in Scripts : \E r \in Refs \cup {DefaultRef(s)} :
       /\ script' = [script EXCEPT ![p] = s]
       /\ ref' = [ref EXCEPT ![p] = r]
  /\ Goto(p, "rm")
  /\ UNCHANGED <<shared, newSha, todo, summary, outcome, torn>>

(* The shell's variables go with its process. *)
EndRun(p) ==
  /\ Goto(p, "idle")
  /\ script' = [script EXCEPT ![p] = "sync"]
  /\ ref' = [ref EXCEPT ![p] = NoRef]
  /\ newSha' = [newSha EXCEPT ![p] = NoSha]
  /\ todo' = [todo EXCEPT ![p] = {}]
  /\ summary' = [summary EXCEPT ![p] = NoSummary]
  /\ outcome' = [outcome EXCEPT ![p] = "none"]

----------------------------------------------------------------------------
(* rm -rf of the scratch directory: at the head of sparse_clone and in the
   EXIT trap.  It unlinks one entry at a time, in no given order. *)

ScratchEmpty == scratchGit = NoClone /\ scratchFiles = NoFiles

Removing(p) == At(p, "rm") \/ At(p, "trap")

RemoveEntry(p) ==
  /\ Removing(p)
  /\ \/ /\ scratchGit # NoClone
        /\ scratchGit' = NoClone
        /\ UNCHANGED scratchFiles
     \/ /\ \E d \in Tracked :
             /\ scratchFiles[d] # Absent
             /\ scratchFiles' = [scratchFiles EXCEPT ![d] = Absent]
        /\ UNCHANGED scratchGit
  /\ UNCHANGED <<remote, tree, upstreamFile, scratchDir, pc, locals, outcome, torn>>

(* Mutant: rm -rf "$dest"/* , which leaves the dot file .git behind. *)
RemoveDoneGlob(p) ==
  /\ Removing(p)
  /\ scratchFiles = NoFiles
  /\ IF At(p, "rm")
     THEN Goto(p, "clone") /\ UNCHANGED <<locals, outcome>>
     ELSE EndRun(p)
  /\ UNCHANGED <<remote, tree, upstreamFile, scratch, torn>>

RemoveDone(p) ==
  /\ Removing(p)
  /\ ScratchEmpty
  /\ scratchDir' = FALSE
  /\ IF At(p, "rm")
     THEN Goto(p, "clone") /\ UNCHANGED <<locals, outcome>>
     ELSE EndRun(p)
  /\ UNCHANGED <<remote, tree, upstreamFile, scratchGit, scratchFiles, torn>>

(* git clone --no-checkout --branch REF: refuses a REF it does not find, the
   empty one included, and a destination that is not empty. *)
Clone(p) ==
  /\ At(p, "clone")
  /\ ref[p] \in Refs
  /\ ScratchEmpty
  /\ scratchDir' = TRUE
  /\ scratchGit' = [ref |-> ref[p], commit |-> remote[ref[p]]]
  /\ Goto(p, "checkout")
  /\ UNCHANGED <<remote, tree, upstreamFile, scratchFiles, locals, outcome, torn>>

(* git checkout REF within the sparse cone: a clone of another branch does not
   know REF. *)
Checkout(p) ==
  /\ At(p, "checkout")
  /\ scratchGit.commit # NoSha
  /\ scratchGit.ref = ref[p]
  /\ scratchFiles' = Content[scratchGit.commit]
  /\ Goto(p, IF script[p] = "init" THEN "rsync" ELSE "sha")
  /\ todo' = [todo EXCEPT ![p] = IF script[p] = "init" THEN Docs \ Excluded ELSE {}]
  /\ UNCHANGED <<remote, tree, upstreamFile, scratchDir, scratchGit, script, ref,
                 newSha, summary, outcome, torn>>

(* Mutant: the commit is asked of the server (git ls-remote), not of the clone. *)
ReadShaRemote(p) ==
  /\ At(p, "sha")
  /\ scratchGit.commit # NoSha
  /\ newSha' = [newSha EXCEPT ![p] = remote[ref[p]]]
  /\ Goto(p, CASE script[p] = "sync" -> "compare"
               [] script[p] = "diff" -> "preview"
               [] script[p] = "init" -> "truncate")
  /\ UNCHANGED <<shared, script, ref, todo, summary, outcome, torn>>

(* upstream_sha: sync and diff read it before they touch anything, init after. *)
ReadSha(p) ==
  /\ At(p, "sha")
  /\ scratchGit.commit # NoSha
  /\ newSha' = [newSha EXCEPT ![p] = scratchGit.commit]
  /\ Goto(p, CASE script[p] = "sync" -> "compare"
               [] script[p] = "diff" -> "preview"
               [] script[p] = "init" -> "truncate")
  /\ UNCHANGED <<shared, script, ref, todo, summary, outcome, torn>>

(* "already at SHA; nothing to do": exit 0 without looking at the tree. *)
Compare(p) ==
  /\ At(p, "compare")
  /\ IF upstreamFile.commit # NoSha /\ upstreamFile.commit = newSha[p]
     THEN /\ Goto(p, "trap")
          /\ outcome' = [outcome EXCEPT ![p] = "current"]
     ELSE /\ Goto(p, "preview")
          /\ UNCHANGED outcome
  /\ UNCHANGED <<shared, locals, torn>>

(* The regular files below Documentation/ that rsync compares. *)
Regular(files) == {d \in Docs \ Excluded : files[d] \notin Links \cup {Absent}}

Saw(files) == [d \in Docs \ Excluded |-> files[d]]

(* Mutant: the dry run without --delete. *)
ItemizeNoDelete ==
  LET sent == Regular(scratchFiles)
      held == Regular(tree)
  IN  [added |-> sent \ held, modified |-> sent \cap held, deleted |-> {},
       from |-> Saw(tree), to |-> Saw(scratchFiles)]

(* rsync -ain and its awk filter, which prints ">f" and "*deleting" lines alone: a
   symbolic link that rsync makes is a "cL" line.  A file in the place of a link is new.
   Files of a fresh clone carry the time of their checkout, so that rsync's size-and-time
   test takes every file present on both sides for changed, and the filter prints it as
   M. *)
Itemize ==
  LET sent == Regular(scratchFiles)
      held == Regular(tree)
  IN  [added |-> sent \ held,
       modified |-> sent \cap held,
       deleted |-> {d \in Docs \ Excluded : tree[d] # Absent /\ scratchFiles[d] = Absent},
       from |-> Saw(tree),
       to |-> Saw(scratchFiles)]

(* Mutant: diff-upstream.sh copied from sync-upstream.sh, -n forgotten. *)
PreviewApplies(p) ==
  /\ At(p, "preview")
  /\ scratchDir
  /\ summary' = [summary EXCEPT ![p] = Itemize]
  /\ Goto(p, "rsync")
  /\ todo' = [todo EXCEPT ![p] = Docs \ Excluded]
  /\ UNCHANGED <<shared, script, ref, newSha, outcome, torn>>

Preview(p) ==
  /\ At(p, "preview")
  /\ scratchDir
  /\ summary' = [summary EXCEPT ![p] = Itemize]
  /\ IF script[p] = "sync"
     THEN /\ Goto(p, "rsync")
          /\ todo' = [todo EXCEPT ![p] = Docs \ Excluded]
          /\ UNCHANGED outcome
     ELSE /\ Goto(p, "trap")
          /\ outcome' = [outcome EXCEPT ![p] = "shown"]
          /\ UNCHANGED todo
  /\ UNCHANGED <<shared, script, ref, newSha, torn>>

----------------------------------------------------------------------------
(* Applying: rsync -a --delete, then COPYING, LICENSES/ and UPSTREAM. *)

(* Mutant: the real run without --delete. *)
RsyncPathNoDelete(p) ==
  /\ At(p, "rsync")
  /\ scratchDir
  /\ \E d \in todo[p] :
       /\ tree' = [tree EXCEPT ![d] = IF scratchFiles[d] = Absent THEN @ ELSE scratchFiles[d]]
       /\ todo' = [todo EXCEPT ![p] = @ \ {d}]
  /\ UNCHANGED <<remote, upstreamFile, scratch, pc, script, ref, newSha, summary,
                 outcome, torn>>

(* rsync writes a temporary file and renames it: a path changes at once. *)
RsyncPath(p) ==
  /\ At(p, "rsync")
  /\ scratchDir
  /\ \E d \in todo[p] :
       /\ tree' = [tree EXCEPT ![d] = scratchFiles[d]]
       /\ todo' = [todo EXCEPT ![p] = @ \ {d}]
  /\ UNCHANGED <<remote, upstreamFile, scratch, pc, script, ref, newSha, summary,
                 outcome, torn>>

RsyncDone(p) ==
  /\ At(p, "rsync")
  /\ todo[p] = {}
  /\ Goto(p, "copying")
  /\ UNCHANGED <<shared, locals, outcome, torn>>

CopyCopying(p) ==
  /\ At(p, "copying")
  /\ scratchFiles[Copying] # Absent
  /\ tree' = [tree EXCEPT ![Copying] = scratchFiles[Copying]]
  /\ Goto(p, "rmlic")
  /\ UNCHANGED <<remote, upstreamFile, scratch, locals, outcome, torn>>

RemoveLicenses(p) ==
  /\ At(p, "rmlic")
  /\ tree' = [tree EXCEPT ![Licenses] = Absent]
  /\ Goto(p, "cplic")
  /\ UNCHANGED <<remote, upstreamFile, scratch, locals, outcome, torn>>

CopyLicenses(p) ==
  /\ At(p, "cplic")
  /\ scratchFiles[Licenses] # Absent
  /\ tree' = [tree EXCEPT ![Licenses] = scratchFiles[Licenses]]
  /\ Goto(p, IF script[p] = "init" THEN "sha" ELSE "truncate")
  /\ UNCHANGED <<remote, upstreamFile, scratch, locals, outcome, torn>>

(* upstream_commit_date needs the clone, then `cat > UPSTREAM` truncates. *)
TruncateUpstream(p) ==
  /\ At(p, "truncate")
  /\ scratchGit.commit # NoSha
  /\ upstreamFile' = [exists |-> TRUE, ref |-> NoRef, commit |-> NoSha]
  /\ Goto(p, "write")
  /\ UNCHANGED <<remote, tree, scratch, locals, outcome, torn>>

WriteUpstream(p) ==
  /\ At(p, "write")
  /\ upstreamFile' = [exists |-> TRUE, ref |-> ref[p], commit |-> newSha[p]]
  /\ torn' = FALSE
  /\ outcome' = [outcome EXCEPT ![p] = "synced"]
  /\ Goto(p, "trap")
  /\ UNCHANGED <<remote, tree, scratch, locals>>

----------------------------------------------------------------------------
(* Faults and the environment. *)

(* A run that has begun to replace mirrored paths or UPSTREAM. *)
Applying(p) ==
  \/ pc[p] \in {"rsync", "copying", "rmlic", "cplic", "truncate", "write"}
  \/ At(p, "sha") /\ script[p] = "init"

(* Cut short, such a run leaves the mirror torn. *)
CutShort(p) == torn' = (torn \/ Applying(p))

(* Mutant: a failed rsync does not end the run (no set -e). *)
FailIgnored(p) ==
  /\ pc[p] \notin {"idle", "trap"}
  /\ Goto(p, IF At(p, "rsync") THEN "copying" ELSE "trap")
  /\ outcome' = [outcome EXCEPT ![p] = IF At(p, "rsync") THEN @ ELSE "failed"]
  /\ torn' = (torn \/ (Applying(p) /\ ~At(p, "rsync")))
  /\ UNCHANGED <<shared, locals>>

(* A command ends with an error: set -e, EXIT trap. *)
Fail(p) ==
  /\ pc[p] \notin {"idle", "trap"}
  /\ Goto(p, "trap")
  /\ outcome' = [outcome EXCEPT ![p] = "failed"]
  /\ CutShort(p)
  /\ UNCHANGED <<shared, locals>>

(* SIGKILL or power loss: the trap does not run, _upstream/ stays. *)
Kill(p) ==
  /\ ~At(p, "idle")
  /\ EndRun(p)
  /\ CutShort(p)
  /\ UNCHANGED shared

(* The kernel's branch moves on. *)
UpstreamMoves ==
  /\ \E b \in Branches, v \in Versions :
       /\ v > remote[b]
       /\ remote' = [remote EXCEPT ![b] = v]
  /\ UNCHANGED <<tree, upstreamFile, scratch, pc, locals, outcome, torn>>

(* A translator edits a page below vi_VN/, or mt.py or a local build writes a file
   below Documentation/ where the kernel has none. *)
LocalEdit ==
  /\ \E d \in ViPages \cup LocalPages, b \in Blobs \ Links :
       /\ Exclusive => d \in ViPages \/ AllIdle
       /\ tree' = [tree EXCEPT ![d] = b]
  /\ UNCHANGED <<remote, upstreamFile, scratch, pc, locals, outcome, torn>>

Step(p) ==
  \/ RemoveEntry(p)
  \/ RemoveDone(p)
  \/ Clone(p)
  \/ Checkout(p)
  \/ ReadSha(p)
  \/ Compare(p)
  \/ Preview(p)
  \/ RsyncPath(p)
  \/ RsyncDone(p)
  \/ CopyCopying(p)
  \/ RemoveLicenses(p)
  \/ CopyLicenses(p)
  \/ TruncateUpstream(p)
  \/ WriteUpstream(p)

Next ==
  \/ \E p \in Procs : Start(p) \/ Step(p) \/ Fail(p) \/ Kill(p)
  \/ UpstreamMoves
  \/ LocalEdit

(* A command whose input is missing can only fail. *)
Refused(p) ==
  \/ At(p, "clone") /\ (ref[p] \notin Refs \/ ~ScratchEmpty)
  \/ At(p, "checkout") /\ (scratchGit.commit = NoSha \/ scratchGit.ref # ref[p])
  \/ pc[p] \in {"sha", "truncate"} /\ scratchGit.commit = NoSha
  \/ pc[p] \in {"preview", "rsync"} /\ ~scratchDir
  \/ At(p, "copying") /\ scratchFiles[Copying] = Absent
  \/ At(p, "cplic") /\ scratchFiles[Licenses] = Absent

(* A command that runs comes to an end. *)
Fairness == \A p \in Procs : WF_vars(Step(p) \/ (Refused(p) /\ Fail(p)))

Spec == Init /\ [][Next]_vars /\ Fairness

----------------------------------------------------------------------------
(* Properties. *)

(* What the scripts mirror: neither vi_VN/ nor what the kernel never had. *)
Mirrored == Tracked \ (ViPages \cup LocalPages)

(* A sync or init that reports success has made the whole tree outside vi_VN/,
   stale and local files included, equal to the commit UPSTREAM names, whatever
   earlier runs that failed or were killed had left behind; UPSTREAM names the
   ref it was given.  (rsync -a --delete, cp, write_upstream_file.) *)
SyncedMirrors ==
  \A p \in Procs :
    At(p, "trap") /\ outcome[p] = "synced" =>
      /\ upstreamFile.commit # NoSha
      /\ upstreamFile.commit = newSha[p]
      /\ upstreamFile.ref = ref[p]
      /\ \A d \in Tracked \ ViPages : tree[d] = Content[upstreamFile.commit][d]

(* The commit UPSTREAM names is the commit the tree mirrors, whenever no run is
   applying one, unless a run was cut short while applying and none has
   completed since. *)
Provenance ==
  /\ \A p \in Procs : ~Applying(p)
  /\ ~torn
  /\ upstreamFile.commit # NoSha
  => \A d \in Mirrored : tree[d] = Content[upstreamFile.commit][d]

(* The README's account of UPSTREAM, with no exception for runs cut short. *)
AlwaysTraceable ==
  AllIdle /\ upstreamFile.commit # NoSha =>
    \A d \in Mirrored : tree[d] = Content[upstreamFile.commit][d]

(* The summary of p is of what now happens to d: it saw what d held and what d now gets.
   One run at a time, that is so of every path, though the dry run and the rsync that
   applies are two commands; an edit or a second script between them may make it false. *)
Foreseen(p, d) ==
  \/ Exclusive
  \/ tree[d] = summary[p].from[d] /\ tree'[d] = summary[p].to[d]

(* The list that announces the change of d: sync-upstream.sh "prints a summary of added /
   modified / deleted files". *)
ListFor(p, d) ==
  CASE tree'[d] = Absent -> summary[p].deleted
    [] tree'[d] # Absent /\ tree[d] \in Links \cup {Absent} -> summary[p].added
    [] OTHER -> summary[p].modified

(* Each path that the rsync of a sync changes below Documentation/, and that the summary
   foresaw, is in the list that announces the change, unless it becomes a symbolic link:
   those the scripts do not print. *)
SummaryComplete ==
  [][\A p \in Procs :
       At(p, "rsync") /\ script[p] = "sync" =>
         \A d \in todo[p] \ todo'[p] :
           tree'[d] \notin Links \cup {tree[d]} /\ Foreseen(p, d) => d \in ListFor(p, d)]_vars

(* No script ever changes a page below vi_VN/: common.sh says it must never be
   overwritten by a sync. *)
ViUntouched == [][(\E d \in ViPages : tree'[d] # tree[d]) => LocalEdit]_vars

(* diff-upstream.sh previews a sync without touching the working tree. *)
DiffReadOnly ==
  [][\A p \in Procs :
       script[p] = "diff" /\ Step(p) => UNCHANGED <<tree, upstreamFile>>]_vars

(* The commit that the only run applies. *)
Applied == IF \E p \in Procs : Applying(p) THEN scratchGit.commit ELSE NoSha

Promise == INSTANCE Mirror WITH
  Paths <- Tracked,
  Removable <- {Licenses},
  upstream <- upstreamFile.commit,
  applying <- Applied

(* While one script runs at a time, the commands of init-upstream.sh and
   sync-upstream.sh implement the abstract mirror: one commit replaces the tree
   path by path, and UPSTREAM is emptied, then names it, only once the tree
   outside vi_VN/ is that commit. *)
ImplementsMirror == Promise!Spec

(* No command fails without need and no run is killed.  (A run killed when its
   trap has nothing left to do ends as if the trap had done it.) *)
Faultless ==
  [][\A p \in Procs : (Fail(p) => Refused(p)) /\ (Kill(p) => RemoveDone(p))]_vars

(* However runs were cut short before (a leftover scratch clone, a torn tree, a
   truncated UPSTREAM), once faults cease an import that names a ref succeeds:
   the repository never gets stuck. *)
InitRecovers ==
  <>Faultless =>
    \A p \in Procs :
      []<>(At(p, "rm") /\ script[p] = "init" /\ ref[p] \in Refs)
        => []<>(outcome[p] = "synced")
=============================================================================
