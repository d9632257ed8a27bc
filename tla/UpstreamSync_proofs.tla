----------------------- MODULE UpstreamSync_proofs -----------------------
(***************************************************************************)
(* Proofs about UpstreamSync, for any sets of refs, commits, paths and      *)
(* contents, any number of slots and any interleaving of faults.            *)
(***************************************************************************)
EXTENDS UpstreamSync, TLAPS

----------------------------------------------------------------------------
(* Type correctness. *)

LEMMA NoSummaryType == NoSummary \in Summaries
BY DEF NoSummary, NoneCompared, Summaries, Compared, Held

LEMMA InitType == Init => TypeOK
<1> SUFFICES ASSUME Init PROVE TypeOK
  OBVIOUS
<1>1. tree \in [Tracked -> Held] /\ scratchFiles \in [Tracked -> Held]
  BY DEF Init, NoFiles, Held
<1>2. summary \in [Procs -> Summaries]
  BY NoSummaryType DEF Init
<1>3. todo \in [Procs -> SUBSET Docs]
  BY DEF Init
<1> QED
  BY <1>1, <1>2, <1>3 DEF Init, TypeOK, NoClone, Labels, Scripts, Outcomes

LEMMA StartType ==
  ASSUME TypeOK, NEW p \in Procs, Start(p)
  PROVE  TypeOK'
<1>1. \A s \in Scripts : DefaultRef(s) \in Refs \cup {NoRef}
  BY SyncAssumption DEF TypeOK, DefaultRef
<1> QED
  BY <1>1 DEF TypeOK, Start, Goto, Labels, shared, scratch

LEMMA EndRunType ==
  ASSUME TypeOK, NEW p \in Procs, EndRun(p)
  PROVE  /\ pc' \in [Procs -> Labels]
         /\ script' \in [Procs -> Scripts]
         /\ ref' \in [Procs -> Refs \cup {NoRef}]
         /\ newSha' \in [Procs -> Versions \cup {NoSha}]
         /\ todo' \in [Procs -> SUBSET Docs]
         /\ summary' \in [Procs -> Summaries]
         /\ outcome' \in [Procs -> Outcomes]
BY NoSummaryType DEF TypeOK, EndRun, Goto, Labels, Scripts, Outcomes

LEMMA StepType ==
  ASSUME TypeOK, NEW p \in Procs, Step(p)
  PROVE  TypeOK'
<1> USE DEF At, Goto, shared, scratch, locals
<1>1. CASE RemoveEntry(p)
  BY <1>1 DEF TypeOK, RemoveEntry, NoClone, Held
<1>2. CASE RemoveDone(p)
  <2>1. CASE At(p, "rm")
    BY <1>2, <2>1 DEF TypeOK, RemoveDone, Labels
  <2>2. CASE ~At(p, "rm")
    BY <1>2, <2>2, EndRunType DEF TypeOK, RemoveDone
  <2> QED BY <2>1, <2>2
<1>3. CASE Clone(p)
  BY <1>3 DEF TypeOK, Clone, Labels
<1>4. CASE Checkout(p)
  <2>1. scratchFiles' \in [Tracked -> Held]
    BY <1>4, SyncAssumption DEF TypeOK, Checkout
  <2>2. Docs \ Excluded \in SUBSET Docs
    OBVIOUS
  <2> QED BY <1>4, <2>1, <2>2 DEF TypeOK, Checkout, Labels
<1>5. CASE ReadSha(p)
  <2>1. script[p] \in Scripts
    BY DEF TypeOK
  <2>2. pc' \in [Procs -> Labels]
    BY <1>5, <2>1 DEF TypeOK, ReadSha, Labels, Scripts
  <2> QED BY <1>5, <2>2 DEF TypeOK, ReadSha
<1>6. CASE Compare(p)
  BY <1>6 DEF TypeOK, Compare, Labels, Outcomes
<1>7. CASE Preview(p)
  <2>1. Itemize \in Summaries
    <3>1. Saw(tree) \in Compared /\ Saw(scratchFiles) \in Compared
      BY DEF TypeOK, Saw, Compared, Tracked
    <3> QED BY <3>1 DEF Itemize, Summaries, Regular
  <2>2. summary' \in [Procs -> Summaries]
    BY <1>7, <2>1 DEF TypeOK, Preview
  <2>3. CASE script[p] = "sync"
    <3>1. Docs \ Excluded \in SUBSET Docs
      OBVIOUS
    <3>2. todo' \in [Procs -> SUBSET Docs]
      BY <1>7, <2>3, <3>1 DEF TypeOK, Preview
    <3> QED BY <1>7, <2>2, <2>3, <3>2 DEF TypeOK, Preview, Labels
  <2>4. CASE script[p] # "sync"
    BY <1>7, <2>2, <2>4 DEF TypeOK, Preview, Labels, Outcomes
  <2> QED BY <2>3, <2>4
<1>8. CASE RsyncPath(p)
  BY <1>8 DEF TypeOK, RsyncPath, Tracked
<1>9. CASE RsyncDone(p)
  BY <1>9 DEF TypeOK, RsyncDone, Labels
<1>10. CASE CopyCopying(p)
  BY <1>10 DEF TypeOK, CopyCopying, Labels, Tracked
<1>11. CASE RemoveLicenses(p)
  BY <1>11 DEF TypeOK, RemoveLicenses, Labels, Held
<1>12. CASE CopyLicenses(p)
  BY <1>12 DEF TypeOK, CopyLicenses, Labels, Tracked
<1>13. CASE TruncateUpstream(p)
  BY <1>13 DEF TypeOK, TruncateUpstream, Labels
<1>14. CASE WriteUpstream(p)
  BY <1>14 DEF TypeOK, WriteUpstream, Labels, Outcomes
<1> QED
  BY <1>1, <1>2, <1>3, <1>4, <1>5, <1>6, <1>7, <1>8, <1>9, <1>10, <1>11, <1>12,
     <1>13, <1>14 DEF Step

LEMMA NextType == TypeOK /\ [Next]_vars => TypeOK'
<1> SUFFICES ASSUME TypeOK, [Next]_vars PROVE TypeOK'
  OBVIOUS
<1>1. ASSUME NEW p \in Procs, Start(p) PROVE TypeOK'
  BY <1>1, StartType
<1>2. ASSUME NEW p \in Procs, Step(p) PROVE TypeOK'
  BY <1>2, StepType
<1>3. ASSUME NEW p \in Procs, Fail(p) PROVE TypeOK'
  BY <1>3 DEF TypeOK, Fail, CutShort, Applying, At, Goto, Labels, Outcomes, shared,
              scratch, locals
<1>4. ASSUME NEW p \in Procs, Kill(p) PROVE TypeOK'
  <2>1. torn' \in BOOLEAN
    BY <1>4 DEF TypeOK, Kill, CutShort, Applying, At
  <2> QED BY <1>4, <2>1, EndRunType DEF TypeOK, Kill, shared, scratch
<1>5. CASE UpstreamMoves
  BY <1>5 DEF TypeOK, UpstreamMoves, scratch, locals
<1>6. CASE LocalEdit
  BY <1>6 DEF TypeOK, LocalEdit, Held, scratch, locals
<1>7. CASE UNCHANGED vars
  BY <1>7 DEF TypeOK, vars
<1> QED
  BY <1>1, <1>2, <1>3, <1>4, <1>5, <1>6, <1>7 DEF Next

(* Every variable keeps its type, whatever the interleaving of runs. *)
THEOREM TypeCorrect == Spec => []TypeOK
BY InitType, NextType, PTL DEF Spec

----------------------------------------------------------------------------
(* The inductive invariant.  It is about runs that do not overlap. *)

(* While a run is between its clone's checkout and its trap, the clone is whole,
   and it is the clone of the run's ref. *)
Reading == {"sha", "compare", "preview", "rsync", "copying", "rmlic", "cplic",
            "truncate", "write"}

CloneWhole(p) ==
  pc[p] \in Reading =>
    /\ scratchGit.commit \in Versions
    /\ scratchFiles = Content[scratchGit.commit]

(* A sync knows the clone's commit before it applies, an init after. *)
ShaKnown(p) ==
  \/ pc[p] \in {"compare", "preview", "truncate", "write"}
  \/ pc[p] \in {"rsync", "copying", "rmlic", "cplic"} /\ script[p] # "init"
  => newSha[p] = scratchGit.commit

(* Where a run finds itself in the middle of applying: rsync has brought all but
   todo in step with the clone, and each later command its own path. *)
DocsDone(p) ==
  Applying(p) => \A d \in Docs \ ViPages : d \in todo[p] \/ tree[d] = scratchFiles[d]

RsyncOver(p) ==
  pc[p] \in {"copying", "rmlic", "cplic", "truncate", "write"} \/
  (At(p, "sha") /\ script[p] = "init")
  => todo[p] = {}

CopyingDone(p) ==
  pc[p] \in {"rmlic", "cplic", "truncate", "write"} \/ (At(p, "sha") /\ script[p] = "init")
  => tree[Copying] = scratchFiles[Copying]

LicensesDone(p) ==
  pc[p] \in {"truncate", "write"} \/ (At(p, "sha") /\ script[p] = "init")
  => tree[Licenses] = scratchFiles[Licenses]

SyncedDone(p) ==
  At(p, "trap") /\ outcome[p] = "synced" =>
    /\ upstreamFile.commit # NoSha
    /\ upstreamFile.commit = newSha[p]
    /\ upstreamFile.ref = ref[p]
    /\ \A d \in Tracked \ ViPages : tree[d] = Content[upstreamFile.commit][d]

RunInv(p) ==
  /\ CloneWhole(p)
  /\ ShaKnown(p)
  /\ DocsDone(p)
  /\ RsyncOver(p)
  /\ CopyingDone(p)
  /\ LicensesDone(p)
  /\ SyncedDone(p)

(* Two runs are never active at once. *)
Alone == \A p, q \in Procs : p # q => At(p, "idle") \/ At(q, "idle")

IInv == TypeOK /\ Alone /\ (\A p \in Procs : RunInv(p)) /\ Provenance

LEMMA InitInv == Init => IInv
<1> SUFFICES ASSUME Init PROVE IInv
  OBVIOUS
<1>1. \A p \in Procs : At(p, "idle")
  BY DEF Init, At
<1>2. \A p \in Procs : RunInv(p)
  BY <1>1 DEF RunInv, CloneWhole, Reading, ShaKnown, DocsDone, RsyncOver, CopyingDone,
              LicensesDone, SyncedDone, Applying, At
<1>3. Provenance
  BY DEF Init, Provenance
<1> QED
  BY <1>1, <1>2, <1>3, InitType DEF IInv, Alone

(* An idle run is bound to nothing. *)
LEMMA IdleRunNext == \A p \in Procs : At(p, "idle")' => RunInv(p)'
BY DEF RunInv, CloneWhole, Reading, ShaKnown, DocsDone, RsyncOver, CopyingDone,
       LicensesDone, SyncedDone, Applying, At

(* A run that moves is the only one, before and after. *)
LEMMA MoverAlone ==
  ASSUME TypeOK, Alone, NEW p \in Procs, ~At(p, "idle"),
         NEW label \in Labels, Goto(p, label) \/ UNCHANGED pc
  PROVE  /\ Alone'
         /\ \A q \in Procs \ {p} : At(q, "idle") /\ At(q, "idle")'
BY DEF TypeOK, Alone, At, Goto

(* Where nothing is being applied after a step, nothing was before, and the
   mirror, UPSTREAM and torn are as they were, Provenance is kept. *)
LEMMA ProvenanceKept ==
  ASSUME Provenance, UNCHANGED <<tree, upstreamFile, torn>>,
         (\A p \in Procs : ~Applying(p))' => \A p \in Procs : ~Applying(p)
  PROVE  Provenance'
BY DEF Provenance

(* A run that is applying after the step leaves Provenance nothing to say. *)
LEMMA ProvenanceSuspended ==
  ASSUME NEW p \in Procs, Applying(p)'
  PROVE  Provenance'
BY DEF Provenance

LEMMA Paths ==
  /\ Copying \in Tracked \ Docs
  /\ Licenses \in Tracked \ Docs
  /\ Copying # Licenses
  /\ Docs \subseteq Tracked
  /\ \A d \in Tracked : d \in Docs \/ d = Copying \/ d = Licenses
BY SyncAssumption DEF Tracked

(* The commands before rsync. *)
LEMMA PrepareRun ==
  ASSUME IInv, NEW p \in Procs,
         \/ RemoveEntry(p)
         \/ RemoveDone(p)
         \/ Clone(p)
         \/ Checkout(p)
         \/ ReadSha(p)
         \/ Compare(p)
         \/ Preview(p)
  PROVE  RunInv(p)'
<1> USE DEF IInv, TypeOK, At, Goto, shared, scratch, locals, Labels, RunInv
<1>1. CASE RemoveEntry(p)
  <2>1. CASE At(p, "rm")
    BY <1>1, <2>1 DEF RemoveEntry, CloneWhole, Reading, ShaKnown, DocsDone, RsyncOver,
                      CopyingDone, LicensesDone, SyncedDone, Applying
  <2>2. CASE At(p, "trap")
    <3>1. SyncedDone(p)'
      BY <1>1, <2>2 DEF RemoveEntry, SyncedDone
    <3> QED BY <1>1, <2>2, <3>1 DEF RemoveEntry, CloneWhole, Reading, ShaKnown, DocsDone,
                      RsyncOver, CopyingDone, LicensesDone, Applying
  <2> QED BY <1>1, <2>1, <2>2 DEF RemoveEntry, Removing
<1>2. CASE RemoveDone(p)
  BY <1>2 DEF RemoveDone, EndRun, CloneWhole, Reading, ShaKnown, DocsDone, RsyncOver,
              CopyingDone, LicensesDone, SyncedDone, Applying
<1>3. CASE Clone(p)
  BY <1>3 DEF Clone, CloneWhole, Reading, ShaKnown, DocsDone, RsyncOver, CopyingDone,
              LicensesDone, SyncedDone, Applying
<1>4. CASE Checkout(p)
  <2>1. CloneWhole(p)'
    BY <1>4 DEF Checkout, CloneWhole
  <2>2. CASE script[p] = "init"
    <3>1. pc'[p] = "rsync" /\ script'[p] = "init" /\ todo'[p] = Docs \ ViPages
      BY <1>4, <2>2 DEF Checkout, Excluded
    <3>2. DocsDone(p)'
      BY <3>1 DEF DocsDone
    <3> QED BY <2>1, <3>1, <3>2 DEF ShaKnown, RsyncOver, CopyingDone, LicensesDone, SyncedDone
  <2>3. CASE script[p] # "init"
    <3>1. pc'[p] = "sha" /\ script'[p] # "init"
      BY <1>4, <2>3 DEF Checkout
    <3> QED BY <2>1, <3>1 DEF ShaKnown, DocsDone, RsyncOver, CopyingDone, LicensesDone,
                              SyncedDone, Applying
  <2> QED BY <2>2, <2>3
<1>5. CASE ReadSha(p)
  <2>1. script[p] \in {"init", "sync", "diff"}
    BY DEF Scripts
  <2>2. CloneWhole(p)' /\ newSha'[p] = scratchGit'.commit
    BY <1>5 DEF ReadSha, CloneWhole, Reading
  <2>3. CASE script[p] = "init"
    <3>1. pc'[p] = "truncate" /\ Applying(p) /\ todo'[p] = todo[p]
      BY <1>5, <2>3 DEF ReadSha, Applying
    <3> QED BY <1>5, <2>2, <2>3, <3>1 DEF ReadSha, ShaKnown, DocsDone, RsyncOver,
                              CopyingDone, LicensesDone, SyncedDone
  <2>4. CASE script[p] # "init"
    <3>1. pc'[p] \in {"compare", "preview"}
      BY <1>5, <2>1, <2>4 DEF ReadSha
    <3> QED BY <2>2, <3>1 DEF ShaKnown, DocsDone, RsyncOver, CopyingDone, LicensesDone,
                              SyncedDone, Applying
  <2> QED BY <2>3, <2>4
<1>6. CASE Compare(p)
  <2>1. CASE pc'[p] = "trap"
    <3>1. outcome'[p] # "synced"
      BY <1>6, <2>1 DEF Compare
    <3> QED BY <2>1, <3>1 DEF CloneWhole, Reading, ShaKnown, DocsDone, RsyncOver,
                              CopyingDone, LicensesDone, SyncedDone, Applying
  <2>2. CASE pc'[p] = "preview"
    <3>1. CloneWhole(p)' /\ ShaKnown(p)'
      BY <1>6, <2>2 DEF Compare, CloneWhole, ShaKnown, Reading
    <3> QED BY <2>2, <3>1 DEF DocsDone, RsyncOver, CopyingDone, LicensesDone, SyncedDone,
                              Applying
  <2> QED BY <1>6, <2>1, <2>2 DEF Compare
<1>7. CASE Preview(p)
  <2>1. CASE script[p] = "sync"
    <3>1. pc'[p] = "rsync" /\ todo'[p] = Docs \ ViPages
      BY <1>7, <2>1 DEF Preview, Excluded
    <3>2. CloneWhole(p)' /\ ShaKnown(p)'
      BY <1>7, <2>1, <3>1 DEF Preview, CloneWhole, ShaKnown, Reading
    <3>3. DocsDone(p)'
      BY <3>1 DEF DocsDone
    <3> QED BY <3>1, <3>2, <3>3 DEF RsyncOver, CopyingDone, LicensesDone, SyncedDone
  <2>2. CASE script[p] # "sync"
    <3>1. pc'[p] = "trap" /\ outcome'[p] = "shown"
      BY <1>7, <2>2 DEF Preview
    <3> QED BY <3>1 DEF CloneWhole, Reading, ShaKnown, DocsDone, RsyncOver, CopyingDone,
                        LicensesDone, SyncedDone, Applying
  <2> QED BY <2>1, <2>2
<1> QED
  BY <1>1, <1>2, <1>3, <1>4, <1>5, <1>6, <1>7

(* The commands that apply a commit. *)
LEMMA ApplyRun ==
  ASSUME IInv, NEW p \in Procs,
         \/ RsyncPath(p)
         \/ RsyncDone(p)
         \/ CopyCopying(p)
         \/ RemoveLicenses(p)
         \/ CopyLicenses(p)
         \/ TruncateUpstream(p)
         \/ WriteUpstream(p)
  PROVE  RunInv(p)'
<1> USE DEF IInv, TypeOK, At, Goto, shared, scratch, locals, Labels, RunInv
<1>1. CASE RsyncPath(p)
  <2>1. pc' = pc /\ At(p, "rsync")
    BY <1>1 DEF RsyncPath
  <2>2. CloneWhole(p)' /\ ShaKnown(p)'
    BY <1>1, <2>1 DEF RsyncPath, CloneWhole, ShaKnown, Reading
  <2>3. DocsDone(p)'
    <3>1. PICK d \in todo[p] : /\ tree' = [tree EXCEPT ![d] = scratchFiles[d]]
                               /\ todo'[p] = todo[p] \ {d}
      BY <1>1 DEF RsyncPath
    <3>2. d \in Tracked
      BY <3>1, Paths
    <3>3. \A e \in Docs \ ViPages : e \in todo[p] \/ tree[e] = scratchFiles[e]
      BY <2>1 DEF DocsDone, Applying
    <3>4. scratchFiles' = scratchFiles
      BY <1>1 DEF RsyncPath
    <3> QED BY <3>1, <3>2, <3>3, <3>4, Paths DEF DocsDone
  <2> QED BY <2>1, <2>2, <2>3 DEF RsyncOver, CopyingDone, LicensesDone, SyncedDone
<1>2. CASE RsyncDone(p)
  BY <1>2 DEF RsyncDone, CloneWhole, Reading, ShaKnown, DocsDone, RsyncOver, CopyingDone,
              LicensesDone, SyncedDone, Applying
<1>3. CASE CopyCopying(p)
  <2>1. pc'[p] = "rmlic" /\ At(p, "copying") /\ UNCHANGED <<script, todo, scratchFiles>>
    BY <1>3 DEF CopyCopying
  <2>2. CloneWhole(p)' /\ ShaKnown(p)'
    BY <1>3, <2>1 DEF CopyCopying, CloneWhole, ShaKnown, Reading
  <2>3. DocsDone(p)' /\ CopyingDone(p)'
    BY <1>3, <2>1, Paths DEF CopyCopying, DocsDone, CopyingDone, Applying
  <2> QED BY <2>1, <2>2, <2>3 DEF RsyncOver, LicensesDone, SyncedDone
<1>4. CASE RemoveLicenses(p)
  <2>1. pc'[p] = "cplic" /\ At(p, "rmlic") /\ UNCHANGED <<script, todo, scratchFiles>>
    BY <1>4 DEF RemoveLicenses
  <2>2. CloneWhole(p)' /\ ShaKnown(p)'
    BY <1>4, <2>1 DEF RemoveLicenses, CloneWhole, ShaKnown, Reading
  <2>3. DocsDone(p)' /\ CopyingDone(p)'
    BY <1>4, <2>1, Paths DEF RemoveLicenses, DocsDone, CopyingDone, Applying
  <2> QED BY <2>1, <2>2, <2>3 DEF RsyncOver, LicensesDone, SyncedDone
<1>5. CASE CopyLicenses(p)
  <2>1. /\ At(p, "cplic")
        /\ UNCHANGED <<script, todo, scratchFiles>>
        /\ pc'[p] = IF script[p] = "init" THEN "sha" ELSE "truncate"
    BY <1>5 DEF CopyLicenses
  <2>2. CloneWhole(p)' /\ ShaKnown(p)'
    BY <1>5, <2>1 DEF CopyLicenses, CloneWhole, ShaKnown, Reading
  <2>3. DocsDone(p)' /\ CopyingDone(p)' /\ LicensesDone(p)'
    BY <1>5, <2>1, Paths DEF CopyLicenses, DocsDone, CopyingDone, LicensesDone, Applying
  <2> QED BY <2>1, <2>2, <2>3 DEF RsyncOver, SyncedDone
<1>6. CASE TruncateUpstream(p)
  BY <1>6 DEF TruncateUpstream, CloneWhole, Reading, ShaKnown, DocsDone, RsyncOver,
              CopyingDone, LicensesDone, SyncedDone, Applying
<1>7. CASE WriteUpstream(p)
  <2>1. At(p, "write") /\ pc'[p] = "trap" /\ UNCHANGED <<tree, ref, newSha>>
    BY <1>7 DEF WriteUpstream
  <2>2. /\ scratchGit.commit \in Versions
        /\ scratchFiles = Content[scratchGit.commit]
        /\ newSha[p] = scratchGit.commit
    BY <2>1 DEF CloneWhole, Reading, ShaKnown
  <2>3. \A d \in Tracked \ ViPages : tree[d] = scratchFiles[d]
    BY <2>1, Paths DEF DocsDone, RsyncOver, CopyingDone, LicensesDone, Applying
  <2>4. upstreamFile'.commit = newSha[p] /\ upstreamFile'.ref = ref[p]
    BY <1>7 DEF WriteUpstream
  <2>5. SyncedDone(p)'
    BY <2>1, <2>2, <2>3, <2>4, SyncAssumption DEF SyncedDone
  <2> QED BY <2>1, <2>5 DEF CloneWhole, Reading, ShaKnown, DocsDone, RsyncOver,
              CopyingDone, LicensesDone, Applying
<1> QED
  BY <1>1, <1>2, <1>3, <1>4, <1>5, <1>6, <1>7

(* A step of a run keeps what binds it, frees no other run, and keeps the
   mirror and UPSTREAM in step. *)
LEMMA StepProvenance ==
  ASSUME IInv, NEW p \in Procs, Step(p), \A q \in Procs \ {p} : At(q, "idle") /\ At(q, "idle")'
  PROVE  Provenance'
<1> USE DEF IInv, TypeOK, At, Goto, shared, scratch, locals, Labels
<1>1. CASE RemoveEntry(p) \/ RemoveDone(p) \/ Clone(p) \/ Checkout(p) \/ Compare(p) \/ Preview(p)
  <2>1. UNCHANGED <<tree, upstreamFile, torn>>
    BY <1>1 DEF RemoveEntry, RemoveDone, Clone, Checkout, Compare, Preview
  <2>2. ~Applying(p)
    BY <1>1 DEF RemoveEntry, RemoveDone, Removing, Clone, Checkout, Compare, Preview, Applying
  <2>3. \A q \in Procs : ~Applying(q)
    BY <2>2 DEF Applying
  <2> QED BY <2>1, <2>3, ProvenanceKept
<1>2. CASE ReadSha(p)
  <2>1. UNCHANGED <<tree, upstreamFile, torn, script>>
    BY <1>2 DEF ReadSha
  <2>2. CASE script[p] = "init"
    BY <1>2, <2>2, ProvenanceSuspended DEF ReadSha, Applying
  <2>3. CASE script[p] # "init"
    <3>1. \A q \in Procs : ~Applying(q)
      BY <1>2, <2>3 DEF ReadSha, Applying
    <3> QED BY <2>1, <3>1, ProvenanceKept
  <2> QED BY <2>2, <2>3
<1>3. CASE RsyncPath(p) \/ RsyncDone(p) \/ CopyCopying(p) \/ RemoveLicenses(p)
           \/ CopyLicenses(p) \/ TruncateUpstream(p)
  <2>1. Applying(p)'
    BY <1>3 DEF RsyncPath, RsyncDone, CopyCopying, RemoveLicenses, CopyLicenses,
                TruncateUpstream, Applying
  <2> QED BY <2>1, ProvenanceSuspended
<1>4. CASE WriteUpstream(p)
  <2>1. SyncedDone(p)'
    BY <1>4, ApplyRun DEF RunInv
  <2>2. pc'[p] = "trap" /\ outcome'[p] = "synced"
    BY <1>4 DEF WriteUpstream, Outcomes
  <2> QED BY <2>1, <2>2 DEF SyncedDone, Provenance, Mirrored
<1> QED
  BY <1>1, <1>2, <1>3, <1>4 DEF Step

LEMMA OthersFree ==
  ASSUME NEW p \in Procs, \A q \in Procs \ {p} : At(q, "idle")', RunInv(p)'
  PROVE  \A q \in Procs : RunInv(q)'
<1>1. \A q \in Procs : At(q, "idle")' => RunInv(q)'
  BY IdleRunNext
<1> QED BY <1>1

LEMMA StepInv ==
  ASSUME Exclusive, IInv, NEW p \in Procs, Step(p)
  PROVE  IInv'
<1>1. TypeOK'
  BY StepType DEF IInv
<1>2. /\ ~At(p, "idle")
      /\ \E label \in Labels : Goto(p, label) \/ UNCHANGED pc
  <2>1. CASE RemoveEntry(p)
    BY <2>1 DEF RemoveEntry, Removing, At, Labels
  <2>2. CASE RemoveDone(p)
    BY <2>2 DEF RemoveDone, EndRun, Removing, At, Labels
  <2>3. CASE ReadSha(p) \/ CopyLicenses(p) \/ Checkout(p)
    <3>1. script[p] \in {"init", "sync", "diff"}
      BY DEF IInv, TypeOK, Scripts
    <3> QED BY <2>3, <3>1 DEF ReadSha, CopyLicenses, Checkout, At, Labels
  <2>4. CASE Compare(p) \/ Preview(p)
    BY <2>4 DEF Compare, Preview, At, Labels
  <2>5. CASE Clone(p) \/ RsyncPath(p) \/ RsyncDone(p) \/ CopyCopying(p)
             \/ RemoveLicenses(p) \/ TruncateUpstream(p) \/ WriteUpstream(p)
    BY <2>5 DEF Clone, RsyncPath, RsyncDone, CopyCopying, RemoveLicenses,
                TruncateUpstream, WriteUpstream, At, Labels
  <2> QED BY <2>1, <2>2, <2>3, <2>4, <2>5 DEF Step
<1>3. Alone' /\ \A q \in Procs \ {p} : At(q, "idle") /\ At(q, "idle")'
  BY <1>2, MoverAlone DEF IInv
<1>4. RunInv(p)'
  BY PrepareRun, ApplyRun DEF Step
<1>5. \A q \in Procs : RunInv(q)'
  BY <1>3, <1>4, OthersFree
<1>6. Provenance'
  BY <1>3, StepProvenance
<1> QED BY <1>1, <1>3, <1>5, <1>6 DEF IInv

(* A fault frees the run and is remembered in torn. *)
LEMMA FaultInv ==
  ASSUME Exclusive, IInv, NEW p \in Procs, Fail(p) \/ Kill(p)
  PROVE  IInv'
<1>1. TypeOK'
  BY NextType DEF IInv, Next
<1>2. ~At(p, "idle") /\ (Goto(p, "trap") \/ Goto(p, "idle"))
  BY DEF Fail, Kill, EndRun, At
<1>3. Alone' /\ \A q \in Procs \ {p} : At(q, "idle") /\ At(q, "idle")'
  BY <1>2, MoverAlone DEF IInv, Labels
<1>4. RunInv(p)'
  <2>1. CASE Fail(p)
    <3>1. (At(p, "trap") /\ outcome[p] # "synced")'
      BY <2>1 DEF Fail, At, Goto, IInv, TypeOK, Labels, Outcomes
    <3> QED BY <3>1 DEF RunInv, CloneWhole, Reading, ShaKnown, DocsDone, RsyncOver,
                        CopyingDone, LicensesDone, SyncedDone, Applying, At
  <2>2. CASE Kill(p)
    <3>1. At(p, "idle")'
      BY <2>2 DEF Kill, EndRun, At, Goto, IInv, TypeOK
    <3> QED BY <3>1 DEF RunInv, CloneWhole, Reading, ShaKnown, DocsDone, RsyncOver,
                        CopyingDone, LicensesDone, SyncedDone, Applying, At
  <2> QED BY <2>1, <2>2
<1>5. \A q \in Procs : RunInv(q)'
  BY <1>3, <1>4, OthersFree
<1>6. Provenance'
  <2>1. UNCHANGED <<tree, upstreamFile>> /\ torn' = (torn \/ Applying(p))
    BY DEF Fail, Kill, CutShort, shared
  <2>2. CASE Applying(p)
    BY <2>1, <2>2 DEF Provenance
  <2>3. CASE ~Applying(p)
    <3>1. torn' = torn
      BY <2>1, <2>3 DEF IInv, TypeOK
    <3>2. \A q \in Procs : ~Applying(q)
      BY <1>3, <2>3 DEF Applying, At
    <3> QED BY <2>1, <3>1, <3>2, ProvenanceKept DEF IInv
  <2> QED BY <2>2, <2>3
<1> QED BY <1>1, <1>3, <1>5, <1>6 DEF IInv

(* A script starts while no other runs. *)
LEMMA StartInv ==
  ASSUME Exclusive, IInv, NEW p \in Procs, Start(p)
  PROVE  IInv'
<1>1. TypeOK'
  BY StartType DEF IInv
<1>2. pc' = [pc EXCEPT ![p] = "rm"] /\ \A q \in Procs : At(q, "idle")
  BY DEF Start, AllIdle, Goto
<1>3. (At(p, "rm") /\ \A q \in Procs \ {p} : At(q, "idle"))'
  BY <1>2 DEF At, IInv, TypeOK
<1>4. RunInv(p)'
  BY <1>3 DEF RunInv, CloneWhole, Reading, ShaKnown, DocsDone, RsyncOver, CopyingDone,
              LicensesDone, SyncedDone, Applying, At
<1>5. \A q \in Procs : RunInv(q)'
  BY <1>3, <1>4, OthersFree
<1>6. Provenance'
  <2>1. UNCHANGED <<tree, upstreamFile, torn>>
    BY DEF Start, shared
  <2>2. \A q \in Procs : ~Applying(q)
    BY <1>2 DEF Applying, At
  <2> QED BY <2>1, <2>2, ProvenanceKept DEF IInv
<1> QED BY <1>1, <1>3, <1>5, <1>6 DEF IInv, Alone

(* Edits touch only what the mirror does not hold. *)
LEMMA EnvironmentInv ==
  ASSUME Exclusive, IInv, UpstreamMoves \/ LocalEdit \/ UNCHANGED vars
  PROVE  IInv'
<1>1. TypeOK'
  BY NextType DEF IInv, Next
<1>2. UNCHANGED <<upstreamFile, scratchGit, scratchFiles, pc, script, ref, newSha, todo,
                 outcome, torn>>
  BY DEF UpstreamMoves, LocalEdit, vars, scratch, locals
<1>3. \A d \in Mirrored : tree'[d] = tree[d]
  <2>1. CASE LocalEdit
    <3>1. PICK d \in ViPages \cup LocalPages, b \in Blobs : tree' = [tree EXCEPT ![d] = b]
      BY <2>1 DEF LocalEdit
    <3> QED BY <3>1 DEF Mirrored, IInv, TypeOK
  <2>2. CASE UpstreamMoves \/ UNCHANGED vars
    BY <2>2 DEF UpstreamMoves, vars
  <2> QED BY <2>1, <2>2
<1>4. (\A d \in Tracked \ ViPages : tree'[d] = tree[d]) \/ \A q \in Procs : At(q, "idle")'
  <2>1. CASE LocalEdit
    <3>1. PICK d \in ViPages \cup LocalPages, b \in Blobs :
            /\ Exclusive => d \in ViPages \/ AllIdle
            /\ tree' = [tree EXCEPT ![d] = b]
      BY <2>1 DEF LocalEdit
    <3>2. CASE d \in ViPages
      BY <3>1, <3>2 DEF IInv, TypeOK
    <3>3. CASE AllIdle
      BY <1>2, <3>3 DEF AllIdle, At
    <3> QED BY <3>1, <3>2, <3>3
  <2>2. CASE UpstreamMoves \/ UNCHANGED vars
    BY <2>2 DEF UpstreamMoves, vars
  <2> QED BY <2>1, <2>2
<1>5. \A q \in Procs : RunInv(q)'
  <2>1. CASE \A q \in Procs : At(q, "idle")'
    <3>1. \A q \in Procs : At(q, "idle")' => RunInv(q)'
      BY IdleRunNext
    <3> QED BY <2>1, <3>1
  <2>2. CASE \A d \in Tracked \ ViPages : tree'[d] = tree[d]
    <3> SUFFICES ASSUME NEW q \in Procs PROVE RunInv(q)'
      OBVIOUS
    <3> USE DEF IInv, RunInv, At
    <3>1. \A d \in Docs \ ViPages : tree'[d] = tree[d]
      BY <2>2, Paths
    <3>2. tree'[Copying] = tree[Copying] /\ tree'[Licenses] = tree[Licenses]
      BY <2>2, Paths, SyncAssumption
    <3>3. CloneWhole(q)' /\ ShaKnown(q)' /\ RsyncOver(q)'
      BY <1>2 DEF CloneWhole, ShaKnown, RsyncOver, Reading
    <3>4. DocsDone(q)'
      BY <1>2, <3>1 DEF DocsDone, Applying
    <3>5. CopyingDone(q)' /\ LicensesDone(q)'
      BY <1>2, <3>2 DEF CopyingDone, LicensesDone
    <3>6. SyncedDone(q)'
      BY <1>2, <2>2 DEF SyncedDone
    <3> QED BY <3>3, <3>4, <3>5, <3>6
  <2> QED BY <1>4, <2>1, <2>2
<1>6. Provenance'
  BY <1>2, <1>3 DEF IInv, Provenance, Applying, At
<1>7. Alone'
  BY <1>2 DEF IInv, Alone, At
<1> QED BY <1>1, <1>5, <1>6, <1>7 DEF IInv

LEMMA NextInv == Exclusive /\ IInv /\ [Next]_vars => IInv'
BY StartInv, StepInv, FaultInv, EnvironmentInv DEF Next

LEMMA InvImplies == IInv => SyncedMirrors /\ Provenance
BY DEF IInv, RunInv, SyncedDone, SyncedMirrors

LEMMA Invariant ==
  ASSUME Exclusive
  PROVE  Spec => []IInv
<1>1. IInv /\ [Next]_vars => IInv'
  BY NextInv
<1> QED BY <1>1, InitInv, PTL DEF Spec

(* Where runs do not overlap, a run that reports success has mirrored the commit
   UPSTREAM names, whatever faults came before it. *)
THEOREM Mirrors ==
  ASSUME Exclusive
  PROVE  Spec => []SyncedMirrors
BY Invariant, InvImplies, PTL

(* Where runs do not overlap, UPSTREAM names the commit the tree mirrors, unless
   a run was cut short while applying and none has completed since. *)
THEOREM Traceable ==
  ASSUME Exclusive
  PROVE  Spec => []Provenance
BY Invariant, InvImplies, PTL

----------------------------------------------------------------------------
(* What no interleaving of runs, overlapping or not, can do. *)

(* rsync's work list never holds a page below vi_VN/, and a diff applies nothing. *)
Harmless(p) ==
  /\ todo[p] \cap ViPages = {}
  /\ script[p] = "diff" =>
       pc[p] \in {"idle", "rm", "clone", "checkout", "sha", "preview", "trap"}

HInv == TypeOK /\ \A p \in Procs : Harmless(p)

LEMMA HInvInit == Init => HInv
BY InitType DEF Init, HInv, Harmless

LEMMA HInvNext == HInv /\ [Next]_vars => HInv'
<1> SUFFICES ASSUME HInv, [Next]_vars PROVE HInv'
  OBVIOUS
<1> USE DEF HInv, TypeOK, Harmless, At, Goto, shared, scratch, locals
<1>1. TypeOK'
  BY NextType
<1>2. ASSUME NEW p \in Procs, Start(p) \/ Fail(p) \/ Kill(p) PROVE \A q \in Procs : Harmless(q)'
  <2>1. CASE Start(p)
    BY <2>1 DEF Start
  <2>2. CASE Fail(p)
    BY <2>2 DEF Fail
  <2>3. CASE Kill(p)
    BY <2>3 DEF Kill, EndRun
  <2> QED BY <1>2, <2>1, <2>2, <2>3
<1>3. ASSUME NEW p \in Procs, Step(p) PROVE \A q \in Procs : Harmless(q)'
  <2>1. CASE RemoveEntry(p) \/ Clone(p) \/ Compare(p) \/ RsyncDone(p) \/ CopyCopying(p)
             \/ RemoveLicenses(p) \/ TruncateUpstream(p) \/ WriteUpstream(p)
    BY <2>1 DEF RemoveEntry, Clone, Compare, RsyncDone, CopyCopying, RemoveLicenses,
                TruncateUpstream, WriteUpstream
  <2>2. CASE RemoveDone(p)
    BY <2>2 DEF RemoveDone, EndRun
  <2>3. CASE Checkout(p)
    BY <2>3 DEF Checkout, Excluded
  <2>4. CASE ReadSha(p)
    BY <2>4 DEF ReadSha
  <2>5. CASE Preview(p)
    <3>1. CASE script[p] = "sync"
      BY <2>5, <3>1 DEF Preview, Excluded
    <3>2. CASE script[p] # "sync"
      BY <2>5, <3>2 DEF Preview
    <3> QED BY <3>1, <3>2
  <2>6. CASE RsyncPath(p)
    BY <2>6 DEF RsyncPath
  <2>7. CASE CopyLicenses(p)
    BY <2>7 DEF CopyLicenses
  <2> QED BY <1>3, <2>1, <2>2, <2>3, <2>4, <2>5, <2>6, <2>7 DEF Step
<1>4. CASE UpstreamMoves \/ LocalEdit \/ UNCHANGED vars
  <2>1. UNCHANGED <<pc, script, todo>>
    BY <1>4 DEF UpstreamMoves, LocalEdit, vars
  <2>2. \A q \in Procs : Harmless(q)'
    BY <2>1
  <2> QED BY <1>1, <2>2
<1>5. ASSUME \A q \in Procs : Harmless(q)' PROVE HInv'
  BY <1>1, <1>5
<1>6. \/ \E p \in Procs : Start(p) \/ Step(p) \/ Fail(p) \/ Kill(p)
      \/ UpstreamMoves \/ LocalEdit \/ UNCHANGED vars
  BY DEF Next
<1> HIDE DEF HInv, TypeOK, Harmless
<1> QED BY <1>2, <1>3, <1>4, <1>5, <1>6

(* No interleaving of scripts and faults changes a page below vi_VN/. *)
THEOREM ViPagesOurs == Spec => ViUntouched
<1>1. HInv /\ [Next]_vars => [(\E d \in ViPages : tree'[d] # tree[d]) => LocalEdit]_vars
  <2> SUFFICES ASSUME HInv, Next, ~LocalEdit, NEW d \in ViPages
               PROVE  tree'[d] = tree[d]
    BY DEF vars
  <2>1. d \in Tracked /\ d # Copying /\ d # Licenses
    BY SyncAssumption DEF Tracked
  <2>2. ASSUME NEW p \in Procs, Start(p) \/ Fail(p) \/ Kill(p) PROVE tree'[d] = tree[d]
    BY <2>2 DEF Start, Fail, Kill, shared
  <2>3. ASSUME NEW p \in Procs, Step(p) PROVE tree'[d] = tree[d]
    <3>1. CASE RsyncPath(p)
      BY <3>1 DEF RsyncPath, HInv, TypeOK, Harmless
    <3>2. CASE CopyCopying(p) \/ RemoveLicenses(p) \/ CopyLicenses(p)
      BY <2>1, <3>2 DEF CopyCopying, RemoveLicenses, CopyLicenses, HInv, TypeOK
    <3>3. CASE RemoveEntry(p) \/ RemoveDone(p) \/ Clone(p) \/ Checkout(p) \/ ReadSha(p)
               \/ Compare(p) \/ Preview(p) \/ RsyncDone(p) \/ TruncateUpstream(p)
               \/ WriteUpstream(p)
      BY <3>3 DEF RemoveEntry, RemoveDone, Clone, Checkout, ReadSha, Compare, Preview,
                  RsyncDone, TruncateUpstream, WriteUpstream, shared
    <3> QED BY <2>3, <3>1, <3>2, <3>3 DEF Step
  <2>4. CASE UpstreamMoves
    BY <2>4 DEF UpstreamMoves
  <2> QED BY <2>2, <2>3, <2>4 DEF Next
<1> QED
  BY <1>1, HInvInit, HInvNext, PTL DEF Spec, ViUntouched

(* No step of a diff changes the tree or UPSTREAM. *)
THEOREM DiffOnlyReads == Spec => DiffReadOnly
<1>1. HInv /\ [Next]_vars =>
        [\A p \in Procs :
           script[p] = "diff" /\ Step(p) => UNCHANGED <<tree, upstreamFile>>]_vars
  <2> SUFFICES ASSUME HInv, NEW p \in Procs, script[p] = "diff", Step(p)
               PROVE  UNCHANGED <<tree, upstreamFile>>
    OBVIOUS
  <2>1. pc[p] \in {"idle", "rm", "clone", "checkout", "sha", "preview", "trap"}
    BY DEF HInv, Harmless
  <2>2. ~(\/ RsyncPath(p) \/ CopyCopying(p) \/ RemoveLicenses(p) \/ CopyLicenses(p)
          \/ TruncateUpstream(p) \/ WriteUpstream(p))
    BY <2>1 DEF RsyncPath, CopyCopying, RemoveLicenses, CopyLicenses, TruncateUpstream,
                WriteUpstream, At
  <2>3. \/ RemoveEntry(p) \/ RemoveDone(p) \/ Clone(p) \/ Checkout(p) \/ ReadSha(p)
        \/ Compare(p) \/ Preview(p) \/ RsyncDone(p)
    BY <2>2 DEF Step
  <2> QED BY <2>3 DEF RemoveEntry, RemoveDone, Clone, Checkout, ReadSha, Compare,
                      Preview, RsyncDone, shared
<1> QED
  BY <1>1, HInvInit, HInvNext, PTL DEF Spec, DiffReadOnly

----------------------------------------------------------------------------
(* The scripts implement the abstract mirror, where runs do not overlap. *)

(* UPSTREAM is empty when a run comes to write it. *)
Emptied == \A p \in Procs : At(p, "write") => upstreamFile.commit = NoSha

(* What a run applies is the commit of the clone that it alone works with. *)
MInv == IInv /\ HInv /\ Emptied

LEMMA AppliedIs ==
  /\ \A p \in Procs : Applying(p) => Applied = scratchGit.commit
  /\ (\A p \in Procs : ~Applying(p)) => Applied = NoSha
BY DEF Applied

LEMMA AppliedIsNext ==
  /\ \A p \in Procs : Applying(p)' => Applied' = scratchGit'.commit
  /\ (\A p \in Procs : ~Applying(p)') => Applied' = NoSha
BY DEF Applied

LEMMA IdleAppliesNothing ==
  \A p \in Procs : /\ At(p, "idle") => ~Applying(p)
                   /\ At(p, "idle")' => ~Applying(p)'
BY DEF At, Applying

(* A run that applies works with a whole clone. *)
LEMMA ApplyingWhole ==
  ASSUME IInv, NEW p \in Procs, Applying(p)
  PROVE  /\ Applied = scratchGit.commit
         /\ scratchGit.commit \in Versions
         /\ scratchGit.commit # NoSha
         /\ scratchFiles = Content[scratchGit.commit]
<1>1. pc[p] \in Reading
  BY DEF Applying, Reading, At
<1>2. CloneWhole(p)
  BY DEF IInv, RunInv
<1> QED
  BY <1>1, <1>2, AppliedIs, SyncAssumption DEF CloneWhole

(* The only run that moves, and the others that stay idle. *)
LEMMA StepAlone ==
  ASSUME IInv, NEW p \in Procs, Step(p) \/ Fail(p) \/ Kill(p)
  PROVE  \A q \in Procs \ {p} : At(q, "idle") /\ At(q, "idle")'
<1>1. ~At(p, "idle")
  BY DEF Step, Fail, Kill, RemoveEntry, RemoveDone, Removing, Clone, Checkout, ReadSha,
         Compare, Preview, RsyncPath, RsyncDone, CopyCopying, RemoveLicenses, CopyLicenses,
         TruncateUpstream, WriteUpstream, At
<1>2. \A q \in Procs \ {p} : At(q, "idle")
  BY <1>1 DEF IInv, Alone
<1>3. \A q \in Procs \ {p} : pc'[q] = pc[q]
  <2>1. (\E label : Goto(p, label)) \/ UNCHANGED pc
    BY DEF Step, Fail, Kill, EndRun, RemoveEntry, RemoveDone, Clone, Checkout, ReadSha,
           Compare, Preview, RsyncPath, RsyncDone, CopyCopying, RemoveLicenses,
           CopyLicenses, TruncateUpstream, WriteUpstream
  <2> QED BY <2>1 DEF Goto, IInv, TypeOK
<1> QED
  BY <1>2, <1>3 DEF At

LEMMA EmptiedNext ==
  ASSUME Exclusive, MInv, [Next]_vars
  PROVE  Emptied'
<1> USE DEF MInv, Emptied
<1>1. ASSUME NEW p \in Procs, Start(p) PROVE Emptied'
  BY <1>1 DEF Start, Goto, At, shared, IInv, TypeOK
<1>2. ASSUME NEW p \in Procs, Step(p) PROVE Emptied'
  <2>1. \A q \in Procs \ {p} : ~At(q, "write")'
    BY <1>2, StepAlone DEF At
  <2>2. CASE At(p, "write")'
    <3>1. CASE TruncateUpstream(p)
      BY <2>1, <3>1 DEF TruncateUpstream
    <3>2. CASE ~TruncateUpstream(p)
      <4>1. pc'[p] = "write"
        BY <2>2 DEF At
      <4>2. CASE RemoveEntry(p)
        BY <4>1, <4>2 DEF RemoveEntry, Removing, At
      <4>3. CASE RsyncPath(p)
        BY <4>1, <4>3 DEF RsyncPath, At
      <4>4. CASE \/ RemoveDone(p) \/ Clone(p) \/ Checkout(p) \/ Compare(p) \/ Preview(p)
                 \/ RsyncDone(p) \/ CopyCopying(p) \/ RemoveLicenses(p) \/ CopyLicenses(p)
                 \/ WriteUpstream(p)
        BY <4>1, <4>4 DEF RemoveDone, EndRun, Clone, Checkout, Compare, Preview, RsyncDone,
               CopyCopying, RemoveLicenses, CopyLicenses, WriteUpstream, Goto, IInv, TypeOK
      <4>5. CASE ReadSha(p)
        <5>1. script[p] \in {"init", "sync", "diff"}
          BY DEF IInv, TypeOK, Scripts
        <5> QED BY <4>1, <4>5, <5>1 DEF ReadSha, Goto, IInv, TypeOK
      <4> QED BY <1>2, <3>2, <4>2, <4>3, <4>4, <4>5 DEF Step
    <3> QED BY <3>1, <3>2
  <2>3. CASE ~At(p, "write")'
    BY <2>1, <2>3
  <2> QED BY <2>2, <2>3
<1>3. ASSUME NEW p \in Procs, Fail(p) \/ Kill(p) PROVE Emptied'
  <2>1. UNCHANGED upstreamFile /\ \A q \in Procs : At(q, "write")' => At(q, "write")
    BY <1>3 DEF Fail, Kill, EndRun, Goto, At, shared, IInv, TypeOK
  <2> QED BY <2>1
<1>4. CASE UpstreamMoves \/ LocalEdit \/ UNCHANGED vars
  BY <1>4 DEF UpstreamMoves, LocalEdit, vars, At
<1> QED
  BY <1>1, <1>2, <1>3, <1>4 DEF Next

LEMMA MirrorInvariant ==
  ASSUME Exclusive
  PROVE  Spec => []MInv
<1>1. Init => Emptied
  BY DEF Init, Emptied
<1>2. MInv /\ [Next]_vars => MInv'
  BY NextInv, HInvNext, EmptiedNext DEF MInv
<1> QED BY <1>1, <1>2, InitInv, HInvInit, PTL DEF Spec, MInv

LEMMA InitImplements == Init => Promise!Init
<1> SUFFICES ASSUME Init PROVE Promise!Init
  OBVIOUS
<1>1. Applied = NoSha
  BY AppliedIs, IdleAppliesNothing DEF Init, At
<1> QED BY <1>1 DEF Init, NoFiles, Promise!Init

(* A step that changes neither the tree nor UPSTREAM nor what is applied. *)
LEMMA Stutters ==
  ASSUME UNCHANGED <<tree, upstreamFile, torn>>, Applied' = Applied
  PROVE  UNCHANGED Promise!mirror
BY DEF Promise!mirror

(* The commands before rsync: a commit begins to be applied, or nothing happens. *)
LEMMA PrepareImplements ==
  ASSUME MInv, NEW p \in Procs, \A q \in Procs \ {p} : At(q, "idle") /\ At(q, "idle")',
         RemoveEntry(p) \/ RemoveDone(p) \/ Clone(p) \/ Checkout(p) \/ ReadSha(p)
           \/ Compare(p) \/ Preview(p)
  PROVE  [Promise!Next]_(Promise!mirror)
<1> USE DEF MInv
<1>1. \A q \in Procs \ {p} : ~Applying(q) /\ ~Applying(q)'
  BY IdleAppliesNothing
<1>2. UNCHANGED <<tree, upstreamFile, torn>>
  BY DEF RemoveEntry, RemoveDone, Clone, Checkout, ReadSha, Compare, Preview, shared
<1>3. CASE ~Applying(p) /\ ~Applying(p)'
  <2>1. Applied = NoSha /\ Applied' = NoSha
    BY <1>1, <1>3, AppliedIs, AppliedIsNext
  <2> QED BY <1>2, <2>1, Stutters
<1>4. CASE Applying(p)
  <2>1. ReadSha(p) /\ script[p] = "init"
    BY <1>4 DEF Applying, RemoveEntry, RemoveDone, Removing, Clone, Checkout, ReadSha,
                Compare, Preview, At
  <2>2. Applying(p)' /\ scratchGit' = scratchGit
    BY <2>1 DEF ReadSha, Applying, Goto, At, shared, scratch, IInv, TypeOK
  <2>3. Applied' = Applied
    BY <1>4, <2>2, AppliedIs, AppliedIsNext
  <2> QED BY <1>2, <2>3, Stutters
<1>5. CASE ~Applying(p) /\ Applying(p)'
  <2>1. Checkout(p) \/ Preview(p)
    <3>1. CASE RemoveEntry(p)
      BY <1>5, <3>1 DEF RemoveEntry, Applying, At, locals
    <3>2. CASE RemoveDone(p) \/ Clone(p) \/ Compare(p)
      BY <1>5, <3>2 DEF RemoveDone, EndRun, Clone, Compare, Applying, At, Goto, IInv, TypeOK
    <3>3. CASE ReadSha(p)
      <4>1. script[p] \in {"init", "sync", "diff"}
        BY DEF IInv, TypeOK, Scripts
      <4> QED BY <1>5, <3>3, <4>1 DEF ReadSha, Applying, At, Goto, IInv, TypeOK
    <3> QED BY <3>1, <3>2, <3>3
  <2>2. scratchGit.commit \in Versions /\ scratchGit.commit # NoSha /\ scratchGit' = scratchGit
    <3>1. CASE Checkout(p)
      BY <3>1, SyncAssumption DEF Checkout, IInv, TypeOK
    <3>2. CASE Preview(p)
      BY <3>2, SyncAssumption DEF Preview, shared, scratch, IInv, RunInv, CloneWhole, Reading, At
    <3> QED BY <2>1, <3>1, <3>2
  <2>3. Applied = NoSha /\ Applied' = scratchGit.commit
    BY <1>1, <1>5, <2>2, AppliedIs, AppliedIsNext
  <2>4. Promise!Begin(scratchGit.commit)
    BY <1>2, <2>3 DEF Promise!Begin
  <2> QED BY <2>2, <2>4 DEF Promise!Next
<1> QED BY <1>3, <1>4, <1>5

(* The commands that replace paths. *)
LEMMA ReplaceImplements ==
  ASSUME MInv, NEW p \in Procs,
         RsyncPath(p) \/ CopyCopying(p) \/ RemoveLicenses(p) \/ CopyLicenses(p)
  PROVE  [Promise!Next]_(Promise!mirror)
<1> USE DEF MInv
<1>1. Applying(p)
  BY DEF RsyncPath, CopyCopying, RemoveLicenses, CopyLicenses, Applying, At
<1>2. Applying(p)' /\ UNCHANGED <<upstreamFile, torn, scratchGit>>
  BY DEF RsyncPath, CopyCopying, RemoveLicenses, CopyLicenses, Applying, At, Goto, scratch,
         locals, IInv, TypeOK
<1>3. Applied # NoSha /\ Applied' = Applied /\ scratchFiles = Content[Applied]
  BY <1>1, <1>2, ApplyingWhole, AppliedIsNext
<1>4. \E d \in Tracked \ ViPages :
        \E b \in {Content[Applied][d]} \cup IF d \in {Licenses} THEN {Absent} ELSE {} :
          tree' = [tree EXCEPT ![d] = b]
  <2>1. CASE RsyncPath(p)
    <3>1. PICK d \in todo[p] : tree' = [tree EXCEPT ![d] = scratchFiles[d]]
      BY <2>1 DEF RsyncPath
    <3>2. d \in Tracked \ ViPages
      BY Paths DEF HInv, Harmless, TypeOK
    <3> QED BY <1>3, <3>1, <3>2
  <2>2. CASE CopyCopying(p)
    <3>1. Copying \in Tracked \ ViPages
      BY Paths, SyncAssumption
    <3> QED BY <1>3, <2>2, <3>1 DEF CopyCopying
  <2>3. CASE RemoveLicenses(p) \/ CopyLicenses(p)
    <3>1. Licenses \in Tracked \ ViPages
      BY Paths, SyncAssumption
    <3> QED BY <1>3, <2>3, <3>1 DEF RemoveLicenses, CopyLicenses
  <2> QED BY <2>1, <2>2, <2>3
<1>5. \E d \in Tracked \ ViPages : Promise!Replace(d)
  BY <1>2, <1>3, <1>4 DEF Promise!Replace
<1> QED BY <1>5 DEF Promise!Next

(* Before UPSTREAM is emptied and written, the tree is the commit. *)
LEMMA AllReplaced ==
  ASSUME MInv, NEW p \in Procs, pc[p] \in {"truncate", "write"}
  PROVE  Promise!Mirrors(Applied)
<1> USE DEF MInv
<1>1. Applying(p)
  BY DEF Applying
<1>2. Applied = scratchGit.commit /\ scratchFiles = Content[Applied]
  BY <1>1, ApplyingWhole
<1>3. /\ todo[p] = {}
      /\ tree[Copying] = scratchFiles[Copying]
      /\ tree[Licenses] = scratchFiles[Licenses]
  BY DEF IInv, RunInv, RsyncOver, CopyingDone, LicensesDone
<1>4. \A d \in Docs \ ViPages : tree[d] = scratchFiles[d]
  BY <1>1, <1>3 DEF IInv, RunInv, DocsDone
<1> QED BY <1>2, <1>3, <1>4, Paths DEF Promise!Mirrors

(* The commands after the last path. *)
LEMMA CompleteImplements ==
  ASSUME MInv, NEW p \in Procs, \A q \in Procs \ {p} : At(q, "idle") /\ At(q, "idle")',
         RsyncDone(p) \/ TruncateUpstream(p) \/ WriteUpstream(p)
  PROVE  [Promise!Next]_(Promise!mirror)
<1> USE DEF MInv
<1>1. Applying(p)
  BY DEF RsyncDone, TruncateUpstream, WriteUpstream, Applying, At
<1>2. Applied = scratchGit.commit /\ Applied # NoSha
  BY <1>1, ApplyingWhole
<1>3. CASE RsyncDone(p)
  <2>1. Applying(p)' /\ UNCHANGED <<tree, upstreamFile, torn, scratchGit>>
    BY <1>3 DEF RsyncDone, Applying, At, Goto, shared, scratch, IInv, TypeOK
  <2>2. Applied' = Applied
    BY <1>2, <2>1, AppliedIsNext
  <2> QED BY <2>1, <2>2, Stutters
<1>4. CASE TruncateUpstream(p)
  <2>1. Applying(p)' /\ UNCHANGED <<tree, torn, scratchGit>> /\ upstreamFile'.commit = NoSha
    BY <1>4 DEF TruncateUpstream, Applying, At, Goto, scratch, IInv, TypeOK
  <2>2. Applied' = Applied
    BY <1>2, <2>1, AppliedIsNext
  <2>3. Promise!Mirrors(Applied)
    BY <1>4, AllReplaced DEF TruncateUpstream, At
  <2>4. Promise!Forget
    BY <1>2, <2>1, <2>2, <2>3 DEF Promise!Forget
  <2> QED BY <2>4 DEF Promise!Next
<1>5. CASE WriteUpstream(p)
  <2>1. At(p, "trap")' /\ UNCHANGED tree /\ torn' = FALSE /\ upstreamFile'.commit = newSha[p]
    BY <1>5 DEF WriteUpstream, At, Goto, IInv, TypeOK
  <2>2. newSha[p] = Applied
    BY <1>2, <1>5 DEF WriteUpstream, At, IInv, RunInv, ShaKnown
  <2>3. \A q \in Procs : ~Applying(q)'
    BY <2>1, IdleAppliesNothing DEF Applying, At
  <2>4. Applied' = NoSha
    BY <2>3, AppliedIsNext
  <2>5. Promise!Mirrors(Applied)
    BY <1>5, AllReplaced DEF WriteUpstream, At
  <2>6. upstreamFile.commit = NoSha
    BY <1>5 DEF WriteUpstream, Emptied
  <2>7. Promise!Complete
    BY <1>2, <2>1, <2>2, <2>4, <2>5, <2>6 DEF Promise!Complete
  <2> QED BY <2>7 DEF Promise!Next
<1> QED BY <1>3, <1>4, <1>5

(* A fault abandons what was being applied, and nothing else. *)
LEMMA FaultImplements ==
  ASSUME MInv, NEW p \in Procs, \A q \in Procs \ {p} : At(q, "idle") /\ At(q, "idle")',
         Fail(p) \/ Kill(p)
  PROVE  [Promise!Next]_(Promise!mirror)
<1> USE DEF MInv
<1>1. UNCHANGED <<tree, upstreamFile>> /\ torn' = (torn \/ Applying(p))
  BY DEF Fail, Kill, CutShort, shared
<1>2. pc'[p] \in {"trap", "idle"}
  BY DEF Fail, Kill, EndRun, Goto, IInv, TypeOK
<1>3. \A q \in Procs : ~Applying(q)'
  BY <1>2, IdleAppliesNothing DEF Applying, At
<1>4. Applied' = NoSha
  BY <1>3, AppliedIsNext
<1>5. CASE Applying(p)
  <2>1. Applied # NoSha
    BY <1>5, ApplyingWhole
  <2>2. Promise!Abandon
    BY <1>1, <1>4, <1>5, <2>1 DEF Promise!Abandon
  <2> QED BY <2>2 DEF Promise!Next
<1>6. CASE ~Applying(p)
  <2>1. Applied = NoSha
    BY <1>6, AppliedIs, IdleAppliesNothing
  <2>2. torn' = torn
    BY <1>1, <1>6 DEF IInv, TypeOK
  <2> QED BY <1>1, <1>4, <2>1, <2>2, Stutters
<1> QED BY <1>5, <1>6

LEMMA NextImplements ==
  ASSUME Exclusive, MInv, [Next]_vars
  PROVE  [Promise!Next]_(Promise!mirror)
<1> USE DEF MInv
<1>1. ASSUME NEW p \in Procs, Start(p) PROVE [Promise!Next]_(Promise!mirror)
  <2>1. UNCHANGED <<tree, upstreamFile, torn>>
    BY <1>1 DEF Start, shared
  <2>2. \A q \in Procs : pc[q] = "idle" /\ pc'[q] \in {"idle", "rm"}
    BY <1>1 DEF Start, AllIdle, Goto, At, IInv, TypeOK
  <2>3. Applied = NoSha /\ Applied' = NoSha
    BY <2>2, AppliedIs, AppliedIsNext DEF Applying, At
  <2> QED BY <2>1, <2>3, Stutters
<1>2. ASSUME NEW p \in Procs, Step(p) \/ Fail(p) \/ Kill(p)
      PROVE  [Promise!Next]_(Promise!mirror)
  BY <1>2, StepAlone, PrepareImplements, ReplaceImplements, CompleteImplements,
     FaultImplements DEF Step
<1>3. CASE UpstreamMoves \/ UNCHANGED vars
  <2>1. UNCHANGED <<tree, upstreamFile, torn, scratchGit, pc, script>>
    BY <1>3 DEF UpstreamMoves, vars, scratch, locals
  <2>2. Applied' = Applied
    BY <2>1 DEF Applied, Applying, At
  <2> QED BY <2>1, <2>2, Stutters
<1>4. CASE LocalEdit
  <2>1. UNCHANGED <<upstreamFile, torn, scratchGit, pc, script>>
    BY <1>4 DEF LocalEdit, scratch, locals
  <2>2. Applied' = Applied
    BY <2>1 DEF Applied, Applying, At
  <2>3. PICK d \in ViPages \cup LocalPages, b \in Blobs :
          /\ Exclusive => d \in ViPages \/ AllIdle
          /\ tree' = [tree EXCEPT ![d] = b]
    BY <1>4 DEF LocalEdit
  <2>4. d \in LocalPages => Applied = NoSha
    BY <2>3, AppliedIs, IdleAppliesNothing DEF LocalPages, AllIdle
  <2>5. Promise!Edit(d)
    BY <2>1, <2>2, <2>3, <2>4 DEF Promise!Edit
  <2> QED BY <2>5 DEF Promise!Next
<1> QED BY <1>1, <1>2, <1>3, <1>4 DEF Next

(* Where runs do not overlap, the commands of init-upstream.sh and sync-upstream.sh
   implement the abstract mirror: each replaces a path by that of the one commit being
   applied, empties UPSTREAM or names that commit once the tree is all of it, or changes
   nothing that the mirror shows. *)
THEOREM Refinement ==
  ASSUME Exclusive
  PROVE  Spec => ImplementsMirror
<1>1. MInv /\ [Next]_vars => [Promise!Next]_(Promise!mirror)
  BY NextImplements
<1> QED
  BY <1>1, InitImplements, MirrorInvariant, PTL DEF Spec, ImplementsMirror, Promise!Spec

----------------------------------------------------------------------------
(* What a sync announces and what it applies. *)

(* The lists of a summary are those of the two sides that its dry run compared. *)
Announced(p) ==
  \A d \in Docs \ Excluded :
    LET f == summary[p].from[d]
        t == summary[p].to[d]
    IN  /\ t = Absent /\ f # Absent => d \in summary[p].deleted
        /\ t \notin Links \cup {Absent} /\ f \in Links \cup {Absent} =>
             d \in summary[p].added
        /\ t \notin Links \cup {Absent} /\ f \notin Links \cup {Absent} =>
             d \in summary[p].modified

LInv == HInv /\ \A p \in Procs : Announced(p)

LEMMA NoneAnnounced == \A p \in Procs : summary[p] = NoSummary => Announced(p)
BY DEF Announced, NoSummary, NoneCompared

LEMMA NoneAnnouncedNext == \A p \in Procs : summary'[p] = NoSummary => Announced(p)'
BY DEF Announced, NoSummary, NoneCompared

(* A run changes its own summary alone, and only in its dry run and at its end. *)
LEMMA SummarySteps ==
  ASSUME HInv, [Next]_vars, NEW p \in Procs
  PROVE  \/ summary'[p] = summary[p]
         \/ summary'[p] = NoSummary
         \/ summary'[p] = Itemize
<1> USE DEF HInv, TypeOK, locals
<1>1. ASSUME NEW q \in Procs, Start(q) \/ Fail(q) \/ Kill(q)
      PROVE  summary'[p] = summary[p] \/ summary'[p] = NoSummary
  BY <1>1 DEF Start, Fail, Kill, EndRun
<1>2. ASSUME NEW q \in Procs, Step(q)
      PROVE  \/ summary'[p] = summary[p]
             \/ summary'[p] = NoSummary
             \/ summary'[p] = Itemize
  BY <1>2 DEF Step, RemoveEntry, RemoveDone, EndRun, Clone, Checkout, ReadSha, Compare,
         Preview, RsyncPath, RsyncDone, CopyCopying, RemoveLicenses, CopyLicenses,
         TruncateUpstream, WriteUpstream
<1>3. CASE UpstreamMoves \/ LocalEdit \/ UNCHANGED vars
  BY <1>3 DEF UpstreamMoves, LocalEdit, vars
<1> QED
  BY <1>1, <1>2, <1>3 DEF Next

LEMMA LInvInit == Init => LInv
<1>1. Init => \A p \in Procs : summary[p] = NoSummary
  BY DEF Init
<1> QED
  BY <1>1, HInvInit, NoneAnnounced DEF LInv

LEMMA LInvNext == LInv /\ [Next]_vars => LInv'
<1> SUFFICES ASSUME LInv, [Next]_vars PROVE LInv'
  OBVIOUS
<1>1. HInv'
  BY HInvNext DEF LInv
<1>2. ASSUME NEW p \in Procs PROVE Announced(p)'
  <2>1. CASE summary'[p] = summary[p]
    BY <2>1 DEF LInv, Announced
  <2>2. CASE summary'[p] = NoSummary
    BY <2>2, NoneAnnouncedNext
  <2>3. CASE summary'[p] = Itemize
    <3>1. \A d \in Docs \ Excluded :
            summary'[p].from[d] = tree[d] /\ summary'[p].to[d] = scratchFiles[d]
      BY <2>3 DEF Itemize, Saw
    <3>2. ASSUME NEW d \in Docs \ Excluded
          PROVE  /\ d \in summary'[p].deleted <=> tree[d] # Absent /\ scratchFiles[d] = Absent
                 /\ d \in summary'[p].added <=>
                      d \in Regular(scratchFiles) /\ d \notin Regular(tree)
                 /\ d \in summary'[p].modified <=>
                      d \in Regular(scratchFiles) /\ d \in Regular(tree)
      BY <2>3 DEF Itemize
    <3> QED
      BY <3>1, <3>2 DEF Announced, Regular
  <2> QED
    BY <2>1, <2>2, <2>3, SummarySteps DEF LInv
<1> QED
  BY <1>1, <1>2 DEF LInv

(* Where runs do not overlap, each path that the rsync of a sync has yet to reach is, on
   both sides, as its dry run saw it. *)
AsSeen(p) ==
  At(p, "rsync") /\ script[p] = "sync" =>
    \A d \in todo[p] :
      tree[d] = summary[p].from[d] /\ scratchFiles[d] = summary[p].to[d]

AInv == MInv /\ \A p \in Procs : AsSeen(p)

LEMMA AInvInit == Init => \A p \in Procs : AsSeen(p)
BY DEF Init, AsSeen, At

(* A path on the way of rsync is as it was when the summary was made. *)
LEMMA StepSeen ==
  ASSUME AInv, NEW p \in Procs, Step(p)
  PROVE  AsSeen(p)'
<1> USE DEF AInv, MInv, IInv, TypeOK, At, Goto, shared, scratch, locals
<1> SUFFICES ASSUME pc'[p] = "rsync", script'[p] = "sync", NEW d \in todo'[p]
             PROVE  /\ tree'[d] = summary'[p].from[d]
                    /\ scratchFiles'[d] = summary'[p].to[d]
  BY DEF AsSeen
<1>1. CASE Preview(p)
  <2>1. /\ summary'[p] = Itemize
        /\ todo'[p] = Docs \ Excluded
        /\ UNCHANGED <<tree, scratchFiles>>
    BY <1>1 DEF Preview
  <2>2. d \in Docs \ Excluded
    BY <2>1
  <2> QED
    BY <2>1, <2>2 DEF Itemize, Saw
<1>2. CASE RsyncPath(p)
  <2>1. PICK e \in todo[p] :
          /\ tree' = [tree EXCEPT ![e] = scratchFiles[e]]
          /\ todo'[p] = todo[p] \ {e}
    BY <1>2 DEF RsyncPath
  <2>2. d \in todo[p] /\ d # e /\ tree'[d] = tree[d]
    BY <2>1, Paths
  <2>3. UNCHANGED <<pc, script, summary, scratchFiles>>
    BY <1>2 DEF RsyncPath
  <2>4. AsSeen(p) /\ pc[p] = "rsync" /\ script[p] = "sync"
    BY <2>3
  <2> QED
    BY <2>2, <2>3, <2>4 DEF AsSeen
<1>3. CASE Checkout(p)
  BY <1>3 DEF Checkout
<1>4. CASE ReadSha(p)
  <2>1. script[p] \in {"init", "sync", "diff"}
    BY DEF Scripts
  <2> QED
    BY <1>4, <2>1 DEF ReadSha
<1>5. CASE RemoveEntry(p)
  BY <1>5 DEF RemoveEntry, Removing
<1>6. CASE \/ RemoveDone(p) \/ Clone(p) \/ Compare(p) \/ RsyncDone(p) \/ CopyCopying(p)
           \/ RemoveLicenses(p) \/ CopyLicenses(p) \/ TruncateUpstream(p) \/ WriteUpstream(p)
  BY <1>6 DEF RemoveDone, EndRun, Clone, Compare, RsyncDone, CopyCopying, RemoveLicenses,
              CopyLicenses, TruncateUpstream, WriteUpstream
<1> QED
  BY <1>1, <1>2, <1>3, <1>4, <1>5, <1>6 DEF Step

LEMMA AInvNext ==
  ASSUME Exclusive, AInv, [Next]_vars
  PROVE  AInv'
<1>1. MInv'
  BY NextInv, HInvNext, EmptiedNext DEF AInv, MInv
<1>2. ASSUME NEW q \in Procs PROVE AsSeen(q)'
  <2> USE DEF AInv, MInv, IInv, TypeOK, At, Goto, shared, scratch, locals
  <2>1. ASSUME NEW p \in Procs, Start(p) PROVE AsSeen(q)'
    <3>1. pc'[q] # "rsync"
      BY <2>1 DEF Start, AllIdle
    <3> QED
      BY <3>1 DEF AsSeen
  <2>2. ASSUME NEW p \in Procs, Step(p) \/ Fail(p) \/ Kill(p) PROVE AsSeen(q)'
    <3>1. CASE q # p
      <4>1. pc'[q] = "idle"
        BY <2>2, <3>1, StepAlone
      <4> QED
        BY <4>1 DEF AsSeen
    <3>2. CASE q = p /\ Step(p)
      BY <3>2, StepSeen
    <3>3. CASE q = p /\ (Fail(p) \/ Kill(p))
      <4>1. pc'[q] \in {"trap", "idle"}
        BY <3>3 DEF Fail, Kill, EndRun
      <4> QED
        BY <4>1 DEF AsSeen
    <3> QED
      BY <2>2, <3>1, <3>2, <3>3
  <2>3. CASE UpstreamMoves \/ UNCHANGED vars
    <3>1. UNCHANGED <<pc, script, todo, tree, scratchFiles, summary>>
      BY <2>3 DEF UpstreamMoves, vars
    <3> QED
      BY <3>1 DEF AsSeen
  <2>4. CASE LocalEdit
    <3>1. PICK d \in ViPages \cup LocalPages, b \in Blobs \ Links :
            /\ d \in ViPages \/ AllIdle
            /\ tree' = [tree EXCEPT ![d] = b]
      BY <2>4 DEF LocalEdit
    <3>2. UNCHANGED <<pc, script, todo, scratchFiles, summary>>
      BY <2>4 DEF LocalEdit
    <3>3. CASE AllIdle
      BY <3>2, <3>3 DEF AsSeen, AllIdle
    <3>4. CASE d \in ViPages
      <4>1. \A e \in todo[q] : tree'[e] = tree[e]
        BY <3>1, <3>4, Paths DEF HInv, Harmless
      <4> QED
        BY <3>2, <4>1 DEF AsSeen
    <3> QED
      BY <3>1, <3>3, <3>4
  <2> QED
    BY <2>1, <2>2, <2>3, <2>4 DEF Next
<1> QED
  BY <1>1, <1>2 DEF AInv

(* Runs that overlap or not. *)
SInv == LInv /\ (Exclusive => AInv)

(* Only the rsync of p takes a path off its list as the path changes. *)
LEMMA ChangeByRsync ==
  ASSUME HInv, [Next]_vars, NEW p \in Procs, At(p, "rsync"),
         NEW d \in todo[p] \ todo'[p], tree'[d] # tree[d]
  PROVE  RsyncPath(p) /\ tree'[d] = scratchFiles[d]
<1> USE DEF HInv, TypeOK, At, Goto, shared, scratch, locals
<1>1. ASSUME NEW q \in Procs, Start(q) \/ Fail(q) \/ Kill(q) PROVE FALSE
  BY <1>1 DEF Start, Fail, Kill
<1>2. ~(UpstreamMoves \/ LocalEdit \/ UNCHANGED vars)
  BY DEF UpstreamMoves, LocalEdit, vars
<1>3. PICK q \in Procs : Step(q)
  BY <1>1, <1>2 DEF Next
<1>4. ~(RemoveEntry(q) \/ RemoveDone(q) \/ Clone(q) \/ Checkout(q) \/ ReadSha(q) \/ Compare(q)
        \/ Preview(q))
  BY DEF RemoveEntry, RemoveDone, Clone, Checkout, ReadSha, Compare, Preview
<1>5. ~(RsyncDone(q) \/ CopyCopying(q) \/ RemoveLicenses(q) \/ CopyLicenses(q)
        \/ TruncateUpstream(q) \/ WriteUpstream(q))
  BY DEF RsyncDone, CopyCopying, RemoveLicenses, CopyLicenses, TruncateUpstream, WriteUpstream
<1>6. RsyncPath(q)
  BY <1>3, <1>4, <1>5 DEF Step
<1>7. PICK e \in todo[q] :
        /\ tree' = [tree EXCEPT ![e] = scratchFiles[e]]
        /\ todo' = [todo EXCEPT ![q] = @ \ {e}]
  BY <1>6 DEF RsyncPath
<1>8. q = p /\ d = e
  BY <1>7
<1> QED
  BY <1>6, <1>7, <1>8, Paths

LEMMA ChangeAnnounced ==
  ASSUME SInv, [Next]_vars, NEW p \in Procs, At(p, "rsync"), script[p] = "sync",
         NEW d \in todo[p] \ todo'[p],
         tree'[d] \notin Links \cup {tree[d]}, Foreseen(p, d)
  PROVE  d \in ListFor(p, d)
<1>1. tree'[d] = scratchFiles[d]
  BY ChangeByRsync DEF SInv, LInv
<1>2. tree[d] = summary[p].from[d] /\ tree'[d] = summary[p].to[d]
  BY <1>1 DEF SInv, AInv, AsSeen, Foreseen
<1>3. d \in Docs \ Excluded
  BY DEF SInv, LInv, HInv, TypeOK, Harmless, Excluded
<1>4. Announced(p)
  BY DEF SInv, LInv
<1> QED
  BY <1>2, <1>3, <1>4 DEF Announced, ListFor

(* However scripts, edits and faults interleave, rsync changes no path below
   Documentation/ that the summary of the sync foresaw without that summary announcing it
   in the right list, symbolic links excepted; where runs do not overlap, the summary
   foresaw all of them. *)
THEOREM SummariesComplete == Spec => SummaryComplete
<1>1. Init => SInv
  <2>1. Init => Emptied
    BY DEF Init, Emptied
  <2> QED
    BY <2>1, LInvInit, AInvInit, InitInv, HInvInit DEF SInv, AInv, MInv
<1>2. SInv /\ [Next]_vars => SInv'
  BY LInvNext, AInvNext DEF SInv
<1>3. SInv /\ [Next]_vars =>
        [\A p \in Procs :
           At(p, "rsync") /\ script[p] = "sync" =>
             \A d \in todo[p] \ todo'[p] :
               tree'[d] \notin Links \cup {tree[d]} /\ Foreseen(p, d) =>
                 d \in ListFor(p, d)]_vars
  BY ChangeAnnounced
<1> QED
  BY <1>1, <1>2, <1>3, PTL DEF Spec, SummaryComplete
=============================================================================
