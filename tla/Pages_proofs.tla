---------------------------- MODULE Pages_proofs ----------------------------
(***************************************************************************)
(* Proofs about Pages, for any number of threads, files and commits: the   *)
(* invariant of the pool of MtPool_proofs beside that of the mirror.       *)
(***************************************************************************)
EXTENDS Pages, MtPool_proofs

PastRead == {"wait", "call", "open", "write"}

ObserversTyped ==
  /\ applying \in Shas \cup {Unknown}
  /\ swept \in SUBSET Files
  /\ steady \in BOOLEAN
  /\ atRead \in [Workers -> BOOLEAN]
  /\ quiet \in [Files -> {"no", "read", "written"}]

(* While the mirror is whole, the sources are those of the commit that UPSTREAM names. *)
WholeInv == Whole => upstream \in Shas /\ \A f \in Files : source[f] = Content[upstream][f]

(* While the mirror rests, the run's commit is the mirrored one; a thread that read its
   file then holds a text of the run's commit, for as long as it works on it. *)
SteadyInv ==
  /\ steady => state # "idle" /\ Whole /\ sha = upstream
  /\ \A w \in Workers :
       /\ steady /\ wpc[w] \in PastRead => atRead[w]
       /\ atRead[w] => /\ wpc[w] \in PastRead
                       /\ sha \in Shas
                       /\ text[w] = Content[sha][File(w)]

(* A page that a sync has come to is not counted as written in peace. *)
SweptInv == applying # Unknown => \A f \in swept : quiet[f] # "written"

MirrorInv == ObserversTyped /\ WholeInv /\ SweptInv

PagesInv == PoolInv /\ MirrorInv /\ SteadyInv /\ StampTrue /\ PagesCurrent

LEMMA InitPages == PagesInit => PagesInv
<1> SUFFICES ASSUME PagesInit PROVE PagesInv
  OBVIOUS
<1> USE DEF PagesInit, Sync!Init
<1>1. PoolInv
  <2>1. source \in [Files -> Texts \cup {Gone}] /\ upstream \in Shas \cup {Unknown}
    OBVIOUS
  <2>2. page \in [Files -> Pages]
    BY DEF Pages
  <2>3. /\ made \in [Files -> [sha : Shas \cup {Unknown}, text : Texts \cup {Gone}]]
        /\ \A f \in Files : page[f] = "absent" => made[f] = NoStamp
    BY DEF NoStamp
  <2> QED
    BY <2>1, <2>2, <2>3, OffPool
<1>2. MirrorInv
  BY DEF MirrorInv, ObserversTyped, WholeInv, SweptInv, Whole
<1>3. SteadyInv
  BY DEF SteadyInv, PastRead, Off
<1>4. StampTrue /\ PagesCurrent
  BY DEF StampTrue, PagesCurrent, Finished
<1> QED
  BY <1>1, <1>2, <1>3, <1>4 DEF PagesInv

----------------------------------------------------------------------------
(* The steps of a sync. *)

(* A sync leaves the pool alone, but for the pages it deletes. *)
LEMMA PoolUnderSync ==
  ASSUME PoolInv,
         source' \in [Files -> Texts \cup {Gone}], upstream' \in Shas \cup {Unknown},
         PagesTyped', UNCHANGED <<process, next, collected, result, wpc, thread, rate, exit>>
  PROVE  PoolInv'
<1> USE DEF process, thread, rate
<1>1. TypeOK'
  BY DEF PoolInv, TypeOK, PagesTyped
<1>2. ThreadInv'
  BY DEF PoolInv, ThreadInv, Busy, At, File
<1>3. QueueInv' /\ RateInv'
  BY DEF PoolInv, QueueInv, RateInv, BackoffKept, At
<1> QED
  BY <1>1, <1>2, <1>3 DEF PoolInv

LEMMA PoolAside ==
  ASSUME PoolInv, UNCHANGED pool,
         source' \in [Files -> Texts \cup {Gone}], upstream' \in Shas \cup {Unknown}
  PROVE  PoolInv'
<1>1. PagesTyped' /\ UNCHANGED <<process, next, collected, result, wpc, thread, rate, exit>>
  BY DEF pool, pages, PoolInv, TypeOK, PagesTyped
<1> QED
  BY <1>1, PoolUnderSync

(* What a thread has read does not change while the mirror does. *)
LEMMA SteadyUnderSync ==
  ASSUME SteadyInv, steady' = FALSE, UNCHANGED <<process, wpc, thread, atRead>>
  PROVE  SteadyInv'
BY DEF SteadyInv, process, thread, File

(* A step of a sync that ends with no whole mirror, and touches no page. *)
LEMMA SyncKeeps ==
  ASSUME PagesInv, Interferes, UNCHANGED pool, ~Whole',
         source' \in [Files -> Texts \cup {Gone}], upstream' \in Shas \cup {Unknown},
         applying' \in Shas \cup {Unknown}, swept' \in SUBSET Files, SweptInv'
  PROVE  PagesInv'
<1>1. PoolInv'
  BY PoolAside DEF PagesInv
<1>2. MirrorInv'
  BY DEF PagesInv, MirrorInv, ObserversTyped, WholeInv, Interferes
<1>3. SteadyInv'
  BY SteadyUnderSync DEF PagesInv, Interferes, pool
<1>4. StampTrue' /\ PagesCurrent'
  BY DEF PagesInv, StampTrue, PagesCurrent, Finished, Interferes, pool, pages
<1> QED
  BY <1>1, <1>2, <1>3, <1>4 DEF PagesInv

LEMMA PagesTypes ==
  ASSUME PagesInv
  PROVE  /\ source \in [Files -> Texts \cup {Gone}]
         /\ upstream \in Shas \cup {Unknown}
         /\ applying \in Shas \cup {Unknown}
         /\ swept \in SUBSET Files
         /\ Unknown \notin Shas
BY PoolAssumption DEF PagesInv, PoolInv, TypeOK, MirrorInv, ObserversTyped

LEMMA BeginPages == PagesInv /\ Begin => PagesInv'
<1> SUFFICES ASSUME PagesInv, Begin PROVE PagesInv'
  OBVIOUS
<1>1. PICK v \in Shas : Sync!Begin(v)
  BY DEF Begin
<1>2. ~Whole' /\ SweptInv'
  BY <1>1, PagesTypes DEF Begin, Sync!Begin, Whole, SweptInv
<1> QED
  BY <1>1, <1>2, PagesTypes, SyncKeeps DEF Begin, Sync!Begin

LEMMA ReplacePages == ASSUME NEW f \in Files, PagesInv, Replace(f) PROVE PagesInv'
<1>1. applying \in Shas /\ Sync!Replace(f) /\ UNCHANGED <<upstream, applying, torn>>
  BY PagesTypes DEF Replace, Sync!Replace
<1>2. source' \in [Files -> Texts \cup {Gone}]
  <2>1. PICK b \in {Content[applying][f]} \cup IF f \in {} THEN {Gone} ELSE {} :
          source' = [source EXCEPT ![f] = b]
    BY <1>1 DEF Sync!Replace
  <2>2. b \in Texts \cup {Gone}
    BY <1>1, ContentAssumption
  <2> QED
    BY <2>1, <2>2, PagesTypes
<1>3. ~Whole' /\ SweptInv'
  BY <1>1 DEF Replace, Interferes, Sync!Replace, Whole, PagesInv, MirrorInv, SweptInv
<1> QED
  BY <1>1, <1>2, <1>3, PagesTypes, SyncKeeps DEF Replace

LEMMA SweepPages == ASSUME NEW f \in Files, PagesInv, Sweep(f) PROVE PagesInv'
<1> USE DEF Sweep
<1>1. PoolInv'
  <2>1. PagesTyped'
    BY DEF PagesInv, PoolInv, TypeOK, PagesTyped, Pages, NoStamp
  <2> QED
    BY <2>1, PagesTypes, PoolUnderSync DEF PagesInv, mirror
<1>2. /\ quiet \in [Files -> {"no", "read", "written"}]
      /\ quiet' = [quiet EXCEPT ![f] = "no"]
  BY DEF PagesInv, MirrorInv, ObserversTyped
<1>3. MirrorInv'
  BY <1>2 DEF PagesInv, MirrorInv, ObserversTyped, WholeInv, SweptInv, Whole, mirror
<1>4. SteadyInv'
  BY SteadyUnderSync DEF PagesInv
<1>5. StampTrue'
  BY <1>2 DEF PagesInv, PoolInv, TypeOK, StampTrue, Finished
<1>6. PagesCurrent'
  BY DEF PagesCurrent, Whole
<1> QED
  BY <1>1, <1>3, <1>4, <1>5, <1>6 DEF PagesInv

LEMMA ForgetPages == PagesInv /\ Forget => PagesInv'
<1> SUFFICES ASSUME PagesInv, Forget PROVE PagesInv'
  OBVIOUS
<1>1. ~Whole' /\ SweptInv'
  BY DEF Forget, Interferes, Sync!Forget, Whole, PagesInv, MirrorInv, SweptInv
<1> QED
  BY <1>1, PagesTypes, SyncKeeps DEF Forget, Sync!Forget

LEMMA AbandonPages == PagesInv /\ Abandon => PagesInv'
<1> SUFFICES ASSUME PagesInv, Abandon PROVE PagesInv'
  OBVIOUS
<1>1. ~Whole' /\ SweptInv'
  BY DEF Abandon, Sync!Abandon, Whole, SweptInv
<1> QED
  BY <1>1, PagesTypes, SyncKeeps DEF Abandon, Sync!Abandon

(* Every page was swept under this sync, or written since, and not in peace. *)
LEMMA CompletePages == PagesInv /\ Complete => PagesInv'
<1> SUFFICES ASSUME PagesInv, Complete PROVE PagesInv'
  OBVIOUS
<1> USE DEF Complete, Sync!Complete, Interferes
<1>1. PoolInv'
  BY PoolAside, PagesTypes DEF PagesInv
<1>2. MirrorInv'
  BY PagesTypes DEF PagesInv, MirrorInv, ObserversTyped, WholeInv, SweptInv, Sync!Mirrors
<1>3. SteadyInv'
  BY SteadyUnderSync DEF PagesInv, pool
<1>4. \A f \in Files : quiet[f] # "written"
  BY DEF PagesInv, MirrorInv, SweptInv
<1>5. StampTrue' /\ PagesCurrent'
  BY <1>4 DEF PagesInv, StampTrue, PagesCurrent, Finished, pool, pages
<1> QED
  BY <1>1, <1>2, <1>3, <1>5 DEF PagesInv

----------------------------------------------------------------------------
(* The steps of a run. *)

(* A run's step leaves the sources and UPSTREAM alone. *)
LEMMA MirrorUnderRun ==
  ASSUME PagesInv, Translate
  PROVE  /\ UNCHANGED <<source, upstream, applying, torn, swept, Whole>>
         /\ PoolInv'
         /\ steady' \in BOOLEAN
         /\ steady' /\ ~Starting => steady /\ state' # "idle"
         /\ Starting /\ steady' => Whole
         /\ atRead' \in [Workers -> BOOLEAN]
<1>1. UNCHANGED <<source, upstream, applying, torn, swept, Whole>>
  BY DEF Translate, mirror, Whole
<1>2. PoolInv'
  BY NextPool DEF Translate, PagesInv
<1>3. steady \in BOOLEAN /\ atRead \in [Workers -> BOOLEAN]
  BY DEF PagesInv, MirrorInv, ObserversTyped
<1>4. steady' \in BOOLEAN
  BY <1>3 DEF Translate, Whole
<1>5. atRead' \in [Workers -> BOOLEAN]
  BY <1>3 DEF Translate
<1> QED
  BY <1>1, <1>2, <1>4, <1>5 DEF Translate, Starting

(* How the steps of a thread move it past the reading of its file. *)
LEMMA ReadEffect ==
  ASSUME PoolInv, NEW w \in Workers, Thread(w)
  PROVE  /\ Reading(w) => text'[w] = source[File(w)] /\ File(w)' = File(w)
         /\ ~Reading(w) /\ wpc'[w] \in PastRead =>
              wpc[w] \in PastRead /\ text'[w] = text[w] /\ File(w)' = File(w)
         /\ wpc[w] \in PastRead /\ wpc'[w] # "free" => wpc'[w] \in PastRead
         /\ ~Writing(w) => \A f \in Files : page'[f] \in {"english", "translated"} =>
              page'[f] = page[f] /\ made'[f] = made[f]
<1> USE DEF PoolInv, TypeOK, pages, process, thread, Goto, At, PastRead, Reading, Writing, File
<1>1. CASE Take(w)
  BY <1>1 DEF Take
<1>2. CASE Check(w)
  BY <1>2 DEF Check, Finish
<1>3. CASE Read(w)
  BY <1>3 DEF Read, Proceed
<1>4. CASE ReadFails(w)
  BY <1>4 DEF ReadFails, Finish
<1>5. CASE Wait(w)
  BY <1>5 DEF Wait
<1>6. CASE Answered(w)
  BY <1>6 DEF Answered, Proceed
<1>7. CASE TooMany(w)
  BY <1>7 DEF TooMany, Proceed
<1>8. CASE Open(w)
  BY <1>8 DEF Open
<1>9. CASE Write(w)
  <2>1. task[w] \in DOMAIN result
    BY <1>9 DEF Write, ThreadInv, Busy
  <2> QED
    BY <1>9, <2>1 DEF Write, Finish
<1>10. CASE WriteFails(w)
  BY <1>10 DEF WriteFails, Finish
<1> QED
  BY <1>1, <1>2, <1>3, <1>4, <1>5, <1>6, <1>7, <1>8, <1>9, <1>10 DEF Thread

LEMMA SteadyRun == PagesInv /\ Translate => SteadyInv'
<1> SUFFICES ASSUME PagesInv, Translate PROVE SteadyInv'
  OBVIOUS
<1>1. /\ UNCHANGED <<source, upstream, applying, torn, swept, Whole>>
      /\ PoolInv /\ SteadyInv /\ WholeInv
  BY MirrorUnderRun DEF PagesInv, MirrorInv
<1>2. \A w \in Workers :
        atRead'[w] = IF Reading(w) THEN steady ELSE atRead[w] /\ wpc'[w] # "free"
  BY DEF Translate
<1>3. steady' => state' # "idle" /\ Whole' /\ sha' = upstream'
  <2> SUFFICES ASSUME steady' PROVE state' # "idle" /\ Whole /\ sha' = upstream
    BY <1>1
  <2>1. CASE Starting
    <3>1. Run \/ ~(state = "idle" /\ state' = "running")
      BY <1>1, NextParts, ElsewhereEffect, EndEffect, ThreadAlone
         DEF Translate, vars, pool, process
    <3> QED
      BY <1>1, <2>1, <3>1, MirrorUnderRun, RunEffect DEF Starting
  <2>2. CASE ~Starting
    <3>1. steady /\ state' # "idle"
      BY <2>2, MirrorUnderRun
    <3>2. state # "idle" /\ Whole /\ sha = upstream
      BY <1>1, <3>1 DEF SteadyInv
    <3>3. sha' = sha
      BY <1>1, <3>1, <3>2, NextParts, ElsewhereEffect, EndEffect, RunEffect, ThreadAlone
         DEF Translate, vars, pool, process
    <3> QED
      BY <3>1, <3>2, <3>3
  <2> QED
    BY <2>1, <2>2
<1>4. SUFFICES ASSUME NEW w \in Workers
               PROVE  /\ steady' /\ wpc'[w] \in PastRead => atRead'[w]
                      /\ atRead'[w] => /\ wpc'[w] \in PastRead
                                       /\ sha' \in Shas
                                       /\ text'[w] = Content[sha'][File(w)']
  BY <1>3 DEF SteadyInv
<1>5. /\ steady => state # "idle" /\ Whole /\ sha = upstream
      /\ steady /\ wpc[w] \in PastRead => atRead[w]
      /\ atRead[w] => /\ wpc[w] \in PastRead
                      /\ sha \in Shas
                      /\ text[w] = Content[sha][File(w)]
  BY <1>1 DEF SteadyInv
<1>6. steady' => steady \/ state = "idle"
  BY MirrorUnderRun DEF Starting
<1>7. CASE Elsewhere \/ UNCHANGED vars
  <2>1. UNCHANGED <<wpc, text, sha, files, task>> /\ File(w)' = File(w) /\ ~Reading(w)
    BY <1>1, <1>7, ElsewhereEffect
       DEF vars, pool, process, thread, File, Reading, At
  <2>2. state = "idle" => wpc[w] \notin PastRead
    BY <1>1 DEF PoolInv, ThreadInv, Busy, At, PastRead
  <2> QED
    BY <1>2, <1>5, <1>6, <2>1, <2>2 DEF PastRead
<1>8. CASE Exit \/ Kill \/ Run
  <2>1. wpc'[w] = "free"
    BY <1>1, <1>8, EndEffect, RunEffect
  <2> QED
    BY <1>2, <2>1 DEF PastRead, Reading
<1>9. ASSUME NEW v \in Workers, Thread(v), v # w
      PROVE  /\ steady' /\ wpc'[w] \in PastRead => atRead'[w]
             /\ atRead'[w] => /\ wpc'[w] \in PastRead
                              /\ sha' \in Shas
                              /\ text'[w] = Content[sha'][File(w)']
  <2>1. wpc'[w] = wpc[w] /\ text'[w] = text[w] /\ File(w)' = File(w) /\ sha' = sha
    BY <1>1, <1>9, ThreadAlone
  <2>2. ~Reading(w) /\ state # "idle"
    BY <1>1, <1>9, <2>1, ThreadRuns DEF Reading, At
  <2> QED
    BY <1>2, <1>5, <1>6, <2>1, <2>2 DEF PastRead
<1>10. CASE Thread(w)
  <2>1. sha' = sha /\ state # "idle"
    BY <1>1, <1>10, ThreadAlone, ThreadRuns
  <2>2. CASE Reading(w)
    <3>1. File(w) \in Files /\ wpc'[w] \in PastRead
      BY <1>1, <2>2 DEF Reading, At, PoolInv, ThreadInv, PastRead
    <3>2. text'[w] = source[File(w)] /\ File(w)' = File(w)
      BY <1>1, <1>10, <2>2, ReadEffect
    <3>3. steady => sha \in Shas /\ source[File(w)] = Content[sha][File(w)]
      BY <1>1, <1>5, <3>1 DEF WholeInv
    <3> QED
      BY <1>2, <1>6, <2>1, <2>2, <3>1, <3>2, <3>3
  <2>3. CASE ~Reading(w)
    <3>1. /\ wpc'[w] \in PastRead =>
               wpc[w] \in PastRead /\ text'[w] = text[w] /\ File(w)' = File(w)
          /\ wpc[w] \in PastRead /\ wpc'[w] # "free" => wpc'[w] \in PastRead
      BY <1>1, <1>10, <2>3, ReadEffect
    <3> QED
      BY <1>2, <1>5, <1>6, <2>1, <2>3, <3>1 DEF PastRead
  <2> QED
    BY <2>2, <2>3
<1> QED
  BY <1>7, <1>8, <1>9, <1>10, NextParts DEF Translate

(* What a step of a run makes of the pages, and of how long each was made in peace. *)
LEMMA PagesUnderRun ==
  ASSUME PagesInv, Translate, NEW f \in Files, Finished(f)'
  PROVE  \/ page'[f] = page[f] /\ made'[f] = made[f] /\ quiet'[f] = quiet[f]
         \/ \E w \in Workers :
              /\ At(w, "write") /\ File(w) = f
              /\ made'[f] = [sha |-> sha, text |-> text[w]]
              /\ quiet'[f] = IF steady THEN "written" ELSE IF atRead[w] THEN "read" ELSE "no"
<1> DEFINE Writes(w) == Writing(w) /\ File(w) = f
<1>1. /\ quiet'[f] = IF \E w \in Workers : Writes(w) /\ page[f] # "absent"
                     THEN LET w == CHOOSE v \in Workers : Writes(v) IN
                          IF steady THEN "written" ELSE IF atRead[w] THEN "read" ELSE "no"
                     ELSE IF page'[f] \in {"english", "translated"} THEN quiet[f] ELSE "no"
      /\ page'[f] \in {"english", "translated"}
  BY DEF Translate, Finished
<1>2. PoolInv
  BY DEF PagesInv
<1>3. CASE \A w \in Workers : ~Writing(w)
  <2>1. page'[f] = page[f] /\ made'[f] = made[f]
    BY <1>1, <1>2, <1>3, NextParts, ElsewhereEffect, EndEffect, RunEffect, ReadEffect
       DEF Translate, vars, pool, pages
  <2> QED
    BY <1>1, <1>3, <2>1
<1>4. ASSUME NEW w \in Workers, Writing(w)
      PROVE  \/ page'[f] = page[f] /\ made'[f] = made[f] /\ quiet'[f] = quiet[f]
             \/ /\ At(w, "write") /\ File(w) = f
                /\ made'[f] = [sha |-> sha, text |-> text[w]]
                /\ quiet'[f] = IF steady THEN "written" ELSE IF atRead[w] THEN "read" ELSE "no"
  <2>1. \A v \in Workers : At(v, "write") =>
          /\ task[v] \in 1 .. Len(files) /\ result[task[v]] = "pending"
          /\ At(w, "write") /\ task[v] = task[w] => v = w
    BY <1>2 DEF PoolInv, TypeOK, ThreadInv, Busy, At
  <2>2. state # "idle"
    BY <1>2, <1>4 DEF PoolInv, ThreadInv, Writing, Busy, At
  <2>3. PICK u \in Workers : Thread(u)
    <3>1. ~Run /\ (Exit \/ Kill \/ Elsewhere \/ UNCHANGED vars => result' = result)
      BY <1>2, <2>2, EndEffect, ElsewhereEffect DEF Run, vars, pool
    <3> QED
      BY <1>2, <1>4, <2>1, <3>1, NextParts DEF Translate, Writing
  <2>4. \A v \in Workers : Writing(v) => v = w
    <3>1. \A v \in Workers : Writing(v) => task[v] = task[u]
      BY <1>2, <2>1, <2>3, ThreadAlone DEF Writing
    <3> QED
      BY <1>4, <2>1, <3>1 DEF Writing
  <2>5. task[u] = task[w] /\ At(w, "write")
    BY <1>2, <1>4, <2>1, <2>3, ThreadAlone DEF Writing
  <2>6. Write(w)
    <3>1. Busy(w) /\ task[w] \in 1 .. next - 1 /\ File(w) \in Files
      BY <1>2, <2>5 DEF PoolInv, ThreadInv, Busy, At
    <3>2. \A v \in Workers : Busy(v) /\ task[v] = task[w] => v = w
      BY <1>2, <3>1 DEF PoolInv, ThreadInv
    <3>3. Busy(u)
      BY <1>2, <1>4, <2>1, <2>3, <2>5 DEF Thread, Take, Check, Read, ReadFails, Wait, Answered,
         TooMany, Open, Write, WriteFails, Busy, At, Writing
    <3>4. Thread(w)
      BY <2>3, <2>5, <3>2, <3>3
    <3>5. ~WriteFails(w)
      BY <1>2, <1>4, <2>1, <2>5 DEF WriteFails, Finish, Writing, PoolInv, TypeOK
    <3> QED
      BY <2>5, <3>4, <3>5 DEF Thread, Take, Check, Read, ReadFails, Wait, Answered, TooMany,
         Open, At
  <2>7. CASE File(w) # f \/ page[f] = "absent"
    <3>1. page'[f] = page[f] /\ made'[f] = made[f]
      BY <1>2, <2>6, <2>7 DEF Write, pages, PoolInv, TypeOK
    <3>2. ~\E v \in Workers : Writes(v) /\ page[f] # "absent"
      BY <2>4, <2>7
    <3> QED
      BY <1>1, <3>1, <3>2
  <2>8. CASE File(w) = f /\ page[f] # "absent"
    <3>1. made'[f] = [sha |-> sha, text |-> text[w]]
      BY <1>2, <2>6, <2>8 DEF Write, Stamp, PoolInv, TypeOK
    <3>2. w = CHOOSE v \in Workers : Writes(v)
      <4>1. Writes(w) /\ \A v \in Workers : Writes(v) => v = w
        BY <1>4, <2>4, <2>8
      <4> QED
        BY <4>1
    <3>3. \E v \in Workers : Writes(v) /\ page[f] # "absent"
      BY <1>4, <2>8
    <3> QED
      BY <1>1, <2>5, <2>8, <3>1, <3>2, <3>3
  <2> QED
    BY <2>7, <2>8
<1> QED
  BY <1>3, <1>4

LEMMA TranslatePages == PagesInv /\ Translate => PagesInv'
<1> SUFFICES ASSUME PagesInv, Translate PROVE PagesInv'
  OBVIOUS
<1>1. /\ UNCHANGED <<source, upstream, applying, torn, swept, Whole>>
      /\ PoolInv' /\ steady' \in BOOLEAN /\ atRead' \in [Workers -> BOOLEAN]
  BY MirrorUnderRun
<1>2. SteadyInv'
  BY SteadyRun
<1>3. \A w \in Workers : At(w, "write") =>
        /\ steady => atRead[w] /\ sha = upstream /\ Whole
        /\ atRead[w] => sha \in Shas /\ text[w] = Content[sha][File(w)]
  BY DEF PagesInv, SteadyInv, PastRead, At
<1>4. quiet' \in [Files -> {"no", "read", "written"}]
  <2>1. quiet \in [Files -> {"no", "read", "written"}]
    BY DEF PagesInv, MirrorInv, ObserversTyped
  <2> QED
    BY <2>1 DEF Translate
<1>5. MirrorInv'
  <2>1. ASSUME applying # Unknown, NEW f \in swept PROVE quiet'[f] # "written"
    <3>1. f \in Files /\ quiet[f] # "written" /\ ~Whole
      BY <2>1 DEF PagesInv, MirrorInv, ObserversTyped, SweptInv, Whole
    <3>2. CASE Finished(f)'
      BY <1>3, <3>1, <3>2, PagesUnderRun
    <3>3. CASE ~Finished(f)'
      BY <1>3, <3>1, <3>3 DEF Translate, Finished, Writing
    <3> QED
      BY <3>2, <3>3
  <2> QED
    BY <1>1, <1>4, <2>1 DEF PagesInv, MirrorInv, ObserversTyped, WholeInv, SweptInv
<1>6. StampTrue'
  <2> SUFFICES ASSUME NEW f \in Files, Finished(f)', quiet'[f] # "no"
               PROVE  made'[f].sha \in Shas /\ made'[f].text = Content[made'[f].sha][f]
    BY DEF StampTrue
  <2>1. CASE page'[f] = page[f] /\ made'[f] = made[f] /\ quiet'[f] = quiet[f]
    BY <2>1 DEF PagesInv, StampTrue, Finished
  <2>2. ASSUME NEW w \in Workers, At(w, "write"), File(w) = f,
               made'[f] = [sha |-> sha, text |-> text[w]],
               quiet'[f] = IF steady THEN "written" ELSE IF atRead[w] THEN "read" ELSE "no"
        PROVE  made'[f].sha \in Shas /\ made'[f].text = Content[made'[f].sha][f]
    BY <1>3, <2>2
  <2> QED
    BY <2>1, <2>2, PagesUnderRun
<1>7. PagesCurrent'
  <2> SUFFICES ASSUME Whole, NEW f \in Files, Finished(f)', quiet'[f] = "written"
               PROVE  made'[f] = [sha |-> upstream, text |-> Content[upstream][f]]
    BY <1>1 DEF PagesCurrent
  <2>1. CASE page'[f] = page[f] /\ made'[f] = made[f] /\ quiet'[f] = quiet[f]
    BY <2>1 DEF PagesInv, PagesCurrent, Finished
  <2>2. ASSUME NEW w \in Workers, At(w, "write"), File(w) = f,
               made'[f] = [sha |-> sha, text |-> text[w]],
               quiet'[f] = IF steady THEN "written" ELSE IF atRead[w] THEN "read" ELSE "no"
        PROVE  made'[f] = [sha |-> upstream, text |-> Content[upstream][f]]
    BY <1>3, <2>2
  <2> QED
    BY <2>1, <2>2, PagesUnderRun
<1> QED
  BY <1>1, <1>2, <1>5, <1>6, <1>7 DEF PagesInv

LEMMA NextPages == PagesInv /\ [PagesNext]_pagesVars => PagesInv'
<1> SUFFICES ASSUME PagesInv, [PagesNext]_pagesVars PROVE PagesInv'
  OBVIOUS
<1>1. CASE UNCHANGED pagesVars
  <2> USE <1>1 DEF pagesVars, observers
  <2>1. PoolInv'
    BY StutterPool DEF PagesInv
  <2>2. UNCHANGED <<source, upstream, page, made, sha, state, wpc, text, files, task>>
    BY DEF vars, mirror, pool, pages, process, thread
  <2>3. MirrorInv' /\ SteadyInv'
    BY <2>2 DEF PagesInv, MirrorInv, ObserversTyped, WholeInv, SweptInv, SteadyInv, Whole, File
  <2>4. StampTrue' /\ PagesCurrent'
    BY <2>2 DEF PagesInv, StampTrue, PagesCurrent, Finished, Whole
  <2> QED
    BY <2>1, <2>3, <2>4 DEF PagesInv
<1> QED
  BY <1>1, BeginPages, ReplacePages, SweepPages, ForgetPages, CompletePages, AbandonPages,
     TranslatePages DEF PagesNext

----------------------------------------------------------------------------

(* A page's ":Upstream-at:" names the commit that its text is of, if the mirror rested from
   the start of the run to the reading of its source: the header is made from the commit
   read once, before the sources, and not as the page is written. *)
THEOREM StampsTrue == PagesSpec => []StampTrue
<1>1. PagesInv => StampTrue
  BY DEF PagesInv
<1> QED
  BY <1>1, InitPages, NextPages, PTL DEF PagesSpec

(* Every page that a run wrote while the mirror rested is of the mirrored commit for as
   long as the mirror is whole, though mt.py skips the pages it finds: each sync deletes
   them all. *)
THEOREM PagesStayCurrent == PagesSpec => []PagesCurrent
<1>1. PagesInv => PagesCurrent
  BY DEF PagesInv
<1> QED
  BY <1>1, InitPages, NextPages, PTL DEF PagesSpec
=============================================================================
