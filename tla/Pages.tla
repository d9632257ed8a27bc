------------------------------- MODULE Pages -------------------------------
(***************************************************************************)
(* scripts/mt.py beside the scripts that mirror its sources: the pool of   *)
(* MtPool over a tree that the abstract Mirror replaces, path by path,     *)
(* while threads read it.                                                  *)
(*                                                                         *)
(* No commit has Documentation/translations/vi_VN_mt/, and the scripts     *)
(* exclude vi_VN/ alone: rsync --delete removes the machine translations.  *)
(***************************************************************************)
EXTENDS MtPool

CONSTANT Content   \* Content[v][f]: what commit v holds at f

ASSUME ContentAssumption == Content \in [Shas -> [Files -> Texts \cup {Gone}]]

VARIABLES
  applying,  \* the commit that a sync applies
  torn,      \* a sync was cut short, and none completed since
  swept,     \* the pages that its rsync has come to
  steady,    \* observer: the mirror rests, whole, since the run began
  atRead,    \* observer: per thread, steady as it read its file
  quiet      \* observer: how long steady held under the run that wrote a page

syncVars == <<mirror, applying, torn, swept>>
observers == <<steady, atRead, quiet>>
pagesVars == <<vars, applying, torn, swept, observers>>

Sync == INSTANCE Mirror WITH
  Paths <- Files, ViPages <- {}, LocalPages <- {}, Removable <- {},
  Versions <- Shas, NoSha <- Unknown, Blobs <- Texts, Absent <- Gone, tree <- source

(* UPSTREAM names the commit that the sources are. *)
Whole == applying = Unknown /\ ~torn /\ upstream # Unknown

PagesInit ==
  /\ Sync!Init
  /\ page = [f \in Files |-> "absent"]
  /\ made = [f \in Files |-> NoStamp]
  /\ Off
  /\ swept = {}
  /\ steady = FALSE
  /\ atRead = [w \in Workers |-> FALSE]
  /\ quiet = [f \in Files |-> "no"]

----------------------------------------------------------------------------
(* A sync. *)

Interferes == steady' = FALSE /\ UNCHANGED <<atRead, quiet>>

Begin ==
  /\ \E v \in Shas : Sync!Begin(v)
  /\ swept' = {}
  /\ Interferes
  /\ UNCHANGED pool

Replace(f) ==
  /\ Sync!Replace(f)
  /\ source' # source
  /\ Interferes
  /\ UNCHANGED <<pool, swept>>

(* Mutant: vi_VN_mt/ is excluded as vi_VN/ is. *)
SweepExcludes(f) ==
  /\ applying # Unknown
  /\ f \notin swept
  /\ swept' = swept \cup {f}
  /\ Interferes
  /\ UNCHANGED <<pool, mirror, applying, torn>>

(* rsync --delete comes to a page, once: one made later stays. *)
Sweep(f) ==
  /\ applying # Unknown
  /\ f \notin swept
  /\ swept' = swept \cup {f}
  /\ page' = [page EXCEPT ![f] = "absent"]
  /\ made' = [made EXCEPT ![f] = NoStamp]
  /\ broken' = broken \ {f}
  /\ steady' = FALSE
  /\ quiet' = [quiet EXCEPT ![f] = "no"]
  /\ UNCHANGED <<mirror, applying, torn, process, next, collected, result, wpc, thread,
                 rate, exit, atRead>>

(* The rsync is done. *)
Forget ==
  /\ swept = Files
  /\ upstream # Unknown
  /\ Sync!Forget
  /\ Interferes
  /\ UNCHANGED <<pool, swept>>

Complete == swept = Files /\ Sync!Complete /\ Interferes /\ UNCHANGED <<pool, swept>>

Abandon == Sync!Abandon /\ Interferes /\ UNCHANGED <<pool, swept>>

----------------------------------------------------------------------------
(* A run of mt.py. *)

Starting == state = "idle" /\ state' = "running"

Reading(w) == At(w, "read") /\ wpc'[w] \in {"wait", "open"}

Writing(w) == At(w, "write") /\ result'[task[w]] = "done"

Translate ==
  /\ Next
  /\ UNCHANGED <<mirror, applying, torn, swept>>
  /\ steady' = IF Starting THEN Whole ELSE steady /\ state' # "idle"
  /\ atRead' = [w \in Workers |->
       IF Reading(w) THEN steady ELSE atRead[w] /\ wpc'[w] # "free"]
  /\ quiet' = [f \in Files |->
       IF \E w \in Workers : Writing(w) /\ File(w) = f /\ page[f] # "absent"
       THEN LET w == CHOOSE v \in Workers : Writing(v) /\ File(v) = f IN
            IF steady THEN "written" ELSE IF atRead[w] THEN "read" ELSE "no"
       ELSE IF page'[f] \in {"english", "translated"} THEN quiet[f] ELSE "no"]

PagesNext ==
  \/ Begin
  \/ \E f \in Files : Replace(f) \/ Sweep(f)
  \/ Forget
  \/ Complete
  \/ Abandon
  \/ Translate

PagesSpec == PagesInit /\ [][PagesNext]_pagesVars

----------------------------------------------------------------------------
(* Properties. *)

Finished(f) == page[f] \in {"english", "translated"}

(* The ":Upstream-at:" of a page names the commit that its text is of, if no sync was
   under way, or had been cut short, between the reading of UPSTREAM at the start of the
   run and the reading of the source: whatever syncs came in between that and the writing
   of the page. *)
StampTrue ==
  \A f \in Files :
    Finished(f) /\ quiet[f] # "no" =>
      made[f].sha \in Shas /\ made[f].text = Content[made[f].sha][f]

(* A page that stands while the mirror is whole was made from the mirrored commit, and
   says so, unless a sync ran under the run that wrote it: mt.py skips pages that exist,
   and it is the syncs that remove the outdated ones. *)
PagesCurrent ==
  Whole =>
    \A f \in Files :
      Finished(f) /\ quiet[f] = "written" =>
        made[f] = [sha |-> upstream, text |-> Content[upstream][f]]
=============================================================================
