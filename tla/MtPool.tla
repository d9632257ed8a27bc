------------------------------ MODULE MtPool ------------------------------
(***************************************************************************)
(* scripts/mt.py: a run that machine-translates source files in a pool of  *)
(* threads, the rate limit its threads share, and the pages they write     *)
(* below Documentation/translations/vi_VN_mt/.                             *)
(*                                                                         *)
(* The threads of ThreadPoolExecutor take the files in order, pool.map     *)
(* hands the main thread their results in the same order.  A file is read, *)
(* translated one unit (a prose block, a directive's body, the labels of a *)
(* toctree) at a time, and written.  The translator is external: it        *)
(* answers, answers nothing, fails, or raises TooManyRequests.             *)
(***************************************************************************)
EXTENDS Naturals, Sequences, FiniteSets

CONSTANTS
  Workers,    \* the threads of the pool (--workers)
  Files,      \* the paths of source files below Documentation/
  Skipped,    \* those in a directory or below a prefix that is never translated
  Outside,    \* .rst files named on the command line that are not below it
  Listing,    \* Files in the order of their paths
  Batches,    \* the lists of files a run may be given on its command line
  Texts,      \* what a source file may hold
  Gone,       \* no file
  Shas,       \* commits that UPSTREAM may name
  Unknown,    \* "unknown", in place of a commit
  Units,      \* Units[f]: the number of units of f that are sent out
  Attempts,   \* requests per unit ("attempts = 6")
  Cap         \* the longest penalty (120 s), in units of the backoff (2 s)

ASSUME PoolAssumption ==
  /\ Files \cap Outside = {}
  /\ Skipped \subseteq Files
  /\ Listing \in Seq(Files)
  /\ Gone \notin Texts
  /\ Unknown \notin Shas
  /\ Batches \subseteq Seq(Files \cup Outside)
  /\ Units \in [Files -> Nat]
  /\ Attempts \in Nat \ {0}
  /\ Cap \in Nat

VARIABLES
  source,     \* what each source file holds
  upstream,   \* the commit that the UPSTREAM file names
  page,       \* the page of each source file
  made,       \* the commit in its header, and the text it is a translation of
  state,      \* the process: not running, running, or leaving on an exception
  files,      \* its list of files
  force,      \* --force
  sha,        \* upstream_sha
  next,       \* the first file no thread has taken
  collected,  \* how many results the main thread has seen
  result,     \* the result of each file
  wpc,        \* what each thread does next
  task,       \* the file it has taken, as an index of files
  unit,       \* the unit it translates
  attempt,    \* the requests made for this unit
  text,       \* the text it has read
  lost,       \* whether a unit of this file was left in English
  remaining,  \* RATE_LIMIT_UNTIL - time.time(), 0 once it has passed
  exit,       \* how the last run ended
  broken,     \* observer: pages that a fault left truncated
  owed        \* observer: what is left of the penalty each thread met last

mirror == <<source, upstream>>
pages == <<page, made>>
process == <<state, files, force, sha>>
thread == <<task, unit, attempt, text, lost>>
rate == <<remaining, owed>>
pool == <<pages, process, next, collected, result, wpc, thread, rate, exit, broken>>
vars == <<mirror, pool>>

(* A page with a unit left in English is as complete as any to mt.py. *)
Pages == {"absent", "truncated", "english", "translated"}

Results == {"pending", "done", "skip", "fail", "raised"}

NoStamp == [sha |-> Unknown, text |-> Gone]

Labels == {"free", "check", "read", "wait", "call", "open", "write"}

TypeOK ==
  /\ source \in [Files -> Texts \cup {Gone}]
  /\ upstream \in Shas \cup {Unknown}
  /\ made \in [Files -> [sha : Shas \cup {Unknown}, text : Texts \cup {Gone}]]
  /\ \A f \in Files : page[f] = "absent" => made[f] = NoStamp
  /\ page \in [Files -> Pages]
  /\ state \in {"idle", "running", "draining"}
  /\ files \in Seq(Files \cup Outside)
  /\ force \in BOOLEAN
  /\ sha \in Shas \cup {Unknown}
  /\ next \in 1 .. Len(files) + 1
  /\ collected \in 0 .. Len(files)
  /\ result \in [1 .. Len(files) -> Results]
  /\ wpc \in [Workers -> Labels]
  /\ task \in [Workers -> Nat]
  /\ unit \in [Workers -> Nat]
  /\ attempt \in [Workers -> 0 .. Attempts]
  /\ text \in [Workers -> Texts \cup {Gone}]
  /\ lost \in [Workers -> BOOLEAN]
  /\ remaining \in 0 .. Cap
  /\ exit \in {"none", "ok", "failed", "exception", "killed"}
  /\ broken \in SUBSET Files
  /\ owed \in [Workers -> 0 .. Cap]

(* No run has been started. *)
Off ==
  /\ state = "idle"
  /\ files = <<>>
  /\ force = FALSE
  /\ sha = Unknown
  /\ next = 1
  /\ collected = 0
  /\ result = <<>>
  /\ wpc = [w \in Workers |-> "free"]
  /\ task = [w \in Workers |-> 0]
  /\ unit = [w \in Workers |-> 0]
  /\ attempt = [w \in Workers |-> 0]
  /\ text = [w \in Workers |-> Gone]
  /\ lost = [w \in Workers |-> FALSE]
  /\ remaining = 0
  /\ exit = "none"
  /\ broken = {}
  /\ owed = [w \in Workers |-> 0]

Init ==
  /\ source \in [Files -> Texts]
  /\ upstream \in Shas
  /\ page \in [Files -> {"absent", "translated"}]
  /\ made = [f \in Files |-> IF page[f] = "absent" THEN NoStamp
                             ELSE [sha |-> upstream, text |-> source[f]]]
  /\ Off

----------------------------------------------------------------------------
(* The main thread. *)

(* The one list of what s holds at the places D, in their order. *)
InOrder(s, D) ==
  LET n == Cardinality(D) IN
  {[k \in 1 .. n |-> s[p[k]]] :
     p \in {q \in [1 .. n -> D] : \A j, k \in 1 .. n : j < k => q[j] < q[k]}}

(* iter_source_files: what rglob finds, less what is never translated. *)
IterSourceFiles ==
  InOrder(Listing, {i \in DOMAIN Listing : source[Listing[i]] # Gone /\ Listing[i] \notin Skipped})

(* The files named on the command line that exist. *)
Existing(batch) ==
  InOrder(batch, {i \in DOMAIN batch : batch[i] \in Files => source[batch[i]] # Gone})

(* main: the list is cut to --limit (0: not at all); an empty list ends the
   program before run, which begins by reading UPSTREAM. *)
Run ==
  /\ state = "idle"
  /\ \E batch \in (UNION {Existing(b) : b \in Batches}) \cup IterSourceFiles :
       \E n \in 0 .. Len(batch) :
         /\ files' = IF n = 0 THEN batch ELSE SubSeq(batch, 1, n)
         /\ files' # <<>>
         /\ result' = [i \in 1 .. Len(files') |-> "pending"]
  /\ force' \in BOOLEAN
  /\ sha' = upstream
  /\ state' = "running"
  /\ exit' = "none"
  /\ UNCHANGED <<mirror, pages, next, collected, wpc, thread, rate, broken>>

(* pool.map yields the next result. *)
Collect ==
  /\ state = "running"
  /\ collected < Len(files)
  /\ result[collected + 1] \in {"done", "skip", "fail"}
  /\ collected' = collected + 1
  /\ UNCHANGED <<mirror, pages, process, next, result, wpc, thread, rate, exit, broken>>

(* Mutant: daemon threads, which die with the main thread. *)
RaiseAbandons ==
  /\ state = "running"
  /\ state' = "draining"
  /\ wpc' = [w \in Workers |-> "free"]
  /\ UNCHANGED <<mirror, pages, files, force, sha, next, collected, result, thread, rate, exit,
                 broken>>

(* pool.map raises: what the worker raised, or KeyboardInterrupt.  The iterator
   cancels the futures that no thread has taken. *)
Raise ==
  /\ state = "running"
  /\ state' = "draining"
  /\ UNCHANGED <<mirror, pages, files, force, sha, next, collected, result, wpc, thread, rate,
                 exit, broken>>

RaiseResult ==
  /\ collected < Len(files)
  /\ result[collected + 1] = "raised"
  /\ Raise

Interrupt == collected < Len(files) /\ Raise

(* The process ends with a status.  Of its variables, files and result are kept for the
   properties. *)
EndProcess(status) ==
  /\ state' = "idle"
  /\ exit' = status
  /\ force' = FALSE
  /\ sha' = Unknown
  /\ next' = 1
  /\ collected' = 0
  /\ remaining' = 0
  /\ owed' = [w \in Workers |-> 0]
  /\ UNCHANGED <<mirror, pages, files, result>>

(* Mutant: run returns 0 whatever failed. *)
StatusAlwaysOk == IF state = "draining" THEN "exception" ELSE "ok"

(* run returns 0 when nothing failed. *)
Status ==
  IF state = "draining" THEN "exception"
  ELSE IF \E i \in 1 .. Len(files) : result[i] = "fail" THEN "failed" ELSE "ok"

(* The end of the with block waits for the threads. *)
Exit ==
  /\ state # "idle"
  /\ state = "running" => collected = Len(files)
  /\ \A w \in Workers : wpc[w] = "free"
  /\ EndProcess(Status)
  /\ UNCHANGED <<wpc, thread, broken>>

----------------------------------------------------------------------------
(* The threads: translate_file. *)

At(w, label) == wpc[w] = label

Goto(w, label) == wpc' = [wpc EXCEPT ![w] = label]

File(w) == files[task[w]]

(* The thread's variables are dead once its file is done with. *)
Finish(w, r) ==
  /\ Goto(w, "free")
  /\ result' = [result EXCEPT ![task[w]] = r]
  /\ task' = [task EXCEPT ![w] = 0]
  /\ unit' = [unit EXCEPT ![w] = 0]
  /\ attempt' = [attempt EXCEPT ![w] = 0]
  /\ text' = [text EXCEPT ![w] = Gone]
  /\ lost' = [lost EXCEPT ![w] = FALSE]

(* Mutant: the last file is never taken. *)
TakeButLast(w) ==
  /\ state = "running"
  /\ wpc[w] = "free"
  /\ next < Len(files)
  /\ task' = [task EXCEPT ![w] = next]
  /\ next' = next + 1
  /\ wpc' = [wpc EXCEPT ![w] = "check"]
  /\ UNCHANGED <<mirror, pages, process, collected, result, unit, attempt, text, lost, rate, exit,
                 broken>>

Take(w) ==
  /\ state = "running"
  /\ At(w, "free")
  /\ next <= Len(files)
  /\ task' = [task EXCEPT ![w] = next]
  /\ next' = next + 1
  /\ Goto(w, "check")
  /\ UNCHANGED <<mirror, pages, process, collected, result, unit, attempt, text, lost, rate, exit,
                 broken>>

(* Mutant: dst.exists() is not asked. *)
CheckNothing(w) ==
  /\ At(w, "check")
  /\ IF File(w) \in Outside
     THEN Finish(w, "raised")
     ELSE Goto(w, "read") /\ UNCHANGED <<result, thread>>
  /\ UNCHANGED <<mirror, pages, process, next, collected, rate, exit, broken>>

(* relative_to raises for a file outside Documentation/, and once more in the
   handler that would report it. *)
Check(w) ==
  /\ At(w, "check")
  /\ IF File(w) \in Outside
     THEN Finish(w, "raised")
     ELSE IF page[File(w)] # "absent" /\ ~force
     THEN Finish(w, "skip")
     ELSE Goto(w, "read") /\ UNCHANGED <<result, thread>>
  /\ UNCHANGED <<mirror, pages, process, next, collected, rate, exit, broken>>

(* After unit u of the file: the next one, or the page. *)
Proceed(w, u) ==
  IF u < Units[File(w)]
  THEN /\ Goto(w, "wait")
       /\ unit' = [unit EXCEPT ![w] = u + 1]
       /\ attempt' = [attempt EXCEPT ![w] = 0]
  ELSE /\ Goto(w, "open")
       /\ UNCHANGED <<unit, attempt>>

Read(w) ==
  /\ At(w, "read")
  /\ source[File(w)] # Gone
  /\ text' = [text EXCEPT ![w] = source[File(w)]]
  /\ Proceed(w, 0)
  /\ UNCHANGED <<mirror, pages, process, next, collected, result, task, lost, rate, exit,
                 broken>>

ReadFails(w) ==
  /\ At(w, "read")
  /\ Finish(w, "fail")
  /\ UNCHANGED <<mirror, pages, process, next, collected, rate, exit, broken>>

(* _wait_for_rate_limit sleeps and looks again until the deadline has passed. *)
Wait(w) ==
  /\ At(w, "wait")
  /\ remaining = 0
  /\ Goto(w, "call")
  /\ UNCHANGED <<mirror, pages, process, next, collected, result, thread, rate, exit, broken>>

(* translator.translate returns a text, or nothing, or raises. *)
Answered(w) ==
  /\ At(w, "call")
  /\ Proceed(w, unit[w])
  /\ lost' \in {lost, [lost EXCEPT ![w] = TRUE]}
  /\ UNCHANGED <<mirror, pages, process, next, collected, result, task, text, rate, exit,
                 broken>>

(* Mutant: the penalty is not capped. *)
PenaltyUncapped(i) == 2 ^ i .. 2 ^ i + 1

(* min(backoff * 2^i + uniform(0, backoff), 120) *)
Penalty(i) == {s \in 0 .. Cap : (2 ^ i <= s \/ s = Cap) /\ s <= 2 ^ i + 1}

(* Mutant: the latest penalty counts, not the longest. *)
Latest(s, t) == t

Longer(s, t) == IF s < t THEN t ELSE s

(* Mutant: the attempts are not counted. *)
TooManyForever(w) ==
  /\ At(w, "call")
  /\ \E s \in Penalty(attempt[w]) :
       /\ remaining' = Longer(remaining, s)
       /\ owed' = [owed EXCEPT ![w] = s]
  /\ Goto(w, "wait")
  /\ UNCHANGED <<mirror, pages, process, next, collected, result, thread, exit, broken>>

(* TooManyRequests: every thread waits; the unit is given up after the last
   attempt. *)
TooMany(w) ==
  /\ At(w, "call")
  /\ \E s \in Penalty(attempt[w]) :
       /\ remaining' = Longer(remaining, s)
       /\ owed' = [owed EXCEPT ![w] = s]
  /\ IF attempt[w] + 1 < Attempts
     THEN /\ Goto(w, "wait")
          /\ attempt' = [attempt EXCEPT ![w] = @ + 1]
          /\ UNCHANGED <<unit, lost>>
     ELSE /\ Proceed(w, unit[w])
          /\ lost' = [lost EXCEPT ![w] = TRUE]
  /\ UNCHANGED <<mirror, pages, process, next, collected, result, task, text, exit, broken>>

(* write_text: opening the page truncates it, closing it leaves it complete. *)
Open(w) ==
  /\ At(w, "open")
  /\ page' = [page EXCEPT ![File(w)] = "truncated"]
  /\ made' = [made EXCEPT ![File(w)] = NoStamp]
  /\ Goto(w, "write")
  /\ UNCHANGED <<mirror, process, next, collected, result, thread, rate, exit, broken>>

(* Mutant: UPSTREAM is read for each page, as it is written. *)
StampNow(w) == upstream

(* make_header: the commit read when the run began. *)
Stamp(w) == sha

(* A page deleted since it was opened stays deleted. *)
Write(w) ==
  LET f == File(w) IN
  /\ At(w, "write")
  /\ IF page[f] = "absent" THEN UNCHANGED pages
     ELSE /\ page' = [page EXCEPT ![f] = IF lost[w] THEN "english" ELSE "translated"]
          /\ made' = [made EXCEPT ![f] = [sha |-> Stamp(w), text |-> text[w]]]
  /\ broken' = broken \ {f}
  /\ Finish(w, "done")
  /\ UNCHANGED <<mirror, process, next, collected, rate, exit>>

(* The disk is full, or the page cannot be opened. *)
WriteFails(w) ==
  /\ wpc[w] \in {"open", "write"}
  /\ broken' = IF At(w, "write") THEN broken \cup {File(w)} ELSE broken
  /\ Finish(w, "fail")
  /\ UNCHANGED <<mirror, pages, process, next, collected, rate, exit>>

----------------------------------------------------------------------------
(* The environment. *)

Tick ==
  /\ remaining > 0
  /\ remaining' = remaining - 1
  /\ owed' = [w \in Workers |-> IF owed[w] = 0 THEN 0 ELSE owed[w] - 1]
  /\ UNCHANGED <<mirror, pages, process, next, collected, result, wpc, thread, exit, broken>>

(* SIGKILL or power loss, at any point. *)
Kill ==
  /\ state # "idle"
  /\ EndProcess("killed")
  /\ broken' = broken \cup {File(w) : w \in {v \in Workers : At(v, "write")}}
  /\ wpc' = [w \in Workers |-> "free"]
  /\ task' = [w \in Workers |-> 0]
  /\ unit' = [w \in Workers |-> 0]
  /\ attempt' = [w \in Workers |-> 0]
  /\ text' = [w \in Workers |-> Gone]
  /\ lost' = [w \in Workers |-> FALSE]

Main == Collect \/ RaiseResult \/ Exit

Thread(w) ==
  \/ Take(w)
  \/ Check(w)
  \/ Read(w)
  \/ ReadFails(w)
  \/ Wait(w)
  \/ Answered(w)
  \/ TooMany(w)
  \/ Open(w)
  \/ Write(w)
  \/ WriteFails(w)

Next ==
  \/ Run
  \/ Main
  \/ Interrupt
  \/ \E w \in Workers : Thread(w)
  \/ Tick
  \/ Kill

(* Threads are scheduled, requests return, time passes. *)
Fairness ==
  /\ WF_vars(Main)
  /\ \A w \in Workers : WF_vars(Thread(w))
  /\ WF_vars(Tick)

Spec == Init /\ [][Next]_vars /\ Fairness

----------------------------------------------------------------------------
(* Properties. *)

(* The file is on the list once. *)
NamedOnce == \A i, j \in 1 .. Len(files) : files[i] = files[j] => i = j

(* Exit status 0 is given only when every file of the list has a page, and
   every page that a thread wrote in this run is complete. *)
ExitHonest ==
  state = "idle" /\ exit = "ok" =>
    \A i \in 1 .. Len(files) :
      /\ files[i] \in Files
      /\ page[files[i]] # "absent"
      /\ result[i] = "done" => page[files[i]] \in {"english", "translated"}

(* Without --force, no step of a run changes a page that is complete, although
   the test for it and the write are far apart: unless a file is named twice. *)
NoOverwrite ==
  [][~force /\ NamedOnce =>
       \A f \in Files : page[f] \in {"english", "translated"} => page'[f] = page[f]]_vars

(* A page is truncated only while a thread writes it, or because a fault ended
   that write: Ctrl-C and a worker's exception let the threads finish first. *)
OnlyFaultsTruncate ==
  \A f \in Files :
    page[f] = "truncated" =>
      f \in broken \/ \E w \in Workers : At(w, "write") /\ File(w) = f

(* Whatever penalties other threads set or wait out meanwhile, no thread sends a request
   before the penalty for its own last refusal has passed. *)
BackoffKept == \A w \in Workers : At(w, "call") => owed[w] = 0

(* A run ends, however often the translator refuses: the threads share their
   penalties, and each gives a unit up after its attempts. *)
RunEnds == state = "running" ~> state = "idle"

Faultless ==
  [][/\ ~Kill
     /\ Interrupt => RaiseResult
     /\ \A w \in Workers : ~ReadFails(w) /\ ~WriteFails(w)]_vars

(* Run again and again on a list of source files, without --rate, mt.py leaves
   none of them without a page once faults cease. *)
RerunCompletes ==
  \A batch \in Batches :
    <>Faultless /\ (\A i \in 1 .. Len(batch) : batch[i] \in Files) =>
      ([]<>(state = "running" /\ files = batch)
         => <>(\A i \in 1 .. Len(batch) : page[batch[i]] # "absent"))

(* "Safe to re-run": a run that ends well leaves no page truncated, also where
   an earlier run was killed while it wrote. *)
RerunRepairs ==
  state = "idle" /\ exit = "ok" =>
    \A i \in 1 .. Len(files) : page[files[i]] # "truncated"
=============================================================================
