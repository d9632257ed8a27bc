--------------------------- MODULE MtPool_proofs ---------------------------
(***************************************************************************)
(* Proofs about MtPool, for any number of threads, files and pages, any    *)
(* lists of files and any limits.                                          *)
(***************************************************************************)
EXTENDS MtPool, FiniteSetTheorems, TLAPS

Busy(w) == ~At(w, "free")

(* A thread at work has taken a file of the run's list that no other thread has and
   whose result is pending; past the first test it is a source file. *)
ThreadInv ==
  \A w \in Workers :
    /\ Busy(w) => /\ state # "idle"
                  /\ task[w] \in 1 .. next - 1
                  /\ result[task[w]] = "pending"
    /\ wpc[w] \notin {"free", "check"} => File(w) \in Files
    /\ \A v \in Workers : Busy(w) /\ Busy(v) /\ task[v] = task[w] => v = w

(* Files that no thread has taken have no result, those collected have one that
   counts, and nothing is left of a run that has ended. *)
QueueInv ==
  /\ state = "idle" => next = 1 /\ collected = 0 /\ ~force
  /\ state # "idle" => \A i \in next .. Len(files) : result[i] = "pending"
  /\ \A i \in 1 .. collected : result[i] \in {"done", "skip", "fail"}

(* The shared deadline is never before the end of a thread's own penalty. *)
RateInv ==
  /\ \A w \in Workers : owed[w] <= remaining
  /\ BackoffKept

(* What does not depend on the pages. *)
PoolInv == TypeOK /\ ThreadInv /\ QueueInv /\ RateInv

(* The part of TypeOK that is about the pages. *)
PagesTyped ==
  /\ page \in [Files -> Pages]
  /\ made \in [Files -> [sha : Shas \cup {Unknown}, text : Texts \cup {Gone}]]
  /\ \A f \in Files : page[f] = "absent" => made[f] = NoStamp
  /\ broken \in SUBSET Files

----------------------------------------------------------------------------
(* Lists of files. *)

LEMMA InOrderTyped ==
  ASSUME NEW S, NEW s \in Seq(S), NEW D \in SUBSET DOMAIN s
  PROVE  InOrder(s, D) \subseteq Seq(S)
<1> DEFINE n == Cardinality(D)
<1>1. n \in Nat
  <2>1. DOMAIN s = 1 .. Len(s) /\ Len(s) \in Nat
    OBVIOUS
  <2>2. IsFiniteSet(1 .. Len(s))
    BY <2>1, FS_Interval
  <2> QED
    BY <2>1, <2>2, FS_Subset, FS_CardinalityType
<1> HIDE DEF n
<1>2. ASSUME NEW p \in [1 .. n -> D] PROVE [k \in 1 .. n |-> s[p[k]]] \in Seq(S)
  <2>1. \A k \in 1 .. n : s[p[k]] \in S
    OBVIOUS
  <2> QED
    BY <1>1, <2>1
<1> QED
  BY <1>2 DEF InOrder, n

LEMMA BatchTyped ==
  ASSUME NEW batch \in (UNION {Existing(b) : b \in Batches}) \cup IterSourceFiles
  PROVE  batch \in Seq(Files \cup Outside)
<1> DEFINE named == UNION {Existing(b) : b \in Batches}
<1>1. IterSourceFiles \subseteq Seq(Files)
  BY PoolAssumption, InOrderTyped DEF IterSourceFiles
<1>2. ASSUME NEW b \in Batches PROVE Existing(b) \subseteq Seq(Files \cup Outside)
  <2>1. b \in Seq(Files \cup Outside)
    BY PoolAssumption
  <2> QED
    BY <2>1, InOrderTyped DEF Existing
<1>3. Seq(Files) \subseteq Seq(Files \cup Outside)
  OBVIOUS
<1>4. CASE batch \in named
  <2>1. PICK b \in Batches : batch \in Existing(b)
    BY <1>4
  <2> QED
    BY <1>2, <2>1
<1>5. CASE batch \in IterSourceFiles
  BY <1>1, <1>3, <1>5
<1>6. batch \in named \cup IterSourceFiles
  OBVIOUS
<1> QED
  BY <1>4, <1>5, <1>6

----------------------------------------------------------------------------
(* The invariant of the pool. *)

(* No run has been started, whatever pages there are. *)
LEMMA OffPool ==
  ASSUME Off,
         source \in [Files -> Texts \cup {Gone}], upstream \in Shas \cup {Unknown},
         page \in [Files -> Pages],
         made \in [Files -> [sha : Shas \cup {Unknown}, text : Texts \cup {Gone}]],
         \A f \in Files : page[f] = "absent" => made[f] = NoStamp
  PROVE  PoolInv
<1>1. TypeOK
  <2>1. Len(files) = 0 /\ files \in Seq(Files \cup Outside)
    BY DEF Off
  <2>2. result \in [1 .. Len(files) -> Results]
    BY <2>1 DEF Off
  <2>3. wpc \in [Workers -> Labels] /\ task \in [Workers -> Nat] /\ unit \in [Workers -> Nat]
    BY DEF Off, Labels
  <2>4. /\ attempt \in [Workers -> 0 .. Attempts]
        /\ text \in [Workers -> Texts \cup {Gone}]
        /\ lost \in [Workers -> BOOLEAN]
        /\ owed \in [Workers -> 0 .. Cap]
        /\ remaining \in 0 .. Cap
    BY PoolAssumption DEF Off
  <2>5. /\ state = "idle" /\ force = FALSE /\ sha = Unknown /\ next = 1
        /\ collected = 0 /\ exit = "none" /\ broken = {}
    BY DEF Off
  <2>6. /\ next \in 1 .. Len(files) + 1 /\ collected \in 0 .. Len(files)
        /\ sha \in Shas \cup {Unknown}
    BY <2>1, <2>5
  <2> QED
    BY <2>1, <2>2, <2>3, <2>4, <2>5, <2>6 DEF TypeOK
<1>2. ThreadInv /\ QueueInv /\ RateInv
  BY PoolAssumption DEF Off, ThreadInv, QueueInv, RateInv, BackoffKept, Busy, At
<1> QED
  BY <1>1, <1>2 DEF PoolInv

LEMMA InitPool == Init => PoolInv
<1> SUFFICES ASSUME Init PROVE PoolInv
  OBVIOUS
<1>1. upstream \in Shas /\ source \in [Files -> Texts]
  BY DEF Init
<1>2. source \in [Files -> Texts \cup {Gone}] /\ upstream \in Shas \cup {Unknown}
  BY <1>1
<1>3. page \in [Files -> Pages]
  BY DEF Init, Pages
<1>4. made \in [Files -> [sha : Shas \cup {Unknown}, text : Texts \cup {Gone}]]
  BY <1>1 DEF Init, NoStamp
<1>5. Off /\ \A f \in Files : page[f] = "absent" => made[f] = NoStamp
  BY DEF Init
<1> QED
  BY <1>2, <1>3, <1>4, <1>5, OffPool

(* A thread moves on with its file. *)
LEMMA MoveInv ==
  ASSUME PoolInv, NEW w \in Workers, Busy(w), NEW label \in Labels \ {"free"},
         label \notin {"free", "check"} => File(w) \in Files,
         label = "call" => owed'[w] = 0,
         Goto(w, label), PagesTyped',
         UNCHANGED <<mirror, process, next, collected, result, task, exit>>,
         unit' \in [Workers -> Nat], attempt' \in [Workers -> 0 .. Attempts],
         text' \in [Workers -> Texts \cup {Gone}], lost' \in [Workers -> BOOLEAN],
         remaining' \in 0 .. Cap, owed' \in [Workers -> 0 .. Cap],
         \A v \in Workers : owed'[v] <= remaining' /\ (v # w => owed'[v] = owed[v] \/ owed'[v] = 0)
  PROVE  PoolInv'
<1>1. /\ wpc \in [Workers -> Labels]
      /\ wpc' = [wpc EXCEPT ![w] = label]
  BY DEF PoolInv, TypeOK, Goto
<1>2. \A v \in Workers : v # w => wpc'[v] = wpc[v]
  BY <1>1
<1>3. wpc'[w] = label
  BY <1>1
<1>4. TypeOK'
  BY <1>1 DEF PoolInv, TypeOK, PagesTyped, process, mirror
<1>5. ThreadInv'
  BY <1>1, <1>2, <1>3 DEF PoolInv, ThreadInv, Busy, At, File, process
<1>6. QueueInv'
  BY DEF PoolInv, QueueInv, process
<1>7. RateInv'
  BY <1>2, <1>3 DEF PoolInv, RateInv, BackoffKept, At
<1> QED
  BY <1>4, <1>5, <1>6, <1>7 DEF PoolInv

(* A thread is done with its file. *)
LEMMA FinishInv ==
  ASSUME PoolInv, NEW w \in Workers, Busy(w), NEW r \in Results \ {"pending"},
         Finish(w, r), PagesTyped',
         UNCHANGED <<mirror, process, next, collected, rate, exit>>
  PROVE  PoolInv'
<1>1. /\ wpc \in [Workers -> Labels]
      /\ wpc' = [wpc EXCEPT ![w] = "free"]
      /\ task \in [Workers -> Nat]
      /\ task' = [task EXCEPT ![w] = 0]
  BY DEF PoolInv, TypeOK, Finish, Goto
<1>2. \A v \in Workers : v # w => wpc'[v] = wpc[v] /\ task'[v] = task[v]
  BY <1>1
<1>3. wpc'[w] = "free"
  BY <1>1
<1>4. /\ next \in 1 .. Len(files) + 1
      /\ Len(files) \in Nat
      /\ collected \in 0 .. Len(files)
      /\ result \in [1 .. Len(files) -> Results]
      /\ task[w] \in 1 .. next - 1
      /\ result[task[w]] = "pending"
      /\ state # "idle"
  BY DEF PoolInv, TypeOK, ThreadInv
<1>5. /\ task[w] \in 1 .. Len(files)
      /\ result' = [result EXCEPT ![task[w]] = r]
      /\ \A i \in 1 .. Len(files) : i # task[w] => result'[i] = result[i]
  BY <1>4 DEF Finish
<1>6. TypeOK'
  <2>1. result' \in [1 .. Len(files) -> Results]
    BY <1>4, <1>5
  <2>2. wpc' \in [Workers -> Labels] /\ task' \in [Workers -> Nat]
    BY <1>1 DEF Labels
  <2>3. /\ unit' \in [Workers -> Nat]
        /\ attempt' \in [Workers -> 0 .. Attempts]
        /\ text' \in [Workers -> Texts \cup {Gone}]
        /\ lost' \in [Workers -> BOOLEAN]
    BY PoolAssumption DEF PoolInv, TypeOK, Finish
  <2> QED
    BY <2>1, <2>2, <2>3 DEF PoolInv, TypeOK, PagesTyped, process, mirror, rate
<1>7. ThreadInv'
  <2> SUFFICES ASSUME NEW v \in Workers
               PROVE  /\ Busy(v)' => /\ state' # "idle"
                                     /\ task'[v] \in 1 .. next' - 1
                                     /\ result'[task'[v]] = "pending"
                      /\ wpc'[v] \notin {"free", "check"} => File(v)' \in Files
                      /\ \A u \in Workers :
                           Busy(v)' /\ Busy(u)' /\ task'[u] = task'[v] => u = v
    BY DEF ThreadInv
  <2>1. CASE v = w
    BY <1>3, <2>1 DEF Busy, At
  <2>2. CASE v # w
    <3>1. Busy(v)' => Busy(v) /\ task'[v] # task[w] /\ task'[v] = task[v]
      BY <1>2, <2>2 DEF PoolInv, ThreadInv, Busy, At
    <3>2. Busy(v)' => task[v] \in 1 .. Len(files) /\ result'[task[v]] = "pending"
      BY <1>4, <1>5, <3>1 DEF PoolInv, ThreadInv
    <3> QED
      BY <1>2, <1>3, <2>2, <3>1, <3>2 DEF PoolInv, ThreadInv, Busy, At, File, process
  <2> QED
    BY <2>1, <2>2
<1>8. QueueInv'
  <2>1. \A i \in next .. Len(files) : result'[i] = "pending"
    BY <1>4, <1>5 DEF PoolInv, QueueInv
  <2>2. \A i \in 1 .. collected : i # task[w] /\ result'[i] = result[i]
    BY <1>4, <1>5 DEF PoolInv, QueueInv
  <2> QED
    BY <1>4, <2>1, <2>2 DEF PoolInv, QueueInv, process
<1>9. RateInv'
  BY <1>2, <1>3 DEF PoolInv, RateInv, BackoffKept, At, rate
<1> QED
  BY <1>6, <1>7, <1>8, <1>9 DEF PoolInv

LEMMA RunPool == PoolInv /\ Run => PoolInv'
<1> SUFFICES ASSUME PoolInv, Run PROVE PoolInv'
  OBVIOUS
<1>1. files' \in Seq(Files \cup Outside) /\ Len(files') \in Nat
  <2>1. PICK batch \in (UNION {Existing(b) : b \in Batches}) \cup IterSourceFiles :
          \E n \in 0 .. Len(batch) : files' = IF n = 0 THEN batch ELSE SubSeq(batch, 1, n)
    BY DEF Run
  <2>2. batch \in Seq(Files \cup Outside)
    BY BatchTyped
  <2> QED
    BY <2>1, <2>2
<1>2. result' = [i \in 1 .. Len(files') |-> "pending"]
  BY DEF Run
<1>3. /\ state = "idle" /\ state' = "running"
      /\ next' = 1 /\ collected' = 0
      /\ \A w \in Workers : wpc[w] = "free"
  BY DEF Run, PoolInv, ThreadInv, QueueInv, Busy, At
<1>4. TypeOK'
  <2>1. result' \in [1 .. Len(files') -> Results]
    BY <1>2 DEF Results
  <2>2. force' \in BOOLEAN /\ sha' \in Shas \cup {Unknown} /\ exit' = "none"
    BY DEF Run, PoolInv, TypeOK
  <2>3. next' \in 1 .. Len(files') + 1 /\ collected' \in 0 .. Len(files')
    BY <1>1, <1>3
  <2> QED
    BY <1>1, <1>3, <2>1, <2>2, <2>3 DEF Run, PoolInv, TypeOK, mirror, pages, thread, rate
<1>5. ThreadInv'
  BY <1>3 DEF Run, ThreadInv, Busy, At
<1>6. QueueInv'
  BY <1>1, <1>2, <1>3 DEF QueueInv
<1>7. RateInv'
  BY DEF Run, PoolInv, RateInv, BackoffKept, At, rate
<1> QED
  BY <1>4, <1>5, <1>6, <1>7 DEF PoolInv

LEMMA CollectPool == PoolInv /\ Collect => PoolInv'
<1> SUFFICES ASSUME PoolInv, Collect PROVE PoolInv'
  OBVIOUS
<1>1. TypeOK'
  BY DEF Collect, PoolInv, TypeOK, mirror, pages, process, thread, rate
<1>2. ThreadInv'
  BY DEF Collect, PoolInv, ThreadInv, Busy, At, File, process, thread
<1>3. QueueInv'
  BY DEF Collect, PoolInv, TypeOK, QueueInv, process
<1>4. RateInv'
  BY DEF Collect, PoolInv, RateInv, BackoffKept, At, rate
<1> QED
  BY <1>1, <1>2, <1>3, <1>4 DEF PoolInv

LEMMA RaisePool == PoolInv /\ Raise => PoolInv'
<1> SUFFICES ASSUME PoolInv, Raise PROVE PoolInv'
  OBVIOUS
<1>1. TypeOK'
  BY DEF Raise, PoolInv, TypeOK, mirror, pages, thread, rate
<1>2. ThreadInv'
  BY DEF Raise, PoolInv, ThreadInv, Busy, At, File, thread
<1>3. QueueInv'
  BY DEF Raise, PoolInv, QueueInv
<1>4. RateInv'
  BY DEF Raise, PoolInv, RateInv, BackoffKept, At, rate
<1> QED
  BY <1>1, <1>2, <1>3, <1>4 DEF PoolInv

(* The process ends, with no thread at work. *)
LEMMA EndPool ==
  ASSUME PoolInv, NEW status \in {"ok", "failed", "exception", "killed"}, EndProcess(status),
         wpc' = [w \in Workers |-> "free"], broken' \in SUBSET Files,
         task' \in [Workers -> Nat], unit' \in [Workers -> Nat],
         attempt' \in [Workers -> 0 .. Attempts], text' \in [Workers -> Texts \cup {Gone}],
         lost' \in [Workers -> BOOLEAN]
  PROVE  PoolInv'
<1>1. TypeOK'
  <2>1. /\ next' \in 1 .. Len(files') + 1
        /\ collected' \in 0 .. Len(files')
        /\ remaining' \in 0 .. Cap
        /\ owed' \in [Workers -> 0 .. Cap]
        /\ wpc' \in [Workers -> Labels]
    BY PoolAssumption DEF EndProcess, PoolInv, TypeOK, Labels
  <2>2. state' = "idle" /\ exit' = status /\ force' = FALSE /\ sha' = Unknown
    BY DEF EndProcess
  <2>3. UNCHANGED <<source, upstream, page, made, files, result>>
    BY DEF EndProcess, mirror, pages
  <2> QED
    BY <2>1, <2>2, <2>3 DEF PoolInv, TypeOK
<1>2. ThreadInv'
  BY DEF EndProcess, ThreadInv, Busy, At
<1>3. QueueInv'
  BY DEF EndProcess, QueueInv
<1>4. RateInv'
  BY PoolAssumption DEF EndProcess, RateInv, BackoffKept, At
<1> QED
  BY <1>1, <1>2, <1>3, <1>4 DEF PoolInv

LEMMA ExitPool == PoolInv /\ Exit => PoolInv'
<1> SUFFICES ASSUME PoolInv, Exit PROVE PoolInv'
  OBVIOUS
<1>1. Status \in {"ok", "failed", "exception", "killed"} /\ EndProcess(Status)
  BY DEF Status, Exit
<1>2. wpc' = [w \in Workers |-> "free"]
  BY DEF Exit, At, PoolInv, TypeOK
<1>3. /\ broken' \in SUBSET Files
      /\ task' \in [Workers -> Nat] /\ unit' \in [Workers -> Nat]
      /\ attempt' \in [Workers -> 0 .. Attempts] /\ text' \in [Workers -> Texts \cup {Gone}]
      /\ lost' \in [Workers -> BOOLEAN]
  BY DEF Exit, thread, PoolInv, TypeOK
<1> QED
  BY <1>1, <1>2, <1>3, EndPool

LEMMA KillPool == PoolInv /\ Kill => PoolInv'
<1> SUFFICES ASSUME PoolInv, Kill PROVE PoolInv'
  OBVIOUS
<1>1. EndProcess("killed") /\ wpc' = [w \in Workers |-> "free"]
  BY DEF Kill
<1>2. broken' \in SUBSET Files
  <2>1. ASSUME NEW v \in Workers, At(v, "write") PROVE File(v) \in Files
    BY <2>1 DEF At, PoolInv, ThreadInv
  <2>2. broken \subseteq Files
    BY DEF PoolInv, TypeOK
  <2>3. broken' = broken \cup {File(w) : w \in {v \in Workers : At(v, "write")}}
    BY DEF Kill
  <2> QED
    BY <2>1, <2>2, <2>3
<1>3. /\ task' \in [Workers -> Nat] /\ unit' \in [Workers -> Nat]
      /\ attempt' \in [Workers -> 0 .. Attempts] /\ text' \in [Workers -> Texts \cup {Gone}]
      /\ lost' \in [Workers -> BOOLEAN]
  BY PoolAssumption DEF Kill
<1> QED
  BY <1>1, <1>2, <1>3, EndPool

LEMMA TickPool == PoolInv /\ Tick => PoolInv'
<1> SUFFICES ASSUME PoolInv, Tick PROVE PoolInv'
  OBVIOUS
<1>1. /\ remaining' \in 0 .. Cap
      /\ owed' \in [Workers -> 0 .. Cap]
      /\ \A w \in Workers : owed'[w] <= remaining' /\ (owed[w] = 0 => owed'[w] = 0)
  BY PoolAssumption DEF Tick, PoolInv, TypeOK, RateInv
<1>2. TypeOK'
  BY <1>1 DEF Tick, PoolInv, TypeOK, mirror, pages, process, thread
<1>3. ThreadInv'
  BY DEF Tick, PoolInv, ThreadInv, Busy, At, File, process, thread
<1>4. QueueInv'
  BY DEF Tick, PoolInv, QueueInv, process
<1>5. RateInv'
  BY <1>1 DEF Tick, PoolInv, RateInv, BackoffKept, At
<1> QED
  BY <1>2, <1>3, <1>4, <1>5 DEF PoolInv

LEMMA TakePool == ASSUME NEW w \in Workers, PoolInv, Take(w) PROVE PoolInv'
<1>1. /\ wpc \in [Workers -> Labels] /\ task \in [Workers -> Nat]
      /\ next \in 1 .. Len(files) /\ Len(files) \in Nat
      /\ collected \in Nat
      /\ result[next] = "pending"
      /\ collected < next
  <2>1. /\ wpc \in [Workers -> Labels] /\ task \in [Workers -> Nat]
        /\ files \in Seq(Files \cup Outside)
        /\ next \in 1 .. Len(files) + 1 /\ next <= Len(files)
        /\ collected \in 0 .. Len(files)
        /\ state # "idle"
    BY DEF Take, PoolInv, TypeOK
  <2>2. Len(files) \in Nat
    BY <2>1
  <2>3. result[next] = "pending"
    BY <2>1, <2>2 DEF PoolInv, QueueInv
  <2>4. collected >= next => result[next] \in {"done", "skip", "fail"}
    BY <2>1, <2>2 DEF PoolInv, QueueInv
  <2> QED
    BY <2>1, <2>2, <2>3, <2>4
<1>2. /\ wpc' = [wpc EXCEPT ![w] = "check"]
      /\ task' = [task EXCEPT ![w] = next]
      /\ next' = next + 1
  BY DEF Take, Goto
<1>3. TypeOK'
  <2>1. wpc' \in [Workers -> Labels] /\ task' \in [Workers -> Nat]
    BY <1>1, <1>2 DEF Labels
  <2> QED
    BY <1>1, <1>2, <2>1 DEF Take, PoolInv, TypeOK, mirror, pages, process, rate
<1>4. ThreadInv'
  BY <1>1, <1>2 DEF Take, PoolInv, ThreadInv, Busy, At, File, process
<1>5. QueueInv'
  BY <1>1, <1>2 DEF Take, PoolInv, QueueInv, process
<1>6. RateInv'
  BY <1>1, <1>2 DEF Take, PoolInv, RateInv, BackoffKept, At, rate
<1> QED
  BY <1>3, <1>4, <1>5, <1>6 DEF PoolInv

LEMMA CheckPool == ASSUME NEW w \in Workers, PoolInv, Check(w) PROVE PoolInv'
<1>1. Busy(w) /\ PagesTyped'
  BY DEF Check, At, Busy, PoolInv, TypeOK, PagesTyped, pages
<1>2. UNCHANGED <<mirror, process, next, collected, rate, exit>>
  BY DEF Check
<1>3. CASE Finish(w, "raised") \/ Finish(w, "skip")
  BY <1>1, <1>2, <1>3, FinishInv DEF Results
<1>4. CASE File(w) \notin Outside /\ Goto(w, "read") /\ UNCHANGED <<result, thread>>
  <2>1. files \in Seq(Files \cup Outside) /\ task[w] \in 1 .. Len(files)
    BY <1>1 DEF PoolInv, TypeOK, ThreadInv
  <2>2. File(w) \in Files
    BY <1>4, <2>1 DEF File
  <2> QED
    BY <1>1, <1>2, <1>4, <2>2, MoveInv DEF PoolInv, TypeOK, RateInv, Labels, thread, rate
<1> QED
  BY <1>3, <1>4 DEF Check

(* Where a thread goes after a unit. *)
LEMMA ProceedTyped ==
  ASSUME PoolInv, NEW w \in Workers, NEW u \in Nat, Proceed(w, u)
  PROVE  /\ \E label \in {"wait", "open"} : Goto(w, label)
         /\ unit' \in [Workers -> Nat]
         /\ attempt' \in [Workers -> 0 .. Attempts]
<1>1. unit \in [Workers -> Nat] /\ attempt \in [Workers -> 0 .. Attempts]
  BY DEF PoolInv, TypeOK
<1> QED
  BY <1>1, PoolAssumption DEF Proceed

LEMMA ReadPool == ASSUME NEW w \in Workers, PoolInv, Read(w) PROVE PoolInv'
<1>1. /\ Busy(w) /\ File(w) \in Files /\ PagesTyped'
      /\ UNCHANGED <<mirror, process, next, collected, result, task, lost, rate, exit>>
  BY DEF Read, At, Busy, PoolInv, TypeOK, ThreadInv, PagesTyped, pages
<1>2. PICK label \in {"wait", "open"} : Goto(w, label)
  BY ProceedTyped DEF Read
<1>3. unit' \in [Workers -> Nat] /\ attempt' \in [Workers -> 0 .. Attempts]
  BY ProceedTyped DEF Read
<1>4. text' \in [Workers -> Texts \cup {Gone}]
  BY <1>1 DEF Read, PoolInv, TypeOK
<1> QED
  BY <1>1, <1>2, <1>3, <1>4, MoveInv DEF PoolInv, TypeOK, RateInv, Labels, rate

LEMMA ReadFailsPool == ASSUME NEW w \in Workers, PoolInv, ReadFails(w) PROVE PoolInv'
<1>1. Busy(w) /\ PagesTyped'
  BY DEF ReadFails, At, Busy, PoolInv, TypeOK, PagesTyped, pages
<1> QED
  BY <1>1, FinishInv DEF ReadFails, Results

LEMMA WaitPool == ASSUME NEW w \in Workers, PoolInv, Wait(w) PROVE PoolInv'
<1>1. Busy(w) /\ File(w) \in Files /\ PagesTyped'
  BY DEF Wait, At, Busy, PoolInv, TypeOK, ThreadInv, PagesTyped, pages
<1>2. UNCHANGED <<mirror, process, next, collected, result, thread, rate, exit>> /\ Goto(w, "call")
  BY DEF Wait
<1>3. owed'[w] = 0
  BY DEF Wait, PoolInv, TypeOK, RateInv, rate
<1> QED
  BY <1>1, <1>2, <1>3, MoveInv DEF PoolInv, TypeOK, RateInv, Labels, thread, rate

LEMMA AnsweredPool == ASSUME NEW w \in Workers, PoolInv, Answered(w) PROVE PoolInv'
<1>1. /\ Busy(w) /\ File(w) \in Files /\ PagesTyped'
      /\ UNCHANGED <<mirror, process, next, collected, result, task, text, rate, exit>>
  BY DEF Answered, At, Busy, PoolInv, TypeOK, ThreadInv, PagesTyped, pages
<1>2. unit[w] \in Nat
  BY DEF PoolInv, TypeOK
<1>3. PICK label \in {"wait", "open"} : Goto(w, label)
  BY <1>2, ProceedTyped DEF Answered
<1>4. unit' \in [Workers -> Nat] /\ attempt' \in [Workers -> 0 .. Attempts]
  BY <1>2, ProceedTyped DEF Answered
<1>5. lost' \in [Workers -> BOOLEAN]
  BY DEF Answered, PoolInv, TypeOK
<1> QED
  BY <1>1, <1>3, <1>4, <1>5, MoveInv DEF PoolInv, TypeOK, RateInv, Labels, rate

LEMMA TooManyPool == ASSUME NEW w \in Workers, PoolInv, TooMany(w) PROVE PoolInv'
<1>1. /\ Busy(w) /\ File(w) \in Files /\ PagesTyped'
      /\ UNCHANGED <<mirror, process, next, collected, result, task, text, exit>>
  BY DEF TooMany, At, Busy, PoolInv, TypeOK, ThreadInv, PagesTyped, pages
<1>2. PICK s \in 0 .. Cap : remaining' = Longer(remaining, s) /\ owed' = [owed EXCEPT ![w] = s]
  BY DEF TooMany, Penalty
<1>3. /\ remaining' \in 0 .. Cap
      /\ owed' \in [Workers -> 0 .. Cap]
      /\ \A v \in Workers :
           owed'[v] <= remaining' /\ (v # w => owed'[v] = owed[v] \/ owed'[v] = 0)
  <2>1. /\ remaining \in 0 .. Cap /\ owed \in [Workers -> 0 .. Cap] /\ Cap \in Nat
        /\ \A v \in Workers : owed[v] <= remaining
    BY PoolAssumption DEF PoolInv, TypeOK, RateInv
  <2>2. remaining' \in 0 .. Cap /\ remaining <= remaining' /\ s <= remaining'
    BY <1>2, <2>1 DEF Longer
  <2> QED
    BY <1>2, <2>1, <2>2
<1>4. unit[w] \in Nat /\ attempt \in [Workers -> 0 .. Attempts] /\ Attempts \in Nat
  BY PoolAssumption DEF PoolInv, TypeOK
<1>5. PICK label \in {"wait", "open"} : Goto(w, label)
  BY <1>4, ProceedTyped DEF TooMany
<1>6. unit' \in [Workers -> Nat] /\ attempt' \in [Workers -> 0 .. Attempts]
  <2>1. CASE attempt[w] + 1 < Attempts
    <3>1. attempt' = [attempt EXCEPT ![w] = attempt[w] + 1] /\ unit' = unit
      BY <2>1 DEF TooMany
    <3>2. attempt[w] + 1 \in 0 .. Attempts
      BY <1>4, <2>1
    <3> QED
      BY <1>4, <3>1, <3>2 DEF PoolInv, TypeOK
  <2>2. CASE ~(attempt[w] + 1 < Attempts)
    BY <1>4, <2>2, ProceedTyped DEF TooMany
  <2> QED
    BY <2>1, <2>2
<1>7. lost' \in [Workers -> BOOLEAN]
  BY DEF TooMany, PoolInv, TypeOK
<1>8. text' \in [Workers -> Texts \cup {Gone}]
  BY <1>1 DEF PoolInv, TypeOK
<1> QED
  BY <1>1, <1>3, <1>5, <1>6, <1>7, <1>8, MoveInv DEF Labels

LEMMA OpenPool == ASSUME NEW w \in Workers, PoolInv, Open(w) PROVE PoolInv'
<1>1. /\ Busy(w) /\ File(w) \in Files
      /\ UNCHANGED <<mirror, process, next, collected, result, thread, rate, exit, broken>>
  BY DEF Open, At, Busy, PoolInv, ThreadInv
<1>2. PagesTyped'
  BY <1>1 DEF Open, PoolInv, TypeOK, PagesTyped, Pages, NoStamp
<1>3. Goto(w, "write")
  BY DEF Open
<1> QED
  BY <1>1, <1>2, <1>3, MoveInv DEF PoolInv, TypeOK, RateInv, Labels, thread, rate

LEMMA WritePool == ASSUME NEW w \in Workers, PoolInv, Write(w) PROVE PoolInv'
<1>1. /\ Busy(w) /\ File(w) \in Files
      /\ UNCHANGED <<mirror, process, next, collected, rate, exit>>
      /\ Finish(w, "done")
  BY DEF Write, At, Busy, PoolInv, ThreadInv
<1>2. PagesTyped'
  <2>1. Stamp(w) \in Shas \cup {Unknown} /\ text[w] \in Texts \cup {Gone}
    BY DEF Stamp, PoolInv, TypeOK
  <2>2. PagesTyped
    BY DEF PoolInv, TypeOK, PagesTyped
  <2>3. CASE page[File(w)] = "absent"
    BY <2>2, <2>3 DEF Write, PagesTyped, pages
  <2>4. CASE page[File(w)] # "absent"
    <3>1. page' = [page EXCEPT ![File(w)] = IF lost[w] THEN "english" ELSE "translated"]
      BY <2>4 DEF Write
    <3>2. made' = [made EXCEPT ![File(w)] = [sha |-> Stamp(w), text |-> text[w]]]
      BY <2>4 DEF Write
    <3>3. broken' \subseteq broken
      BY DEF Write
    <3> QED
      BY <1>1, <2>1, <2>2, <3>1, <3>2, <3>3 DEF PagesTyped, Pages
  <2> QED
    BY <2>3, <2>4
<1> QED
  BY <1>1, <1>2, FinishInv DEF Results

LEMMA WriteFailsPool == ASSUME NEW w \in Workers, PoolInv, WriteFails(w) PROVE PoolInv'
<1>1. /\ Busy(w) /\ File(w) \in Files
      /\ UNCHANGED <<mirror, pages, process, next, collected, rate, exit>>
      /\ Finish(w, "fail")
  BY DEF WriteFails, At, Busy, PoolInv, ThreadInv
<1>2. PagesTyped'
  BY <1>1 DEF WriteFails, PoolInv, TypeOK, PagesTyped, pages
<1> QED
  BY <1>1, <1>2, FinishInv DEF Results

LEMMA StutterPool == PoolInv /\ UNCHANGED vars => PoolInv'
<1> SUFFICES ASSUME PoolInv, UNCHANGED vars PROVE PoolInv'
  OBVIOUS
<1> USE DEF vars, mirror, pool, pages, process, thread, rate
<1>1. TypeOK'
  BY DEF PoolInv, TypeOK
<1>2. ThreadInv'
  BY DEF PoolInv, ThreadInv, Busy, At, File
<1>3. QueueInv' /\ RateInv'
  BY DEF PoolInv, QueueInv, RateInv, BackoffKept, At
<1> QED
  BY <1>1, <1>2, <1>3 DEF PoolInv

LEMMA NextPool == PoolInv /\ [Next]_vars => PoolInv'
<1> SUFFICES ASSUME PoolInv, [Next]_vars PROVE PoolInv'
  OBVIOUS
<1>1. ASSUME NEW w \in Workers, Thread(w) PROVE PoolInv'
  BY <1>1, TakePool, CheckPool, ReadPool, ReadFailsPool, WaitPool, AnsweredPool, TooManyPool,
     OpenPool, WritePool, WriteFailsPool DEF Thread
<1>2. CASE Main
  BY <1>2, CollectPool, RaisePool, ExitPool DEF Main, RaiseResult
<1>3. CASE Interrupt
  BY <1>3, RaisePool DEF Interrupt
<1> QED
  BY <1>1, <1>2, <1>3, RunPool, TickPool, KillPool, StutterPool DEF Next

(* The types of a run's variables hold, for any files, threads and limits. *)
THEOREM PoolTyped == Spec => []TypeOK
<1>1. PoolInv => TypeOK
  BY DEF PoolInv
<1> QED
  BY <1>1, InitPool, NextPool, PTL DEF Spec

(* No thread sends a request before the penalty for its own last refusal has passed,
   whatever penalties the others set: _wait_for_rate_limit looks at a deadline that only
   grows until it has passed. *)
THEOREM PenaltyServed == Spec => []BackoffKept
<1>1. PoolInv => BackoffKept
  BY DEF PoolInv, RateInv
<1> QED
  BY <1>1, InitPool, NextPool, PTL DEF Spec

----------------------------------------------------------------------------
(* What the steps of a thread do to pages, results and other threads. *)

(* Past the test for the page, and before it is opened. *)
Working == {"read", "wait", "call", "open"}

(* A thread's step concerns itself and its file. *)
LEMMA ThreadAlone ==
  ASSUME PoolInv, NEW w \in Workers, Thread(w)
  PROVE  /\ UNCHANGED <<source, upstream, state, files, force, sha, collected, exit>>
         /\ \A v \in Workers \ {w} :
              wpc'[v] = wpc[v] /\ task'[v] = task[v] /\ text'[v] = text[v] /\ File(v)' = File(v)
         /\ \A i \in 1 .. Len(files) : i # task[w] => result'[i] = result[i]
<1> SUFFICES /\ UNCHANGED <<source, upstream, state, files, force, sha, collected, exit>>
             /\ \A v \in Workers \ {w} :
                  wpc'[v] = wpc[v] /\ task'[v] = task[v] /\ text'[v] = text[v]
             /\ \A i \in 1 .. Len(files) : i # task[w] => result'[i] = result[i]
  BY DEF File
<1> USE DEF PoolInv, TypeOK, mirror, process, thread, Goto
<1>1. ASSUME NEW r, Finish(w, r)
      PROVE  /\ \A v \in Workers \ {w} :
                  wpc'[v] = wpc[v] /\ task'[v] = task[v] /\ text'[v] = text[v]
             /\ \A i \in 1 .. Len(files) : i # task[w] => result'[i] = result[i]
  BY <1>1 DEF Finish
<1>2. CASE Take(w)
  BY <1>2 DEF Take
<1>3. CASE Check(w)
  BY <1>1, <1>3 DEF Check
<1>4. CASE Read(w)
  BY <1>4 DEF Read, Proceed
<1>5. CASE ReadFails(w)
  BY <1>1, <1>5 DEF ReadFails
<1>6. CASE Wait(w)
  BY <1>6 DEF Wait
<1>7. CASE Answered(w)
  BY <1>7 DEF Answered, Proceed
<1>8. CASE TooMany(w)
  BY <1>8 DEF TooMany, Proceed
<1>9. CASE Open(w)
  BY <1>9 DEF Open
<1>10. CASE Write(w)
  BY <1>1, <1>10 DEF Write
<1>11. CASE WriteFails(w)
  BY <1>1, <1>11 DEF WriteFails
<1> QED
  BY <1>2, <1>3, <1>4, <1>5, <1>6, <1>7, <1>8, <1>9, <1>10, <1>11 DEF Thread

LEMMA ThreadRuns ==
  ASSUME PoolInv, NEW w \in Workers, Thread(w)
  PROVE  state # "idle"
<1>1. Busy(w) \/ Take(w)
  BY DEF Thread, Check, Read, ReadFails, Wait, Answered, TooMany, Open, Write, WriteFails, Busy, At
<1> QED
  BY <1>1 DEF Take, PoolInv, ThreadInv

(* The steps of a thread that leave the pages alone, up to the opening of its page. *)
Prepares(w) ==
  \/ Take(w) \/ Check(w) \/ Read(w) \/ ReadFails(w) \/ Wait(w) \/ Answered(w) \/ TooMany(w)

LEMMA PreparesEffect ==
  ASSUME PoolInv, NEW w \in Workers, Prepares(w)
  PROVE  /\ UNCHANGED <<page, made, broken>>
         /\ wpc[w] # "write" /\ wpc'[w] # "write"
         /\ wpc'[w] \in Working =>
              /\ task'[w] = task[w]
              /\ wpc[w] \in Working \/ (At(w, "check") /\ (page[File(w)] = "absent" \/ force))
         /\ \/ UNCHANGED result
            \/ /\ result' = [result EXCEPT ![task[w]] = "skip"]
               /\ Busy(w) /\ File(w) \notin Outside /\ page[File(w)] # "absent"
            \/ \E r \in {"fail", "raised"} :
                 result' = [result EXCEPT ![task[w]] = r] /\ Busy(w)
<1> USE DEF PoolInv, TypeOK, pages, thread, Goto, At, Busy, Working
<1>1. CASE Take(w)
  BY <1>1 DEF Take
<1>2. CASE Check(w)
  BY <1>2 DEF Check, Finish
<1>3. CASE Read(w)
  BY <1>3 DEF Read, Proceed
<1>4. CASE ReadFails(w)
  BY <1>4 DEF ReadFails, Finish
<1>5. CASE Wait(w)
  BY <1>5 DEF Wait
<1>6. CASE Answered(w)
  BY <1>6 DEF Answered, Proceed
<1>7. CASE TooMany(w)
  BY <1>7 DEF TooMany, Proceed
<1> QED
  BY <1>1, <1>2, <1>3, <1>4, <1>5, <1>6, <1>7 DEF Prepares

(* The steps of the main thread, of the clock and of the environment. *)
Elsewhere == Collect \/ Raise \/ Tick

LEMMA ElsewhereEffect ==
  ASSUME PoolInv, Elsewhere
  PROVE  /\ UNCHANGED <<source, upstream, page, made, files, force, sha, result, wpc, task,
                         text, exit, broken>>
         /\ (state # "idle" /\ state' # "idle") \/ UNCHANGED state
         /\ \A w \in Workers : File(w)' = File(w)
BY DEF Elsewhere, Collect, Raise, Tick, mirror, pages, process, thread, File

(* A run ends, or another one begins, with no thread at work afterwards. *)
LEMMA EndEffect ==
  ASSUME PoolInv, Exit \/ Kill
  PROVE  /\ UNCHANGED <<source, upstream, page, made, files, result>>
         /\ state' = "idle" /\ force' = FALSE
         /\ \A w \in Workers : wpc'[w] = "free"
BY DEF Exit, Kill, EndProcess, mirror, pages, At

LEMMA RunEffect ==
  ASSUME PoolInv, Run
  PROVE  /\ UNCHANGED <<source, upstream, page, made, wpc, broken>>
         /\ state = "idle" /\ state' = "running"
         /\ exit' = "none" /\ sha' = upstream
         /\ result' = [i \in 1 .. Len(files') |-> "pending"]
         /\ \A w \in Workers : wpc[w] = "free" /\ wpc'[w] = "free"
BY DEF Run, mirror, pages, PoolInv, ThreadInv, Busy, At

(* One step, as the proofs about pages take it apart. *)
LEMMA NextParts ==
  ASSUME [Next]_vars
  PROVE  \/ Elsewhere
         \/ Exit \/ Kill
         \/ Run
         \/ \E w \in Workers : Thread(w) /\ (Prepares(w) \/ Open(w) \/ Write(w) \/ WriteFails(w))
         \/ UNCHANGED vars
BY DEF Next, Main, RaiseResult, Interrupt, Elsewhere, Thread, Prepares

----------------------------------------------------------------------------
(* Pages that a fault left truncated. *)

LEMMA TruncateStep == PoolInv /\ OnlyFaultsTruncate /\ [Next]_vars => OnlyFaultsTruncate'
<1> SUFFICES ASSUME PoolInv, OnlyFaultsTruncate, [Next]_vars, NEW f \in Files, page'[f] = "truncated"
             PROVE  f \in broken' \/ \E w \in Workers : At(w, "write")' /\ File(w)' = f
  BY DEF OnlyFaultsTruncate
<1>0. /\ page[f] = "truncated" => f \in broken \/ \E w \in Workers : At(w, "write") /\ File(w) = f
      /\ page \in [Files -> Pages]
  BY DEF OnlyFaultsTruncate, PoolInv, TypeOK
<1>1. CASE Elsewhere
  BY <1>0, <1>1, ElsewhereEffect DEF At
<1>2. CASE Exit
  BY <1>0, <1>2 DEF Exit, EndProcess, pages, At
<1>3. CASE Kill
  BY <1>0, <1>3 DEF Kill, EndProcess, pages, At
<1>4. CASE Run
  BY <1>0, <1>4, RunEffect DEF At
<1>5. ASSUME NEW w \in Workers, Thread(w), Prepares(w) \/ Open(w) \/ Write(w) \/ WriteFails(w)
      PROVE  f \in broken' \/ \E v \in Workers : At(v, "write")' /\ File(v)' = f
  <2>0. /\ \A v \in Workers \ {w} : wpc'[v] = wpc[v] /\ File(v)' = File(v)
        /\ File(w) \in Files \/ Prepares(w)
    BY <1>5, ThreadAlone DEF PoolInv, ThreadInv, Open, Write, WriteFails, At
  <2>1. CASE Prepares(w)
    BY <1>0, <2>0, <2>1, PreparesEffect DEF At
  <2>2. CASE Open(w)
    <3>1. At(w, "write")' /\ File(w)' = File(w) /\ page' = [page EXCEPT ![File(w)] = "truncated"]
          /\ ~At(w, "write") /\ broken' = broken
      BY <2>2 DEF Open, Goto, At, File, PoolInv, TypeOK, process, thread
    <3> QED
      BY <1>0, <2>0, <3>1 DEF At
  <2>3. CASE Write(w)
    <3>1. page'[File(w)] # "truncated" /\ broken' = broken \ {File(w)}
      BY <1>0, <2>0, <2>3 DEF Write, pages, Prepares, At, PoolInv, ThreadInv
    <3>2. f # File(w) => page'[f] = page[f]
      BY <1>0, <2>3 DEF Write, pages
    <3> QED
      BY <1>0, <2>0, <3>1, <3>2 DEF At
  <2>4. CASE WriteFails(w)
    BY <1>0, <2>0, <2>4 DEF WriteFails, pages, At
  <2> QED
    BY <1>5, <2>1, <2>2, <2>3, <2>4
<1>6. CASE UNCHANGED vars
  BY <1>0, <1>6 DEF vars, pool, pages, process, thread, At, File
<1> QED
  BY <1>1, <1>2, <1>3, <1>4, <1>5, <1>6, NextParts

(* A truncated page is being written, or a fault ended its write: neither Ctrl-C nor the
   exception of another worker leaves one, as the with block waits for the threads. *)
THEOREM TruncatedByFaults == Spec => []OnlyFaultsTruncate
<1>1. Init => OnlyFaultsTruncate
  BY DEF Init, OnlyFaultsTruncate
<1> QED
  BY <1>1, InitPool, NextPool, TruncateStep, PTL DEF Spec

----------------------------------------------------------------------------
(* Complete pages are not overwritten. *)

(* Without --force a thread past its test works on a page that is not there, or that
   it has opened itself: if no file is named twice, no other thread could write it. *)
FreshInv ==
  ~force /\ NamedOnce =>
    \A w \in Workers :
      /\ wpc[w] \in Working => page[File(w)] = "absent"
      /\ At(w, "write") => page[File(w)] = "truncated"

LEMMA FreshStep == PoolInv /\ FreshInv /\ [Next]_vars => FreshInv'
<1> SUFFICES ASSUME PoolInv, FreshInv, [Next]_vars, ~force', NamedOnce', NEW v \in Workers
             PROVE  /\ wpc'[v] \in Working => page'[File(v)'] = "absent"
                    /\ At(v, "write")' => page'[File(v)'] = "truncated"
  BY DEF FreshInv, At
<1>1. CASE Elsewhere
  BY <1>1, ElsewhereEffect DEF FreshInv, NamedOnce, At
<1>2. CASE Exit \/ Kill
  BY <1>2, EndEffect DEF At, Working
<1>3. CASE Run
  BY <1>3, RunEffect DEF At, Working
<1>4. ASSUME NEW w \in Workers, Thread(w), Prepares(w) \/ Open(w) \/ Write(w) \/ WriteFails(w)
      PROVE  /\ wpc'[v] \in Working => page'[File(v)'] = "absent"
             /\ At(v, "write")' => page'[File(v)'] = "truncated"
  <2>1. /\ UNCHANGED <<files, force>>
        /\ \A u \in Workers \ {w} : wpc'[u] = wpc[u] /\ task'[u] = task[u] /\ File(u)' = File(u)
    BY <1>4, ThreadAlone
  <2>2. /\ ~force
        /\ \A u \in Workers :
             /\ wpc[u] \in Working => page[File(u)] = "absent"
             /\ At(u, "write") => page[File(u)] = "truncated"
    BY <2>1 DEF FreshInv, NamedOnce
  <2>3. v # w => wpc'[v] = wpc[v] /\ File(v)' = File(v)
    BY <2>1
  <2>4. \A u \in Workers : wpc[u] \in Working \cup {"write"} => Busy(u) /\ File(u) \in Files
    BY DEF PoolInv, ThreadInv, Working, Busy, At
  <2>5. Busy(w) /\ Busy(v) /\ v # w => File(v) # File(w)
    <3> SUFFICES ASSUME Busy(w), Busy(v), v # w PROVE files[task[v]] # files[task[w]]
      BY DEF File
    <3>1. /\ task[v] \in 1 .. Len(files) /\ task[w] \in 1 .. Len(files)
          /\ task[v] # task[w]
      BY DEF PoolInv, TypeOK, ThreadInv
    <3> QED
      BY <2>1, <3>1 DEF NamedOnce
  <2>6. CASE Prepares(w)
    <3>1. /\ page' = page /\ wpc'[w] # "write"
          /\ wpc'[w] \in Working =>
               /\ task'[w] = task[w]
               /\ wpc[w] \in Working \/ (At(w, "check") /\ (page[File(w)] = "absent" \/ force))
      BY <2>6, PreparesEffect
    <3>2. wpc'[w] \in Working => page[File(w)] = "absent" /\ File(w)' = File(w)
      BY <2>1, <2>2, <3>1 DEF File
    <3> QED
      BY <2>2, <2>3, <3>1, <3>2 DEF At
  <2>7. CASE Open(w)
    <3>1. /\ page' = [page EXCEPT ![File(w)] = "truncated"]
          /\ wpc' = [wpc EXCEPT ![w] = "write"] /\ task' = task
      BY <2>7 DEF Open, Goto, thread
    <3>2. File(w) \in Files /\ Busy(w)
      BY <2>7 DEF Open, At, Busy, PoolInv, ThreadInv
    <3>3. CASE v = w
      BY <2>1, <3>1, <3>2, <3>3 DEF PoolInv, TypeOK, At, File, Working
    <3>4. CASE v # w
      BY <2>2, <2>3, <2>4, <2>5, <3>1, <3>2, <3>4 DEF PoolInv, TypeOK, At
    <3> QED
      BY <3>3, <3>4
  <2>8. CASE Write(w) \/ WriteFails(w)
    <3>1. wpc' = [wpc EXCEPT ![w] = "free"] /\ Busy(w)
      BY <2>8 DEF Write, WriteFails, Finish, Goto, At, Busy
    <3>2. \A f \in Files : f # File(w) => page'[f] = page[f]
      BY <2>8 DEF Write, WriteFails, pages, PoolInv, TypeOK
    <3>3. CASE v = w
      BY <3>1, <3>3 DEF PoolInv, TypeOK, At, Working
    <3>4. CASE v # w
      <4>1. wpc[v] \in Working \cup {"write"} => File(v) \in Files /\ File(v) # File(w)
        BY <2>5, <2>4, <3>1, <3>4
      <4> QED
        BY <2>2, <2>3, <3>2, <3>4, <4>1 DEF At
    <3> QED
      BY <3>3, <3>4
  <2> QED
    BY <1>4, <2>6, <2>7, <2>8
<1>5. CASE UNCHANGED vars
  BY <1>5 DEF vars, pool, pages, process, thread, FreshInv, NamedOnce, At, File
<1> QED
  BY <1>1, <1>2, <1>3, <1>4, <1>5, NextParts

(* A run without --force that names no file twice changes no complete page, although the
   test for the page and its opening are hours apart and other threads write meanwhile. *)
THEOREM FinishedKept == Spec => NoOverwrite
<1>1. Init => FreshInv
  BY DEF Init, Off, FreshInv, At, Working
<1>2. ASSUME PoolInv, FreshInv, [Next]_vars, ~force, NamedOnce, NEW f \in Files,
             page[f] \in {"english", "translated"}
      PROVE  page'[f] = page[f]
  <2>1. CASE Elsewhere \/ Exit \/ Kill \/ Run \/ UNCHANGED vars
    BY <1>2, <2>1, ElsewhereEffect, EndEffect, RunEffect DEF vars, pool, pages
  <2>2. ASSUME NEW w \in Workers, Prepares(w) \/ WriteFails(w) PROVE page'[f] = page[f]
    BY <1>2, <2>2, PreparesEffect DEF WriteFails, pages
  <2>3. ASSUME NEW w \in Workers, Open(w) \/ Write(w) PROVE page'[f] = page[f]
    <3>1. page[File(w)] \in {"absent", "truncated"}
      BY <1>2, <2>3 DEF FreshInv, Open, Write, At, Working
    <3> QED
      BY <1>2, <2>3, <3>1 DEF Open, Write, pages, PoolInv, TypeOK
  <2> QED
    BY <1>2, <2>1, <2>2, <2>3, NextParts
<1>3. PoolInv /\ FreshInv /\ [Next]_vars =>
        [~force /\ NamedOnce =>
           \A f \in Files : page[f] \in {"english", "translated"} => page'[f] = page[f]]_vars
  BY <1>2
<1> QED
  BY <1>1, <1>3, InitPool, NextPool, FreshStep, PTL DEF Spec, NoOverwrite

----------------------------------------------------------------------------
(* The exit status. *)

(* Result i has a page that is complete, or that another thread or entry accounts for. *)
Accounted(i) ==
  result[i] \in {"done", "skip"} =>
    /\ files[i] \in Files
    /\ page[files[i]] # "absent"
    /\ result[i] = "done" /\ page[files[i]] = "truncated" =>
         \E j \in 1 .. Len(files) :
           /\ files[j] = files[i]
           /\ result[j] = "fail" \/ \E w \in Workers : At(w, "write") /\ task[w] = j

HonestInv ==
  /\ \A w \in Workers : At(w, "write") => page[File(w)] # "absent"
  /\ state # "idle" => exit = "none" /\ \A i \in 1 .. Len(files) : Accounted(i)
  /\ ExitHonest

LEMMA HonestPrepares ==
  ASSUME PoolInv, HonestInv, NEW w \in Workers, Thread(w), Prepares(w)
  PROVE  HonestInv'
<1>1. /\ UNCHANGED <<state, files, exit, page>>
      /\ \A v \in Workers \ {w} : wpc'[v] = wpc[v] /\ task'[v] = task[v] /\ File(v)' = File(v)
      /\ wpc[w] # "write" /\ wpc'[w] # "write"
  BY ThreadAlone, PreparesEffect
<1>2. \A v \in Workers : At(v, "write")' =>
        At(v, "write") /\ task'[v] = task[v] /\ File(v)' = File(v)
  BY <1>1 DEF At
<1>3. \A v \in Workers : At(v, "write") => At(v, "write")' /\ task'[v] = task[v]
  BY <1>1 DEF At
<1>4. ASSUME state # "idle", NEW i \in 1 .. Len(files) PROVE Accounted(i)'
  <2>1. /\ Busy(w) => task[w] \in 1 .. Len(files) /\ result[task[w]] = "pending"
        /\ result \in [1 .. Len(files) -> Results]
        /\ File(w) = files[task[w]]
        /\ files \in Seq(Files \cup Outside)
    BY DEF PoolInv, TypeOK, ThreadInv, File
  <2>2. \A j \in 1 .. Len(files) : result[j] = "fail" => result'[j] = "fail"
    BY <2>1, PreparesEffect
  <2>3. Accounted(i)
    BY <1>4 DEF HonestInv
  <2>4. CASE result'[i] = result[i]
    BY <1>1, <1>3, <2>2, <2>3, <2>4 DEF Accounted
  <2>5. CASE result'[i] # result[i] /\ result'[i] \in {"done", "skip"}
    <3>1. /\ result'[i] = "skip" /\ i = task[w] /\ Busy(w)
          /\ File(w) \notin Outside /\ page[File(w)] # "absent"
      BY <2>1, <2>5, PreparesEffect
    <3> QED
      BY <1>1, <2>1, <3>1 DEF Accounted
  <2> QED
    BY <2>4, <2>5 DEF Accounted
<1>5. \A v \in Workers : At(v, "write")' => page'[File(v)'] # "absent"
  BY <1>1, <1>2 DEF HonestInv
<1>6. state' # "idle" /\ exit' = "none"
  BY <1>1, ThreadRuns DEF HonestInv
<1>7. \A i \in 1 .. Len(files') : Accounted(i)'
  BY <1>1, <1>4, <1>6
<1> QED
  BY <1>5, <1>6, <1>7 DEF HonestInv, ExitHonest

LEMMA HonestOpen ==
  ASSUME PoolInv, HonestInv, NEW w \in Workers, Open(w), Thread(w)
  PROVE  HonestInv'
<1>1. /\ UNCHANGED <<state, files, exit, result, task>>
      /\ wpc' = [wpc EXCEPT ![w] = "write"] /\ wpc \in [Workers -> Labels]
      /\ page' = [page EXCEPT ![File(w)] = "truncated"] /\ page \in [Files -> Pages]
      /\ At(w, "open") /\ Busy(w) /\ File(w) \in Files
  BY DEF Open, Goto, process, thread, At, Busy, PoolInv, TypeOK, ThreadInv
<1>2. \A v \in Workers : File(v)' = File(v)
  BY <1>1 DEF File
<1>3. task[w] \in 1 .. Len(files) /\ state # "idle"
  BY <1>1 DEF PoolInv, TypeOK, ThreadInv
<1>4. \A v \in Workers : At(v, "write")' => page'[File(v)'] # "absent"
  BY <1>1, <1>2 DEF HonestInv, At, PoolInv, ThreadInv
<1>5. ASSUME NEW i \in 1 .. Len(files) PROVE Accounted(i)'
  <2>1. Accounted(i)
    BY <1>3 DEF HonestInv
  <2>2. At(w, "write")' /\ (\A v \in Workers : At(v, "write") => At(v, "write")')
    BY <1>1 DEF At
  <2>3. CASE files[i] = File(w)
    BY <1>1, <1>2, <1>3, <2>1, <2>2, <2>3 DEF Accounted, File
  <2>4. CASE files[i] # File(w)
    <3>1. files[i] \in Files => page'[files[i]] = page[files[i]]
      BY <1>1, <2>4
    <3> QED
      BY <1>1, <2>1, <2>2, <3>1 DEF Accounted
  <2> QED
    BY <2>3, <2>4
<1>6. exit' = "none" /\ state' # "idle"
  BY <1>1, <1>3 DEF HonestInv
<1> QED
  BY <1>1, <1>4, <1>5, <1>6 DEF HonestInv, ExitHonest

LEMMA HonestFinish ==
  ASSUME PoolInv, HonestInv, NEW w \in Workers, Write(w) \/ WriteFails(w), Thread(w)
  PROVE  HonestInv'
<1>1. /\ UNCHANGED <<state, files, exit>>
      /\ \A v \in Workers \ {w} : wpc'[v] = wpc[v] /\ task'[v] = task[v] /\ File(v)' = File(v)
      /\ \A i \in 1 .. Len(files) : i # task[w] => result'[i] = result[i]
  BY ThreadAlone
<1>2. /\ page \in [Files -> Pages] /\ result \in [1 .. Len(files) -> Results]
      /\ task[w] \in 1 .. Len(files) /\ state # "idle"
      /\ File(w) = files[task[w]] /\ File(w) \in Files
      /\ result[task[w]] = "pending"
      /\ \A v \in Workers \ {w} : At(v, "write") => task[v] # task[w]
  BY DEF Write, WriteFails, At, Busy, PoolInv, TypeOK, ThreadInv, File
<1>3. wpc'[w] = "free"
  BY DEF Write, WriteFails, Finish, Goto, PoolInv, TypeOK
<1>4. \A v \in Workers : At(v, "write")' =>
        v # w /\ At(v, "write") /\ task'[v] = task[v] /\ File(v)' = File(v)
  BY <1>1, <1>3 DEF At
<1>5. \A v \in Workers \ {w} : At(v, "write") => At(v, "write")' /\ task'[v] = task[v]
  BY <1>1 DEF At
<1>6. \/ /\ At(w, "write") /\ result'[task[w]] = "done"
         /\ page'[File(w)] \in {"english", "translated"}
         /\ \A f \in Files \ {File(w)} : page'[f] = page[f]
      \/ result'[task[w]] = "fail" /\ page' = page
  <2>1. CASE Write(w)
    <3>1. page[File(w)] # "absent" /\ At(w, "write")
      BY <2>1 DEF Write, HonestInv
    <3>2. result'[task[w]] = "done"
      BY <1>2, <2>1 DEF Write, Finish
    <3>3. page' = [page EXCEPT ![File(w)] = IF lost[w] THEN "english" ELSE "translated"]
      BY <2>1, <3>1 DEF Write
    <3> QED
      BY <1>2, <3>1, <3>2, <3>3
  <2>2. CASE WriteFails(w)
    BY <1>2, <2>2 DEF WriteFails, Finish, pages
  <2> QED
    BY <2>1, <2>2
<1>7. \A v \in Workers : At(v, "write")' => page'[File(v)'] # "absent"
  <2> SUFFICES ASSUME NEW v \in Workers, At(v, "write")' PROVE page'[File(v)] # "absent"
    BY <1>4
  <2>1. At(v, "write") /\ page[File(v)] # "absent" /\ File(v) \in Files
    BY <1>4 DEF HonestInv, PoolInv, ThreadInv, At
  <2> QED
    BY <1>6, <2>1
<1>8. ASSUME NEW i \in 1 .. Len(files) PROVE Accounted(i)'
  <2>1. Accounted(i)
    BY <1>2 DEF HonestInv
  <2>2. CASE i = task[w]
    BY <1>1, <1>2, <1>6, <2>2 DEF Accounted
  <2>3. CASE i # task[w] /\ files[i] = File(w)
    <3>1. CASE page' = page /\ result'[task[w]] = "fail"
      BY <1>1, <1>2, <2>1, <2>3, <3>1 DEF Accounted
    <3>2. CASE page'[File(w)] \in {"english", "translated"}
      BY <1>1, <1>2, <2>1, <2>3, <3>2 DEF Accounted
    <3> QED
      BY <1>6, <3>1, <3>2
  <2>4. CASE files[i] # File(w)
    <3>1. files[i] \in Files => page'[files[i]] = page[files[i]]
      BY <1>6, <2>4
    <3>2. i # task[w]
      BY <1>2, <2>4
    <3>3. ASSUME NEW j \in 1 .. Len(files), files[j] = files[i],
                 result[j] = "fail" \/ \E v \in Workers : At(v, "write") /\ task[v] = j
          PROVE  result'[j] = "fail" \/ \E v \in Workers : At(v, "write")' /\ task'[v] = j
      <4>1. j # task[w]
        BY <1>2, <2>4, <3>3
      <4> QED
        BY <1>1, <1>5, <3>3, <4>1
    <3> QED
      BY <1>1, <2>1, <3>1, <3>2, <3>3 DEF Accounted
  <2> QED
    BY <2>2, <2>3, <2>4
<1>9. exit' = "none" /\ state' # "idle"
  BY <1>1, <1>2 DEF HonestInv
<1> QED
  BY <1>1, <1>7, <1>8, <1>9 DEF HonestInv, ExitHonest

LEMMA HonestExit ==
  ASSUME PoolInv, HonestInv, Exit \/ Kill
  PROVE  HonestInv'
<1>1. /\ UNCHANGED <<page, files, result>>
      /\ state' = "idle"
      /\ \A w \in Workers : ~At(w, "write")'
  BY EndEffect DEF At
<1>2. ASSUME exit' = "ok", NEW i \in 1 .. Len(files)
      PROVE  /\ files[i] \in Files
             /\ page[files[i]] # "absent"
             /\ result[i] = "done" => page[files[i]] \in {"english", "translated"}
  <2>1. Exit /\ state = "running" /\ \A j \in 1 .. Len(files) : result[j] # "fail"
    BY <1>2 DEF Exit, Kill, EndProcess, Status, PoolInv, TypeOK
  <2>2. result[i] \in {"done", "skip"}
    BY <2>1 DEF Exit, PoolInv, QueueInv
  <2>3. Accounted(i) /\ \A w \in Workers : ~At(w, "write")
    BY <2>1 DEF HonestInv, Exit, At
  <2>4. page \in [Files -> Pages]
    BY DEF PoolInv, TypeOK
  <2> QED
    BY <2>1, <2>2, <2>3, <2>4 DEF Accounted, Pages
<1> QED
  BY <1>1, <1>2 DEF HonestInv, ExitHonest

LEMMA HonestStep == PoolInv /\ HonestInv /\ [Next]_vars => HonestInv'
<1> SUFFICES ASSUME PoolInv, HonestInv, [Next]_vars PROVE HonestInv'
  OBVIOUS
<1>1. CASE Elsewhere \/ UNCHANGED vars
  <2>1. /\ UNCHANGED <<page, files, result, wpc, task, exit>>
        /\ (state # "idle" /\ state' # "idle") \/ UNCHANGED state
    BY <1>1, ElsewhereEffect DEF vars, pool, pages, process, thread
  <2> QED
    BY <2>1 DEF HonestInv, ExitHonest, Accounted, At, File
<1>2. CASE Run
  <2>1. /\ state' = "running" /\ exit' = "none"
        /\ result' = [i \in 1 .. Len(files') |-> "pending"]
        /\ \A w \in Workers : ~At(w, "write")'
    BY <1>2, RunEffect DEF At
  <2> QED
    BY <2>1 DEF HonestInv, ExitHonest, Accounted
<1> QED
  BY <1>1, <1>2, HonestPrepares, HonestOpen, HonestFinish, HonestExit, NextParts

(* A run that ends with status 0 leaves every file of its list a page, complete if it
   was written by that run: a file named twice, one of whose threads fails while the
   other has finished, does not pass for a good one. *)
THEOREM StatusHonest == Spec => []ExitHonest
<1>1. Init => HonestInv
  BY DEF Init, Off, HonestInv, ExitHonest, At
<1>2. HonestInv => ExitHonest
  BY DEF HonestInv
<1> QED
  BY <1>1, <1>2, InitPool, NextPool, HonestStep, PTL DEF Spec
=============================================================================
