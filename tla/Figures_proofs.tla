--------------------------- MODULE Figures_proofs ---------------------------
(***************************************************************************)
(* Proofs about Figures, for any number of processes, pages, images, sets  *)
(* of tools and edits.                                                     *)
(***************************************************************************)
EXTENDS Figures, TLAPS

Src(i) == file[<<i, "src">>]

Mid(i) == file[<<i, "mid">>]

Dst(i) == file[<<i, "dst">>]

(* What an image converted now should hold. *)
Target(i) == IF Kind[i] = "render" THEN 1 ELSE Src(i).content

(* Sources only grow, and the code of a block is written once. *)
SourceInv ==
  \A i \in Images :
    /\ Kind[i] = "render" => Src(i).content \in {0, 1}
    /\ Kind[i] # "render" => Src(i).content > 0
    /\ since[i] <= Target(i)

(* Only the html builder has several processes at work. *)
BuildInv ==
  /\ phase = "idle" => \A w \in Workers : At(w, "free")
  /\ format # "html" => \A v, w \in Workers : At(v, "free") \/ At(w, "free") \/ v = w

(* One command is left, and makes the output. *)
Last(todo) ==
  \E c \in Command :
    /\ todo = <<c>>
    /\ c.to = "dst"
    /\ c.from = "mid" \/ c.tool = "svg2pdf" => format = "latex"

(* Two are left: dot makes an SVG, which is made a PDF. *)
Both(todo) ==
  \E c, d \in Command :
    /\ todo = <<c, d>>
    /\ c = [tool |-> "dot", from |-> "src", to |-> "mid"]
    /\ d.from = "mid" /\ d.to = "dst"
    /\ format = "latex"

Convert == {"open", "read", "write"}

(* The commands of a process follow from its step, and a failure that it has met is known. *)
Fits(w) ==
  /\ work[w].step \in {"create", "code"} => Kind[Img(w)] = "render"
  /\ work[w].step \in Convert => Last(work[w].todo) \/ (Both(work[w].todo) /\ work[w].ok)
  /\ work[w].step \in Convert /\ ~work[w].ok => format # "html" /\ tainted[Img(w)] # {}
  /\ work[w].step \notin Convert => work[w].todo = <<>>
  /\ work[w].step \notin Convert \cup {"finish"} => work[w].ok /\ work[w].spoilt = {}

(* An undisturbed conversion carries the present content of its source. *)
Holds(w) ==
  work[w].ok /\ work[w].spoilt = {} =>
    /\ At(w, "write") => work[w].held = Target(Img(w)) /\ work[w].held > 0
    /\ work[w].step \in {"open", "read"} /\ Head(work[w].todo).from = "mid" =>
         Mid(Img(w)).content = Target(Img(w))

(* A process has begun to change the output, and has still to finish it. *)
Converting(i) ==
  \E w \in Workers :
    Img(w) = i /\ work[w].step \in {"read", "write"} /\ Head(work[w].todo).to = "dst"

(* A page shows the output, or will once its process has finished. *)
Shows(i) ==
  \/ \E p \in Pages : image[p] = i /\ shown[p] = "image"
  \/ \E w \in Workers : Img(w) = i /\ At(w, "finish") /\ work[w].ok

Good(i) == Dst(i).exists /\ Dst(i).content > 0 /\ Dst(i).content >= since[i]

(* An output that passes for newer is the image of its source, and one that a page shows
   is the image of the source as it was when the build began, or newer. *)
Fresh(i) ==
  tainted[i] = {} /\ ~Converting(i) =>
    /\ IsNewer(i) => Dst(i).content = Target(i)
    /\ Shows(i) => Good(i)

(* The types, without what CommandInv says of commands. *)
Typed ==
  /\ format \in Formats
  /\ tools \subseteq Tools
  /\ image \in [Pages -> Images]
  /\ file \in [Files -> Stored]
  /\ age \in [Images -> {"older", "same", "newer"}]
  /\ recent \subseteq Files
  /\ phase \in {"idle", "building"}
  /\ queue \subseteq Pages
  /\ shown \in [Pages -> {"none", "raw", "image", "source"}]
  /\ since \in [Images -> Versions]
  /\ work \in [Workers -> Jobs]
  /\ tainted \in [Images -> SUBSET Causes]

FiguresInv ==
  /\ Typed
  /\ SourceInv
  /\ BuildInv
  /\ \A w \in Workers : Fits(w) /\ Holds(w)
  /\ \A i \in Images : Fresh(i)

----------------------------------------------------------------------------
(* Commands. *)

LEMMA LastParts ==
  ASSUME NEW todo, Last(todo)
  PROVE  /\ todo \in Seq(Command) /\ Len(todo) = 1 /\ Tail(todo) = <<>>
         /\ Head(todo) \in Command /\ Head(todo).to = "dst"
         /\ Head(todo).from = "mid" \/ Head(todo).tool = "svg2pdf" => format = "latex"
         /\ Head(todo).from # "mid" => Head(todo).from = "src"
         /\ ~Both(todo)
<1>1. PICK c \in Command :
        /\ todo = <<c>>
        /\ c.to = "dst"
        /\ c.from = "mid" \/ c.tool = "svg2pdf" => format = "latex"
  BY DEF Last
<1>2. Len(todo) = 1 /\ Tail(todo) = <<>> /\ Head(todo) = c /\ todo \in Seq(Command)
  BY <1>1
<1>3. ~Both(todo)
  <2> SUFFICES ASSUME NEW x, NEW y, todo = <<x, y>> PROVE FALSE
    BY DEF Both
  <2>1. Len(<<x, y>>) = 2
    OBVIOUS
  <2> QED
    BY <1>2, <2>1
<1> QED
  BY <1>1, <1>2, <1>3 DEF Command

LEMMA BothParts ==
  ASSUME NEW todo, Both(todo)
  PROVE  /\ todo \in Seq(Command) /\ Len(todo) = 2
         /\ Head(todo) = [tool |-> "dot", from |-> "src", to |-> "mid"]
         /\ Last(Tail(todo)) /\ Head(Tail(todo)).from = "mid"
         /\ format = "latex"
<1>1. PICK c \in Command, d \in Command :
        /\ todo = <<c, d>>
        /\ c = [tool |-> "dot", from |-> "src", to |-> "mid"]
        /\ d.from = "mid" /\ d.to = "dst"
        /\ format = "latex"
  BY DEF Both
<1>2. Len(todo) = 2 /\ Head(todo) = c /\ Tail(todo) = <<d>> /\ todo \in Seq(Command)
  BY <1>1
<1>3. Head(<<d>>) = d
  OBVIOUS
<1> QED
  BY <1>1, <1>2, <1>3 DEF Last

LEMMA CommandsParts ==
  ASSUME Typed, NEW i \in Images, ~Raw(i), ~AsIs(i)
  PROVE  /\ Last(Commands(i)) \/ Both(Commands(i))
         /\ Head(Commands(i)).from = "src"
         /\ Commands(i) \in Seq(Command)
<1>1. CASE Kind[i] = "svg"
  <2>1. format = "latex" /\ Commands(i) = <<[tool |-> "svg2pdf", from |-> "src", to |-> "dst"]>>
    BY <1>1 DEF AsIs, Commands
  <2> DEFINE c == [tool |-> "svg2pdf", from |-> "src", to |-> "dst"]
  <2>2. c \in Command /\ Head(<<c>>) = c /\ c.from = "src"
    BY DEF Command
  <2>3. Last(Commands(i))
    BY <2>1, <2>2 DEF Last
  <2> QED
    BY <2>1, <2>2, <2>3, LastParts
<1>2. CASE Kind[i] # "svg" /\ format = "latex" /\ "dotpdf" \notin tools
  <2> DEFINE c == [tool |-> "dot", from |-> "src", to |-> "mid"]
             d == [tool |-> IF "rsvg" \in tools THEN "rsvg" ELSE "svg2pdf",
                   from |-> "mid", to |-> "dst"]
  <2>1. Commands(i) = <<c, d>>
    BY <1>2 DEF Commands
  <2>2. c \in Command /\ d \in Command /\ d.from = "mid" /\ d.to = "dst" /\ c.from = "src"
    BY DEF Command
  <2>3. Both(<<c, d>>) /\ Head(<<c, d>>) = c
    <3> HIDE DEF d
    <3> QED
      BY <1>2, <2>2 DEF Both
  <2> HIDE DEF c, d
  <2> QED
    BY <2>1, <2>2, <2>3, BothParts
<1>3. CASE Kind[i] # "svg" /\ ~(format = "latex" /\ "dotpdf" \notin tools)
  <2> DEFINE c == [tool |-> "dot", from |-> "src", to |-> "dst"]
  <2>1. Commands(i) = <<c>>
    BY <1>3 DEF Commands
  <2>2. c \in Command /\ c.from = "src" /\ c.to = "dst" /\ c.tool = "dot"
    BY DEF Command
  <2>3. Last(<<c>>) /\ Head(<<c>>) = c
    <3> HIDE DEF c
    <3> QED
      BY <2>2 DEF Last
  <2> HIDE DEF c
  <2> QED
    BY <2>1, <2>2, <2>3, LastParts
<1> QED
  BY <1>1, <1>2, <1>3

----------------------------------------------------------------------------
(* Files. *)

Roles == {"src", "mid", "dst"}

LEMMA StampEffect ==
  ASSUME Typed, NEW i \in Images, NEW role \in Roles, NEW content \in Versions,
         Stamp(i, role, content)
  PROVE  /\ file' \in [Files -> Stored] /\ recent' \subseteq Files
         /\ age' \in [Images -> {"older", "same", "newer"}]
         /\ file'[<<i, role>>] = [exists |-> TRUE, content |-> content]
         /\ \A j \in Images, r \in Roles :
              j # i \/ r # role => file'[<<j, r>>] = file[<<j, r>>]
         /\ \A j \in Images : j # i => age'[j] = age[j]
         /\ role = "src" => age'[i] # "newer"
         /\ role = "mid" => age' = age
<1>1. /\ file \in [Files -> Stored] /\ recent \subseteq Files
      /\ age \in [Images -> {"older", "same", "newer"}]
      /\ <<i, role>> \in Files
      /\ [exists |-> TRUE, content |-> content] \in Stored
  BY DEF Typed, Files, Roles, Stored
<1>2. file' \in [Files -> Stored] /\ file'[<<i, role>>] = [exists |-> TRUE, content |-> content]
  BY <1>1 DEF Stamp
<1>3. \A j \in Images, r \in Roles : j # i \/ r # role => file'[<<j, r>>] = file[<<j, r>>]
  BY <1>1 DEF Stamp, Files, Roles
<1>4. /\ age' \in [Images -> {"older", "same", "newer"}]
      /\ \A j \in Images : j # i => age'[j] = age[j]
      /\ role = "src" => age'[i] # "newer"
      /\ role = "mid" => age' = age
  <2>1. CASE role = "src"
    BY <1>1, <2>1 DEF Stamp
  <2>2. CASE role = "mid"
    BY <1>1, <2>2 DEF Stamp
  <2>3. CASE role = "dst"
    BY <1>1, <2>3 DEF Stamp
  <2> QED
    BY <2>1, <2>2, <2>3 DEF Roles
<1>5. recent' \subseteq Files
  BY <1>1 DEF Stamp
<1> QED
  BY <1>2, <1>3, <1>4, <1>5

----------------------------------------------------------------------------
(* The steps of a process. *)

LEMMA JobTyped ==
  ASSUME Typed, NEW w \in Workers
  PROVE  /\ work[w] \in Jobs /\ work[w].step \in Steps /\ work[w].page \in Pages
         /\ work[w].todo \in Seq(Command) /\ work[w].held \in Versions
         /\ work[w].spoilt \in SUBSET Causes /\ work[w].ok \in BOOLEAN
         /\ Img(w) \in Images
BY DEF Typed, Jobs, Img

LEMMA IdleTyped == Idle \in Jobs
<1>1. (CHOOSE p \in Pages : TRUE) \in Pages
  BY FiguresAssumption
<1>2. 0 \in Versions /\ <<>> \in Seq(Command)
  BY FiguresAssumption DEF Versions
<1> QED
  BY <1>1, <1>2 DEF Idle, Jobs, Steps

(* The other processes are not concerned: where two are at work, no SVG is made on the
   way to a PDF. *)
LEMMA OthersKeep ==
  ASSUME FiguresInv, NEW w \in Workers, NEW v \in Workers, v # w, work'[v] = work[v],
         UNCHANGED fixed, \A i \in Images : Target(i)' = Target(i),
         UNCHANGED <<file, tainted>> \/ ~At(w, "free")
  PROVE  Fits(v)' /\ Holds(v)'
<1>1. Img(v) \in Images /\ Img(v)' = Img(v) /\ UNCHANGED <<format, tools, image>>
  BY JobTyped DEF FiguresInv, Img, fixed
<1>2. Fits(v) /\ Holds(v)
  BY DEF FiguresInv
<1>3. \/ UNCHANGED <<file, tainted>>
      \/ At(v, "free")
      \/ format = "html"
  BY DEF FiguresInv, BuildInv
<1>4. \A todo : (Last(todo)' <=> Last(todo)) /\ (Both(todo)' <=> Both(todo))
  BY <1>1 DEF Last, Both
<1>5. Fits(v)'
  BY <1>1, <1>2, <1>3, <1>4 DEF Fits, Convert, At
<1>6. work[v].step \in {"open", "read"} /\ Head(work[v].todo).from = "mid" => format = "latex"
  BY <1>2, LastParts, BothParts DEF Fits, Convert
<1>7. Holds(v)'
  BY <1>1, <1>2, <1>3, <1>6 DEF Holds, At, Mid
<1> QED
  BY <1>5, <1>7

(* Nor are the images that a process does not work on. *)
LEMMA OtherImages ==
  ASSUME FiguresInv, NEW w \in Workers, NEW i \in Images,
         \A v \in Workers \ {w} : work'[v] = work[v],
         UNCHANGED <<image, since>>,
         \A p \in Pages : image[p] = i => shown'[p] = shown[p],
         work[w].step \in {"read", "write", "finish"} => Img(w) # i,
         work'[w].step \in {"read", "write", "finish"} => Img(w)' # i,
         Dst(i)' = Dst(i), age'[i] = age[i], tainted'[i] = tainted[i], Target(i)' = Target(i)
  PROVE  Fresh(i)'
<1>1. \A v \in Workers \ {w} : Img(v)' = Img(v)
  BY DEF Img
<1>2. Converting(i) => Converting(i)'
  BY <1>1 DEF Converting
<1>3. Shows(i)' => Shows(i)
  BY <1>1 DEF Shows, At
<1>4. (IsNewer(i)' <=> IsNewer(i)) /\ (Good(i)' <=> Good(i))
  BY DEF IsNewer, Good, Dst
<1> QED
  BY <1>2, <1>3, <1>4 DEF FiguresInv, Fresh

(* A process takes a step: what remains to be shown is about itself and its image. *)
LEMMA ProcessInv ==
  ASSUME FiguresInv, NEW w \in Workers, ~At(w, "free"),
         NEW job \in Jobs, work' = [work EXCEPT ![w] = job],
         UNCHANGED <<fixed, phase, queue, since>>,
         shown' \in [Pages -> {"none", "raw", "image", "source"}],
         \A p \in Pages : image[p] # Img(w) => shown'[p] = shown[p],
         file' \in [Files -> Stored], age' \in [Images -> {"older", "same", "newer"}],
         recent' \subseteq Files, tainted' \in [Images -> SUBSET Causes],
         \A i \in Images : Target(i)' = Target(i),
         \A i \in Images : Kind[i] = "render" => Src(i)'.content \in {0, 1},
         \A i \in Images \ {Img(w)} :
           Dst(i)' = Dst(i) /\ age'[i] = age[i] /\ tainted'[i] = tainted[i],
         job.step \in {"read", "write", "finish"} => job.page = work[w].page,
         Fits(w)', Holds(w)',
         NEW k \in Images, k = Img(w), Fresh(k)'
  PROVE  FiguresInv'
<1>1. /\ work \in [Workers -> Jobs]
      /\ work'[w] = job
      /\ \A v \in Workers \ {w} : work'[v] = work[v]
      /\ UNCHANGED <<format, tools, image>>
  BY DEF FiguresInv, Typed, fixed
<1>2. Typed'
  BY <1>1 DEF FiguresInv, Typed
<1>3. SourceInv'
  BY DEF FiguresInv, SourceInv, Target
<1>4. BuildInv'
  BY <1>1 DEF FiguresInv, BuildInv, At
<1>5. \A v \in Workers : Fits(v)' /\ Holds(v)'
  BY <1>1, OthersKeep
<1>6. ASSUME NEW i \in Images, i # k PROVE Fresh(i)'
  <2>1. work'[w].step \in {"read", "write", "finish"} => Img(w)' # i
    BY <1>1, <1>6 DEF Img
  <2> QED
    BY <1>1, <1>6, <2>1, OtherImages
<1> QED
  BY <1>2, <1>3, <1>4, <1>5, <1>6 DEF FiguresInv

(* A step of a process that touches no file. *)
LEMMA CalmInv ==
  ASSUME FiguresInv, NEW w \in Workers, ~At(w, "free"),
         NEW job \in Jobs, work' = [work EXCEPT ![w] = job],
         UNCHANGED <<fixed, files, phase, queue, since, tainted>>,
         shown' \in [Pages -> {"none", "raw", "image", "source"}],
         \A p \in Pages : image[p] # Img(w) => shown'[p] = shown[p],
         job.step \in {"read", "write", "finish"} => job.page = work[w].page,
         work[w].step \in {"read", "write"} =>
           job.step \in {"read", "write"} /\ job.todo = work[w].todo,
         Fits(w)', Holds(w)',
         NEW k \in Images, k = Img(w),
         Shows(k)' /\ tainted[k] = {} /\ ~Converting(k) => Shows(k) \/ Good(k)
  PROVE  FiguresInv'
<1>1. /\ work'[w] = job
      /\ \A v \in Workers \ {w} : work'[v] = work[v]
      /\ UNCHANGED <<format, tools, image, file, age, recent>>
  BY DEF FiguresInv, Typed, fixed, files
<1>2. \A i \in Images : Target(i)' = Target(i) /\ Dst(i)' = Dst(i) /\ Src(i)' = Src(i)
  BY <1>1 DEF Target, Src, Dst
<1>3. Fresh(k)'
  <2>1. Converting(k) => Converting(k)'
    BY <1>1 DEF Converting, Img
  <2>2. Good(k)' <=> Good(k)
    BY <1>2 DEF Good
  <2>3. IsNewer(k)' <=> IsNewer(k)
    BY <1>1 DEF IsNewer
  <2> QED
    BY <1>2, <2>1, <2>2, <2>3 DEF FiguresInv, Fresh
<1>4. /\ file' \in [Files -> Stored] /\ age' \in [Images -> {"older", "same", "newer"}]
      /\ recent' \subseteq Files /\ tainted' \in [Images -> SUBSET Causes]
      /\ \A i \in Images : Kind[i] = "render" => Src(i)'.content \in {0, 1}
      /\ \A i \in Images \ {Img(w)} :
           Dst(i)' = Dst(i) /\ age'[i] = age[i] /\ tainted'[i] = tainted[i]
  BY <1>1, <1>2 DEF FiguresInv, Typed, SourceInv
<1> QED
  BY <1>2, <1>3, <1>4, ProcessInv

LEMMA VisitInv == ASSUME FiguresInv, NEW w \in Workers, Visit(w) PROVE FiguresInv'
<1>1. Typed /\ Fits(w) /\ At(w, "visit")
  BY DEF FiguresInv, Visit
<1>2. PICK step \in {"create", "check"} :
        /\ work' = [work EXCEPT ![w].step = step]
        /\ step = "create" => Kind[Img(w)] = "render"
  BY DEF Visit, Goto
<1> DEFINE job == [work[w] EXCEPT !.step = step]
<1>3. /\ job \in Jobs /\ job.step = step /\ job.page = work[w].page /\ job.todo = work[w].todo
      /\ job.ok = work[w].ok /\ job.spoilt = work[w].spoilt
      /\ work' = [work EXCEPT ![w] = job] /\ work'[w] = job
  BY <1>1, <1>2, JobTyped DEF Jobs, Steps, Typed
<1> HIDE DEF job
<1>4. Img(w) \in Images /\ Img(w)' = Img(w)
  BY <1>1, <1>3, JobTyped DEF Visit, Img, fixed
<1>5. Fits(w)' /\ Holds(w)'
  BY <1>1, <1>2, <1>3, <1>4 DEF Fits, Holds, Convert, At
<1>6. \A k \in Images : Shows(k)' => Shows(k)
  BY <1>2, <1>3, <1>4 DEF Shows, Visit, fixed, At, Img, FiguresInv, Typed
<1>7. /\ ~At(w, "free") /\ UNCHANGED <<fixed, files, phase, queue, since, tainted, shown>>
      /\ shown' \in [Pages -> {"none", "raw", "image", "source"}]
      /\ work[w].step \notin {"read", "write"} /\ job.step \notin {"read", "write", "finish"}
  BY <1>1, <1>2, <1>3 DEF Visit, At, Typed
<1> QED
  BY <1>3, <1>4, <1>5, <1>6, <1>7, CalmInv

LEMMA ReadInv == ASSUME FiguresInv, NEW w \in Workers, Read(w) PROVE FiguresInv'
<1>1. Typed /\ SourceInv /\ Fits(w) /\ Holds(w) /\ At(w, "read")
  BY DEF FiguresInv, Read
<1> DEFINE todo == work[w].todo
           content == file[<<Img(w), Head(todo).from>>].content
           spoilt == IF content = 0 THEN work[w].spoilt \cup {"race"} ELSE work[w].spoilt
           job == [work[w] EXCEPT !.step = "write", !.held = content, !.spoilt = spoilt]
<1>2. Img(w) \in Images /\ work[w] \in Jobs /\ work[w].spoilt \in SUBSET Causes
  BY <1>1, JobTyped
<1>3. Head(todo).from \in {"src", "mid"} /\ (Last(todo) \/ Both(todo))
  <2>1. Last(todo) \/ Both(todo)
    BY <1>1 DEF Fits, Convert, At
  <2>2. Last(todo) => Head(todo).from \in {"src", "mid"}
    BY LastParts
  <2>3. Both(todo) => Head(todo).from \in {"src", "mid"}
    BY BothParts
  <2> QED
    BY <2>1, <2>2, <2>3
<1>4. content \in Versions
  BY <1>1, <1>2, <1>3 DEF Typed, Files, Stored
<1>5. /\ job \in Jobs /\ job.step = "write" /\ job.page = work[w].page /\ job.todo = todo
      /\ job.held = content /\ job.spoilt = spoilt /\ job.ok = work[w].ok
  BY <1>2, <1>4 DEF Jobs, Steps, Causes
<1>6. work' = [work EXCEPT ![w] = job] /\ work'[w] = job
  BY <1>1 DEF Read, Typed
<1>7. /\ UNCHANGED <<format, tools, image, file, tainted, shown>>
      /\ Img(w)' = Img(w)
  BY <1>5, <1>6 DEF Read, fixed, files, Img
<1>8. Fits(w)'
  <2>1. \A t : (Last(t)' <=> Last(t)) /\ (Both(t)' <=> Both(t))
    BY <1>7 DEF Last, Both
  <2> QED
    BY <1>1, <1>5, <1>6, <1>7, <2>1 DEF Fits, Convert, At
<1>9. Holds(w)'
  <2> SUFFICES ASSUME work[w].ok, spoilt = {}
               PROVE  content = Target(Img(w)) /\ content > 0
    BY <1>5, <1>6, <1>7 DEF Holds, At, Target, Src
  <2>1. content # 0 /\ work[w].spoilt = {}
    BY DEF spoilt
  <2>2. CASE Head(todo).from = "src"
    BY <1>1, <1>2, <1>4, <2>1, <2>2 DEF SourceInv, Src, Target, Versions
  <2>3. CASE Head(todo).from = "mid"
    BY <1>1, <1>4, <2>1, <2>3 DEF Holds, At, Mid, Versions
  <2> QED
    BY <1>3, <2>2, <2>3
<1>10. \A k \in Images : Shows(k)' => Shows(k)
  <2>1. \A v \in Workers \ {w} : work'[v] = work[v]
    BY <1>6
  <2> QED
    BY <1>5, <1>6, <1>7, <2>1 DEF Shows, At, Img
<1>11. /\ ~At(w, "free") /\ UNCHANGED <<fixed, files, phase, queue, since, tainted, shown>>
       /\ shown' \in [Pages -> {"none", "raw", "image", "source"}]
  BY <1>1 DEF Read, At, Typed
<1> HIDE DEF job
<1> QED
  BY <1>2, <1>5, <1>6, <1>8, <1>9, <1>10, <1>11, CalmInv
LEMMA CheckInv == ASSUME FiguresInv, NEW w \in Workers, Check(w) PROVE FiguresInv'
<1>1. Typed /\ SourceInv /\ Fits(w) /\ Holds(w) /\ At(w, "check") /\ Fresh(Img(w))
  BY JobTyped DEF FiguresInv, Check
<1>2. /\ Img(w) \in Images /\ work[w] \in Jobs /\ work[w].page \in Pages
      /\ work[w].ok /\ work[w].spoilt = {} /\ ~At(w, "free")
      /\ work[w].step \notin {"read", "write"}
  BY <1>1, JobTyped DEF Fits, Convert, At
<1>3. /\ UNCHANGED <<fixed, files, phase, queue, since, tainted>>
      /\ UNCHANGED <<format, tools, image, file>>
  BY DEF Check, fixed, files
<1>4. ASSUME NEW what \in {"raw", "source", "image"}, Show(w, what),
             what = "image" => IsNewer(Img(w))
      PROVE  FiguresInv'
  <2>1. Idle \in Jobs /\ work' = [work EXCEPT ![w] = Idle] /\ work'[w] = Idle
        /\ Idle.step = "free" /\ Idle.todo = <<>> /\ Idle.ok /\ Idle.spoilt = {}
    BY <1>1, <1>4, IdleTyped DEF Show, Idle, Typed
  <2>2. shown' = [shown EXCEPT ![work[w].page] = what]
    BY <1>4 DEF Show
  <2>3. /\ shown' \in [Pages -> {"none", "raw", "image", "source"}]
        /\ \A p \in Pages : image[p] # Img(w) => shown'[p] = shown[p]
    BY <1>1, <1>2, <2>2 DEF Typed, Img
  <2>4. Fits(w)' /\ Holds(w)'
    BY <2>1 DEF Fits, Holds, Convert, At
  <2>5. ASSUME Shows(Img(w)) \/ what = "image", tainted[Img(w)] = {}, ~Converting(Img(w))
        PROVE  Good(Img(w))
    <3>1. CASE Shows(Img(w))
      BY <1>1, <2>5, <3>1 DEF Fresh
    <3>2. CASE what = "image"
      <4>1. Dst(Img(w)).exists /\ Dst(Img(w)).content = Target(Img(w))
        BY <1>1, <1>4, <2>5, <3>2 DEF Fresh, IsNewer, Dst
      <4>2. /\ since[Img(w)] <= Target(Img(w)) /\ Target(Img(w)) > 0
        BY <1>1, <1>2 DEF SourceInv, Target
      <4>3. since[Img(w)] \in Nat /\ Target(Img(w)) \in Nat
        <5>1. <<Img(w), "src">> \in Files
          BY <1>2 DEF Files
        <5> QED
          BY <1>1, <1>2, <5>1, FiguresAssumption DEF Typed, Target, Src, Stored, Versions
      <4> QED
        BY <4>1, <4>2, <4>3 DEF Good
    <3> QED
      BY <2>5, <3>1, <3>2
  <2>6. \A k \in Images : Shows(k)' => Shows(k) \/ (k = Img(w) /\ what = "image")
    BY <1>1, <1>2, <1>3, <2>1, <2>2 DEF Shows, At, Img, Typed
  <2>7. Idle.step \notin {"read", "write", "finish"}
    BY <2>1
  <2> HIDE DEF Idle
  <2> QED
    BY <1>2, <1>3, <2>1, <2>3, <2>4, <2>5, <2>6, <2>7, CalmInv
<1>5. ASSUME ~Raw(Img(w)), ~AsIs(Img(w)), UNCHANGED shown,
             work' = [work EXCEPT ![w].step = "open", ![w].todo = Commands(Img(w))]
      PROVE  FiguresInv'
  <2> DEFINE job == [work[w] EXCEPT !.step = "open", !.todo = Commands(Img(w))]
  <2>1. /\ Last(Commands(Img(w))) \/ Both(Commands(Img(w)))
        /\ Head(Commands(Img(w))).from = "src"
        /\ Commands(Img(w)) \in Seq(Command)
    BY <1>1, <1>2, <1>5, CommandsParts
  <2>2. /\ job \in Jobs /\ job.step = "open" /\ job.page = work[w].page
        /\ job.todo = Commands(Img(w)) /\ job.ok = work[w].ok /\ job.spoilt = work[w].spoilt
    BY <1>2, <2>1 DEF Jobs, Steps
  <2>3. work' = [work EXCEPT ![w] = job] /\ work'[w] = job
    BY <1>1, <1>5 DEF Typed
  <2> HIDE DEF job
  <2>4. Img(w)' = Img(w)
    BY <1>3, <2>2, <2>3 DEF Img
  <2>5. Fits(w)' /\ Holds(w)'
    <3>1. \A t : (Last(t)' <=> Last(t)) /\ (Both(t)' <=> Both(t))
      BY <1>3 DEF Last, Both
    <3>2. work'[w].todo = Commands(Img(w))
      BY <2>2, <2>3
    <3> QED
      BY <1>2, <2>1, <2>2, <2>3, <3>1, <3>2 DEF Fits, Holds, Convert, At
  <2>6. \A k \in Images : Shows(k)' => Shows(k)
    <3>1. \A v \in Workers \ {w} : work'[v] = work[v]
      BY <2>3
    <3> QED
      BY <1>3, <1>5, <2>2, <2>3, <3>1 DEF Shows, At, Img
  <2>7. shown' \in [Pages -> {"none", "raw", "image", "source"}]
    BY <1>1, <1>5 DEF Typed
  <2> QED
    BY <1>2, <1>3, <1>5, <2>2, <2>3, <2>5, <2>6, <2>7, CalmInv
<1> QED
  BY <1>4, <1>5 DEF Check

LEMMA FinishInv == ASSUME FiguresInv, NEW w \in Workers, Finish(w) PROVE FiguresInv'
<1>1. Typed /\ At(w, "finish")
  BY DEF FiguresInv, Finish
<1>2. /\ Img(w) \in Images /\ work[w].page \in Pages /\ work[w].ok \in BOOLEAN
      /\ ~At(w, "free") /\ work[w].step \notin {"read", "write"}
  BY <1>1, JobTyped DEF At
<1>3. /\ UNCHANGED <<fixed, files, phase, queue, since, tainted>>
      /\ UNCHANGED <<format, tools, image, file>>
  BY DEF Finish, fixed, files
<1>4. PICK what \in {"raw", "image"} : Show(w, what) /\ (what = "image" => work[w].ok)
  BY <1>2 DEF Finish
<1>5. Idle \in Jobs /\ work' = [work EXCEPT ![w] = Idle] /\ work'[w] = Idle
      /\ Idle.step = "free" /\ Idle.todo = <<>> /\ Idle.ok /\ Idle.spoilt = {}
  BY <1>1, <1>4, IdleTyped DEF Show, Idle, Typed
<1>6. shown' = [shown EXCEPT ![work[w].page] = what]
  BY <1>4 DEF Show
<1>7. /\ shown' \in [Pages -> {"none", "raw", "image", "source"}]
      /\ \A p \in Pages : image[p] # Img(w) => shown'[p] = shown[p]
  BY <1>1, <1>2, <1>6 DEF Typed, Img
<1>8. Fits(w)' /\ Holds(w)'
  BY <1>5 DEF Fits, Holds, Convert, At
<1>9. \A k \in Images : Shows(k)' => Shows(k)
  <2>1. what = "image" => Shows(Img(w))
    BY <1>1, <1>4 DEF Shows
  <2> QED
    BY <1>1, <1>2, <1>3, <1>5, <1>6, <2>1 DEF Shows, At, Img, Typed
<1>10. Idle.step \notin {"read", "write", "finish"}
  BY <1>5
<1> QED
  BY <1>2, <1>3, <1>5, <1>7, <1>8, <1>9, <1>10, CalmInv

(* What an image should hold changes by edits alone. *)
LEMMA StampTarget ==
  ASSUME Typed, NEW i \in Images, NEW role \in Roles, NEW content \in Versions,
         Stamp(i, role, content), role = "src" => Kind[i] = "render"
  PROVE  \A j \in Images : Target(j)' = Target(j)
<1>1. "src" \in Roles
  BY DEF Roles
<1>2. ASSUME NEW j \in Images, Kind[j] # "render" PROVE file'[<<j, "src">>] = file[<<j, "src">>]
  <2>1. j # i \/ "src" # role
    BY <1>2
  <2> QED
    BY <1>1, <2>1, StampEffect
<1> QED
  BY <1>2 DEF Target, Src

(* The code of a block is stored: no output passes for newer than it. *)
LEMMA CodeInv ==
  ASSUME FiguresInv, NEW w \in Workers, At(w, "create") \/ At(w, "code"),
         NEW step \in {"code", "check"}, Goto(w, step),
         NEW content \in {0, 1}, Stamp(Img(w), "src", content),
         UNCHANGED <<fixed, phase, queue, shown, since, tainted>>
  PROVE  FiguresInv'
<1>1. Typed /\ SourceInv /\ Fits(w)
  BY DEF FiguresInv
<1>2. /\ Img(w) \in Images /\ work[w] \in Jobs /\ content \in Versions /\ "src" \in Roles
      /\ ~At(w, "free") /\ work[w].step \notin {"read", "write", "finish"}
      /\ Kind[Img(w)] = "render"
      /\ work[w].ok /\ work[w].spoilt = {} /\ work[w].todo = <<>>
  BY <1>1, JobTyped, FiguresAssumption DEF Fits, Convert, At, Versions, Roles
<1> DEFINE job == [work[w] EXCEPT !.step = step]
<1>3. /\ job \in Jobs /\ job.step = step /\ job.page = work[w].page /\ job.todo = work[w].todo
      /\ job.ok = work[w].ok /\ job.spoilt = work[w].spoilt
  BY <1>2 DEF Jobs, Steps
<1>4. work' = [work EXCEPT ![w] = job] /\ work'[w] = job
  BY <1>1 DEF Goto, Typed
<1> HIDE DEF job
<1>5. Img(w)' = Img(w) /\ UNCHANGED <<format, tools, image>>
  BY <1>3, <1>4 DEF Img, fixed
<1>6. Fits(w)' /\ Holds(w)'
  BY <1>2, <1>3, <1>4, <1>5 DEF Fits, Holds, Convert, At
<1>7. /\ file' \in [Files -> Stored] /\ recent' \subseteq Files
      /\ age' \in [Images -> {"older", "same", "newer"}]
      /\ file'[<<Img(w), "src">>] = [exists |-> TRUE, content |-> content]
      /\ \A j \in Images, r \in Roles :
           j # Img(w) \/ r # "src" => file'[<<j, r>>] = file[<<j, r>>]
      /\ \A j \in Images : j # Img(w) => age'[j] = age[j]
      /\ age'[Img(w)] # "newer"
  BY <1>1, <1>2, StampEffect
<1>8. \A j \in Images : Target(j)' = Target(j)
  BY <1>1, <1>2, StampTarget
<1>9. ASSUME NEW j \in Images, Kind[j] = "render" PROVE Src(j)'.content \in {0, 1}
  <2>1. j # Img(w) => Src(j)' = Src(j)
    BY <1>2, <1>7 DEF Src
  <2>2. j = Img(w) => Src(j)' = [exists |-> TRUE, content |-> content]
    BY <1>7 DEF Src
  <2> QED
    BY <1>1, <1>9, <2>1, <2>2 DEF SourceInv
<1>10. \A j \in Images : Dst(j)' = Dst(j)
  BY <1>7 DEF Dst, Roles
<1>11. Fresh(Img(w))'
  <2>1. \A i \in Images : Converting(i) => Converting(i)'
    BY <1>2, <1>3, <1>4, <1>5 DEF Converting, Img
  <2>2. \A i \in Images : Shows(i)' => Shows(i)
    BY <1>1, <1>3, <1>4, <1>5 DEF Shows, At, Img, Typed
  <2>3. \A i \in Images : Good(i)' <=> Good(i)
    BY <1>10 DEF Good
  <2> QED
    BY <1>2, <1>5, <1>7, <2>1, <2>2, <2>3 DEF FiguresInv, Fresh, IsNewer
<1>12. \A i \in Images : i = Img(w) => Fresh(i)'
  BY <1>5, <1>11
<1>13. /\ shown' \in [Pages -> {"none", "raw", "image", "source"}]
       /\ tainted' \in [Images -> SUBSET Causes]
  BY <1>1 DEF Typed
<1> QED
  BY <1>2, <1>3, <1>4, <1>6, <1>7, <1>8, <1>9, <1>10, <1>12, <1>13, ProcessInv

LEMMA OpenInv == ASSUME FiguresInv, NEW w \in Workers, Open(w) PROVE FiguresInv'
<1>1. Typed /\ SourceInv /\ Fits(w) /\ Holds(w) /\ At(w, "open")
  BY DEF FiguresInv, Open
<1>2. /\ Img(w) \in Images /\ work[w] \in Jobs /\ ~At(w, "free")
      /\ work[w].step \notin {"read", "write", "finish"}
  BY <1>1, JobTyped DEF At
<1> DEFINE todo == work[w].todo
           job == [work[w] EXCEPT !.step = "read"]
<1>3. /\ job \in Jobs /\ job.step = "read" /\ job.page = work[w].page /\ job.todo = todo
      /\ job.ok = work[w].ok /\ job.spoilt = work[w].spoilt
  BY <1>2 DEF Jobs, Steps
<1>4. work' = [work EXCEPT ![w] = job] /\ work'[w] = job
  BY <1>1 DEF Open, Goto, Typed
<1> HIDE DEF job
<1>5. Img(w)' = Img(w) /\ UNCHANGED <<format, tools, image>>
  BY <1>3, <1>4 DEF Open, Img, fixed
<1>6. /\ Last(todo) \/ Both(todo)
      /\ Head(todo).to \in {"mid", "dst"}
      /\ Head(todo).tool = "dot" /\ Head(todo).to = "mid" => Head(todo).from # "mid"
  <2>1. Last(todo) \/ Both(todo)
    BY <1>1 DEF Fits, Convert, At
  <2>2. Last(todo) => Head(todo).to = "dst"
    BY LastParts
  <2>3. Both(todo) => Head(todo).to = "mid" /\ Head(todo).from = "src"
    BY BothParts
  <2> QED
    BY <2>1, <2>2, <2>3
<1>7. Fits(w)'
  <2>1. \A t : (Last(t)' <=> Last(t)) /\ (Both(t)' <=> Both(t))
    BY <1>5 DEF Last, Both
  <2> QED
    BY <1>1, <1>3, <1>4, <1>5, <2>1 DEF Open, Fits, Convert, At
<1>8. \A i \in Images : Shows(i)' => Shows(i)
  BY <1>1, <1>3, <1>4, <1>5 DEF Open, Shows, At, Img, Typed
<1>9. /\ UNCHANGED <<fixed, phase, queue, since, tainted, shown>>
      /\ shown' \in [Pages -> {"none", "raw", "image", "source"}]
      /\ tainted' \in [Images -> SUBSET Causes]
  BY <1>1 DEF Open, Typed
<1>10. CASE UNCHANGED files
  <2>1. Holds(w)'
    BY <1>1, <1>3, <1>4, <1>5, <1>10 DEF Holds, At, Mid, Target, Src, files
  <2> QED
    BY <1>2, <1>3, <1>4, <1>7, <1>8, <1>9, <1>10, <2>1, CalmInv
<1>11. CASE Head(todo).tool = "dot" /\ Stamp(Img(w), Head(todo).to, 0)
  <2> DEFINE to == Head(todo).to
  <2>1. to \in Roles /\ 0 \in Versions
    BY <1>6, FiguresAssumption DEF Roles, Versions
  <2>2. /\ file' \in [Files -> Stored] /\ recent' \subseteq Files
        /\ age' \in [Images -> {"older", "same", "newer"}]
        /\ \A j \in Images, r \in Roles :
             j # Img(w) \/ r # to => file'[<<j, r>>] = file[<<j, r>>]
        /\ \A j \in Images : j # Img(w) => age'[j] = age[j]
        /\ to = "mid" => age' = age
    BY <1>1, <1>2, <1>11, <2>1, StampEffect
  <2>3. \A j \in Images : Target(j)' = Target(j)
    BY <1>1, <1>2, <1>6, <1>11, <2>1, StampTarget
  <2>4. \A j \in Images : Src(j)' = Src(j)
    BY <1>6, <2>2 DEF Src, Roles
  <2>5. \A j \in Images : to = "mid" \/ j # Img(w) => Dst(j)' = Dst(j) /\ age'[j] = age[j]
    BY <2>2 DEF Dst, Roles
  <2>6. Holds(w)'
    <3>1. CASE to = "mid"
      BY <1>3, <1>4, <1>6, <1>11, <3>1 DEF Holds, At
    <3>2. CASE to = "dst"
      <4>1. Mid(Img(w))' = Mid(Img(w))
        BY <1>2, <1>5, <2>2, <3>2 DEF Mid, Roles
      <4> QED
        BY <1>1, <1>2, <1>3, <1>4, <1>5, <2>3, <4>1 DEF Holds, At
    <3> QED
      BY <1>6, <3>1, <3>2
  <2>7. Fresh(Img(w))'
    <3>1. CASE to = "dst"
      <4>1. Converting(Img(w))'
        BY <1>3, <1>4, <1>5, <3>1 DEF Converting
      <4> QED
        BY <4>1 DEF Fresh
    <3>2. CASE to = "mid"
      <4>1. \A i \in Images : Converting(i) => Converting(i)'
        BY <1>2, <1>3, <1>4, <1>5 DEF Converting, Img
      <4>2. \A i \in Images : (Good(i)' <=> Good(i)) /\ (IsNewer(i)' <=> IsNewer(i))
        BY <1>9, <2>5, <3>2 DEF Good, IsNewer, Dst
      <4> QED
        BY <1>2, <1>5, <1>8, <1>9, <2>3, <2>5, <3>2, <4>1, <4>2 DEF FiguresInv, Fresh
    <3> QED
      BY <1>6, <3>1, <3>2
  <2>8. \A i \in Images : i = Img(w) => Fresh(i)'
    BY <1>5, <2>7
  <2>9. \A i \in Images : Kind[i] = "render" => Src(i)'.content \in {0, 1}
    BY <1>1, <2>4 DEF SourceInv
  <2> QED
    BY <1>2, <1>3, <1>4, <1>7, <1>9, <2>2, <2>3, <2>5, <2>6, <2>8, <2>9, ProcessInv
<1> QED
  BY <1>10, <1>11 DEF Open

(* What is left for a process after a command. *)
LEMMA AfterEffect ==
  ASSUME Typed, NEW w \in Workers, Fits(w), work[w].step \in Convert,
         NEW ok \in BOOLEAN, AfterCommand(w, ok), UNCHANGED fixed
  PROVE  \E job \in Jobs :
           /\ work' = [work EXCEPT ![w] = job] /\ work'[w] = job
           /\ job.page = work[w].page /\ job.spoilt = work[w].spoilt /\ job.held = work[w].held
           /\ job.ok = (work[w].ok /\ ok)
           /\ Img(w)' = Img(w)
           /\ \/ Last(work[w].todo) /\ job.step = "finish" /\ job.todo = <<>>
              \/ /\ Both(work[w].todo) /\ work[w].ok
                 /\ job.step = "open" /\ Last(job.todo) /\ Head(job.todo).from = "mid"
<1> DEFINE todo == work[w].todo
           step == IF Len(todo) = 1 THEN "finish" ELSE "open"
           job == [work[w] EXCEPT !.todo = Tail(todo), !.step = step, !.ok = work[w].ok /\ ok]
<1>1. Last(todo) \/ (Both(todo) /\ work[w].ok)
  BY DEF Fits
<1>2. /\ work[w] \in Jobs /\ work[w].ok \in BOOLEAN
      /\ UNCHANGED <<format, tools, image>>
  BY JobTyped DEF fixed
<1>3. /\ Last(todo) => Len(todo) = 1 /\ Tail(todo) = <<>> /\ Tail(todo) \in Seq(Command)
      /\ Both(todo) => /\ Len(todo) = 2 /\ Last(Tail(todo)) /\ Head(Tail(todo)).from = "mid"
                       /\ Tail(todo) \in Seq(Command)
  BY LastParts, BothParts
<1>4. /\ job \in Jobs /\ job.page = work[w].page /\ job.spoilt = work[w].spoilt
      /\ job.held = work[w].held /\ job.ok = (work[w].ok /\ ok)
      /\ job.step = step /\ job.todo = Tail(todo)
  <2>1. step \in Steps /\ Tail(todo) \in Seq(Command) /\ (work[w].ok /\ ok) \in BOOLEAN
    BY <1>1, <1>2, <1>3 DEF Steps
  <2> HIDE DEF step, todo
  <2> QED
    BY <1>2, <2>1 DEF Jobs
<1>5. work' = [work EXCEPT ![w] = job] /\ work'[w] = job
  BY DEF AfterCommand, Typed
<1> HIDE DEF job
<1>6. Img(w)' = Img(w)
  BY <1>2, <1>4, <1>5 DEF Img
<1>7. CASE Last(todo)
  <2>1. job.step = "finish" /\ job.todo = <<>>
    BY <1>3, <1>4, <1>7
  <2> QED
    BY <1>4, <1>5, <1>6, <1>7, <2>1
<1>8. CASE Both(todo) /\ work[w].ok
  <2>1. job.step = "open" /\ Last(job.todo) /\ Head(job.todo).from = "mid"
    BY <1>3, <1>4, <1>8 DEF Last
  <2> QED
    BY <1>4, <1>5, <1>6, <1>8, <2>1
<1> QED
  BY <1>1, <1>7, <1>8

LEMMA TaintEffect ==
  ASSUME Typed, NEW w \in Workers, NEW causes \in SUBSET Causes, Taint(w, causes)
  PROVE  /\ tainted' \in [Images -> SUBSET Causes]
         /\ tainted'[Img(w)] = tainted[Img(w)] \cup causes
         /\ \A i \in Images \ {Img(w)} : tainted'[i] = tainted[i]
BY JobTyped DEF Typed, Taint

LEMMA ToolFailsInv == ASSUME FiguresInv, NEW w \in Workers, ToolFails(w) PROVE FiguresInv'
<1>1. Typed /\ SourceInv /\ Fits(w) /\ work[w].step \in Convert /\ ~At(w, "free")
  BY DEF FiguresInv, ToolFails, Convert, At
<1>2. /\ UNCHANGED <<fixed, phase, queue, shown, since>>
      /\ UNCHANGED <<format, tools, image, file, age, recent>>
  BY DEF ToolFails, fixed, files
<1>3. PICK job \in Jobs :
        /\ work' = [work EXCEPT ![w] = job] /\ work'[w] = job
        /\ job.page = work[w].page /\ job.ok = FALSE
        /\ Img(w)' = Img(w)
        /\ \/ Last(work[w].todo) /\ job.step = "finish" /\ job.todo = <<>>
           \/ /\ Both(work[w].todo)
              /\ job.step = "open" /\ Last(job.todo)
  BY <1>1, <1>2, AfterEffect DEF ToolFails
<1>4. /\ tainted' \in [Images -> SUBSET Causes]
      /\ tainted'[Img(w)] # {}
      /\ \A i \in Images \ {Img(w)} : tainted'[i] = tainted[i]
  BY <1>1, TaintEffect DEF ToolFails, Causes
<1>5. Fits(w)' /\ Holds(w)'
  <2>1. \A t : (Last(t)' <=> Last(t)) /\ (Both(t)' <=> Both(t))
    BY <1>2 DEF Last, Both
  <2>2. Both(work[w].todo) => format = "latex"
    BY BothParts
  <2> QED
    BY <1>2, <1>3, <1>4, <2>1, <2>2 DEF Fits, Holds, Convert, At
<1>6. \A i \in Images : i = Img(w) => Fresh(i)'
  BY <1>4 DEF Fresh
<1>7. \A i \in Images : Target(i)' = Target(i) /\ Dst(i)' = Dst(i) /\ Src(i)' = Src(i)
  BY <1>2 DEF Target, Dst, Src
<1>8. /\ shown' \in [Pages -> {"none", "raw", "image", "source"}]
      /\ file' \in [Files -> Stored] /\ age' \in [Images -> {"older", "same", "newer"}]
      /\ recent' \subseteq Files
      /\ \A i \in Images : Kind[i] = "render" => Src(i)'.content \in {0, 1}
      /\ Img(w) \in Images
  BY <1>1, <1>2, <1>7, JobTyped DEF Typed, SourceInv
<1> QED
  BY <1>1, <1>2, <1>3, <1>4, <1>5, <1>6, <1>7, <1>8, ProcessInv

LEMMA WriteInv == ASSUME FiguresInv, NEW w \in Workers, Write(w) PROVE FiguresInv'
<1>1. /\ Typed /\ SourceInv /\ Fits(w) /\ Holds(w) /\ At(w, "write") /\ Fresh(Img(w))
      /\ work[w].step \in Convert /\ ~At(w, "free")
  BY JobTyped DEF FiguresInv, Write, Convert, At
<1>2. /\ UNCHANGED <<fixed, phase, queue, shown, since>>
      /\ UNCHANGED <<format, tools, image>>
      /\ Img(w) \in Images /\ work[w].held \in Versions /\ work[w].ok \in BOOLEAN
      /\ work[w].spoilt \in SUBSET Causes
  BY <1>1, JobTyped DEF Write, fixed
<1> DEFINE to == Head(work[w].todo).to
<1>3. PICK job \in Jobs :
        /\ work' = [work EXCEPT ![w] = job] /\ work'[w] = job
        /\ job.page = work[w].page /\ job.spoilt = work[w].spoilt /\ job.held = work[w].held
        /\ job.ok = (work[w].ok /\ TRUE)
        /\ Img(w)' = Img(w)
        /\ \/ Last(work[w].todo) /\ job.step = "finish" /\ job.todo = <<>>
           \/ /\ Both(work[w].todo) /\ work[w].ok
              /\ job.step = "open" /\ Last(job.todo) /\ Head(job.todo).from = "mid"
  BY <1>1, <1>2, AfterEffect DEF Write
<1>4. /\ work' = [work EXCEPT ![w] = job] /\ work'[w] = job
      /\ job.page = work[w].page /\ job.spoilt = work[w].spoilt /\ job.held = work[w].held
      /\ job.ok = work[w].ok
      /\ Img(w)' = Img(w)
      /\ \/ Last(work[w].todo) /\ job.step = "finish" /\ job.todo = <<>>
         \/ /\ Both(work[w].todo) /\ work[w].ok
            /\ job.step = "open" /\ Last(job.todo) /\ Head(job.todo).from = "mid"
  BY <1>2, <1>3
<1>5. /\ Last(work[w].todo) => to = "dst"
      /\ Both(work[w].todo) => to = "mid" /\ format = "latex"
  BY LastParts, BothParts
<1>6. to \in Roles /\ to # "src" /\ "mid" \in Roles /\ "dst" \in Roles /\ "src" \in Roles
  BY <1>4, <1>5 DEF Roles
<1>7. /\ file' \in [Files -> Stored] /\ recent' \subseteq Files
      /\ age' \in [Images -> {"older", "same", "newer"}]
      /\ file'[<<Img(w), to>>] = [exists |-> TRUE, content |-> work[w].held]
      /\ \A j \in Images, r \in Roles :
           j # Img(w) \/ r # to => file'[<<j, r>>] = file[<<j, r>>]
      /\ \A j \in Images : j # Img(w) => age'[j] = age[j]
      /\ to = "mid" => age' = age
  BY <1>1, <1>2, <1>6, StampEffect DEF Write
<1>8. \A i \in Images : Target(i)' = Target(i) /\ Src(i)' = Src(i)
  BY <1>6, <1>7 DEF Target, Src
<1>9. \A i \in Images : to = "mid" \/ i # Img(w) => Dst(i)' = Dst(i) /\ age'[i] = age[i]
  BY <1>6, <1>7 DEF Dst
<1>10. /\ tainted' \in [Images -> SUBSET Causes]
       /\ \A i \in Images \ {Img(w)} : tainted'[i] = tainted[i]
       /\ IF to = "dst" /\ work[w].ok /\ work[w].spoilt = {}
          THEN tainted'[Img(w)] = {}
          ELSE tainted'[Img(w)] = tainted[Img(w)] \cup work[w].spoilt
  <2>1. CASE to = "dst" /\ work[w].ok /\ work[w].spoilt = {}
    BY <1>1, <1>2, <2>1 DEF Write, Typed
  <2>2. CASE ~(to = "dst" /\ work[w].ok /\ work[w].spoilt = {})
    BY <1>1, <1>2, <2>2, TaintEffect DEF Write
  <2> QED
    BY <2>1, <2>2
<1>11. Fits(w)'
  <2>1. \A t : (Last(t)' <=> Last(t)) /\ (Both(t)' <=> Both(t))
    BY <1>2 DEF Last, Both
  <2> QED
    BY <1>2, <1>4, <2>1 DEF Fits, Convert, At
<1>12. Holds(w)'
  <2> SUFFICES ASSUME job.ok, job.spoilt = {}, job.step = "open"
               PROVE  Mid(Img(w))'.content = Target(Img(w))'
    BY <1>4 DEF Holds, At
  <2>1. to = "mid" /\ work[w].held = Target(Img(w))
    BY <1>1, <1>4, <1>5 DEF Holds
  <2>2. Mid(Img(w))'.content = work[w].held
    BY <1>4, <1>7, <2>1 DEF Mid
  <2> QED
    BY <1>2, <1>4, <1>8, <2>1, <2>2 DEF Target, Src
<1>13. ASSUME NEW k \in Images, k = Img(w) PROVE Fresh(k)'
  <2>1. CASE to = "mid"
    <3>1. Converting(k) => Converting(k)'
      BY <1>2, <1>4, <1>6, <2>1 DEF Converting, Img
    <3>2. Shows(k)' => Shows(k)
      BY <1>2, <1>4, <1>5, <2>1 DEF Shows, At, Img
    <3>3. (Good(k)' <=> Good(k)) /\ (IsNewer(k)' <=> IsNewer(k))
      BY <1>2, <1>9, <1>13, <2>1 DEF Good, IsNewer, Dst
    <3>4. tainted'[k] = {} => tainted[k] = {}
      BY <1>10, <1>13, <2>1
    <3> QED
      BY <1>1, <1>8, <1>9, <1>13, <2>1, <3>1, <3>2, <3>3, <3>4 DEF Fresh
  <2>2. CASE to = "dst" /\ work[w].ok /\ work[w].spoilt = {}
    <3>1. work[w].held = Target(k) /\ work[w].held > 0
      BY <1>1, <1>13, <2>2 DEF Holds
    <3>2. Dst(k)' = [exists |-> TRUE, content |-> Target(k)]
      BY <1>7, <1>13, <2>2, <3>1 DEF Dst
    <3>3. since[k] <= Target(k) /\ since[k] \in Nat /\ Target(k) \in Nat
      BY <1>1, <1>2, <1>13, <3>1, FiguresAssumption DEF SourceInv, Typed, Versions
    <3>4. Good(k)'
      BY <1>2, <3>1, <3>2, <3>3 DEF Good
    <3> QED
      BY <1>8, <3>2, <3>4 DEF Fresh
  <2>3. CASE to = "dst" /\ ~(work[w].ok /\ work[w].spoilt = {})
    <3>1. tainted'[k] # {}
      BY <1>1, <1>10, <1>13, <2>3 DEF Fits
    <3> QED
      BY <3>1 DEF Fresh
  <2> QED
    BY <1>4, <1>5, <2>1, <2>2, <2>3
<1>14. /\ shown' \in [Pages -> {"none", "raw", "image", "source"}]
       /\ \A i \in Images : Kind[i] = "render" => Src(i)'.content \in {0, 1}
  BY <1>1, <1>2, <1>8 DEF Typed, SourceInv
<1> QED
  BY <1>1, <1>2, <1>4, <1>7, <1>8, <1>9, <1>10, <1>11, <1>12, <1>13, <1>14, ProcessInv

LEMMA TakePageInv ==
  ASSUME FiguresInv, NEW w \in Workers, NEW p \in Pages, TakePage(w, p)
  PROVE  FiguresInv'
<1>1. Typed /\ SourceInv /\ At(w, "free") /\ Idle \in Jobs
  BY IdleTyped DEF FiguresInv, TakePage
<1> DEFINE job == [Idle EXCEPT !.step = "visit", !.page = p]
<1>2. /\ job \in Jobs /\ job.step = "visit" /\ job.page = p /\ job.todo = <<>>
      /\ job.ok = TRUE /\ job.spoilt = {}
  BY <1>1 DEF Idle, Jobs, Steps
<1> HIDE DEF job
<1>3. /\ work' = [work EXCEPT ![w] = job] /\ work'[w] = job
      /\ \A v \in Workers \ {w} : work'[v] = work[v]
      /\ UNCHANGED <<fixed, files, phase, shown, since, tainted>>
      /\ UNCHANGED <<format, tools, image, file, age, recent>>
      /\ phase = "building"
      /\ format = "html" \/ \A v \in Workers : At(v, "free")
  BY <1>1 DEF TakePage, Typed, fixed, files, job
<1>4. \A i \in Images : Target(i)' = Target(i) /\ Dst(i)' = Dst(i) /\ Src(i)' = Src(i)
  BY <1>3 DEF Target, Dst, Src
<1>5. Typed'
  BY <1>1, <1>2, <1>3 DEF Typed, TakePage
<1>6. SourceInv' /\ BuildInv'
  BY <1>1, <1>3, <1>4 DEF FiguresInv, SourceInv, BuildInv, At
<1>7. \A v \in Workers : Fits(v)' /\ Holds(v)'
  <2>1. Fits(w)' /\ Holds(w)'
    BY <1>2, <1>3 DEF Fits, Holds, Convert, At
  <2> QED
    BY <1>3, <1>4, <2>1, OthersKeep
<1>8. \A i \in Images : Fresh(i)'
  <2>1. /\ work[w].step \notin {"read", "write", "finish"}
        /\ work'[w].step \notin {"read", "write", "finish"}
    BY <1>1, <1>2, <1>3 DEF At
  <2> QED
    BY <1>3, <1>4, <2>1, OtherImages
<1> QED
  BY <1>5, <1>6, <1>7, <1>8 DEF FiguresInv

(* A build ends, or has not begun: what holds then of each image. *)
LEMMA NoBuildInv ==
  ASSUME FiguresInv, NoBuild, UNCHANGED <<fixed, files>>,
         tainted' \in [Images -> SUBSET Causes],
         \A i \in Images : tainted'[i] = {} => tainted[i] = {} /\ ~Converting(i)
  PROVE  FiguresInv'
<1>1. /\ Typed /\ SourceInv
      /\ UNCHANGED <<format, tools, image, file, age, recent>>
      /\ \A w \in Workers : work'[w] = Idle
      /\ Idle \in Jobs /\ Idle.step = "free" /\ Idle.todo = <<>> /\ Idle.ok /\ Idle.spoilt = {}
  BY IdleTyped DEF FiguresInv, NoBuild, fixed, files, Idle
<1>2. \A i \in Images : Target(i)' = Target(i) /\ Dst(i)' = Dst(i) /\ Src(i)' = Src(i)
  BY <1>1 DEF Target, Dst, Src
<1>3. \A i \in Images : Target(i) \in Nat
  <2> SUFFICES ASSUME NEW i \in Images PROVE Target(i) \in Nat
    OBVIOUS
  <2>1. <<i, "src">> \in Files
    BY DEF Files
  <2> QED
    BY <1>1, <2>1, FiguresAssumption DEF Typed, Target, Src, Stored, Versions
<1>4. Typed'
  <2>1. since' \in [Images -> Versions] /\ work' \in [Workers -> Jobs]
    BY <1>1, FiguresAssumption DEF NoBuild, Versions
  <2> QED
    BY <1>1, <2>1 DEF Typed, NoBuild
<1>5. SourceInv'
  BY <1>1, <1>2, <1>3 DEF SourceInv, NoBuild
<1>6. BuildInv' /\ \A w \in Workers : Fits(w)' /\ Holds(w)'
  BY <1>1 DEF BuildInv, Fits, Holds, Convert, At
<1>7. ASSUME NEW i \in Images PROVE Fresh(i)'
  <2>1. ~Shows(i)'
    BY <1>1 DEF Shows, NoBuild, At
  <2>2. IsNewer(i)' <=> IsNewer(i)
    BY <1>1 DEF IsNewer
  <2> QED
    BY <1>2, <1>7, <2>1, <2>2 DEF FiguresInv, Fresh
<1> QED
  BY <1>4, <1>5, <1>6, <1>7 DEF FiguresInv

LEMMA EndBuildInv == FiguresInv /\ EndBuild => FiguresInv'
<1> SUFFICES ASSUME FiguresInv, EndBuild PROVE FiguresInv'
  OBVIOUS
<1>1. \A i \in Images : ~Converting(i)
  BY DEF EndBuild, Written, Converting, At
<1>2. tainted' \in [Images -> SUBSET Causes] /\ tainted' = tainted
  BY DEF EndBuild, FiguresInv, Typed
<1> QED
  BY <1>1, <1>2, NoBuildInv DEF EndBuild

(* svg2pdf is called for latex alone, and then no other process is at work. *)
LEMMA AbortInv == ASSUME FiguresInv, NEW w \in Workers, Abort(w) PROVE FiguresInv'
<1>1. format = "latex"
  <2>1. Last(work[w].todo) \/ Both(work[w].todo)
    BY DEF Abort, FiguresInv, Fits, Convert, At
  <2> QED
    BY <2>1, LastParts, BothParts DEF Abort
<1>2. \A v \in Workers : work[v].step \notin {"read", "write"}
  BY <1>1 DEF Abort, FiguresInv, BuildInv, At
<1>3. \A i \in Images : ~Converting(i)
  BY <1>2 DEF Converting
<1>4. tainted' \in [Images -> SUBSET Causes] /\ tainted' = tainted
  BY DEF Abort, FiguresInv, Typed
<1> QED
  BY <1>3, <1>4, NoBuildInv DEF Abort

LEMMA KillInv == FiguresInv /\ Kill => FiguresInv'
<1> SUFFICES ASSUME FiguresInv, Kill PROVE FiguresInv'
  OBVIOUS
<1>1. tainted \in [Images -> SUBSET Causes]
  BY DEF FiguresInv, Typed
<1>2. tainted' \in [Images -> SUBSET Causes]
  BY <1>1 DEF Kill, Causes
<1>3. ASSUME NEW i \in Images, tainted'[i] = {} PROVE tainted[i] = {} /\ ~Converting(i)
  BY <1>1, <1>3 DEF Kill, Converting
<1> QED
  BY <1>2, <1>3, NoBuildInv DEF Kill

LEMMA StartBuildInv ==
  ASSUME FiguresInv, NEW pages \in SUBSET Pages, StartBuild(pages)
  PROVE  FiguresInv'
<1>1. /\ Typed /\ SourceInv
      /\ UNCHANGED <<format, tools, image, file, age, recent, work, tainted>>
      /\ phase = "idle" /\ \A w \in Workers : At(w, "free")
  BY DEF FiguresInv, BuildInv, StartBuild, fixed, files
<1>2. \A i \in Images : Target(i)' = Target(i) /\ Dst(i)' = Dst(i) /\ Src(i)' = Src(i)
  BY <1>1 DEF Target, Dst, Src
<1>3. ASSUME NEW i \in Images
      PROVE  since'[i] = Target(i) /\ Target(i) \in Versions /\ Target(i) \in Nat
  <2>1. <<i, "src">> \in Files
    BY DEF Files
  <2>2. Src(i).content \in Versions
    BY <1>1, <2>1 DEF Typed, Src, Stored
  <2> QED
    BY <2>2, FiguresAssumption DEF StartBuild, Target, Src, Versions
<1>4. Typed'
  <2>1. since' \in [Images -> Versions]
    BY <1>3 DEF StartBuild
  <2> QED
    BY <1>1, <2>1 DEF Typed, StartBuild
<1>5. SourceInv'
  BY <1>1, <1>2, <1>3 DEF SourceInv
<1>6. BuildInv' /\ \A w \in Workers : Fits(w)' /\ Holds(w)'
  <2>1. BuildInv'
    BY <1>1 DEF BuildInv, StartBuild, At
  <2>2. \A w \in Workers : Fits(w)' /\ Holds(w)'
    BY <1>1 DEF FiguresInv, Fits, Holds, Convert, At
  <2> QED
    BY <2>1, <2>2
<1>7. ASSUME NEW i \in Images PROVE Fresh(i)'
  <2>1. ~Shows(i)'
    BY <1>1 DEF Shows, StartBuild, At
  <2>2. (IsNewer(i)' <=> IsNewer(i)) /\ ~Converting(i)
    BY <1>1 DEF IsNewer, Converting, At
  <2> QED
    BY <1>1, <1>2, <1>7, <2>1, <2>2 DEF FiguresInv, Fresh
<1> QED
  BY <1>4, <1>5, <1>6, <1>7 DEF FiguresInv

(* An edited source is newer than its output, or as old; what processes read of it before
   counts as spoilt. *)
LEMMA EditInv == ASSUME FiguresInv, NEW i \in Images, Edit(i) PROVE FiguresInv'
<1>1. /\ Typed /\ SourceInv /\ Kind[i] # "render"
      /\ UNCHANGED <<fixed, phase, queue, shown, since, tainted>>
      /\ UNCHANGED <<format, tools, image>>
  BY DEF FiguresInv, Edit, fixed
<1> DEFINE content == Src(i).content + 1
           Struck(w) == work[w].step \in Convert /\ Img(w) = i
<1>2. Src(i).content \in Nat /\ content \in Versions /\ content > Src(i).content
  <2>1. <<i, "src">> \in Files
    BY DEF Files
  <2> QED
    BY <1>1, <2>1, FiguresAssumption DEF Edit, Typed, Src, Stored, Versions
<1>3. "src" \in Roles /\ "mid" \in Roles /\ "dst" \in Roles
  BY DEF Roles
<1>4. /\ file' \in [Files -> Stored] /\ recent' \subseteq Files
      /\ age' \in [Images -> {"older", "same", "newer"}]
      /\ file'[<<i, "src">>] = [exists |-> TRUE, content |-> content]
      /\ \A j \in Images, r \in Roles :
           j # i \/ r # "src" => file'[<<j, r>>] = file[<<j, r>>]
      /\ \A j \in Images : j # i => age'[j] = age[j]
      /\ age'[i] # "newer"
  BY <1>1, <1>2, <1>3, StampEffect DEF Edit, Src
<1>5. \A j \in Images : Dst(j)' = Dst(j) /\ Mid(j)' = Mid(j)
  BY <1>3, <1>4 DEF Dst, Mid
<1>6. \A j \in Images : j # i => Src(j)' = Src(j) /\ Target(j)' = Target(j)
  BY <1>3, <1>4 DEF Src, Target
<1>7. Src(i)'.content = content
  BY <1>4 DEF Src
<1>8. /\ work' = [w \in Workers |->
                    IF Struck(w) THEN [work[w] EXCEPT !.spoilt = @ \cup {"edit"}] ELSE work[w]]
      /\ \A w \in Workers : work[w] \in Jobs
  BY <1>1 DEF Edit, Convert, Typed
<1>9. ASSUME NEW w \in Workers
      PROVE  /\ work'[w] \in Jobs
             /\ work'[w].step = work[w].step /\ work'[w].page = work[w].page
             /\ work'[w].todo = work[w].todo /\ work'[w].held = work[w].held
             /\ work'[w].ok = work[w].ok
             /\ Img(w)' = Img(w)
             /\ IF Struck(w) THEN work'[w].spoilt # {} ELSE work'[w].spoilt = work[w].spoilt
  <2>1. CASE Struck(w)
    <3>1. work'[w] = [work[w] EXCEPT !.spoilt = work[w].spoilt \cup {"edit"}]
      BY <1>8, <2>1
    <3> HIDE DEF Struck
    <3> QED
      BY <1>1, <1>8, <2>1, <3>1 DEF Jobs, Causes, Img
  <2>2. CASE ~Struck(w)
    <3>1. work'[w] = work[w]
      BY <1>8, <2>2
    <3> QED
      BY <1>1, <1>8, <2>2, <3>1 DEF Img
  <2> QED
    BY <2>1, <2>2
<1>10. work' \in [Workers -> Jobs]
  BY <1>8, <1>9
<1>11. Typed'
  BY <1>1, <1>4, <1>10 DEF Typed
<1>12. SourceInv'
  <2> SUFFICES ASSUME NEW j \in Images
               PROVE  /\ Kind[j] = "render" => Src(j)'.content \in {0, 1}
                      /\ Kind[j] # "render" => Src(j)'.content > 0
                      /\ since'[j] <= Target(j)'
    BY DEF SourceInv
  <2>1. CASE j # i
    BY <1>1, <1>6, <2>1 DEF SourceInv
  <2>2. CASE j = i
    <3>1. Target(i) = Src(i).content /\ Target(i)' = content /\ since[i] <= Target(i)
      BY <1>1, <1>7 DEF SourceInv, Target
    <3>2. since[i] \in Nat
      BY <1>1, FiguresAssumption DEF Typed, Versions
    <3> QED
      BY <1>1, <1>2, <1>7, <2>2, <3>1, <3>2
  <2> QED
    BY <2>1, <2>2
<1>13. BuildInv'
  BY <1>1, <1>9 DEF FiguresInv, BuildInv, At
<1>14. ASSUME NEW w \in Workers PROVE Fits(w)' /\ Holds(w)'
  <2>1. Fits(w) /\ Holds(w) /\ Img(w) \in Images
    BY <1>1, JobTyped DEF FiguresInv
  <2>2. \A t : (Last(t)' <=> Last(t)) /\ (Both(t)' <=> Both(t))
    BY <1>1 DEF Last, Both
  <2>3. Fits(w)'
    BY <1>1, <1>9, <2>1, <2>2 DEF Fits, Convert, Struck
  <2>4. Holds(w)'
    <3>1. CASE Struck(w)
      BY <1>9, <3>1 DEF Holds
    <3>2. CASE work[w].step \notin Convert
      BY <1>9, <3>2 DEF Holds, Convert, At
    <3>3. CASE work[w].step \in Convert /\ Img(w) # i
      BY <1>5, <1>6, <1>9, <2>1, <3>3 DEF Holds, Convert, At
    <3> QED
      BY <3>1, <3>2, <3>3
  <2> QED
    BY <2>3, <2>4
<1>15. ASSUME NEW j \in Images PROVE Fresh(j)'
  <2>1. (Converting(j)' <=> Converting(j)) /\ (Shows(j)' <=> Shows(j))
    BY <1>1, <1>9 DEF Converting, Shows, At
  <2>2. (Good(j)' <=> Good(j)) /\ Fresh(j)
    BY <1>1, <1>5 DEF Good, FiguresInv
  <2>3. IsNewer(j)' => j # i /\ IsNewer(j)
    BY <1>3, <1>4, <1>5 DEF IsNewer
  <2> QED
    BY <1>1, <1>5, <1>6, <2>1, <2>2, <2>3 DEF Fresh
<1> QED
  BY <1>11, <1>12, <1>13, <1>14, <1>15 DEF FiguresInv

LEMMA RestInv ==
  ASSUME FiguresInv, recent' \subseteq Files,
         UNCHANGED <<fixed, file, age, phase, queue, shown, since, work, tainted>>
  PROVE  FiguresInv'
<1>1. UNCHANGED <<format, tools, image>>
  BY DEF fixed
<1>2. Typed' /\ SourceInv' /\ BuildInv'
  BY <1>1 DEF FiguresInv, Typed, SourceInv, BuildInv, Target, Src, At
<1>3. \A w \in Workers : Fits(w)' /\ Holds(w)'
  BY <1>1 DEF FiguresInv, Fits, Holds, Last, Both, At, Mid, Target, Src, Img
<1>4. \A i \in Images : Fresh(i)'
  BY <1>1 DEF FiguresInv, Fresh, Converting, Shows, Good, IsNewer, Dst, Target, Src, Img, At
<1> QED
  BY <1>2, <1>3, <1>4 DEF FiguresInv

LEMMA InitFigures == Init => FiguresInv
<1> SUFFICES ASSUME Init PROVE FiguresInv
  OBVIOUS
<1>1. /\ \A w \in Workers : work[w] = Idle
      /\ Idle \in Jobs /\ Idle.step = "free" /\ Idle.todo = <<>> /\ Idle.ok /\ Idle.spoilt = {}
  BY IdleTyped DEF Init, Idle
<1>2. /\ 0 \in Versions /\ 1 \in Versions /\ image \in [Pages -> Images]
      /\ work \in [Workers -> Jobs]
  BY <1>1, FiguresAssumption DEF Init, Versions
<1>3. tools \subseteq Tools
  BY FiguresAssumption DEF Init, Usable
<1>4. Typed
  BY <1>1, <1>2, <1>3 DEF Init, Typed, Missing, Stored
<1>5. \A i \in Images : /\ <<i, "src">> \in Files
                        /\ Kind[i] = "render" => Src(i).content = 0
                        /\ Kind[i] # "render" => Src(i).content = 1
                        /\ since[i] = 0
  BY DEF Init, Missing, Src, Files
<1>6. SourceInv /\ BuildInv
  <2>1. SourceInv
    <3> SUFFICES ASSUME NEW i \in Images
                 PROVE  /\ Kind[i] = "render" => Src(i).content \in {0, 1}
                        /\ Kind[i] # "render" => Src(i).content > 0
                        /\ since[i] <= Target(i)
      BY DEF SourceInv
    <3>1. CASE Kind[i] = "render"
      <4>1. Src(i).content = 0 /\ since[i] = 0 /\ Target(i) = 1
        BY <1>5, <3>1 DEF Target
      <4> QED
        BY <3>1, <4>1
    <3>2. CASE Kind[i] # "render"
      <4>1. Src(i).content = 1 /\ since[i] = 0 /\ Target(i) = Src(i).content
        BY <1>5, <3>2 DEF Target
      <4> QED
        BY <3>2, <4>1
    <3> QED
      BY <3>1, <3>2
  <2>2. BuildInv
    BY <1>1 DEF BuildInv, At
  <2> QED
    BY <2>1, <2>2
<1>7. \A w \in Workers : Fits(w) /\ Holds(w)
  BY <1>1 DEF Fits, Holds, Convert, At
<1>8. \A i \in Images : Fresh(i)
  BY <1>1 DEF Init, Fresh, IsNewer, Shows, At
<1> QED
  BY <1>4, <1>6, <1>7, <1>8 DEF FiguresInv

LEMMA NextFigures == FiguresInv /\ [Next]_vars => FiguresInv'
<1> SUFFICES ASSUME FiguresInv, [Next]_vars PROVE FiguresInv'
  OBVIOUS
<1>1. ASSUME NEW w \in Workers, CreateCode(w) \/ WriteCode(w) PROVE FiguresInv'
  BY <1>1, CodeInv DEF CreateCode, WriteCode
<1>2. ASSUME NEW w \in Workers, Process(w) \/ ToolFails(w) PROVE FiguresInv'
  BY <1>1, <1>2, TakePageInv, VisitInv, CheckInv, OpenInv, ReadInv, WriteInv, FinishInv,
     AbortInv, ToolFailsInv DEF Process
<1>3. CASE Tick \/ UNCHANGED vars
  <2>1. recent' \subseteq Files
    BY <1>3 DEF Tick, vars, FiguresInv, Typed
  <2> QED
    BY <1>3, <2>1, RestInv DEF Tick, vars, fixed
<1> QED
  BY <1>2, <1>3, StartBuildInv, EndBuildInv, KillInv, EditInv DEF Next

----------------------------------------------------------------------------

(* The types of a build's variables hold, and a process has a command left whenever it is
   about to call one: for any processes, pages, images and tools. *)
THEOREM FiguresTyped == Spec => []TypeOK
<1>1. FiguresInv => TypeOK
  <2> SUFFICES ASSUME FiguresInv, NEW w \in Workers
               PROVE  /\ Len(work[w].todo) <= 2
                      /\ work[w].step \in Convert => work[w].todo # <<>>
    BY DEF FiguresInv, Typed, TypeOK, Convert
  <2>1. Fits(w) /\ Len(<<>>) = 0
    BY DEF FiguresInv
  <2>2. work[w].todo = <<>> => Len(work[w].todo) = 0
    BY <2>1
  <2>3. Last(work[w].todo) => Len(work[w].todo) = 1
    BY LastParts
  <2>4. Both(work[w].todo) => Len(work[w].todo) = 2
    BY BothParts
  <2>5. CASE work[w].step \in Convert
    <3>1. Len(work[w].todo) = 1 \/ Len(work[w].todo) = 2
      BY <2>1, <2>3, <2>4, <2>5 DEF Fits
    <3>2. Len(work[w].todo) <= 2 /\ Len(work[w].todo) # 0
      <4>1. CASE Len(work[w].todo) = 1
        BY <4>1
      <4>2. CASE Len(work[w].todo) = 2
        BY <4>2
      <4> QED
        BY <3>1, <4>1, <4>2
    <3>3. work[w].todo # <<>>
      BY <2>2, <3>2
    <3> QED
      BY <3>2, <3>3
  <2>6. CASE work[w].step \notin Convert
    BY <2>1, <2>6 DEF Fits
  <2> QED
    BY <2>5, <2>6
<1> QED
  BY <1>1, InitFigures, NextFigures, PTL DEF Spec

(* Over any number of builds and edits, each page of a finished build shows its figure up
   to date, unless a fault, an edit or another process disturbed the last conversion:
   is_newer compares times alone, and an output that is as old as its source, or that a
   killed tool left, is made again or known to be disturbed. *)
THEOREM ShownFresh == Spec => []FiguresFresh
<1>1. FiguresInv => FiguresFresh
  <2> SUFFICES ASSUME FiguresInv, Written, NEW p \in Pages, tainted[image[p]] = {},
                      shown[p] = "image"
               PROVE  Good(image[p])
    BY DEF FiguresFresh, UpToDate, Good, Dst
  <2>1. image[p] \in Images /\ Fresh(image[p])
    BY DEF FiguresInv, Typed
  <2>2. ~Converting(image[p])
    BY DEF Written, Converting, At
  <2> QED
    BY <2>1, <2>2 DEF Fresh, Shows
<1> QED
  BY <1>1, InitFigures, NextFigures, PTL DEF Spec
=============================================================================
