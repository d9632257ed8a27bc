----------------------------- MODULE Figures -----------------------------
(***************************************************************************)
(* Documentation/sphinx/kfigure.py: the images of kernel-image,            *)
(* kernel-figure and kernel-render, converted while pages are written.     *)
(*                                                                         *)
(* A build writes pages, in several processes where the builder is html.   *)
(* The page of a figure shows the converted image, or the raw source if no *)
(* tool converts it.  Converted images stay from build to build and are    *)
(* used again while they are newer than their source.  Sphinx and the      *)
(* tools are external.                                                     *)
(***************************************************************************)
EXTENDS Naturals, Sequences

CONSTANTS
  Workers,     \* processes that write pages
  Pages,       \* pages with one figure each
  Images,      \* the figures
  Kind,        \* Kind[i]: "dot", "svg", or "render", a DOT block of a page
  Layouts,     \* the functions from pages to images that are looked at
  Toolsets,    \* the sets of tools that may be installed
  MaxVersion   \* how often a source is edited, a bound

Tools == {"dot", "dotpdf", "rsvg", "convert", "inkscape"}

ASSUME FiguresAssumption ==
  /\ Kind \in [Images -> {"dot", "svg", "render"}]
  /\ Pages # {}
  /\ Layouts \subseteq [Pages -> Images]
  /\ Toolsets \subseteq SUBSET Tools
  /\ MaxVersion \in Nat \ {0}

VARIABLES
  format,    \* the builder's format
  tools,     \* what setupTools found
  image,     \* the figure of each page
  file,      \* the source, intermediate SVG and output of each image
  age,       \* how the time of each output compares to that of its source
  recent,    \* the files stamped since the clock last moved
  phase,     \* whether a build is under way
  queue,     \* the pages that it has yet to write
  shown,     \* what each page it wrote shows
  since,     \* the version each source had when it began
  work,      \* what each process does
  tainted    \* observer: what disturbed the last conversion of each image

vars == <<format, tools, image, file, age, recent, phase, queue, shown, since, work, tainted>>
fixed == <<format, tools, image>>
files == <<file, age, recent>>

Formats == {"html", "latex", "text"}

Files == Images \X {"src", "mid", "dst"}

(* The content of a file is the version of the source it was made from; 0 is an
   empty or broken file. *)
Versions == 0 .. MaxVersion

Stored == [exists : BOOLEAN, content : Versions]

Missing == [exists |-> FALSE, content |-> 0]

Command == [tool : {"dot", "rsvg", "svg2pdf"}, from : {"src", "mid"}, to : {"mid", "dst"}]

Causes == {"fault", "edit", "race"}

Steps == {"free", "visit", "create", "code", "check", "open", "read", "write", "finish"}

(* A process: its step, its page, the commands it has yet to call for the figure, what the
   present one has read, and what has gone wrong meanwhile. *)
Jobs == [step : Steps, page : Pages, todo : Seq(Command), held : Versions,
         spoilt : SUBSET Causes, ok : BOOLEAN]

Idle == [step |-> "free", page |-> CHOOSE p \in Pages : TRUE, todo |-> <<>>, held |-> 0,
         spoilt |-> {}, ok |-> TRUE]

TypeOK ==
  /\ format \in Formats
  /\ tools \subseteq Tools
  /\ image \in [Pages -> Images]
  /\ file \in [Files -> Stored]
  /\ age \in [Images -> {"older", "same", "newer"}]
  /\ recent \subseteq Files
  /\ phase \in {"idle", "building"}
  /\ queue \subseteq Pages
  /\ shown \in [Pages -> {"none", "raw", "image", "source"}]
  /\ since \in [Images -> Versions]
  /\ work \in [Workers -> Jobs]
  /\ \A w \in Workers :
       /\ Len(work[w].todo) <= 2
       /\ work[w].step \in {"open", "read", "write"} => work[w].todo # <<>>
  /\ tainted \in [Images -> SUBSET Causes]

----------------------------------------------------------------------------
(* The tools. *)

(* setupTools: inkscape is preferred to all others, and rsvg-convert to dot's
   own PDF. *)
Usable(installed) ==
  IF "inkscape" \in installed THEN installed \ {"convert", "rsvg", "dotpdf"}
  ELSE IF "rsvg" \in installed THEN installed \ {"dotpdf"}
  ELSE installed

(* Some tool makes a PDF of an SVG for svg2pdf. *)
CanConvert == tools \cap {"inkscape", "convert"} # {}

(* The page shows the literal source. *)
Raw(i) ==
  IF Kind[i] = "svg" THEN format = "latex" /\ ~CanConvert
  ELSE format = "text" \/ "dot" \notin tools

(* The builder takes the file as it is. *)
AsIs(i) == Kind[i] = "svg" /\ format # "latex"

(* The commands that make the output: dot2format, svg2pdf, svg2pdf_by_rsvg. *)
Commands(i) ==
  IF Kind[i] = "svg" THEN <<[tool |-> "svg2pdf", from |-> "src", to |-> "dst"]>>
  ELSE IF format = "latex" /\ "dotpdf" \notin tools
  THEN <<[tool |-> "dot", from |-> "src", to |-> "mid"],
         [tool |-> IF "rsvg" \in tools THEN "rsvg" ELSE "svg2pdf",
          from |-> "mid", to |-> "dst"]>>
  ELSE <<[tool |-> "dot", from |-> "src", to |-> "dst"]>>

(* Mutant: an output as old as its source taken for newer. *)
IsNotOlder(i) == file[<<i, "dst">>].exists /\ age[i] # "older"

IsNewer(i) == file[<<i, "dst">>].exists /\ age[i] = "newer"

(* A file gets its content and the present time. *)
Stamp(i, role, content) ==
  LET Together(other) == <<i, other>> \in recent IN
  /\ file' = [file EXCEPT ![<<i, role>>] = [exists |-> TRUE, content |-> content]]
  /\ recent' = recent \cup {<<i, role>>}
  /\ age' = CASE role = "src" ->
                  [age EXCEPT ![i] = IF Together("dst") THEN "same" ELSE "older"]
             [] role = "mid" -> age
             [] role = "dst" ->
                  [age EXCEPT ![i] = IF Together("src") THEN "same" ELSE "newer"]

----------------------------------------------------------------------------
(* A build. *)

Init ==
  /\ format \in Formats
  /\ tools \in {Usable(installed) : installed \in Toolsets}
  /\ image \in Layouts
  /\ file = [f \in Files |->
               IF f[2] = "src" /\ Kind[f[1]] # "render"
               THEN [exists |-> TRUE, content |-> 1]
               ELSE Missing]
  /\ age = [i \in Images |-> "older"]
  /\ recent = {}
  /\ phase = "idle"
  /\ queue = {}
  /\ shown = [p \in Pages |-> "none"]
  /\ since = [i \in Images |-> 0]
  /\ work = [w \in Workers |-> Idle]
  /\ tainted = [i \in Images |-> {}]

(* Sphinx chooses the pages to write. *)
StartBuild(pages) ==
  /\ phase = "idle"
  /\ phase' = "building"
  /\ queue' = pages
  /\ shown' = [p \in Pages |-> "none"]
  /\ since' = [i \in Images |-> IF Kind[i] = "render" THEN 1 ELSE file[<<i, "src">>].content]
  /\ UNCHANGED <<fixed, files, work, tainted>>

At(w, step) == work[w].step = step

Img(w) == image[work[w].page]

Goto(w, step) == work' = [work EXCEPT ![w].step = step]

(* Only the html builder writes pages in parallel. *)
TakePage(w, p) ==
  /\ phase = "building"
  /\ At(w, "free")
  /\ format = "html" \/ \A v \in Workers : At(v, "free")
  /\ p \in queue
  /\ queue' = queue \ {p}
  /\ work' = [work EXCEPT ![w] = [Idle EXCEPT !.step = "visit", !.page = p]]
  /\ UNCHANGED <<fixed, files, phase, shown, since, tainted>>

Show(w, what) ==
  /\ shown' = [shown EXCEPT ![work[w].page] = what]
  /\ work' = [work EXCEPT ![w] = Idle]

(* visit_kernel_render keeps the code of a block in a file named by its hash,
   unless there is one; visit_kernel_image has its file. *)
Visit(w) ==
  /\ At(w, "visit")
  /\ Goto(w, IF Kind[Img(w)] = "render" /\ "dot" \in tools /\ ~file[<<Img(w), "src">>].exists
             THEN "create" ELSE "check")
  /\ UNCHANGED <<fixed, files, phase, queue, shown, since, tainted>>

CreateCode(w) ==
  /\ At(w, "create")
  /\ Stamp(Img(w), "src", 0)
  /\ Goto(w, "code")
  /\ UNCHANGED <<fixed, phase, queue, shown, since, tainted>>

WriteCode(w) ==
  /\ At(w, "code")
  /\ Stamp(Img(w), "src", 1)
  /\ Goto(w, "check")
  /\ UNCHANGED <<fixed, phase, queue, shown, since, tainted>>

(* convert_image, up to the test whether the output is newer. *)
Check(w) ==
  /\ At(w, "check")
  /\ \/ /\ Raw(Img(w))
        /\ Show(w, "raw")
     \/ /\ ~Raw(Img(w))
        /\ AsIs(Img(w))
        /\ Show(w, "source")
     \/ /\ ~Raw(Img(w))
        /\ ~AsIs(Img(w))
        /\ IsNewer(Img(w))
        /\ Show(w, "image")
     \/ /\ ~Raw(Img(w))
        /\ ~AsIs(Img(w))
        /\ ~IsNewer(Img(w))
        /\ work' = [work EXCEPT ![w].step = "open", ![w].todo = Commands(Img(w))]
        /\ UNCHANGED shown
  /\ UNCHANGED <<fixed, files, phase, queue, since, tainted>>

(* dot2format opens its output before it calls dot; the other tools write theirs
   themselves. *)
Open(w) ==
  LET cmd == Head(work[w].todo) IN
  /\ At(w, "open")
  /\ cmd.tool = "svg2pdf" => CanConvert
  /\ Goto(w, "read")
  /\ IF cmd.tool = "dot" THEN Stamp(Img(w), cmd.to, 0) ELSE UNCHANGED files
  /\ UNCHANGED <<fixed, phase, queue, shown, since, tainted>>

Read(w) ==
  LET content == file[<<Img(w), Head(work[w].todo).from>>].content IN
  /\ At(w, "read")
  /\ work' = [work EXCEPT ![w].step = "write", ![w].held = content,
                          ![w].spoilt = IF content = 0 THEN @ \cup {"race"} ELSE @]
  /\ UNCHANGED <<fixed, files, phase, queue, shown, since, tainted>>

(* Mutant: the last command taken for one of two. *)
AfterCommandMore(w, ok) ==
  work' = [work EXCEPT ![w].todo = Tail(@),
                       ![w].step = IF Len(work[w].todo) = 0 THEN "finish" ELSE "open",
                       ![w].ok = @ /\ ok]

AfterCommand(w, ok) ==
  work' = [work EXCEPT ![w].todo = Tail(@),
                       ![w].step = IF Len(work[w].todo) = 1 THEN "finish" ELSE "open",
                       ![w].ok = @ /\ ok]

Taint(w, causes) == tainted' = [tainted EXCEPT ![Img(w)] = @ \cup causes]

Write(w) ==
  LET to == Head(work[w].todo).to IN
  /\ At(w, "write")
  /\ Stamp(Img(w), to, work[w].held)
  /\ AfterCommand(w, TRUE)
  /\ IF to = "dst" /\ work[w].ok /\ work[w].spoilt = {}
     THEN tainted' = [tainted EXCEPT ![Img(w)] = {}]
     ELSE Taint(w, work[w].spoilt)
  /\ UNCHANGED <<fixed, phase, queue, shown, since>>

(* The tool ends with an error. *)
ToolFails(w) ==
  /\ work[w].step \in {"read", "write"}
  /\ Taint(w, {"fault"})
  /\ AfterCommand(w, FALSE)
  /\ UNCHANGED <<fixed, files, phase, queue, shown, since>>

Finish(w) ==
  /\ At(w, "finish")
  /\ Show(w, IF work[w].ok THEN "image" ELSE "raw")
  /\ UNCHANGED <<fixed, files, phase, queue, since, tainted>>

NoBuild ==
  /\ phase' = "idle"
  /\ queue' = {}
  /\ shown' = [p \in Pages |-> "none"]
  /\ since' = [i \in Images |-> 0]
  /\ work' = [w \in Workers |-> Idle]

(* Every page of the build is written. *)
Written ==
  /\ phase = "building"
  /\ queue = {}
  /\ \A w \in Workers : At(w, "free")

EndBuild ==
  /\ Written
  /\ NoBuild
  /\ UNCHANGED <<fixed, files, tainted>>

(* svg2pdf has no tool to call: the exception ends the build. *)
Abort(w) ==
  /\ At(w, "open")
  /\ Head(work[w].todo).tool = "svg2pdf"
  /\ ~CanConvert
  /\ NoBuild
  /\ UNCHANGED <<fixed, files, tainted>>

----------------------------------------------------------------------------
(* The environment. *)

Kill ==
  /\ phase = "building"
  /\ NoBuild
  /\ tainted' = [i \in Images |->
                   IF \E w \in Workers :
                        Img(w) = i /\ work[w].step \in {"code", "read", "write"}
                   THEN tainted[i] \cup {"fault"} ELSE tainted[i]]
  /\ UNCHANGED <<fixed, files>>

(* What a process has read of the source is out of date. *)
Edit(i) ==
  /\ Kind[i] # "render"
  /\ file[<<i, "src">>].content < MaxVersion
  /\ Stamp(i, "src", file[<<i, "src">>].content + 1)
  /\ work' = [w \in Workers |->
                IF work[w].step \in {"open", "read", "write"} /\ Img(w) = i
                THEN [work[w] EXCEPT !.spoilt = @ \cup {"edit"}] ELSE work[w]]
  /\ UNCHANGED <<fixed, phase, queue, shown, since, tainted>>

Tick ==
  /\ recent # {}
  /\ recent' = {}
  /\ UNCHANGED <<fixed, file, age, phase, queue, shown, since, work, tainted>>

----------------------------------------------------------------------------
Process(w) ==
  \/ \E p \in Pages : TakePage(w, p)
  \/ Visit(w)
  \/ CreateCode(w)
  \/ WriteCode(w)
  \/ Check(w)
  \/ Open(w)
  \/ Read(w)
  \/ Write(w)
  \/ Finish(w)
  \/ Abort(w)

Next ==
  \/ \E pages \in SUBSET Pages \ {{}} : StartBuild(pages)
  \/ \E w \in Workers : Process(w) \/ ToolFails(w)
  \/ EndBuild
  \/ Kill
  \/ \E i \in Images : Edit(i)
  \/ Tick

Spec == Init /\ [][Next]_vars

----------------------------------------------------------------------------
(* Properties. *)

(* The page shows the source as it was when the build began, or newer. *)
UpToDate(p) ==
  LET dst == file[<<image[p], "dst">>] IN
  shown[p] = "image" => dst.exists /\ dst.content > 0 /\ dst.content >= since[image[p]]

(* When a build has written its pages, each shows its figure up to date, converted
   now or earlier, by this process or another, unless the last conversion was
   disturbed by a fault, an edit or another process.  This goes on over any number
   of builds and edits: a disturbed figure is right again after an edit. *)
FiguresFresh ==
  Written => \A p \in Pages : tainted[image[p]] = {} => UpToDate(p)
=============================================================================
