----------------------------- MODULE Includes -----------------------------
(***************************************************************************)
(* Directives that take other files into a page while it is read:          *)
(* kernel_include.py, maintainers_include.py, kerneldoc.py, kernel_abi.py  *)
(* and kernel_feat.py in Documentation/sphinx.                             *)
(*                                                                         *)
(* Each notes the files that it depends on, by which later builds know     *)
(* that the page has to be read again.  What the parsers of kernel-doc and *)
(* of the ABI have read stays with the process.  A file is its version; 0  *)
(* is no file.                                                             *)
(***************************************************************************)
EXTENDS Naturals, Sequences

CONSTANTS
  Files,
  Dir,      \* Dir[f]: the directory, or what a pattern of files stands for
  Nothing,  \* no page, no file, no directory
  AbiDir,   \* Documentation/ABI
  Latest    \* bound on versions

VARIABLES
  version,  \* per file: its version
  cache,    \* per file that the process has parsed: the version it read
  page,     \* the page that is being read
  left,     \* its directives that have yet to run
  xrefFiles,  \* env._xref_files: files whose broken cross-references are reported
  noted,    \* its dependencies
  taken     \* what it has taken in: files with their versions

Kinds == {"plain", "include", "xref", "warn", "code", "maintainers", "doc", "abi", "feat"}

(* All name a file but those of the ABI and of features. *)
Directives ==
  {d \in [kind : Kinds, file : Files \cup {Nothing}, extra : Files \cup {Nothing},
          dir : {Dir[f] : f \in Files} \cup {Nothing}] :
     d.kind \in {"abi", "feat"} \/ d.file \in Files}

Versions == 0 .. Latest

TypeOK ==
  /\ version \in [Files -> Versions]
  /\ DOMAIN cache \subseteq Files
  /\ \A f \in DOMAIN cache : cache[f] \in Versions
  /\ \A k \in 1 .. Len(left) : left[k] \in Directives
  /\ xrefFiles \subseteq Files
  /\ noted \subseteq Files
  /\ taken \subseteq Files \X Versions
  /\ page = Nothing => left = <<>> /\ noted = {} /\ taken = {}

Init ==
  /\ cache = << >>
  /\ page = Nothing
  /\ left = <<>>
  /\ xrefFiles = {}
  /\ noted = {}
  /\ taken = {}

In(dir) == {f \in Files : Dir[f] = dir}

Present(fs) == {f \in fs : version[f] > 0}

At(fs, versions) == {<<f, versions[f]>> : f \in fs}

(* The page is read by this process or by one that has cached nothing. *)
Begin(p, directives) ==
  /\ page = Nothing
  /\ page' = p
  /\ left' = directives
  /\ noted' = {}
  /\ taken' = {}
  /\ cache' \in {cache, << >>}
  /\ UNCHANGED xrefFiles

(* The directive is done: its dependencies, and the files it took in. *)
Ran(dependencies, files, versions) ==
  /\ noted' = noted \cup dependencies
  /\ taken' = taken \cup At(files, versions)
  /\ left' = Tail(left)
  /\ UNCHANGED page

Due(kinds) == left # <<>> /\ Head(left).kind \in kinds

(* What the directive inserts comes from its file and, with :generate-cross-refs:, from
   the file of exceptions, which is not noted.  Kind "warn" has :warn-broken: as well. *)
RawText(d) == {d.file}

XrefText(d) == {d.file, d.extra} \cap Files

KernelInclude ==
  LET d == Head(left) IN
  /\ Due({"include", "xref", "warn"})
  /\ version[d.file] > 0
  /\ Ran({d.file}, IF d.kind = "include" THEN RawText(d) ELSE XrefText(d), version)
  /\ xrefFiles' = IF d.kind = "warn" THEN xrefFiles \cup {d.file} ELSE xrefFiles
  /\ UNCHANGED cache

(* The include of docutils: a file that is missing is noted, and reported. *)
PlainInclude ==
  /\ Due({"plain"})
  /\ Ran({Head(left).file}, Present({Head(left).file}), version)
  /\ UNCHANGED <<cache, xrefFiles>>

MaintainersInclude ==
  LET d == Head(left) IN
  /\ Due({"maintainers"})
  /\ version[d.file] > 0
  /\ Ran({d.file}, {d.file}, version)
  /\ UNCHANGED <<cache, xrefFiles>>

(* The process reads a file for the first time only. *)
Parsed(fs) ==
  [f \in DOMAIN cache \cup fs |-> IF f \in DOMAIN cache THEN cache[f] ELSE version[f]]

(* The file, and those that the patterns of :export: or :internal: match. *)
HandleArgs(d) == {d.file} \cup Present(In(d.dir))

(* Mutant: only the file is noted. *)
KernelDocAlone ==
  LET files == HandleArgs(Head(left)) IN
  /\ Due({"doc"})
  /\ cache' = Parsed(files)
  /\ UNCHANGED xrefFiles
  /\ Ran({Head(left).file}, files, cache')

KernelDoc ==
  LET files == HandleArgs(Head(left)) IN
  /\ Due({"doc"})
  /\ cache' = Parsed(files)
  /\ UNCHANGED xrefFiles
  /\ Ran(files, files, cache')

(* get_kernel_abi parses all files once; KernelCmd.run notes those that still exist. *)
KernelAbi ==
  /\ Due({"abi"})
  /\ cache' = Parsed(In(AbiDir))
  /\ UNCHANGED xrefFiles
  /\ LET files == {f \in In(AbiDir) : cache'[f] > 0} IN
     Ran(Present(files), files, cache')

KernelFeat ==
  LET files == Present(In(Head(left).dir)) IN
  /\ Due({"feat"})
  /\ Ran(files, files, version)
  /\ UNCHANGED <<cache, xrefFiles>>

(* Exceptions that nothing catches: the warning about a missing file has an argument
   too many, ErrorString asks for a name that no class has, and the option :code:
   passes more than code takes. *)
Raises ==
  /\ left # <<>>
  /\ LET d == Head(left) IN
       \/ d.kind \in {"include", "xref", "warn", "maintainers"} /\ version[d.file] = 0
       \/ d.kind = "code"

Step == PlainInclude \/ KernelInclude \/ MaintainersInclude \/ KernelDoc \/ KernelAbi \/ KernelFeat

End ==
  /\ page # Nothing
  /\ left = <<>>
  /\ page' = Nothing
  /\ noted' = {}
  /\ taken' = {}
  /\ UNCHANGED <<left, xrefFiles, cache>>

----------------------------------------------------------------------------
(* The reading of a page in a process of its own, for the properties of HtmlBuild. *)

Reads(d) ==
  CASE d.kind \in {"xref", "warn"} -> XrefText(d)
    [] d.kind = "doc" -> HandleArgs(d)
    [] d.kind = "abi" -> Present(In(AbiDir))
    [] d.kind = "feat" -> Present(In(d.dir))
    [] d.kind = "plain" -> Present({d.file})
    [] OTHER -> {d.file}

FromScratch(directives) ==
  UNION {At(Reads(directives[k]), version) : k \in 1 .. Len(directives)}

(* What a page takes in and is not read again for: a file of exceptions, and a file
   that was not there when the page was read. *)
Overlooked(directives, content) ==
  UNION {LET d == directives[k] IN
         (IF d.kind \in {"xref", "warn"} THEN {d.extra} ELSE {})
           \cup {f \in Reads(d) : \A v \in Versions : <<f, v>> \notin content} :
         k \in 1 .. Len(directives)}
=============================================================================
