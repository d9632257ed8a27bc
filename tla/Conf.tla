------------------------------- MODULE Conf -------------------------------
(***************************************************************************)
(* Documentation/conf.py: what a build takes for its documents.  The       *)
(* source directory is Documentation/ or, with SPHINXDIRS, a directory     *)
(* below it; config_init makes the patterns that name directories relative *)
(* to it.  How Sphinx matches them is external.                            *)
(*                                                                         *)
(* A directory is a sequence of names, Documentation/ the empty one.       *)
(***************************************************************************)
EXTENDS SequencesExt

(* A file below Documentation/. *)
IsDoc(d) == d.dir \in Seq(STRING) /\ d.name \in STRING /\ d.suffix \in {".rst", ".yaml"}

(* A glob: the whole directory, the files in it, or those anywhere below it. *)
Pattern(dir, depth, suffix) == [dir |-> dir, depth |-> depth, suffix |-> suffix]

IncludePatterns == {Pattern(<<>>, "below", ".rst")}

(* With include patterns (Sphinx 5.1), of YAML only what has a parser. *)
DynInclude == {Pattern(<<"netlink", "specs">>, "in", ".yaml")}

DynExclude(hasInclude) ==
  {Pattern(<<dir>>, "whole", "") : dir \in {"output", "sphinx-includes"}}
    \cup IF hasInclude THEN {}
         ELSE {Pattern(<<"netlink">>, "in", ".yaml"),
               Pattern(<<"devicetree", "bindings">>, "below", ".yaml"),
               Pattern(<<"core-api", "kho", "bindings">>, "below", ".yaml")}

Below(top, dir) == SubSeq(dir, Len(top) + 1, Len(dir))

(* Mutant: the patterns are taken as they stand. *)
RelativeAsWritten(patterns, srcdir) == patterns

(* os.path.relpath.  A pattern outside the source directory is dropped; of the source
   directory as a whole nothing is left but "." or "..", which match no file. *)
Relative(patterns, srcdir) ==
  {[p EXCEPT !.dir = Below(srcdir, @)] :
     p \in {q \in patterns : IsPrefix(srcdir, q.dir) /\ (q.depth = "whole" => q.dir # srcdir)}}

Matches(p, dir, suffix) ==
  CASE p.depth = "whole" -> IsPrefix(p.dir, dir)
    [] p.depth = "in" -> dir = p.dir /\ suffix = p.suffix
    [] p.depth = "below" -> IsPrefix(p.dir, dir) /\ suffix = p.suffix

(* latex_documents: the index of the source directory or, of Documentation/ and where
   there is none, those of the directories in it. *)
Books(srcdir, docs) ==
  LET Index(dir) == \E d \in docs : d = [dir |-> dir, name |-> "index", suffix |-> ".rst"]
      inside == {d \in docs : IsPrefix(srcdir, d.dir) /\ d.dir # srcdir}
      subdirs == {Below(srcdir, d.dir)[1] : d \in inside}
  IN  IF srcdir # <<>> /\ Index(srcdir) THEN {<<"index">>}
      ELSE {<<dir, "index">> : dir \in {s \in subdirs : Index(Append(srcdir, s))}}

NoConfig == [include |-> {}, exclude |-> {}, subproject |-> FALSE, books |-> {}]

(* config_init, of the files there are. *)
ConfigInit(srcdir, hasInclude, docs) ==
  [include    |-> IF hasInclude THEN IncludePatterns \cup Relative(DynInclude, srcdir) ELSE {},
   exclude    |-> Relative(DynExclude(hasInclude), srcdir),
   subproject |-> srcdir # <<>>,
   books      |-> Books(srcdir, docs)]

(* Sphinx takes the documents that an include pattern matches, if it has any, and no
   exclude pattern does. *)
Takes(config, srcdir, d) ==
  LET dir == Below(srcdir, d.dir)
      Match(patterns) == \E p \in patterns : Matches(p, dir, d.suffix)
  IN  /\ IsPrefix(srcdir, d.dir)
      /\ config.include # {} => Match(config.include)
      /\ ~Match(config.exclude)

(* Its name: the path below the source directory. *)
Docname(srcdir, d) == Append(Below(srcdir, d.dir), d.name)

(* add_subproject_index: the root document of an HTML build of a subproject is given the
   index links, but not the root of a translation. *)
AddsIndex(config, srcdir, format, d) ==
  /\ Docname(srcdir, d) = <<"index">>
  /\ config.subproject
  /\ format = "html"
  /\ ~(Len(srcdir) > 1 /\ srcdir[1] = "translations")

(* YamlParser.parse: other YAML is ignored. *)
Ignored(d) ==
  /\ d.suffix = ".yaml"
  /\ \A k \in 1 .. Len(d.dir) - 1 : SubSeq(d.dir, k, k + 1) # <<"netlink", "specs">>
=============================================================================
