---------------------------- MODULE Automarkup ----------------------------
(***************************************************************************)
(* Documentation/sphinx/automarkup.py: names in the text of a page become  *)
(* cross-references, after all pages have been read.                       *)
(*                                                                         *)
(* Nine patterns are matched against a text, each by itself; their matches *)
(* are merged by position and replaced one after the other.  A name is     *)
(* looked up in the C namespace of the document first.  A text is its      *)
(* length and the matches in it; what Sphinx and the ABI parser know, and  *)
(* what its builder makes a URI for, is external.                          *)
(***************************************************************************)
EXTENDS Integers, FiniteSets, SequencesExt

CONSTANTS
  Namespaces,  \* C namespaces; "" is none
  Names        \* names that are matched

(* In the order of markup_func; struct stands for union, enum and typedef. *)
Patterns == <<"doc", "abi_file", "abi_symbol", "function", "struct", "git">>

Skipnames == {"for", "sizeof"}
Skipidentifiers == {"that"}
Skipfuncs == {"open", "read"}

Target(namespace, name) == <<namespace, name>>

IsC(m) == m.pattern \in {"function", "struct"}

(* A text is as the regular expressions leave it: finditer's matches of one pattern
   do not overlap, and of two patterns only doc and abi_file can begin together. *)
IsText(t) ==
  /\ t.namespace \in Namespaces
  /\ t.length \in Nat
  /\ IsFiniteSet(t.matches)
  /\ \A m \in t.matches :
       /\ m.pattern \in ToSet(Patterns)
       /\ m.name \in Names
       /\ m.start \in Nat /\ m.end \in m.start + 1 .. t.length
  /\ \A m, n \in t.matches :
       m # n =>
         /\ m.pattern = n.pattern => m.end <= n.start \/ n.end <= m.start
         /\ m.start = n.start => {m.pattern, n.pattern} \subseteq {"doc", "abi_file"}

VARIABLES
  text,           \* the text that is marked up
  marking,        \* "idle", "busy" within markup_refs, or "done"
  cNamespace,     \* c_namespace, a variable of the process
  failedLookups,  \* failed_lookups, of the process too
  pending,        \* the matches that are left of sorted_matches
  done,           \* the end of the last match
  repl,           \* what the text is replaced by
  uris,           \* the targets that the builder makes a URI for
  declared        \* the targets that the domains of Sphinx know

NoTarget == Target("", "")

Piece(from, to, what, target) == [from |-> from, to |-> to, what |-> what, target |-> target]

Plain(from, to) == Piece(from, to, "text", NoTarget)

TypeOK ==
  /\ marking \in {"idle", "busy", "done"}
  /\ IsText(text)
  /\ cNamespace \in Namespaces
  /\ uris \subseteq Namespaces \X Names
  /\ failedLookups \subseteq Namespaces \X Names
  /\ ToSet(pending) \subseteq text.matches
  /\ done \in 0 .. text.length
  /\ \A k \in 1 .. Len(repl) :
       /\ 0 <= repl[k].from /\ repl[k].from < repl[k].to /\ repl[k].to <= text.length
       /\ repl[k].what \in {"text", "broken", "link"}
       /\ repl[k].target \in (Namespaces \X Names) \cup {NoTarget}

NoText == [namespace |-> "", length |-> 0, matches |-> {}]

Init ==
  /\ text = NoText
  /\ marking = "idle"
  /\ cNamespace = ""
  /\ uris = {}
  /\ failedLookups = {}
  /\ pending = <<>>
  /\ done = 0
  /\ repl = <<>>

----------------------------------------------------------------------------
(* Cross-references. *)

(* add_and_resolve_xref: what is not found, or raises NoUri, is None, or the node that was
   to contain the reference, which counts as true. *)
Resolved(target, contnode) ==
  IF target \in declared \cap uris THEN "link" ELSE IF contnode THEN "broken" ELSE "None"

IsSkipfunc(target) == \E name \in Skipfuncs : target = Target("", name)

(* A function is not looked up if it is one to skip, or was not found before. *)
Tries(m, namespace) ==
  LET target == Target(namespace, m.name) IN
  IF m.pattern = "function" /\ (IsSkipfunc(target) \/ target \in failedLookups) THEN <<>>
  ELSE <<target>>

(* markup_func_ref_sphinx3 and markup_c_ref: the name in the namespace, if there is one,
   and by itself. *)
Tried(m) ==
  IF m.name \in Skipnames \/ (m.pattern = "struct" /\ m.name \in Skipidentifiers) THEN <<>>
  ELSE (IF cNamespace # "" THEN Tries(m, cNamespace) ELSE <<>>) \o Tries(m, "")

Truthy(targets) == {k \in 1 .. Len(targets) : Resolved(targets[k], TRUE) # "None"}

First(ks) == CHOOSE k \in ks : \A j \in ks : k <= j

CReference(m) ==
  LET targets == Tried(m) IN
  IF Truthy(targets) = {} THEN Plain(m.start, m.end)
  ELSE LET target == targets[First(Truthy(targets))] IN
       Piece(m.start, m.end, Resolved(target, TRUE), target)

(* markup_doc_ref and markup_abi_ref. *)
PageReference(m) ==
  IF Resolved(Target("", m.name), FALSE) = "None" THEN Plain(m.start, m.end)
  ELSE Piece(m.start, m.end, "link", Target("", m.name))

MarkedUp(m) ==
  CASE m.pattern \in {"function", "struct"} -> CReference(m)
    [] m.pattern \in {"doc", "abi_file", "abi_symbol"} -> PageReference(m)
    [] m.pattern = "git" -> Piece(m.start, m.end, "link", NoTarget)

(* The lookups of functions that failed before one did not. *)
NewFailures(m) ==
  LET targets == Tried(m) IN
  IF m.pattern # "function" THEN {}
  ELSE {targets[k] : k \in {j \in 1 .. Len(targets) : \A i \in Truthy(targets) : j < i}}

----------------------------------------------------------------------------
(* markup_refs. *)

Rank(m) == CHOOSE k \in 1 .. Len(Patterns) : Patterns[k] = m.pattern

(* sorted is stable: matches that begin together keep the order of the patterns. *)
Earlier(m, n) == m.start < n.start \/ (m.start = n.start /\ Rank(m) < Rank(n))

Sorted(matches) ==
  {s \in [1 .. Cardinality(matches) -> matches] :
     /\ ToSet(s) = matches
     /\ \A j, k \in 1 .. Cardinality(matches) : j < k => Earlier(s[j], s[k])}

(* auto_markup for the next text, of a document with this namespace: finds the matches. *)
Match(t, namespace, made) ==
  /\ marking = "idle"
  /\ text' = t
  /\ cNamespace' = namespace
  /\ uris' = made
  /\ pending' \in Sorted(t.matches)
  /\ marking' = "busy"
  /\ UNCHANGED <<failedLookups, done, repl, declared>>

(* A gap of one character taken for none. *)
BeforeLate(m) == IF m.start > done + 1 THEN <<Plain(done, m.start)>> ELSE <<>>

Before(m) == IF m.start > done THEN <<Plain(done, m.start)>> ELSE <<>>

Replace ==
  /\ marking = "busy"
  /\ pending # <<>>
  /\ LET m == Head(pending) IN
       /\ repl' = repl \o Before(m) \o <<MarkedUp(m)>>
       /\ done' = m.end
       /\ failedLookups' = failedLookups \cup NewFailures(m)
  /\ pending' = Tail(pending)
  /\ UNCHANGED <<text, marking, cNamespace, uris, declared>>

AddRest ==
  /\ marking = "busy"
  /\ pending = <<>>
  /\ repl' = IF done < text.length THEN Append(repl, Plain(done, text.length)) ELSE repl
  /\ done' = text.length
  /\ marking' = "done"
  /\ UNCHANGED <<text, cNamespace, uris, failedLookups, pending, declared>>

(* The paragraph gets repl in place of the text. *)
PutBack ==
  /\ marking = "done"
  /\ text' = NoText
  /\ marking' = "idle"
  /\ pending' = <<>>
  /\ done' = 0
  /\ repl' = <<>>
  /\ uris' = {}
  /\ UNCHANGED <<cNamespace, failedLookups, declared>>

Step == Replace \/ AddRest \/ PutBack

----------------------------------------------------------------------------
(* Of the matches of a text, for the properties of HtmlBuild. *)

Disjoint == \A m, n \in text.matches : m # n => m.end <= n.start \/ n.end <= m.start

Skipped(m) ==
  \/ m.name \in Skipnames
  \/ m.pattern = "struct" /\ m.name \in Skipidentifiers
  \/ m.pattern = "function" /\ m.name \in Skipfuncs

LinkOf(m, target) == Piece(m.start, m.end, "link", target)
=============================================================================
