--------------------------- MODULE Placeholders ---------------------------
(***************************************************************************)
(* scripts/mt.py: how translate_prose shields the inline markup of a text  *)
(* from the translator.  protect replaces every match of a list of         *)
(* patterns, one pattern after the other, by a token; restore puts the     *)
(* matches back in the translated text.                                    *)
(*                                                                         *)
(* A text is a sequence of symbols that white space or punctuation         *)
(* separates: words, words in capitals, the marks of inline markup, and    *)
(* tokens, which are numbers.  The translator is external.                 *)
(***************************************************************************)
EXTENDS Naturals, SequencesExt

CONSTANTS
  Word, Caps,         \* a word; a word in capitals
  Tick, Star, Hash,   \* the marks "`", "*" and "#"
  Sources             \* the texts

Symbols == {Word, Caps, Tick, Star, Hash}

ASSUME PlaceholderAssumption ==
  Symbols \cap Nat = {} /\ Sources \subseteq Seq(Symbols)

VARIABLES
  source,  \* the text
  text,    \* the text with tokens in place of matches, then as translated
  table,   \* table[n + 1]: what token n stands for
  pass,    \* the pattern that is being substituted
  pos,     \* where its substitution, or that of restore, has got to
  phase,   \* protecting, then translating, restoring, done
  faithful,\* whether the translator answered the text it was sent
  out      \* the text restored so far

vars == <<source, text, table, pass, pos, phase, faithful, out>>

(* INLINE_PATTERNS, in their order: those that end in a back quote, those that
   end in an asterisk, capitals, and "#" with what follows.  Bars and URLs are
   matched between the second and the third, and behave like the first. *)
Patterns == <<"tick", "star", "caps", "hash">>

IsToken(s) == s \notin Symbols

(* Two marks with something between them, and no third: from p, where they end. *)
Delimited(p, mark) ==
  {e \in p + 2 .. Len(text) :
     text[p] = mark /\ text[e] = mark /\ \A k \in p + 1 .. e - 1 : text[k] # mark}

(* Where a match of the pattern that begins at p ends: a token reads ZZ0000ZZ, in
   capitals, and so is matched like a word. *)
Stops(p) ==
  CASE Patterns[pass] = "tick" -> Delimited(p, Tick)
    [] Patterns[pass] = "star" -> Delimited(p, Star)
    [] Patterns[pass] = "caps" -> IF text[p] = Caps \/ IsToken(text[p]) THEN {p} ELSE {}
    [] Patterns[pass] = "hash" ->
         {e \in {p + 1} : e <= Len(text) /\ text[p] = Hash
                          /\ (text[e] \in {Word, Caps} \/ IsToken(text[e]))}

TypeOK ==
  /\ source \in Sources
  /\ text \in Seq(Symbols \cup 0 .. Len(table))
  /\ table \in Seq(Seq(Symbols \cup 0 .. Len(table)))
  /\ pass \in 1 .. Len(Patterns)
  /\ pos \in 1 .. Len(text) + 1
  /\ phase \in {"protect", "translate", "restore", "done"}
  /\ faithful \in BOOLEAN
  /\ out \in Seq(Symbols \cup 0 .. Len(table))

Init ==
  /\ source \in Sources
  /\ text = source
  /\ table = <<>>
  /\ pass = 1
  /\ pos = 1
  /\ phase = "protect"
  /\ faithful = TRUE
  /\ out = <<>>

----------------------------------------------------------------------------
(* protect: pat.sub(replace, text) for each pattern. *)

(* Mutant: the key is made from the pass, not from the number of tokens. *)
KeyOfPass == pass

(* TOKEN_FMT.format(len(tokens)) *)
Key == Len(table)

(* Mutant: the symbol after the match goes with it. *)
ReplaceOneMore ==
  /\ phase = "protect"
  /\ pos <= Len(text)
  /\ \E e \in Stops(pos) :
       /\ text' = SubSeq(text, 1, pos - 1) \o <<Key>> \o SubSeq(text, e + 2, Len(text))
       /\ table' = Append(table, SubSeq(text, pos, e))
  /\ pos' = pos + 1
  /\ UNCHANGED <<source, pass, phase, faithful, out>>

Replace ==
  /\ phase = "protect"
  /\ pos <= Len(text)
  /\ \E e \in Stops(pos) :
       /\ text' = SubSeq(text, 1, pos - 1) \o <<Key>> \o SubSeq(text, e + 1, Len(text))
       /\ table' = Append(table, SubSeq(text, pos, e))
  /\ pos' = pos + 1
  /\ UNCHANGED <<source, pass, phase, faithful, out>>

(* Mutant: matching resumes two symbols on. *)
PassOverTwo ==
  /\ phase = "protect"
  /\ pos <= Len(text)
  /\ Stops(pos) = {}
  /\ pos' = pos + 2
  /\ UNCHANGED <<source, text, table, pass, phase, faithful, out>>

PassOver ==
  /\ phase = "protect"
  /\ pos <= Len(text)
  /\ Stops(pos) = {}
  /\ pos' = pos + 1
  /\ UNCHANGED <<source, text, table, pass, phase, faithful, out>>

NextPattern ==
  /\ phase = "protect"
  /\ pos = Len(text) + 1
  /\ pos' = 1
  /\ IF pass < Len(Patterns)
     THEN pass' = pass + 1 /\ UNCHANGED phase
     ELSE phase' = "translate" /\ UNCHANGED pass
  /\ UNCHANGED <<source, text, table, faithful, out>>

----------------------------------------------------------------------------
(* The translator, and restore. *)

(* It keeps the tokens; it may put the words of a sentence in another order. *)
Translate ==
  /\ phase = "translate"
  /\ \/ UNCHANGED text /\ UNCHANGED faithful
     \/ text' = Reverse(text) /\ faithful' = (Reverse(text) = text)
  /\ phase' = "restore"
  /\ UNCHANGED <<source, table, pass, pos, out>>

(* Mutant: the matches are put back in their order, whatever the token. *)
EntryByPlace(s) == table[1 + (pos % Len(table))]

Entry(s) == table[s + 1]

(* TOKEN_RE.sub goes over the text once: what it puts in is not looked at. *)
Restore ==
  /\ phase = "restore"
  /\ pos <= Len(text)
  /\ out' = out \o IF IsToken(text[pos]) THEN Entry(text[pos]) ELSE <<text[pos]>>
  /\ pos' = pos + 1
  /\ UNCHANGED <<source, text, table, pass, phase, faithful>>

Finish ==
  /\ phase = "restore"
  /\ pos = Len(text) + 1
  /\ phase' = "done"
  /\ UNCHANGED <<source, text, table, pass, pos, faithful, out>>

Next == Replace \/ PassOver \/ NextPattern \/ Translate \/ Restore \/ Finish

Spec == Init /\ [][Next]_vars /\ WF_vars(Next)

----------------------------------------------------------------------------
(* Properties. *)

Count(s, seq) == Cardinality({k \in DOMAIN seq : seq[k] = s})

(* The sequence with what stands for it in place of each token. *)
StandsFor(whole, s) == IF IsToken(s) THEN whole[s + 1] ELSE <<s>>

Spelled(whole, seq) == FlattenSeq([k \in DOMAIN seq |-> StandsFor(whole, seq[k])])

(* The whole of what a token stands for: its entry has only tokens made before it. *)
Meaning ==
  LET whole[n \in 0 .. Len(table)] == IF n = 0 THEN <<>> ELSE Spelled(whole, table[n])
  IN  whole

Expanded(seq) == Spelled(Meaning, seq)

(* Every token is in one place, in the text or in the entry of a later token:
   no match is dropped, and none would be put back twice. *)
TokensOnce ==
  \A n \in 0 .. Len(table) - 1 :
    /\ Count(n, text) + Cardinality({m \in 1 .. Len(table) : Count(n, table[m]) = 1}) = 1
    /\ \A m \in 1 .. Len(table) : Count(n, table[m]) > 0 => Count(n, table[m]) = 1 /\ n + 1 < m

(* protect loses nothing: at every step the text, with each token replaced again
   and again by what it stands for, is the source. *)
ProtectLossless == phase \in {"protect", "translate"} => Expanded(text) = source

(* In whatever order the translator returns the tokens, what restore leaves still
   stands for every symbol of the source, as often as it was there. *)
NothingDropped ==
  phase = "done" => \A s \in Symbols : Count(s, Expanded(out)) = Count(s, source)

(* "Inline markup is preserved verbatim using placeholder tokens": where the translator
   leaves the text alone, the page has it as the source has. *)
MarkupVerbatim == phase = "done" /\ faithful => out = source
=============================================================================
