---------------------------- MODULE TranslateRst ----------------------------
(***************************************************************************)
(* scripts/mt.py: translate_rst, from a page to its translation.  The page *)
(* is split into blocks (RstBlocks); then block after block is rendered,   *)
(* and the paragraphs, and the bodies of admonitions, go through           *)
(* translate_prose one at a time (Placeholders), each with tokens of its   *)
(* own.                                                                    *)
(***************************************************************************)
EXTENDS RstBlocks, Placeholders

CONSTANT
  Spellings(_, _)  \* what the lines of a paragraph of a page may spell; for those with
                   \* none, translate_prose is a single step

rstVars == <<splitVars, vars>>

(* translate_prose has returned, or was not called yet. *)
ProseInit ==
  /\ source = <<>>
  /\ text = <<>>
  /\ table = <<>>
  /\ pass = 1
  /\ pos = 1
  /\ phase = "done"
  /\ faithful = TRUE
  /\ out = <<>>

RstInit == SplitInit /\ ProseInit

----------------------------------------------------------------------------
(* The lines of a block that translate_prose is called with: all of a paragraph, of
   an admonition its body. *)
ProseLines(b) ==
  CASE b.kind = "prose" -> SubSeq(lines, b.first, b.last)
    [] b.kind = "directive" /\ lines[b.first].role = "admonition" /\ Body(b) # {} ->
         SubSeq(lines, b.last + 1 - Cardinality(Body(b)), b.last)
    [] OTHER -> <<>>

(* A call of translate_prose, with a table of tokens of its own. *)
TranslateProse(s) ==
  /\ source' = s
  /\ text' = s
  /\ table' = <<>>
  /\ pass' = 1
  /\ pos' = 1
  /\ phase' = "protect"
  /\ faithful' = TRUE
  /\ out' = <<>>

(* The next turn of translate_rst's loop. *)
RenderBlock ==
  /\ phase = "done"
  /\ Render
  /\ LET spelled == Spellings(lines, ProseLines(blocks[rendered + 1]))
     IN  IF spelled = {} THEN UNCHANGED vars ELSE \E s \in spelled : TranslateProse(s)

(* The translator gives up, or answers nothing: the lines stay as they are. *)
Unanswered ==
  /\ phase = "translate"
  /\ phase' = "done"
  /\ out' = source
  /\ UNCHANGED <<source, text, table, pass, pos, faithful>>

Split == (Open \/ Extend \/ Close) /\ UNCHANGED vars

Prose ==
  /\ Replace \/ PassOver \/ NextPattern \/ Translate \/ Unanswered \/ Restore \/ Finish
  /\ UNCHANGED splitVars

RstNext == Split \/ RenderBlock \/ Prose

RstSpec == RstInit /\ [][RstNext]_rstVars /\ WF_rstVars(RstNext)

----------------------------------------------------------------------------
(* Properties. *)

(* The loops of split_blocks, translate_rst, protect and restore come to an end on every
   page. *)
AllRendered ==
  <>(kind = "none" /\ i > Len(lines) /\ rendered = Len(blocks) /\ phase = "done")
=============================================================================
