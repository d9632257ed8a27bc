--------------------------- MODULE Translations ---------------------------
(***************************************************************************)
(* Documentation/sphinx/translations.py: the menu of languages that an     *)
(* HTML page shows, made of links that are resolved when it is written.    *)
(* A document is the sequence of names of its docname.                     *)
(***************************************************************************)
EXTENDS Naturals, Sequences

English == "en"

Others == {"zh_CN", "zh_TW", "it_IT", "ja_JP", "ko_KR", "pt_BR", "sp_SP"}

(* all_languages *)
AllLanguages == {English} \cup Others

IsTranslation(doc) == doc[1] = "translations" /\ Len(doc) > 2

ThisLanguage(doc) == IF IsTranslation(doc) THEN doc[2] ELSE English

(* all_languages[this_lang_code] raises KeyError: English has no code. *)
UnknownLanguage(doc) == IsTranslation(doc) /\ doc[2] \notin Others

(* Mutant: the docname is not normalised. *)
TranslatedName(doc) == doc

Untranslated(doc) == IF IsTranslation(doc) THEN SubSeq(doc, 3, Len(doc)) ELSE doc

In(language, doc) == IF language = English THEN doc ELSE <<"translations", language>> \o doc

(* TranslationsTransform: a link to be resolved for every other language. *)
Wanted(doc) == {In(language, Untranslated(doc)) : language \in AllLanguages \ {ThisLanguage(doc)}}

(* process_languages: those that lead to a document; nothing in other formats. *)
Shown(links, docs, format) == IF format = "html" THEN links \cap docs ELSE {}
=============================================================================
