----------------------- MODULE MCTranslationStatus -----------------------
(* An instance of TranslationStatus: the paths "a-", "a/a", "a/c" and "ab", of
   which "a-" and "ab" are at the top and sort before and after section "a". *)
EXTENDS TranslationStatus

MCSources == {<<97, 45>>, <<97, 47, 97>>, <<97, 47, 99>>, <<97, 98>>}

MCMoving == {<<97, 47, 99>>}

MCPages == {<<97, 47, 97>>, <<97, 47, 99>>}
=============================================================================
