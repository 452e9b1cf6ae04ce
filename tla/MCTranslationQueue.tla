-------------------------- MODULE MCTranslationQueue --------------------------
(***************************************************************************)
(* Instances of TranslationQueue for TLC.                                  *)
(***************************************************************************)
EXTENDS TranslationQueue

CONSTANTS e1, r1, l1, l2
=============================================================================
