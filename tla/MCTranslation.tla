---------------------------- MODULE MCTranslation ----------------------------
(* Two keys differ in nothing but their name: they may be exchanged.         *)
EXTENDS Translation, TLC

Symmetry == Permutations(Keys)
=============================================================================
