---------------------------- MODULE MCPublishing ----------------------------
(***************************************************************************)
(* Small newsrooms for TLC: an article on a site, its translation, and the *)
(* same article in a repository.                                           *)
(***************************************************************************)
EXTENDS Publishing, TLC

CONSTANTS original, translation, d1, d2, w1, w2

\* The translation follows the original.
MCOriginalOf == original :> original @@ translation :> original

\* A draft that stands for itself, never edited.
MCNoTranslations == [a \in Articles |-> a]
MCOneVersion == [a \in Articles |-> 1]

\* The original is edited once.
MCLastVersion == original :> 2 @@ translation :> 1

\* Workers are alike.
MCSymmetry == Permutations(Workers)
=============================================================================
