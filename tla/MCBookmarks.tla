---------------------------- MODULE MCBookmarks -----------------------------
(* A handful of bookmarks for Bookmarks *)
EXTENDS Bookmarks, TLC

CONSTANTS a, b, c1, folder, garbled

(* Nothing tells one label from another *)
LabelSymmetry == Permutations(Label)

=============================================================================
