---------------------------- MODULE FileStoreMC ----------------------------
(* Four calls over two keys: enough for two entries of one key with an update *)
(* and a delete of one, or a crash and the rebuild that repairs what it left. *)
EXTENDS FileStore, TLC
Symmetry == Permutations(Calls) \cup Permutations(Keys)
=============================================================================
