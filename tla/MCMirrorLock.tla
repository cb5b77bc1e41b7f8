----------------------------- MODULE MCMirrorLock -----------------------------
(* Small instances of MirrorLock: threads of a kind and inodes are              *)
(* interchangeable.                                                             *)
EXTENDS MirrorLock, TLC

KindSymmetry == Permutations(Syncers) \cup Permutations(Deleters) \cup Permutations(Inodes)
=============================================================================
