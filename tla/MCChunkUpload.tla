----------------------------- MODULE MCChunkUpload -----------------------------
(* ChunkUpload for TLC: the storage accounts are interchangeable.          *)
EXTENDS ChunkUpload, TLC

Symmetry == Permutations(Accounts)
================================================================================
