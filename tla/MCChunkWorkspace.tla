-------------------------- MODULE MCChunkWorkspace --------------------------
(* Small instances of ChunkWorkspace.                                      *)
EXTENDS ChunkWorkspace, TLC

=============================================================================
