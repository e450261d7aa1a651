------------------------------ MODULE ChunkLog ------------------------------
(***************************************************************************)
(* What a V2 chunk workspace promises (A20.md section 1: resume continues  *)
(* from the last contiguous committed chunk): the committed chunks are a   *)
(* log.  One chunk at a time is appended, computed from the state of the   *)
(* chunk before it; a committed chunk is never replaced or removed.        *)
(***************************************************************************)
EXTENDS Integers

CONSTANTS
  Supervisors,  \* the run attempts that may commit chunks
  ChunkCount    \* length of the chunk plan

VARIABLE log    \* log[k] = [author, parent] of chunk k

(* The author of the chunk a computation for ordinal k resumes from.       *)
ParentAuthor(k) == IF k = 0 THEN "initial" ELSE log[k - 1].author

IsPrefix(n) == DOMAIN log = 0 .. (n - 1)

LogInit == log = [k \in {} |-> 0]

AppendChunk(n, author) ==
  /\ IsPrefix(n)
  /\ log' = [k \in 0 .. n |->
               IF k = n THEN [author |-> author, parent |-> ParentAuthor(n)]
                        ELSE log[k]]

LogNext ==
  \E n \in 0 .. (ChunkCount - 1), author \in Supervisors :
    AppendChunk(n, author)

LogSpec == LogInit /\ [][LogNext]_log
=============================================================================
