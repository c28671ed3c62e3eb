---------------------------- MODULE BufferedFile ----------------------------
(***************************************************************************)
(* d25 buffering_system.c: reads and writes through one buffer.  A file of   *)
(* FILE_SIZE bytes is read from its start; its k-th byte is k and bytes the  *)
(* client writes are 0; once it writes, what it reads is not recorded.  Both *)
(* buffer_read and buffer_write want the mode O_RDONLY, which the handle has *)
(* here.  One step is one part of a turn of the loops.  read may return less *)
(* than is asked for, and may fail: the size then is SIZE_MAX, the loops     *)
(* take it for a full buffer, and all that buffer_read returns from then on  *)
(* is whatever lies in memory from the buffer on.  A write after that is     *)
(* tried with SIZE_MAX bytes, which the system refuses, or makes the size    *)
(* small again.                                                              *)
(***************************************************************************)
EXTENDS Integers, Sequences

CONSTANTS BUFFER_SIZE, FILE_SIZE, Counts

VARIABLES
    data,               \* the bytes of the buffer, buffer.size of them
    position, dirty,
    failed,             \* buffer.size is SIZE_MAX, because a read failed
    offset,             \* of the file
    call, left,         \* the call in progress and the bytes it has still to move
    got,                \* history: what buffer_read returned while nothing was written
    mixed               \* history: the buffer was also written to

vars == <<data, position, dirty, failed, offset, call, left, got, mixed>>

Least(a, b) == IF a < b THEN a ELSE b

\* What buffer_read copies from a buffer that was not filled.
Stale == -1

create_buffered_file == data = <<>> /\ position = 0 /\ dirty = FALSE /\ failed = FALSE

Init ==
    /\ create_buffered_file
    /\ offset = 0 /\ call = "none" /\ left = 0 /\ got = <<>> /\ mixed = FALSE

Call(function, count) ==
    /\ call = "none"
    /\ failed => position <= FILE_SIZE       \* bound of the check
    /\ call' = function
    /\ left' = count
    /\ mixed' = (mixed \/ function = "write")
    /\ UNCHANGED <<data, position, dirty, failed, offset, got>>

Return ==
    /\ call \in {"read", "write"} /\ left = 0
    /\ call' = "none"
    /\ UNCHANGED <<data, position, dirty, failed, offset, left, got, mixed>>

-----------------------------------------------------------------------------
(* buffer_read *)

Reading == call = "read" /\ left > 0

Empty == ~failed /\ position >= Len(data)

Fill ==
    /\ Reading /\ Empty
    /\ offset < FILE_SIZE
    /\ \E n \in 1 .. Least(BUFFER_SIZE, FILE_SIZE - offset) :
        /\ data' = [k \in 1 .. n |-> offset + k]
        /\ offset' = offset + n
    /\ position' = 0
    /\ UNCHANGED <<dirty, failed, call, left, got, mixed>>

\* At the end of the file the loop is left, with less than was asked for.
FillEnd ==
    /\ Reading /\ Empty
    /\ offset >= FILE_SIZE
    /\ data' = <<>>
    /\ left' = 0
    /\ UNCHANGED <<position, dirty, failed, offset, call, got, mixed>>

\* The size_t is never below 0, so that the loop goes on.
FillFailed ==
    /\ Reading /\ Empty
    /\ failed' = TRUE
    /\ position' = 0
    /\ UNCHANGED <<data, dirty, offset, call, left, got, mixed>>

\* All that is left is served from SIZE_MAX bytes, and the call succeeds.
CopyStale ==
    /\ Reading /\ failed
    /\ got' = IF mixed THEN got ELSE got \o [k \in 1 .. left |-> Stale]
    /\ position' = position + left
    /\ left' = 0
    /\ UNCHANGED <<data, dirty, failed, offset, call, mixed>>

\* Fault: the position does not move on when the request is served.
CopyOut_KeepPosition ==
    LET to_copy == Least(left, Len(data) - position)
    IN  /\ Reading /\ ~failed /\ position < Len(data)
        /\ got' = IF mixed THEN got ELSE got \o SubSeq(data, position + 1, position + to_copy)
        /\ position' = IF to_copy = left THEN position ELSE position + to_copy
        /\ left' = left - to_copy
        /\ UNCHANGED <<data, dirty, failed, offset, call, mixed>>

CopyOut ==
    LET to_copy == Least(left, Len(data) - position)
    IN  /\ Reading /\ ~failed /\ position < Len(data)
        /\ got' = IF mixed THEN got ELSE got \o SubSeq(data, position + 1, position + to_copy)
        /\ position' = position + to_copy
        /\ left' = left - to_copy
        /\ UNCHANGED <<data, dirty, failed, offset, call, mixed>>

buffer_read == Fill \/ FillEnd \/ FillFailed \/ CopyStale \/ CopyOut

-----------------------------------------------------------------------------
(* buffer_write *)

Writing == call = "write" /\ left > 0

\* A clean buffer is written out, where the file is open for it, and emptied; write
\* moves the offset by what it wrote, and never takes SIZE_MAX bytes.
FlushClean ==
    /\ ~dirty /\ ~failed
    /\ \E written \in 0 .. Len(data) : offset' = offset + written
    /\ data' = <<>> /\ position' = 0
    /\ UNCHANGED <<dirty, failed, left>>

FlushFailed == ~dirty /\ left' = 0 /\ UNCHANGED <<data, position, dirty, failed, offset>>

\* A dirty buffer is left as it is.  After a failed read the room for more is
\* BUFFER_SIZE - SIZE_MAX = BUFFER_SIZE + 1 bytes, from the one before the buffer on.
FlushDirty ==
    /\ dirty
    /\ IF failed
       THEN LET to_copy == Least(left, BUFFER_SIZE + 1)
            IN  /\ data' = [k \in 1 .. to_copy - 1 |-> 0]
                /\ failed' = FALSE
                /\ left' = left - to_copy
       ELSE UNCHANGED <<data, failed, left>>
    /\ UNCHANGED <<position, dirty, offset>>

FlushFull ==
    /\ Writing /\ (failed \/ Len(data) >= BUFFER_SIZE)
    /\ FlushClean \/ FlushFailed \/ FlushDirty
    /\ UNCHANGED <<call, got, mixed>>

CopyIn ==
    LET to_copy == Least(left, BUFFER_SIZE - Len(data))
    IN  /\ Writing /\ ~failed /\ Len(data) < BUFFER_SIZE
        /\ data' = data \o [k \in 1 .. to_copy |-> 0]
        /\ dirty' = TRUE
        /\ left' = left - to_copy
        /\ UNCHANGED <<position, failed, offset, call, got, mixed>>

buffer_write == FlushFull \/ CopyIn

Next ==
    \/ \E count \in Counts : Call("read", count) \/ Call("write", count)
    \/ buffer_read \/ buffer_write \/ Return

\* A call is sequential code: once entered it runs on.
Spec == Init /\ [][Next]_vars /\ WF_vars(buffer_read \/ buffer_write \/ Return)

-----------------------------------------------------------------------------
(* Properties *)

\* Whatever the sizes of the requests and of the pieces read returns, the client
\* gets the bytes of the file once each and in order until a read fails; what it
\* got before the failure stays right.  What comes after it is wrong: buffer_read
\* returns stale bytes and reports success.
BytesInOrder ==
    \E m \in 0 .. Len(got) :
        /\ \A k \in 1 .. m : got[k] = k
        /\ m < Len(got) => failed /\ \A k \in m + 1 .. Len(got) : got[k] = Stale

\* The comment of buffer_write: "if buffer is full, flush it".  The buffer then
\* has room for more, and the call ends.
WriteReturns == call = "write" ~> call = "none"
=============================================================================
