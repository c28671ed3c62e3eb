------------------------------ MODULE OpenFiles ------------------------------
(***************************************************************************)
(* The table of open files of d25 file_system_interface.c, over the open,    *)
(* read, write and close of the operating system, under any sequence of      *)
(* calls.                                                                    *)
(*                                                                           *)
(* The descriptors 0, 1 and 2 are in use from the start, as the table needs: *)
(* it takes 0 for a free entry.  Files are not opened with O_APPEND.  A      *)
(* close that fails has released its descriptor, as on Linux; the table      *)
(* keeps it all the same.  Paths and flags are left out.                     *)
(***************************************************************************)
EXTENDS Integers, FiniteSets

CONSTANTS
    MAX_OPEN_FILES,
    Descriptors,        \* what the system can have open besides 0, 1 and 2
    Sizes,              \* bytes read or written at once
    MaxOffset           \* bound of the check

VARIABLES
    open_files,         \* fd and position of every handle
    file_count,
    offsets,            \* the system: descriptors in use, with their offsets
    close_failed        \* history: some close did fail

vars == <<open_files, file_count, offsets, close_failed>>

Handles == 0 .. MAX_OPEN_FILES - 1
Cleared == [fd |-> 0, position |-> 0]
FreeHandles == {h \in Handles : open_files[h].fd = 0}
Used == DOMAIN offsets
Lowest(S) == CHOOSE x \in S : \A y \in S : x <= y

fs_init ==
    /\ open_files = [h \in Handles |-> Cleared]
    /\ file_count = 0

Init == fs_init /\ offsets = <<>> /\ close_failed = FALSE

\* open: the lowest descriptor that is not in use.
fs_open ==
    /\ file_count < MAX_OPEN_FILES
    /\ FreeHandles # {}
    /\ Descriptors \ Used # {}
    /\ LET fd == Lowest(Descriptors \ Used)
       IN  /\ offsets' = [d \in Used \cup {fd} |-> IF d = fd THEN 0 ELSE offsets[d]]
           /\ open_files' = [open_files EXCEPT ![Lowest(FreeHandles)] =
                                [fd |-> fd, position |-> 0]]
    /\ file_count' = file_count + 1
    /\ UNCHANGED close_failed

\* read and write move the descriptor's own offset by the bytes they report; a
\* call that reports 0 or -1 changes nothing.
Transfer(handle, bytes) ==
    LET fd == open_files[handle].fd
    IN  /\ fd # 0 /\ fd \in Used
        /\ offsets[fd] + bytes <= MaxOffset /\ open_files[handle].position + bytes <= MaxOffset
        /\ offsets' = [offsets EXCEPT ![fd] = @ + bytes]
        /\ open_files' = [open_files EXCEPT ![handle].position = @ + bytes]
        /\ UNCHANGED <<file_count, close_failed>>

fs_read(handle, bytes) == Transfer(handle, bytes)

fs_write(handle, bytes) == Transfer(handle, bytes)

\* close releases the descriptor, whatever it returns; with one that is not in
\* use it fails.
fs_close(handle) ==
    LET fd == open_files[handle].fd
    IN  /\ fd # 0
        /\ offsets' = [d \in Used \ {fd} |-> offsets[d]]
        /\ \/ /\ fd \in Used
              /\ open_files' = [open_files EXCEPT ![handle] = Cleared]
              /\ file_count' = file_count - 1
              /\ UNCHANGED close_failed
           \/ close_failed' = TRUE /\ UNCHANGED <<open_files, file_count>>

Next ==
    \/ fs_open
    \/ \E h \in Handles : \/ \E b \in Sizes \ {0} : fs_read(h, b) \/ fs_write(h, b)
                          \/ fs_close(h)

-----------------------------------------------------------------------------
(* Properties *)

Busy == Handles \ FreeHandles

\* file_count counts the busy entries, after a failed close too, and the table
\* refuses a file only when all of them are busy.
CountKept == file_count = Cardinality(Busy)

\* No descriptor leaks, after a failed close neither: each one in use has a handle
\* through which it can be closed.
NoneLeaked == Used \subseteq {open_files[h].fd : h \in Busy}

\* While no close has failed, handles and descriptors belong to each other one to
\* one, and a handle's position is where the system would read next.  After a failed
\* close two handles may share a descriptor, and one may have none.
HandlesExact ==
    ~close_failed =>
        /\ \A g, h \in Busy : open_files[g].fd = open_files[h].fd => g = h
        /\ {open_files[h].fd : h \in Busy} = Used
        /\ \A h \in Busy : open_files[h].position = offsets[open_files[h].fd]

FilesKept == CountKept /\ NoneLeaked /\ HandlesExact
=============================================================================
