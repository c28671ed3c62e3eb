--------------------------- MODULE DirectoryCache ---------------------------
(***************************************************************************)
(* The cache of directories of d26 directory_operations.c.  The client looks *)
(* a path up and, when it is not there, loads the directory and inserts it.  *)
(* time(NULL) may or may not have advanced between two calls.  Nothing in    *)
(* the repository sets dirty, so flush_directory is never called.            *)
(***************************************************************************)
EXTENDS Integers

CONSTANTS CACHE_SIZE, Paths, MaxTime

VARIABLES
    entries,    \* path, directory and last_access of each slot
    count,
    clock,
    loaded,     \* directories the client has loaded: 1 .. loaded
    freed       \* those that free_directory was called with

vars == <<entries, count, clock, loaded, freed>>

Slots == 0 .. CACHE_SIZE - 1
Cached == {i \in Slots : i < count}
Hits(path) == {i \in Cached : entries[i].path = path}
First(S) == CHOOSE i \in S : \A j \in S : i <= j

create_directory_cache ==
    /\ entries = [i \in Slots |-> [path |-> "", directory |-> 0, last_access |-> 0]]
    /\ count = 0

Init == create_directory_cache /\ clock = 0 /\ loaded = 0 /\ freed = {}

Tick == clock < MaxTime /\ clock' = clock + 1 /\ UNCHANGED <<entries, count, loaded, freed>>

cache_lookup(path) ==
    /\ Hits(path) # {}
    /\ entries' = [entries EXCEPT ![First(Hits(path))].last_access = clock]
    /\ UNCHANGED <<count, clock, loaded, freed>>

\* The first of the slots accessed longest ago.
lru_idx == First({i \in Slots : \A j \in Slots : entries[i].last_access <= entries[j].last_access})

\* A full cache frees the directory of lru_idx, but the slot that becomes free,
\* and takes the new directory, is the last one.
cache_insert(path) ==
    LET full == count >= CACHE_SIZE
        idx == IF full THEN count - 1 ELSE count
        dir == loaded + 1
    IN  /\ Hits(path) = {}
        /\ freed' = IF full THEN freed \cup {entries[lru_idx].directory} ELSE freed
        /\ entries' = [entries EXCEPT ![idx] =
                        [path |-> path, directory |-> dir, last_access |-> clock]]
        /\ count' = idx + 1
        /\ loaded' = dir
        /\ UNCHANGED clock

Next == Tick \/ \E path \in Paths : cache_lookup(path) \/ cache_insert(path)

Spec == Init /\ [][Next]_vars

-----------------------------------------------------------------------------

\* The comment of cache_insert: "evict least recently used entry if cache is
\* full".  The directory it frees leaves the cache, so no later lookup returns
\* it.
EvictedIsGone == \A i \in Cached : entries[i].directory \notin freed
=============================================================================
