----------------------------- MODULE Directories -----------------------------
(***************************************************************************)
(* A directory of d26 and its journal (directory_implementation.c and        *)
(* directory_operations.c), through crashes.  The client logs an operation,  *)
(* then performs it; a crash loses all but the journal file, and the next    *)
(* run of the program replays the file into a new directory.                 *)
(*                                                                           *)
(* A journal record is longer than a buffer of stdio, so fwrite and fflush   *)
(* write it in two parts and a crash may leave the first alone.  The entry   *)
(* of a record is left as it was in its slot when the caller passes none.    *)
(* Paths, times and permissions are left out.  remove_directory_entry,       *)
(* update_directory_entry and flush_joural_entries are not in the            *)
(* repository.  The first two do what their names say.  The third is         *)
(* taken to make room and no more: its comment has it flush the oldest       *)
(* entries to disk, but log_directory_operation has put each of them in the  *)
(* file already, and one written again would be replayed again.              *)
(***************************************************************************)
EXTENDS Integers, Sequences, Functions

CONSTANTS
    MAX_ENTRIES,
    JOURNAL_SIZE,       \* at least 1
    Names, Other,       \* names a client uses, and one that it does not
    MaxRecords          \* bound on the length of the file

Types == {"file", "directory"}
EntryOf(name, type) == [name |-> name, type |-> type]
Entries == {EntryOf(n, t) : n \in Names, t \in Types}
Operations == {"CREATE", "DELETE", "MODIFY"}

VARIABLES
    entries,        \* dir->entries, entry_cnt of them
    slots, count,   \* journal->entries and journal->count
    file,           \* the parts written to the journal file
    pending,        \* the record whose operation is logged and not performed, or None
    restarted,      \* after a crash, before the replay
    expected,       \* history: what the logged operations make of an empty directory
    spoiled         \* history: see Recovered

vars == <<entries, slots, count, file, pending, restarted, expected, spoiled>>

None == [operation |-> "none", entry |-> EntryOf(Other, "file")]

\* Both names go into entry 0; entry 1 is counted but never written.
init_directory(garbage) == <<EntryOf("..", "directory"), garbage>>

Garbage == {EntryOf(n, "file") : n \in Names \cup {Other}}

\* malloc gives the slots no value; fopen with a+ keeps what is in the file.
create_journal == [s \in 0 .. JOURNAL_SIZE - 1 |-> None]

Init ==
    /\ \E g \in Garbage : /\ entries = init_directory(g)
                          /\ spoiled = (g.name \in Names)
    /\ slots = create_journal
    /\ count = 0
    /\ file = <<>>
    /\ pending = None
    /\ restarted = FALSE
    /\ expected = <<>>

-----------------------------------------------------------------------------
(* The directory *)

\* The positions where a name is found; find_entry returns the first.
Found(dir, name) == {k \in DOMAIN dir : dir[k].name = name}
find_entry(dir, name) == CHOOSE k \in Found(dir, name) : \A l \in Found(dir, name) : k <= l

add_directory_entry(dir, entry) ==
    IF Len(dir) >= MAX_ENTRIES THEN dir ELSE Append(dir, entry)

remove_directory_entry(dir, name) ==
    LET at == find_entry(dir, name)
    IN  IF Found(dir, name) = {} THEN dir
        ELSE SubSeq(dir, 1, at - 1) \o SubSeq(dir, at + 1, Len(dir))

update_directory_entry(dir, entry) ==
    IF Found(dir, entry.name) = {} THEN dir
    ELSE [dir EXCEPT ![find_entry(dir, entry.name)] = entry]

\* One turn of the switch of recover_directory_state.
Apply(dir, record) ==
    CASE record.operation = "CREATE" -> add_directory_entry(dir, record.entry)
      [] record.operation = "DELETE" -> remove_directory_entry(dir, record.entry.name)
      [] record.operation = "MODIFY" -> update_directory_entry(dir, record.entry)
      [] OTHER -> dir

-----------------------------------------------------------------------------
(* The journal *)

Part(half, record) == [half |-> half, record |-> record]
Torn == file # <<>> /\ file[Len(file)].half = 1

\* given: the caller passes the entry; the record holds what the slot held otherwise.
Slot == IF count >= JOURNAL_SIZE THEN 0 ELSE count
Record(operation, entry, given) ==
    [operation |-> operation, entry |-> IF given THEN entry ELSE slots[Slot].entry]

\* The client creates what is not there yet and changes what is, as
\* create_directory_impl does.
MayLog(operation, entry) ==
    /\ pending = None /\ ~restarted
    /\ CASE operation = "CREATE" -> Found(entries, entry.name) = {}
         [] operation = "DELETE" -> entry \in Range(entries)
         [] operation = "MODIFY" -> Found(entries, entry.name) # {}

Logged(operation, entry, given) ==
    /\ MayLog(operation, entry)
    /\ slots' = [slots EXCEPT ![Slot] = Record(operation, entry, given)]
    /\ count' = Slot + 1

\* What the operation makes of the expected contents.
Expect(operation, entry) ==
    IF operation = "CREATE" /\ Len(entries) >= MAX_ENTRIES THEN expected
    ELSE [n \in (DOMAIN expected \cup {entry.name}) \ (IF operation = "DELETE" THEN {entry.name} ELSE {})
            |-> IF n = entry.name THEN entry.type ELSE expected[n]]

\* Fault: the record stays in the buffer of stdio.
log_directory_operation_NoFlush(operation, entry, given) ==
    /\ Logged(operation, entry, given)
    /\ pending' = [operation |-> operation, entry |-> entry]
    /\ expected' = Expect(operation, entry)
    /\ UNCHANGED <<entries, file, restarted, spoiled>>

log_directory_operation(operation, entry, given) ==
    /\ Logged(operation, entry, given)
    /\ file' = file \o <<Part(1, slots'[Slot]), Part(2, slots'[Slot])>>
    /\ pending' = [operation |-> operation, entry |-> entry]
    /\ expected' = Expect(operation, entry)
    /\ spoiled' = (spoiled \/ Torn \/ ~given)
    /\ UNCHANGED <<entries, restarted>>

Perform ==
    /\ pending # None
    /\ entries' = Apply(entries, pending)
    /\ pending' = None
    /\ UNCHANGED <<slots, count, file, restarted, expected, spoiled>>

Restart(garbage, misaligned) ==
    /\ entries' = init_directory(garbage)
    /\ spoiled' = (spoiled \/ garbage.name \in Names \/ misaligned)
    /\ slots' = create_journal
    /\ count' = 0
    /\ pending' = None
    /\ restarted' = TRUE
    /\ UNCHANGED expected

Crash(garbage) == Restart(garbage, FALSE) /\ UNCHANGED file

\* The crash comes between the two parts of a record.
CrashInLog(operation, entry, garbage) ==
    /\ MayLog(operation, entry)
    /\ file' = Append(file, Part(1, Record(operation, entry, TRUE)))
    /\ Restart(garbage, Torn)

\* fread takes two parts at a time.  When they are not those of one record, it
\* finds any operation on any entry.
Whole(k) ==
    /\ file[2 * k - 1].half = 1 /\ file[2 * k].half = 2
    /\ file[2 * k - 1].record = file[2 * k].record
ReadRecords(guess) ==
    [k \in 1 .. Len(file) \div 2 |-> IF Whole(k) THEN file[2 * k].record ELSE guess]

Replay(dir, records) ==
    LET state[k \in 0 .. Len(records)] ==
            IF k = 0 THEN dir ELSE Apply(state[k - 1], records[k])
    IN  state[Len(records)]

recover_directory_state(guess) ==
    /\ restarted
    /\ entries' = Replay(entries, ReadRecords(guess))
    /\ restarted' = FALSE
    /\ UNCHANGED <<slots, count, file, pending, expected, spoiled>>

Next ==
    \/ \E o \in Operations, e \in Entries :
        /\ Len(file) < 2 * MaxRecords /\ ~spoiled      \* bounds of the check
        /\ \/ \E given \in BOOLEAN : log_directory_operation(o, e, given)
           \/ \E g \in Garbage : CrashInLog(o, e, g)
    \/ Perform
    \/ \E g \in Garbage : Crash(g)
    \/ \E o \in Operations, e \in Entries :
        recover_directory_state([operation |-> o, entry |-> e])

-----------------------------------------------------------------------------
(* Properties *)

Settled == pending = None /\ ~restarted
Client == SubSeq(entries, 3, Len(entries))

\* Wherever the crashes fall, between logging an operation and performing it
\* too, the directory holds in the end what the logged operations made: each
\* entry once, none lost, none back from the dead.  It does not when an entry
\* was not passed to the log, when records follow a torn one, or when the entry
\* that init_directory leaves unwritten happens to hold a client's name.
Recovered ==
    Settled /\ ~spoiled =>
        /\ Len(Client) = Len(entries) - 2
        /\ {<<Client[k].name, Client[k].type>> : k \in DOMAIN Client}
            = {<<n, expected[n]>> : n \in DOMAIN expected}
        /\ \A k, l \in DOMAIN Client : Client[k].name = Client[l].name => k = l
=============================================================================
