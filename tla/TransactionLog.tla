--------------------------- MODULE TransactionLog ---------------------------
(***************************************************************************)
(* The journal of d27 recovery.c under any sequence of log_transaction and   *)
(* create_checkpoint calls, ended by destroy_recovery_manager.  Any malloc   *)
(* of log_transaction may fail.  Times are left out: nothing reads           *)
(* checkpoint_interval or last_checkpoint.                                   *)
(***************************************************************************)
EXTENDS Integers, Sequences

CONSTANTS
    journal_capacity,   \* at least 1: with 0 the first entry lies beyond the array
    BlockNums,
    MaxLogged           \* bound on the calls of log_transaction

VARIABLES
    journal_entries,    \* 0 .. journal_capacity - 1; entries beyond the count are old ones
    journal_count,
    live,               \* buffers from malloc that nobody has freed
    destroyed,
    committed,          \* history: what the checkpoints have printed
    logged              \* history: what log_transaction was called with

vars == <<journal_entries, journal_count, live, destroyed, committed, logged>>

Unset == [transaction_id |-> -1, block_num |-> -1, buffers |-> 0]

init_recovery_manager ==
    /\ journal_entries = [e \in 0 .. journal_capacity - 1 |-> Unset]
    /\ journal_count = 0

Init == init_recovery_manager /\ live = 0 /\ destroyed = FALSE /\ committed = <<>> /\ logged = <<>>

Pending == [k \in 1 .. journal_count |-> journal_entries[k - 1]]
Buffers(entries) ==
    LET sum[k \in 0 .. Len(entries)] == IF k = 0 THEN 0 ELSE sum[k - 1] + entries[k].buffers
    IN  sum[Len(entries)]

\* Fault: the last entry is not printed nor its buffers freed.
Checkpointed_ButLast == IF journal_count = 0 THEN <<>> ELSE SubSeq(Pending, 1, journal_count - 1)

\* The entries a checkpoint prints and frees, all pending ones.
Checkpointed == Pending

create_checkpoint ==
    /\ committed' = committed \o Checkpointed
    /\ live' = live - Buffers(Checkpointed)
    /\ journal_count' = 0
    /\ UNCHANGED <<journal_entries, destroyed, logged>>

\* buffers of the two malloc calls succeed.  The entry stays when one fails and
\* the call returns -1.
log_transaction(block_num, buffers) ==
    LET full == journal_count >= journal_capacity
        entry_idx == IF full THEN 0 ELSE journal_count
        entry == [transaction_id |-> entry_idx, block_num |-> block_num, buffers |-> buffers]
    IN  /\ committed' = IF full THEN committed \o Checkpointed ELSE committed
        /\ live' = (IF full THEN live - Buffers(Checkpointed) ELSE live) + buffers
        /\ journal_count' = entry_idx + 1
        /\ journal_entries' = [journal_entries EXCEPT ![entry_idx] = entry]
        /\ logged' = Append(logged, <<block_num, buffers>>)
        /\ UNCHANGED destroyed

destroy_recovery_manager ==
    /\ live' = live - Buffers(Pending)
    /\ destroyed' = TRUE
    /\ UNCHANGED <<journal_entries, journal_count, committed, logged>>

Next ==
    /\ ~destroyed
    /\ \/ /\ Len(logged) < MaxLogged
          /\ \E b \in BlockNums, k \in 0 .. 2 : log_transaction(b, k)
       \/ create_checkpoint
       \/ destroy_recovery_manager

-----------------------------------------------------------------------------
(* Properties *)

\* What the checkpoints printed and what is pending is what was logged, in order
\* and once each: a checkpoint forced by a full journal loses nothing.
OnceInOrder ==
    LET all == committed \o Pending
    IN  /\ Len(all) = Len(logged)
        /\ \A k \in DOMAIN all : <<all[k].block_num, all[k].buffers>> = logged[k]

\* Transaction ids count up from 0 since the last checkpoint: two transactions
\* have the same one only if a checkpoint lies between them.
IdsRestart ==
    LET all == committed \o Pending
    IN  \A k \in DOMAIN all :
            all[k].transaction_id = IF k = 1 \/ all[k].transaction_id = 0 THEN 0
                                    ELSE all[k - 1].transaction_id + 1

\* Every buffer is freed once: those of pending entries are live and no others,
\* and none after the end.
BuffersFreed == live = IF destroyed THEN 0 ELSE Buffers(Pending)

LogKept == OnceInOrder /\ IdsRestart /\ BuffersFreed
=============================================================================
