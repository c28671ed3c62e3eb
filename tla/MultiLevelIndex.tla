--------------------------- MODULE MultiLevelIndex ---------------------------
(***************************************************************************)
(* d27 multi_level_index_allocation.c: get_block_address finds a block of a  *)
(* file through direct, single, double and triple indirect blocks.  What     *)
(* builds the index is not in the repository: here a client appends blocks   *)
(* to one file and fills the levels one after the other, each indirect block *)
(* when the one before is full.                                              *)
(***************************************************************************)
EXTENDS Integers, Sequences, Functions

CONSTANTS DIRECT_BLOCKS, INDIRECT_BLOCKS

VARIABLES
    idx,                \* [direct, single_indirect, double_indirect, triple_indirect]
    indirect_blocks,    \* the blocks array of each
    used,               \* number of indirect blocks the client has taken
    file                \* history: the addresses of the file's blocks, in order

vars == <<idx, indirect_blocks, used, file>>

Single == DIRECT_BLOCKS + INDIRECT_BLOCKS           \* blocks up to the single indirect ones
Double == Single + INDIRECT_BLOCKS * INDIRECT_BLOCKS
Entries == 0 .. INDIRECT_BLOCKS - 1
Addresses == 1 .. Double

\* The index is cleared; the indirect blocks are not.
init_multilevel_allocator ==
    /\ idx = [direct |-> [k \in 0 .. DIRECT_BLOCKS - 1 |-> 0],
              single_indirect |-> 0, double_indirect |-> 0, triple_indirect |-> 0]
    /\ indirect_blocks \in {[b \in Addresses \cup {0} |-> [e \in Entries |-> x]] : x \in {0, 1}}

Init == init_multilevel_allocator /\ used = 0 /\ file = <<>>

-----------------------------------------------------------------------------

DoubleAddress(n) ==
    indirect_blocks[indirect_blocks[idx.double_indirect][n \div INDIRECT_BLOCKS]][n % INDIRECT_BLOCKS]

\* Two levels where there should be three; and of the double indirect blocks
\* only INDIRECT_BLOCKS were taken off n.
TripleAddress(n) ==
    indirect_blocks[indirect_blocks[idx.triple_indirect]
                        [(n \div INDIRECT_BLOCKS) \div INDIRECT_BLOCKS]][n % INDIRECT_BLOCKS]

get_block_address(block_num) ==
    CASE block_num < DIRECT_BLOCKS -> idx.direct[block_num]
      [] DIRECT_BLOCKS <= block_num /\ block_num < Single ->
            indirect_blocks[idx.single_indirect][block_num - DIRECT_BLOCKS]
      [] Single <= block_num /\ block_num < Double -> DoubleAddress(block_num - Single)
      [] Double <= block_num
            /\ block_num < Single + INDIRECT_BLOCKS + INDIRECT_BLOCKS ^ 3 ->
            TripleAddress(block_num - Single - INDIRECT_BLOCKS)
      [] OTHER -> -1

-----------------------------------------------------------------------------
(* The client *)

\* The indirect block that holds the n-th of the double indirect blocks is taken
\* with its first entry, and so is the one above with the first of all.
AppendDouble(n, address) ==
    LET top == IF n = 0 THEN used ELSE idx.double_indirect
        fresh == n % INDIRECT_BLOCKS = 0
        leaf == IF n = 0 THEN used + 1
                ELSE IF fresh THEN used ELSE indirect_blocks[top][n \div INDIRECT_BLOCKS]
    IN  /\ idx' = [idx EXCEPT !.double_indirect = top]
        /\ indirect_blocks' = [indirect_blocks EXCEPT
                ![top][n \div INDIRECT_BLOCKS] = leaf, ![leaf][n % INDIRECT_BLOCKS] = address]
        /\ used' = IF n = 0 THEN used + 2 ELSE IF fresh THEN used + 1 ELSE used

AppendSingle(n, address) ==
    LET block == IF n = 0 THEN used ELSE idx.single_indirect
    IN  /\ idx' = [idx EXCEPT !.single_indirect = block]
        /\ indirect_blocks' = [indirect_blocks EXCEPT ![block][n] = address]
        /\ used' = IF n = 0 THEN used + 1 ELSE used

AppendBlock(address) ==
    LET k == Len(file)
    IN  /\ k < Double
        /\ file' = Append(file, address)
        /\ \/ /\ k < DIRECT_BLOCKS
              /\ idx' = [idx EXCEPT !.direct[k] = address]
              /\ UNCHANGED <<indirect_blocks, used>>
           \/ DIRECT_BLOCKS <= k /\ k < Single /\ AppendSingle(k - DIRECT_BLOCKS, address)
           \/ Single <= k /\ AppendDouble(k - Single, address)

\* From either end of the free list.
Next ==
    LET unused == Addresses \ Range(file)
    IN  \E a \in unused : /\ (\A b \in unused : a <= b) \/ (\A b \in unused : b <= a)
                          /\ AppendBlock(a)

-----------------------------------------------------------------------------
(* Properties *)

\* At every length, across the ends of the levels too, get_block_address finds
\* the blocks of the file in order.
AddressesExact == \A k \in DOMAIN file : get_block_address(k - 1) = file[k]
=============================================================================
