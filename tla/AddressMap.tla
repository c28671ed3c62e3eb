----------------------------- MODULE AddressMap -----------------------------
(***************************************************************************)
(* d16 AddressTranslator.c: pages of the logical memory are mapped one by    *)
(* one to the next unused page of the physical memory; mapping a page again  *)
(* takes another physical page and leaves the old one unused.  Addresses are *)
(* counted in pages; protection and access type are sets of bits.  The       *)
(* physical memory itself is left out, and with it that the code clears all  *)
(* of it although it allocates only as many bytes as its size's type has.    *)
(***************************************************************************)
EXTENDS Integers

CONSTANTS
    LOGICAL_PAGES, PHYSICAL_PAGES,
    Bits                \* the bits of a protection

VARIABLES
    address_map,            \* [physical_address, protection] of each page, or Unmapped
    used_physical_memory,
    translated              \* history: the last access that was let through

vars == <<address_map, used_physical_memory, translated>>

LogicalPages == 0 .. LOGICAL_PAGES - 1
Unmapped == [physical_address |-> -1, protection |-> {}]

initializeAddressTranslator ==
    /\ address_map = [p \in LogicalPages |-> Unmapped]
    /\ used_physical_memory = 0

Init == initializeAddressTranslator /\ translated = [physical |-> -1, access |-> {}]

CreateRefused(p) ==
    /\ p >= LOGICAL_PAGES \/ used_physical_memory + 1 > PHYSICAL_PAGES
    /\ UNCHANGED vars

\* Fault: the page taken is not counted when the logical page was mapped before.
CreateMapping_Reuse(p, protection) ==
    /\ p < LOGICAL_PAGES /\ used_physical_memory + 1 <= PHYSICAL_PAGES
    /\ address_map' = [address_map EXCEPT
            ![p] = [physical_address |-> used_physical_memory, protection |-> protection]]
    /\ used_physical_memory' =
            IF address_map[p] = Unmapped THEN used_physical_memory + 1 ELSE used_physical_memory
    /\ UNCHANGED translated

CreateMapping(p, protection) ==
    /\ p < LOGICAL_PAGES /\ used_physical_memory + 1 <= PHYSICAL_PAGES
    /\ address_map' = [address_map EXCEPT
            ![p] = [physical_address |-> used_physical_memory, protection |-> protection]]
    /\ used_physical_memory' = used_physical_memory + 1
    /\ UNCHANGED translated

createAddressMapping(p, protection) == CreateRefused(p) \/ CreateMapping(p, protection)

\* In bounds, mapped and permitted.
Permitted(p, access) ==
    /\ p < LOGICAL_PAGES
    /\ address_map[p] # Unmapped
    /\ access \subseteq address_map[p].protection

TranslateError(p, access) == ~Permitted(p, access) /\ UNCHANGED vars

TranslateOK(p, access) ==
    /\ Permitted(p, access)
    /\ translated' = [physical |-> address_map[p].physical_address, access |-> access]
    /\ UNCHANGED <<address_map, used_physical_memory>>

translateAddress(p, access) == TranslateError(p, access) \/ TranslateOK(p, access)

Next ==
    \E p \in 0 .. LOGICAL_PAGES, bits \in SUBSET Bits :
        createAddressMapping(p, bits) \/ translateAddress(p, bits)

-----------------------------------------------------------------------------

Mapped == {p \in LogicalPages : address_map[p] # Unmapped}

\* Two logical pages never meet in one physical page, remapped or not, and all
\* lie inside the physical memory.
MappingsDisjoint ==
    /\ \A p, q \in Mapped :
          address_map[p].physical_address = address_map[q].physical_address => p = q
    /\ \A p \in Mapped : address_map[p].physical_address < used_physical_memory
    /\ used_physical_memory <= PHYSICAL_PAGES
=============================================================================
