-------------------------------- MODULE Eeprom --------------------------------
(***************************************************************************)
(* The EEPROM driver's split of a write into page bursts, and what the      *)
(* AT24C32 behind it does with a burst.  The device is external: within one *)
(* burst its address counter stays in the page it was given and rolls over  *)
(* to the page's first byte, which is why the driver clamps every burst.    *)
(***************************************************************************)
EXTENDS Integers

CONSTANTS
    EEPROM_PAGE_SIZE,    \* bytes of a write page
    EEPROM_TOTAL_BYTES   \* bytes of the device

ASSUME EepromAssumption ==
    /\ EEPROM_PAGE_SIZE \in Nat \ {0}
    /\ EEPROM_TOTAL_BYTES \in Nat
    /\ EEPROM_TOTAL_BYTES % EEPROM_PAGE_SIZE = 0

Addresses == 0 .. EEPROM_TOTAL_BYTES - 1

\* A transfer past the end of the device is refused with kEeprom_LengthOverflow.
Fits(address, len) == address + len <= EEPROM_TOTAL_BYTES

\* Mutant: the burst is not clamped to the page.
chunk_size_Unclamped(current_addr, remaining_bytes) == remaining_bytes

\* Mutant: one byte too few at the end of a page.
chunk_size_ShortPage(current_addr, remaining_bytes) ==
    LET max_page_writable == EEPROM_PAGE_SIZE - 1 - (current_addr % EEPROM_PAGE_SIZE)
    IN  IF remaining_bytes < max_page_writable THEN remaining_bytes ELSE max_page_writable

\* The bytes the next burst carries: up to the end of the page at most.
chunk_size(current_addr, remaining_bytes) ==
    LET max_page_writable == EEPROM_PAGE_SIZE - (current_addr % EEPROM_PAGE_SIZE)
    IN  IF remaining_bytes < max_page_writable THEN remaining_bytes ELSE max_page_writable

\* Where the device puts byte k of a burst that starts at address.
Landing(address, k) ==
    LET page_offset == address % EEPROM_PAGE_SIZE
    IN  address - page_offset + ((page_offset + k) % EEPROM_PAGE_SIZE)

\* The memory once the device has stored n bytes of a burst, data[from] first.
EEPROM_Write_Raw_Page(memory, address, data, from, n) ==
    [a \in Addresses |->
        IF \E k \in 0 .. n - 1 : Landing(address, k) = a
        THEN data[from + (CHOOSE k \in 0 .. n - 1 : Landing(address, k) = a)]
        ELSE memory[a]]
=============================================================================
