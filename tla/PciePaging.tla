----------------------------- MODULE PciePaging -----------------------------
(***************************************************************************)
(* Block transfers through the windows (BARs) of the PCIe device.          *)
(*                                                                         *)
(* A BAR shows one page of the SDRAM (BAR2) or of the Wishbone bus (BAR4)  *)
(* at a time, chosen by a page register.  A block is transferred page by   *)
(* page: the operators give, for every unit of the caller's buffer, the    *)
(* address of the device it is transferred from.                           *)
(***************************************************************************)
EXTENDS Integers, Sequences

CONSTANT PageSize    \* bytes of a page, bar2_size

ASSUME PagingAssumption == PageSize \in Nat \ {0}

\* PCIE_ADDR_SDRAM_PG and PCIE_ADDR_SDRAM_PG_OFFS.
Page(addr)   == addr \div PageSize
Offset(addr) == addr % PageSize

\* num_bytes_page: up to the end of the page, or what remains.
PageUnits(offs, rem) == IF offs + rem > PageSize THEN PageSize - offs ELSE rem

\* The pages visited, counted from the first; the last may have nothing left.
LastPage(addr, size) == (Offset(addr) + size) \div PageSize

\* offs: "Always 0 after the first page."
PageOffset(addr, n) == IF n = 0 THEN Offset(addr) ELSE 0

\* What has been transferred before the n-th page, num_bytes_rw.
Transferred(addr, size) ==
    LET done[n \in 0..(LastPage(addr, size) + 1)] ==
          IF n = 0 THEN 0
          ELSE LET d == done[n - 1] IN d + PageUnits(PageOffset(addr, n - 1), size - d)
    IN  done

\* _pcie_rw_bar2_block_raw: where the units of the buffer are transferred from.
Bar2Block(addr, size) ==
    LET done    == Transferred(addr, size)
        page(k) == CHOOSE n \in 0..LastPage(addr, size) : done[n] < k /\ k <= done[n + 1]
        at(k, n) == (Page(addr) + n) * PageSize + PageOffset(addr, n) + (k - 1 - done[n])
    IN  [k \in 1..size |-> at(k, page(k))]
=============================================================================
