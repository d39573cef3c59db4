----------------------------- MODULE AddrDecode -----------------------------
(***************************************************************************)
(* The combinational address decoder of the controller (addr_decode.sv):  *)
(* from the 22-bit word address captured on the Avalon port to the tag of  *)
(* the eight-word line buffer, the word's slot in that buffer, and the     *)
(* 48-bit HyperBus command/address (CA).  A CA is the triple of 16-bit      *)
(* halves in the order in which the burst machines put them on the bus.    *)
(***************************************************************************)
EXTENDS Naturals

\* The word addresses: s0_address[21:0].
LastWordAddress == 4194303
WordAddress == {a \in Nat : a <= LastWordAddress}

\* (in_addr >> 5) << 1, before it is truncated to a field.
TwiceGroup(addr) == 2 * (addr \div 32)

\* page_id: five bits of it.
PageId(addr) == TwiceGroup(addr) % 32

\* row_id: in_addr[23:10], fourteen bits.
RowId(addr) == (addr \div 1024) % 16384

\* buffer_addr: in_addr[4:0].
BufferAddr(addr) == addr % 32

\* out_addr[35:22], the row the device opens: tied to zero.
DeviceRow(addr) == 0

\* out_addr[21:16], the upper column address: six bits of (in_addr >> 5) << 1.
UpperColumn(addr) == TwiceGroup(addr) % 64

\* out_addr: bit 47 is the read strobe, bits 46:36 and 15:0 are zero (memory
\* space, wrapped burst, lower column zero).
OutAddr(addr, read) ==
    << 32768 * read, 64 * (DeviceRow(addr) % 1024) + UpperColumn(addr), 0 >>

\* The tag a buffered line is known by.
TagOf(addr) == [row |-> RowId(addr), page |-> PageId(addr)]
=============================================================================
