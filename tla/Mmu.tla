-------------------------------- MODULE Mmu --------------------------------
(***************************************************************************)
(* mmu_base's sized guest accessors (mem/src/mmu.cpp): each one asks the  *)
(* memory model for the host pointer of the start address and then reads *)
(* or writes N bytes through it.  Host memory is a flat byte array in     *)
(* which the frame of page table entry f starts at f * PageSize; frames   *)
(* that no guest page maps stand for unrelated host memory.  Only the     *)
(* host bytes an access can reach are kept.                               *)
(***************************************************************************)
EXTENDS Integers, Sequences

CONSTANTS
  None,
  PageBits,    \* psize_bits given to the mmu_base constructor
  VPages,      \* guest page numbers
  PageMap,     \* guest page -> host frame, or None when unmapped
  Offsets,     \* in-page offsets accesses start at
  Sizes,       \* access widths in bytes: 1, 2, 4, 8
  Vals         \* byte values written

ASSUME PageBits \in {12, 20}
ASSUME Sizes \subseteq {1, 2, 4, 8}

(* The page profile chosen by the constructor: the offset mask of a 1 MiB *)
(* or a 4 KiB page.                                                       *)
OffsetMask(psizeBits) == IF psizeBits = 20 THEN 2^20 - 1 ELSE 2^12 - 1

PageSize == OffsetMask(PageBits) + 1

AccessAddrs == {p * PageSize + o : p \in VPages, o \in Offsets}

(* get_host_pointer of the page-table model: the frame mapped for the    *)
(* address's page plus its in-page offset (addr & offset_mask, which is   *)
(* addr % PageSize for the power-of-two page), null for an unmapped page. *)
GetHostPointer(addr) ==
  LET page == addr \div PageSize
  IN IF page \notin DOMAIN PageMap \/ PageMap[page] = None THEN None
     ELSE PageMap[page] * PageSize + (addr % PageSize)

Span(a, n) == a .. a + n - 1

HostAddrs ==
  UNION {Span(GetHostPointer(a), n) : a \in {x \in AccessAddrs : GetHostPointer(x) # None},
                                      n \in Sizes}

VARIABLES
  host,        \* the host bytes
  result,      \* the boolean the last accessor returned to the CPU
  readData,    \* *data after the last successful read
  access       \* the accessor the CPU last called: [op, addr, size]

vars == <<host, result, readData, access>>

Init ==
  /\ host = [h \in HostAddrs |-> 0]
  /\ result = TRUE
  /\ readData = <<>>
  /\ access = [op |-> "none", addr |-> 0, size |-> 0]

(* read_8bit_data .. read_64bit_data: *data = *ptr through a pointer of  *)
(* the access width.                                                      *)
ReadData(addr, n) ==
  LET ptr == GetHostPointer(addr)
  IN /\ access' = [op |-> "read", addr |-> addr, size |-> n]
     /\ IF ptr = None
        THEN /\ result' = FALSE
             /\ UNCHANGED <<host, readData>>
        ELSE /\ readData' = [i \in 1 .. n |-> host[ptr + i - 1]]
             /\ result' = TRUE
             /\ UNCHANGED host

(* Mutant: the wide writes go through a pointer of half the width.       *)
WriteDataHalfWidth(addr, n, v) ==
  LET ptr == GetHostPointer(addr)
      w == IF n = 1 THEN 1 ELSE n \div 2
  IN /\ access' = [op |-> "write", addr |-> addr, size |-> n]
     /\ IF ptr = None
        THEN /\ result' = FALSE
             /\ UNCHANGED <<host, readData>>
        ELSE /\ host' = [h \in HostAddrs |-> IF h \in Span(ptr, w) THEN v ELSE host[h]]
             /\ result' = TRUE
             /\ UNCHANGED readData

(* write_8bit_data .. write_64bit_data: *ptr = *data.                     *)
WriteData(addr, n, v) ==
  LET ptr == GetHostPointer(addr)
  IN /\ access' = [op |-> "write", addr |-> addr, size |-> n]
     /\ IF ptr = None
        THEN /\ result' = FALSE
             /\ UNCHANGED <<host, readData>>
        ELSE /\ host' = [h \in HostAddrs |-> IF h \in Span(ptr, n) THEN v ELSE host[h]]
             /\ result' = TRUE
             /\ UNCHANGED readData

(* The CPU calls the accessors the constructor installed.                 *)
Next == \E a \in AccessAddrs, n \in Sizes :
          \/ ReadData(a, n)
          \/ \E v \in Vals : WriteData(a, n, v)

Spec == Init /\ [][Next]_vars

-----------------------------------------------------------------------------
Mapped == {p \in DOMAIN PageMap : PageMap[p] # None}

GuestAddrs == UNION {Span(a, n) : a \in AccessAddrs, n \in Sizes}

(* Where each guest byte lives in host memory, if it is mapped.           *)
HostOf == [g \in GuestAddrs |->
             IF GetHostPointer(g) \in HostAddrs THEN GetHostPointer(g) ELSE None]

(* The guest byte at g is the host byte its page maps it to.              *)
GuestView == [g \in GuestAddrs |-> IF HostOf[g] = None THEN 0 ELSE host[HostOf[g]]]

G == INSTANCE GuestMemory
       WITH mem <- GuestView, Mapped <- Mapped, PageSize <- PageSize,
            AccessAddrs <- AccessAddrs, Sizes <- Sizes, Vals <- Vals,
            GuestAddrs <- GuestAddrs

(* The accessors implement byte-addressed guest memory: every access     *)
(* reads or writes exactly the guest bytes it names, and fails exactly   *)
(* when one of their pages is unmapped (spec 4.1 "sized guest memory     *)
(* access").                                                               *)
GuestMemorySpec == G!Spec
=============================================================================
