---------------------------- MODULE GuestMemory ----------------------------
(***************************************************************************)
(* What the MMU's sized accessors promise the CPU (spec 4.1) for an      *)
(* access that lies within one page: a read or write of N bytes succeeds *)
(* exactly when that page is mapped, and then reads or writes exactly the *)
(* N guest bytes from that address on.  Alignment, and so an access that  *)
(* crosses a page end, is the guest CPU's concern and outside the         *)
(* contract.  Only the guest bytes in GuestAddrs are kept; the others are *)
(* never touched by the accesses considered.                              *)
(***************************************************************************)
EXTENDS Integers, Sequences

CONSTANTS
  PageSize,    \* bytes per page
  Mapped,      \* the guest pages that are mapped
  AccessAddrs, \* the guest addresses accesses start at
  Sizes,       \* access widths in bytes
  Vals,        \* byte values written
  GuestAddrs   \* the guest bytes those accesses reach

VARIABLES
  mem,         \* the guest bytes
  result,      \* the return value of the last access
  readData,    \* the bytes the last successful read returned
  access       \* the CPU's last request: [op, addr, size]

vars == <<mem, result, readData, access>>

Span(a, n) == a .. a + n - 1
Accessible(a, n) == \A g \in Span(a, n) : g \div PageSize \in Mapped

Init ==
  /\ mem = [g \in GuestAddrs |-> 0]
  /\ result = TRUE
  /\ readData = <<>>
  /\ access = [op |-> "none", addr |-> 0, size |-> 0]

Read(a, n) ==
  LET m == mem
  IN /\ access' = [op |-> "read", addr |-> a, size |-> n]
     /\ result' = Accessible(a, n)
     /\ readData' = IF Accessible(a, n) THEN [i \in 1 .. n |-> m[a + i - 1]] ELSE readData
     /\ UNCHANGED mem

Write(a, n, v) ==
  LET m == mem
  IN /\ access' = [op |-> "write", addr |-> a, size |-> n]
     /\ result' = Accessible(a, n)
     /\ mem' = IF Accessible(a, n)
               THEN [g \in GuestAddrs |-> IF g \in Span(a, n) THEN v ELSE m[g]]
               ELSE m
     /\ UNCHANGED readData

Next == \E a \in AccessAddrs, n \in Sizes :
          \/ Read(a, n)
          \/ \E v \in Vals : Write(a, n, v)

Spec == Init /\ [][Next]_vars
=============================================================================
