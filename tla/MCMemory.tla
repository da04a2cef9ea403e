------------------------------ MODULE MCMemory -------------------------------
(***************************************************************************)
(* The kernel's memory for TLC: frames and address spaces (Memory) and the *)
(* heap.  A behaviour is one of a single part, which the initial state     *)
(* picks; the variables of the other stay as they are.                     *)
(*                                                                         *)
(* Pages have 16 bytes, and a table four of them: the image is in pages 2  *)
(* and 3, the heap of a process goes up to page 4, mmap has pages 8 and 9, *)
(* the stack page 11, and the kernel the pages from 12 on.  The kernel's   *)
(* heap is scaled down by eight: an end block (8 bytes) is one unit, a     *)
(* header (16 bytes) two, and the arena starts at an aligned address, as   *)
(* 4 MB into the kernel's half does.                                       *)
(***************************************************************************)
EXTENDS Memory, Heap, TLC

VARIABLE part

MCImages == {<<[vaddr |-> 32, memsz |-> 8]>>,
             <<[vaddr |-> 32, memsz |-> 16], [vaddr |-> 48, memsz |-> 16]>>}
\* Page boundaries and, in the middle of a page, where the short image ends.
MCBrkAddresses == {23, 39, 64, 71, 80}
MCMmapAddresses == {128, 135, 160}
MCLengths == {1, PAGE_SIZE + 1}
SlotSymmetry == Permutations(Slots)

MCInit == part \in {"heap", "pages"} /\ Init /\ HeapInit

MCNext ==
  /\ UNCHANGED part
  /\ \/ part = "pages" /\ Next /\ UNCHANGED heapVars
     \/ part = "heap" /\ HeapNext /\ UNCHANGED vars

MCSpec == MCInit /\ [][MCNext]_<<part, vars, heapVars>>
=============================================================================
