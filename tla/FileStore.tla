------------------------------ MODULE FileStore ------------------------------
(***************************************************************************)
(* What the calls of fs/fat32/fat32.c promise: a store of named files, a   *)
(* function from <<directory, name>> to the directory that the file is, or *)
(* 0, and its content.  A call changes the file that it names and no       *)
(* other; a file has what was written, with zeros where nothing was.       *)
(***************************************************************************)
EXTENDS Integers, Sequences

CONSTANT Zero

Created(store, k, dir) ==
  [j \in DOMAIN store \union {k} |->
     IF j = k THEN [dir |-> dir, content |-> <<>>] ELSE store[j]]

\* The content with v at positions start .. start + len - 1.
Overwritten(content, start, len, v) ==
  [i \in 1 .. (IF Len(content) > start + len THEN Len(content) ELSE start + len) |->
     IF i > start /\ i <= start + len THEN v
     ELSE IF i <= Len(content) THEN content[i] ELSE Zero]

Written(store, k, start, len, v) ==
  [store EXCEPT ![k].content = Overwritten(@, start, len, v)]

Erased(store, k) == [store EXCEPT ![k].content = <<>>]

\* With a directory goes what is in it.
Removed(store, k) ==
  [j \in {j \in DOMAIN store : j # k /\ (store[k].dir = 0 \/ j[1] # store[k].dir)} |-> store[j]]
=============================================================================
