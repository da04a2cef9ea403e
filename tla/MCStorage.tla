------------------------------ MODULE MCStorage ------------------------------
(***************************************************************************)
(* Disks and files for TLC: the block cache over a sector and a cluster of *)
(* two, with the updates of one sector inside the cluster that fat32       *)
(* makes, a small FAT32 volume, and the mounted volumes with the terminal. *)
(* A behaviour is one of a single part, which the initial state picks; the *)
(* variables of the others stay as they are. Of the names one takes one    *)
(* LFN record, the other two; writes go within a cluster, over its end,    *)
(* and behind the end of the file.                                         *)
(***************************************************************************)
EXTENDS BlockCache, Vfs, Fat32

CONSTANTS a, b

VARIABLE part

MCSectors == 0 .. 2
MCRequests == {<<0, 1>>, <<1, 2>>, <<2, 1>>}
MCParts == [n \in {a, b} |-> IF n = a THEN 1 ELSE 2]
MCWrites == {<<EPC - 1, 2>>, <<EPC + 1, 1>>}

MCInit ==
  /\ part \in {"files", "cache", "volumes"} /\ FatInit /\ Init /\ VfsInit
  /\ part = "volumes" \/ Diskless

MCNext ==
  /\ UNCHANGED part
  /\ \/ part = "files" /\ FatNext /\ UNCHANGED <<vars, vfsVars>>
     \/ part = "cache" /\ Next /\ UNCHANGED <<fatVars, vfsVars>>
     \/ part = "volumes" /\ VfsNext /\ UNCHANGED <<vars, fatVars>>

MCSpec == MCInit /\ [][MCNext]_<<part, vars, fatVars, vfsVars>>

=============================================================================
