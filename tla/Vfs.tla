--------------------------------- MODULE Vfs ---------------------------------
(***************************************************************************)
(* Volumes and those who refer to them: the mount table of fs/vfs.c, the   *)
(* reference counts of lib/refcount.h, and the commands of the terminal    *)
(* (kernel/terminal.c), which is the only task that uses files.  A command *)
(* is a step, with the takes and releases in the order of the code.        *)
(***************************************************************************)
EXTENDS Integers, FiniteSets, Sequences

CONSTANTS
  Partitions,    \* <<disk, partition>> pairs; each has a mount point of its own
  BOOT,          \* the one that terminal_mount_root mounts
  Infos,         \* the vfs_info_t that malloc may return
  NULL,
  MaxLost        \* bound on the references that are lost

ASSUME VfsAssumption == BOOT \in Partitions /\ NULL \notin Infos /\ MaxLost \in Nat

VARIABLES
  info,          \* [count, destroyed, used] of every vfs_info_t
  mountpoints,   \* partition -> its info, or NULL
  root,          \* the info of the terminal's root directory, or NULL
  current_dir,   \* the info of its current directory, or NULL
  lost_refs      \* history: references that nothing will release

vfsVars == <<info, mountpoints, root, current_dir, lost_refs>>

NoInfo == [count |-> 0, destroyed |-> FALSE, used |-> FALSE]

(***************************************************************************)
(* rc_take, rc_decref and rc_destroy_if_less.  The destructor frees the    *)
(* object, which malloc may then return again.                             *)
(***************************************************************************)
Take(v, i) == IF v[i].destroyed THEN v ELSE [v EXCEPT ![i].count = @ + 1]

Release(v, i) ==
  IF v[i].count = 1 THEN [v EXCEPT ![i] = NoInfo] ELSE [v EXCEPT ![i].count = @ - 1]

rc_destroy_if_less(v, i, value) ==
  IF v[i].count >= value THEN v ELSE [v EXCEPT ![i].destroyed = TRUE]

(***************************************************************************)
(* vfs_find_files with terminal_resolve_filename.  A pattern leads to some *)
(* files of one volume: that of the current directory, or a mounted one    *)
(* whose mount point it names.  Every file found, and every directory on   *)
(* the way to it, takes a reference; those on the way are dropped from the *)
(* queue unreleased.  The terminal keeps the file that is chosen and       *)
(* releases the others; when the choice is cancelled, all but the first.   *)
(***************************************************************************)
Volumes == {i \in Infos : i = current_dir \/ \E p \in Partitions : mountpoints[p] = i}

Searches ==
  {s \in [at : Volumes, passed : 0 .. 1, found : 0 .. 2, choice : {"file", "dir", "none", "cancel"}] :
     /\ s.found = 0 => s.choice = "none"
     /\ s.found = 1 => s.choice \in {"file", "dir"}}

Plus(v, i, n) == [v EXCEPT ![i].count = @ + n]

vfs_find_files(s) == Plus(info, s.at, s.passed + s.found)

\* What stays of the references: the chosen file's and those that are lost.
Dropped(s) == s.passed + (IF s.choice = "cancel" THEN 1 ELSE 0)
Chosen(s) == IF s.choice \in {"file", "dir"} THEN 1 ELSE 0

Resolved(s) == Plus(vfs_find_files(s), s.at, Dropped(s) + Chosen(s) - s.passed - s.found)

Lose(i, n) ==
  /\ lost_refs[i] + n <= MaxLost
  /\ lost_refs' = IF n = 0 THEN lost_refs ELSE [lost_refs EXCEPT ![i] = @ + n]

(***************************************************************************)
(* ls and rm: what is found is released.  Removing does not touch counts.  *)
(***************************************************************************)
List(s) ==
  /\ s.choice # "cancel"
  /\ info' = Plus(vfs_find_files(s), s.at, - s.found)
  /\ Lose(s.at, s.passed)
  /\ UNCHANGED <<mountpoints, root, current_dir>>

\* view and write: a stream on the file holds one more until vfs_close.  The
\* entry of a directory is released by view and merely freed by write.
Opened(v, i) == Take(v, i)

ViewFile(s) ==
  /\ current_dir # NULL
  /\ info' = CASE s.choice = "file" -> Release(Release(Opened(Resolved(s), s.at), s.at), s.at)
               [] s.choice = "dir" -> Release(Resolved(s), s.at)
               [] OTHER -> Resolved(s)
  /\ Lose(s.at, Dropped(s))
  /\ UNCHANGED <<mountpoints, root, current_dir>>

Write(s) ==
  /\ current_dir # NULL
  /\ info' = IF s.choice = "file" THEN Release(Release(Opened(Resolved(s), s.at), s.at), s.at)
             ELSE Resolved(s)
  /\ Lose(s.at, Dropped(s) + (IF s.choice = "dir" THEN 1 ELSE 0))
  /\ UNCHANGED <<mountpoints, root, current_dir>>

\* exec: the stream is closed, and the file that was found is merely freed.
Exec(s) ==
  /\ current_dir # NULL
  /\ info' = IF s.choice = "file" THEN Release(Opened(Resolved(s), s.at), s.at) ELSE Resolved(s)
  /\ Lose(s.at, Dropped(s) + Chosen(s))
  /\ UNCHANGED <<mountpoints, root, current_dir>>

(***************************************************************************)
(* cd, without an argument and with one; newfile and newdir, which take no *)
(* reference, change nothing here.                                         *)
(***************************************************************************)
\* Mutant: the current directory shares the reference of the root.
ChangeDirHome_shared ==
  /\ current_dir # NULL
  /\ info' = Release(info, current_dir)
  /\ current_dir' = root
  /\ UNCHANGED <<mountpoints, root, lost_refs>>

ChangeDirHome ==
  /\ current_dir # NULL
  /\ info' = Take(Release(info, current_dir), root)
  /\ current_dir' = root
  /\ UNCHANGED <<mountpoints, root, lost_refs>>

ChangeDir(s) ==
  /\ current_dir # NULL
  /\ IF s.choice = "dir"
     THEN /\ info' = Release(Take(Release(Resolved(s), current_dir), s.at), s.at)
          /\ current_dir' = s.at
          /\ Lose(s.at, Dropped(s))
     ELSE /\ info' = Resolved(s)
          /\ Lose(s.at, Dropped(s) + Chosen(s))
          /\ UNCHANGED current_dir
  /\ UNCHANGED <<mountpoints, root>>

\* chroot keeps the reference of the directory that was found.
ChangeRoot(s) ==
  LET released == IF root = NULL THEN Resolved(s) ELSE Release(Resolved(s), root)
  IN  /\ IF s.choice = "dir"
         THEN /\ info' = IF current_dir = NULL THEN Take(released, s.at) ELSE released
              /\ root' = s.at
              /\ current_dir' = IF current_dir = NULL THEN s.at ELSE current_dir
              /\ Lose(s.at, Dropped(s))
         ELSE /\ info' = Resolved(s)
              /\ Lose(s.at, Dropped(s) + Chosen(s))
              /\ UNCHANGED <<root, current_dir>>
      /\ UNCHANGED mountpoints

FsLeave ==
  LET left == IF root = NULL THEN info ELSE Release(info, root)
  IN  /\ info' = IF current_dir = NULL THEN left ELSE Release(left, current_dir)
      /\ root' = NULL /\ current_dir' = NULL
      /\ UNCHANGED <<mountpoints, lost_refs>>

(***************************************************************************)
(* vfs_mount_partition and vfs_unmount_partition: by the numbers with a    *)
(* threshold of 2, and by name with 3, as the search for the mount point   *)
(* holds a reference of its own meanwhile.                                 *)
(***************************************************************************)
Mount(p, i) ==
  /\ mountpoints[p] = NULL /\ ~ info[i].used
  /\ info' = Take([info EXCEPT ![i].used = TRUE], i)
  /\ mountpoints' = [mountpoints EXCEPT ![p] = i]
  /\ UNCHANGED <<root, current_dir, lost_refs>>

vfs_unmount_partition(v, p, threshold) ==
  LET i == mountpoints[p]
      destroyed == rc_destroy_if_less(v, i, threshold)
  IN  IF destroyed = v THEN v ELSE Release(destroyed, i)

Unmount(p) ==
  /\ mountpoints[p] # NULL
  /\ info' = vfs_unmount_partition(info, p, 2)
  /\ mountpoints' = IF info' = info THEN mountpoints ELSE [mountpoints EXCEPT ![p] = NULL]
  /\ UNCHANGED <<root, current_dir, lost_refs>>

UnmountByName(p) ==
  LET found == Take(info, mountpoints[p])
      after == vfs_unmount_partition(found, p, 3)
  IN  /\ mountpoints[p] # NULL
      /\ info' = Release(after, mountpoints[p])
      /\ mountpoints' = IF after = found THEN mountpoints ELSE [mountpoints EXCEPT ![p] = NULL]
      /\ UNCHANGED <<root, current_dir, lost_refs>>

(***************************************************************************)
(* At boot terminal_mount_root mounts the boot partition and makes it the  *)
(* terminal's root and current directory; without a boot disk there is     *)
(* none of the three, and mount and chroot provide them later.             *)
(***************************************************************************)
Booted(i) ==
  /\ info = [j \in Infos |-> IF j = i THEN [count |-> 3, destroyed |-> FALSE, used |-> TRUE]
                             ELSE NoInfo]
  /\ mountpoints = [p \in Partitions |-> IF p = BOOT THEN i ELSE NULL]
  /\ root = i /\ current_dir = i

Diskless ==
  /\ info = [j \in Infos |-> NoInfo]
  /\ mountpoints = [p \in Partitions |-> NULL]
  /\ root = NULL /\ current_dir = NULL

VfsInit ==
  /\ Diskless \/ \E i \in Infos : Booted(i)
  /\ lost_refs = [i \in Infos |-> 0]

VfsNext ==
  \/ \E s \in Searches :
       List(s) \/ ViewFile(s) \/ Write(s) \/ Exec(s) \/ ChangeDir(s) \/ ChangeRoot(s)
  \/ ChangeDirHome
  \/ FsLeave
  \/ \E p \in Partitions :
       \/ \E i \in Infos : Mount(p, i)
       \/ Unmount(p)
       \/ UnmountByName(p)

VfsSpec == VfsInit /\ [][VfsNext]_vfsVars

-----------------------------------------------------------------------------
(***************************************************************************)
(* Between two commands the references of a volume are those of the table  *)
(* and of the two directories of the terminal, and the lost ones; a volume *)
(* the terminal stands in is mounted, so no command reaches freed memory,  *)
(* and what was unmounted is freed, its memory ready for the next mount.   *)
(***************************************************************************)
Holders(i) ==
  Cardinality({p \in Partitions : mountpoints[p] = i})
    + (IF root = i THEN 1 ELSE 0) + (IF current_dir = i THEN 1 ELSE 0)

Mounted == {mountpoints[p] : p \in Partitions} \ {NULL}

VolumesHeld ==
  /\ {root, current_dir} \subseteq Mounted \union {NULL}
  /\ \A i \in Infos :
       /\ info[i].count = Holders(i) + lost_refs[i]
       /\ info[i].used <=> i \in Mounted
       /\ ~ info[i].destroyed

(***************************************************************************)
(* Both forms of umount succeed exactly when nothing refers to the volume  *)
(* any more but the table and what was lost: neither takes a volume from   *)
(* under the terminal, and neither refuses one that nobody uses.           *)
(***************************************************************************)
UnmountsTheUnused ==
  \A p \in Partitions :
    mountpoints[p] # NULL =>
      LET i == mountpoints[p]
          unused == i \notin {root, current_dir} /\ lost_refs[i] = 0
          found == Take(info, i)
      IN  /\ unused <=> vfs_unmount_partition(info, p, 2) # info
          /\ unused <=> vfs_unmount_partition(found, p, 3) # found

(***************************************************************************)
(* A mounted volume is held by what uses it, and an unmount by partition   *)
(* ends only a volume that nothing uses (vfs.c:146, refcount.h:94).        *)
(***************************************************************************)
VolumesSound == VolumesHeld /\ UnmountsTheUnused
=============================================================================
