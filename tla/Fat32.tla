-------------------------------- MODULE Fat32 --------------------------------
(***************************************************************************)
(* fs/fat32/fat32.c over a volume that transfers without errors: the file  *)
(* allocation table, the hint of the fsinfo sector, directories with long  *)
(* names, and the calls of fs/vfs.c on them.  One task calls; a call is a  *)
(* step.  A slot of a cluster holds a directory entry or a piece of a      *)
(* file.  Source cluster k is k - 1 here, so that the root is cluster 1.   *)
(***************************************************************************)
EXTENDS Integers, Sequences, FiniteSets, SequencesExt

CONSTANTS
  N,             \* clusters
  EPC,           \* entries_per_cluster
  Names,
  DirNames,      \* those that directories are given
  Parts,         \* the number of LFN records that each name takes
  Bytes,         \* what a slot of a file holds
  Writes,        \* the <<start, length>> of writes
  OldFile        \* the name of a file that the volume comes with

ASSUME Fat32Assumption ==
  /\ N \in Nat /\ N >= 5 /\ EPC \in Nat /\ EPC >= 2
  /\ Parts \in [Names -> Nat \ {0}] /\ OldFile \in Names /\ DirNames \subseteq Names
  /\ (Names \union Bytes) \intersect {".", ".."} = {} /\ Bytes # {}
  /\ \A w \in Writes : w[1] \in Nat /\ w[2] \in Nat \ {0}

VARIABLES
  fat,       \* the file allocation table
  data,      \* the slots of every cluster
  hint,      \* fsinfo->next_free_cluster
  cwd,       \* the cluster of current_dir
  store,     \* history: the files that the calls have made, written and removed
  stopped    \* "no", or how the model's program has ended

volume == [fat |-> fat, data |-> data, hint |-> hint, over |-> FALSE]
fatVars == <<fat, data, hint, cwd, store, stopped>>

FS == INSTANCE FileStore WITH Zero <- ""

Clusters == 1 .. N
ROOT == 1
EMPTY_CLUSTER == 0
LAST_CLUSTER == -1
BAD_CLUSTER == -2

Slot(kind, name, part, cluster, size) ==
  [kind |-> kind, name |-> name, part |-> part, cluster |-> cluster, size |-> size]
ZERO == Slot("zero", "", 0, 0, 0)
Value(v) == IF v = "zero" THEN ZERO ELSE Slot("data", v, 0, 0, 0)

(***************************************************************************)
(* Chains of clusters.  Entry 0 of the table marks the medium and reads as *)
(* a last cluster; an index outside the table is a failed read.            *)
(***************************************************************************)
fat32_fat_at(d, c) ==
  IF c \in Clusters THEN d.fat[c] ELSE IF c = 0 THEN LAST_CLUSTER ELSE BAD_CLUSTER

\* The clusters that position.cluster_num takes from c on.
Chain(d, c) ==
  LET walk[i \in 0 .. N] ==
        IF i = 0 THEN <<c>>
        ELSE LET walked == walk[i - 1]
                 next   == fat32_fat_at(d, Last(walked))
             IN  IF next \in Clusters THEN Append(walked, next) ELSE walked
  IN  walk[N]

\* The chain ends at a last cluster and not with FAT32_HAS_READING_ERROR.
Complete(d, c) == fat32_fat_at(d, Last(Chain(d, c))) = LAST_CLUSTER

(***************************************************************************)
(* fat32_take_new_cluster_sync: the search goes on to a second free        *)
(* cluster, which becomes the hint.  It knows no end of the volume: past   *)
(* the last cluster come entries of the table that no cluster belongs to.  *)
(***************************************************************************)
FreeFrom(d) == {c \in d.hint .. N : d.fat[c] = EMPTY_CLUSTER}
Taken(d) == Min(FreeFrom(d) \union {N})

\* Mutant: the table entry of the cluster taken is not written.
fat32_take_new_cluster_unmarked(d, prev) ==
  IF FreeFrom(d) = {} THEN [d EXCEPT !.over = TRUE]
  ELSE [d EXCEPT !.hint = Min((FreeFrom(d) \ {Taken(d)}) \union {N + 1}),
                 !.fat[IF prev = 0 THEN Taken(d) ELSE prev] = Taken(d)]

fat32_take_new_cluster(d, prev) ==
  IF FreeFrom(d) = {} THEN [d EXCEPT !.over = TRUE]
  ELSE [d EXCEPT !.hint = Min((FreeFrom(d) \ {Taken(d)}) \union {N + 1}),
                 !.fat[IF prev = 0 THEN Taken(d) ELSE prev] = Taken(d),
                 !.fat[Taken(d)] = LAST_CLUSTER]

\* Mutant: the lower hint is stored, so that clusters are used again.
fat32_release_clusters_hinted(d, c) ==
  [d EXCEPT !.fat = [k \in Clusters |-> IF k \in Range(Chain(d, c)) THEN EMPTY_CLUSTER ELSE @[k]],
            !.hint = Min(Range(Chain(d, c)) \union {@})]

\* fat32_release_clusters_sync: the hint that it computes is not stored.
fat32_release_clusters(d, c) ==
  [d EXCEPT !.fat = [k \in Clusters |-> IF k \in Range(Chain(d, c)) THEN EMPTY_CLUSTER ELSE @[k]]]

(***************************************************************************)
(* Directories.  A name is the sequence of its parts; fat32_read_directory *)
(* collects them from LFN records, the last part first, up to the record   *)
(* that they belong to.  A zero slot ends the reading of its cluster only, *)
(* and records marked as deleted leave collected parts in place.           *)
(***************************************************************************)
NameOf(n) == [i \in 1 .. Parts[n] |-> <<n, i>>]

Slots(d, c) ==
  LET chain == Chain(d, c)
  IN  [k \in 1 .. Len(chain) * EPC |-> <<chain[(k - 1) \div EPC + 1], ((k - 1) % EPC) + 1>>]
At(d, at) == d.data[at[1]][at[2]]

\* The records go to the places, as far as there are any.
Put(d, places, records) ==
  LET To(c, i) == {k \in DOMAIN places \intersect DOMAIN records : places[k] = <<c, i>>}
  IN  [d EXCEPT !.data = [c \in Clusters |-> [i \in 1 .. EPC |->
         IF To(c, i) = {} THEN @[c][i] ELSE records[Max(To(c, i))]]]]

\* A file is listed for every record of its own that is read, under the parts
\* that were read since the record before it.
fat32_read_directory(d, c) ==
  LET at == Slots(d, c)
      Read(k) == \A i \in 1 .. at[k][2] : d.data[at[k][1]][i].kind # "zero"
      lfns == {k \in DOMAIN at : Read(k) /\ At(d, at[k]).kind = "lfn"}
      own == {k \in DOMAIN at : Read(k) /\ At(d, at[k]).kind \notin {"lfn", "deleted"}}
      Gathered(k) == {j \in lfns : j < k /\ \A i \in own : i < j \/ k <= i}
      Part(j) == <<At(d, at[j]).name, At(d, at[j]).part>>
      File(k) ==
        LET slot == At(d, at[k])
        IN  [name |-> IF Gathered(k) = {} THEN <<<<slot.name, 0>>>>
                      ELSE LET read == SelectSeq([j \in 1 .. k |-> j], LAMBDA j : j \in Gathered(k))
                           IN  [i \in 1 .. Len(read) |-> Part(read[Len(read) + 1 - i])],
             kind |-> slot.kind, size |-> slot.size, entry |-> at[k],
             first |-> at[IF Gathered(k) = {} THEN k ELSE Min(Gathered(k))],
             \* vfs_find_files_in_directory: a directory in cluster 0 is the root
             cluster |-> IF slot.kind = "dir" /\ slot.cluster = 0 THEN ROOT ELSE slot.cluster]
  IN  {File(k) : k \in own}

Dots == {<<<<".", 0>>>>, <<<<"..", 0>>>>}
Listed(d, c) == IF Complete(d, c) THEN fat32_read_directory(d, c) ELSE {}

\* fat32_update_directory_entry also brings back the attributes of the record.
fat32_update_directory_entry(d, file) ==
  [d EXCEPT !.data[file.entry[1]][file.entry[2]] =
     [@ EXCEPT !.kind = file.kind, !.cluster = file.cluster, !.size = file.size]]

(***************************************************************************)
(* fat32_read_file and fat32_write_file_sync.  A write takes the clusters  *)
(* that the chain is short of, one after the other.                        *)
(***************************************************************************)
ContentOf(d, file) ==
  LET read == Slots(d, file.cluster)
  IN  [p \in 1 .. file.size |-> IF p \in DOMAIN read THEN At(d, read[p]) ELSE ZERO]

\* The volume after the chain of c has been made to have k clusters.
Extended(d, c, k) ==
  LET missing == k - Len(Chain(d, c))
      grow[i \in 0 .. missing] ==
        IF i = 0 THEN d
        ELSE LET grown == grow[i - 1]
             IN  fat32_take_new_cluster(grown, Last(Chain(grown, c)))
  IN  IF missing <= 0 THEN d ELSE grow[missing]

fat32_write_file(d, file, start, slots) ==
  LET started == IF file.cluster = 0 THEN fat32_take_new_cluster(d, 0) ELSE d
      cluster == IF file.cluster = 0 THEN Taken(d) ELSE file.cluster
      grown   == Extended(started, cluster, (start + Len(slots) - 1) \div EPC + 1)
      written == Put(grown, SubSeq(Slots(grown, cluster), start + 1, start + Len(slots)), slots)
  IN  IF grown.over THEN grown
      ELSE fat32_update_directory_entry(written,
             [file EXCEPT !.cluster = cluster,
                          !.size = IF file.kind = "dir" THEN @ ELSE Max({@, start + Len(slots)})])

fat32_erase_file(d, file) ==
  fat32_update_directory_entry(
    IF file.cluster = 0 THEN d ELSE fat32_release_clusters(d, file.cluster),
    [file EXCEPT !.cluster = 0, !.size = 0])

(***************************************************************************)
(* fat32_create_file: a run of free slots is looked for, long enough for   *)
(* the LFN records and the record itself.  A zero slot ends the search and *)
(* counts as any number of slots.  At the end of a full directory the      *)
(* second cluster is taken for the same predecessor as the first.          *)
(***************************************************************************)
Place(d, c, need) ==
  LET at == Slots(d, c)
      Free(from, to) == \A k \in from .. to : At(d, at[k]).kind \in {"zero", "deleted"}
      runs == {k \in DOMAIN at : \E e \in k .. Len(at) :
                 Free(k, e) /\ (e - k + 1 >= need \/ At(d, at[e]).kind = "zero")}
      tails == {k \in DOMAIN at : Free(k, Len(at))}
      last == Last(Chain(d, c))
  IN  IF runs # {} THEN [d |-> d, start |-> at[Min(runs)]]
      ELSE IF tails = {}
      THEN [d |-> fat32_take_new_cluster(fat32_take_new_cluster(d, last), last),
            start |-> <<Taken(d), 1>>]
      ELSE [d |-> fat32_take_new_cluster(d, last), start |-> at[Min(tails)]]

\* The records of a file: the LFN records, the last part first, and its own.
Records(n, kind) ==
  [i \in 1 .. Parts[n] + 1 |->
     IF i <= Parts[n] THEN Slot("lfn", n, Parts[n] + 1 - i, 0, 0) ELSE Slot(kind, n, 0, 0, 0)]

\* The slots from a place on, along the chain.
From(d, start) == SubSeq(Slots(d, start[1]), start[2], Len(Slots(d, start[1])))

fat32_create_file(d, c, n, kind) ==
  LET place  == Place(d, c, Parts[n] + 1)
      places == From(place.d, place.start)
      made   == Put(place.d, places, Records(n, kind))
  IN  IF place.d.over THEN [d |-> place.d, ok |-> FALSE, entry |-> <<0, 0>>]
      ELSE IF Len(places) <= Parts[n] THEN [d |-> made, ok |-> FALSE, entry |-> <<0, 0>>]
      ELSE [d |-> made, ok |-> TRUE, entry |-> places[Parts[n] + 1]]

\* What follows fat32_create_file, whose result is `created`.  The cluster of
\* ".." is stored shifted right by 16 bits, in the lower word.
fat32_create_directory(created, n) ==
  LET new     == Taken(created.d)
      file    == [name |-> NameOf(n), kind |-> "dir", size |-> 0, cluster |-> new,
                  entry |-> created.entry]
      dots    == <<Slot("dir", ".", 0, new, 0), Slot("dir", "..", 0, 0, 0)>>
      taken   == fat32_take_new_cluster(created.d, 0)
  IN  IF ~ created.ok THEN created.d
      ELSE IF taken.over THEN taken
      ELSE fat32_write_file(fat32_update_directory_entry(taken, file), file, 0, dots)

(***************************************************************************)
(* fat32_remove_file: the chain, then the records from the first on.  In   *)
(* every cluster the deletion starts at the index that was right for the   *)
(* first.                                                                  *)
(***************************************************************************)
fat32_remove_directory_entry(d, file) ==
  LET at == From(d, <<file.first[1], 1>>)
      from == {k \in DOMAIN at : at[k][2] >= file.first[2]}
      gone == {at[k] : k \in {k \in from : \A j \in from : j < k => At(d, at[j]).kind = "lfn"}}
  IN  [d EXCEPT !.data = [c \in Clusters |-> [i \in 1 .. EPC |->
         IF <<c, i>> \in gone THEN [d.data[c][i] EXCEPT !.kind = "deleted"] ELSE @[c][i]]]]

fat32_remove_file(d, file) == fat32_remove_directory_entry(fat32_erase_file(d, file), file)

(***************************************************************************)
(* The commands: a file is found by its path from the root or from the     *)
(* current directory, a new one is made in the current directory.          *)
(***************************************************************************)
Subdirectories(d, c) == {f \in Listed(d, c) : f.kind = "dir" /\ f.name \notin Dots}

\* The directories that paths lead to, DEPTH = 2 deep.
Below(d, near) == near \union UNION {{f.cluster : f \in Subdirectories(d, c)} : c \in near}
Directories(d) == Below(d, Below(d, {ROOT}))

Files(d) == UNION {Listed(d, c) : c \in Directories(d)}

\* A call that runs past the volume is the last the model follows.
Apply(d, promised) ==
  /\ fat' = IF d.over THEN fat ELSE d.fat
  /\ data' = IF d.over THEN data ELSE d.data
  /\ hint' = IF d.over THEN hint ELSE d.hint
  /\ store' = IF d.over THEN store ELSE promised
  /\ stopped' = IF d.over THEN "over" ELSE "no"
  /\ UNCHANGED cwd

\* The name is free, and the directory is there: a command in one that was
\* removed dereferences the NULL that fat32_find_files returns.
Creatable(n) ==
  /\ Complete(volume, cwd)
  /\ \A f \in Listed(volume, cwd) : f.name # NameOf(n)

NewFile(n) ==
  /\ Creatable(n)
  /\ \E created \in {fat32_create_file(volume, cwd, n, "file")} :
       Apply(created.d, IF created.ok THEN FS!Created(store, <<cwd, NameOf(n)>>, 0) ELSE store)

\* Directories are made in the root, a bound of the model.
NewDirectory(n) ==
  /\ Creatable(n) /\ cwd = ROOT
  /\ \E created \in {fat32_create_file(volume, cwd, n, "dir")} :
       Apply(fat32_create_directory(created, n),
             IF created.ok THEN FS!Created(store, <<cwd, NameOf(n)>>, Taken(created.d)) ELSE store)

NullDirectory ==
  /\ ~ Complete(volume, cwd)
  /\ stopped' = "null"
  /\ UNCHANGED <<fat, data, hint, cwd, store>>

WriteFile(c, file, start, len, v) ==
  /\ file.kind = "file"
  /\ Apply(fat32_write_file(volume, file, start, [i \in 1 .. len |-> Value(v)]),
           FS!Written(store, <<c, file.name>>, start, len, v))

EraseFile(c, file) ==
  /\ file.kind = "file"
  /\ Apply(fat32_erase_file(volume, file), FS!Erased(store, <<c, file.name>>))

\* "rm" takes "." and ".." as well; nobody asks for that here.
RemoveFile(c, file) ==
  /\ file.name \notin Dots
  /\ Apply(fat32_remove_file(volume, file), FS!Removed(store, <<c, file.name>>))

ChangeDirectory(file) ==
  /\ file.kind = "dir"
  /\ cwd' = file.cluster
  /\ UNCHANGED <<fat, data, hint, store, stopped>>

(***************************************************************************)
(* A volume with one file in two clusters that are not in order and a bad  *)
(* cluster.  Clusters from the hint on have not been used before.          *)
(***************************************************************************)
FatInit ==
  LET old  == CHOOSE v \in Bytes : TRUE
      own  == Records(OldFile, "file")
      root == [i \in 1 .. EPC |-> IF i < Len(own) THEN own[i]
                                  ELSE IF i = Len(own) THEN Slot("file", OldFile, 0, 3, EPC + 1)
                                  ELSE ZERO]
      first == [i \in 1 .. EPC |-> Value(old)]
      rest  == [i \in 1 .. EPC |-> IF i = 1 THEN Value(old) ELSE ZERO]
      blank == [i \in 1 .. EPC |-> ZERO]
  IN  /\ fat = [[c \in Clusters |-> EMPTY_CLUSTER] EXCEPT
                  ![ROOT] = LAST_CLUSTER, ![3] = 2, ![2] = LAST_CLUSTER, ![5] = BAD_CLUSTER]
      /\ data = [[c \in Clusters |-> blank] EXCEPT ![ROOT] = root, ![3] = first, ![2] = rest]
      /\ hint = 4 /\ cwd = ROOT /\ stopped = "no"
      /\ store = (<<ROOT, NameOf(OldFile)>> :>
                    [dir |-> 0, content |-> [i \in 1 .. EPC + 1 |-> old]])

FatNext ==
  /\ stopped = "no"
  /\ \/ \E n \in Names : NewFile(n)
     \/ \E n \in DirNames : NewDirectory(n)
     \/ NullDirectory
     \/ \E c \in Directories(volume) : \E file \in Listed(volume, c) :
          \/ \E w \in Writes, v \in Bytes : WriteFile(c, file, w[1], w[2], v)
          \/ EraseFile(c, file) \/ RemoveFile(c, file) \/ ChangeDirectory(file)

FatSpec == FatInit /\ [][FatNext]_fatVars

(***************************************************************************)
(* Properties                                                              *)
(***************************************************************************)
Owned(f) == IF f.cluster = 0 THEN {} ELSE Range(Chain(volume, f.cluster))
Real == {f \in Files(volume) : f.name \notin Dots}

\* Every chain that the root or a listed record leads to ends with a last
\* cluster, and no cluster is in two of them, whatever is written, erased,
\* removed and created again (fat32.c:364-440, 473-583): no write to a file
\* reaches another, and no cluster in use is handed out.
OwnersDisjoint ==
  /\ Complete(volume, ROOT)
  /\ \A f \in Real :
       /\ f.cluster # 0 => Complete(volume, f.cluster)
       /\ Owned(f) \intersect Range(Chain(volume, ROOT)) = {}
       /\ \A g \in Real : f # g => Owned(f) \intersect Owned(g) = {}

\* The directories list the files created in them and not removed, no others,
\* and every file reads back what was written to it, whatever happens to its
\* neighbours (fat32.c:115-302): the volume holds what its calls promise.
StorePromise ==
  store = [k \in UNION {{<<c, f.name>> : f \in {g \in Listed(volume, c) : g.name \notin Dots}} :
                         c \in Directories(volume)} |->
             LET f == CHOOSE g \in Listed(volume, k[1]) : g.name = k[2]
                 read == ContentOf(volume, f)
             IN  [dir |-> IF f.kind = "dir" THEN f.cluster ELSE 0,
                  content |-> [i \in 1 .. f.size |-> read[i].name]]]

\* A file that fat32_create_file reports as created is in its directory: "we
\* look for a fit free place in the folder, where the LFN records and the
\* record of the file itself will go" (fat32.c:760).
CreatedIsListed ==
  [][\A n \in Names :
       NewFile(n) /\ fat32_create_file(volume, cwd, n, "file").ok =>
         \E f \in Listed([volume EXCEPT !.fat = fat', !.data = data'], cwd) : f.name = NameOf(n)]_fatVars
=============================================================================
