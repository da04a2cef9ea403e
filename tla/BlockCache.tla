------------------------------ MODULE BlockCache ------------------------------
(***************************************************************************)
(* The write-back cache of fs/disk.c before one disk, its two drivers      *)
(* (drivers/ahci.c, drivers/pio.c) and the shutdown routine that flushes   *)
(* it (drivers/power.c).  One task calls it; a call is one step.           *)
(***************************************************************************)
EXTENDS Integers, Sequences, SequencesExt

CONSTANTS
  Sectors,                 \* an interval of sector numbers
  Values,
  Requests,                \* the <<start, count>> that callers transfer
  DISK_MAX_CACHE_BLOCK

Extent(start, count) == start .. start + count - 1

\* Callers transfer single sectors and whole clusters (fat32.c, mbr.c): of two
\* requests that share a sector one contains the other.
ASSUME CacheAssumption ==
  /\ Sectors \subseteq Nat /\ Values # {} /\ DISK_MAX_CACHE_BLOCK \in Nat
  /\ Requests \subseteq Nat \X (Nat \ {0})
  /\ \A r \in Requests : Extent(r[1], r[2]) \subseteq Sectors
  /\ \A r, q \in Requests :
       Extent(r[1], r[2]) \intersect Extent(q[1], q[2]) # {}
         => \/ Extent(r[1], r[2]) \subseteq Extent(q[1], q[2])
            \/ Extent(q[1], q[2]) \subseteq Extent(r[1], r[2])

VARIABLES
  disk,      \* the sectors of the medium
  cache,     \* caches[disk_id].cache: records of start_sector, sectors_count and data
  driver,    \* "ahci" (use_ahci), "pio", or "off"
  is,        \* an error bit of port->is is set
  routine,   \* disk_flush_all_caches is a shutdown routine
  kept,      \* history: what a loss of power may leave in each sector
  failed     \* history: the last call was a write that returned false

vars == <<disk, cache, driver, is, routine, kept, failed>>

Span(record) == Extent(record.start, record.count)

\* What a read of the sector returns: the first record that has it, or the medium.
View(s) ==
  LET i == SelectInSeq(cache, LAMBDA record : s \in Span(record))
  IN  IF i = 0 THEN disk[s] ELSE cache[i].data[s]

(***************************************************************************)
(* disk_hardware_transfer_sync.  The driver of AHCI tests the error bits   *)
(* before the first command and nothing in it clears them: once set, they  *)
(* fail every transfer.  Any other may fail, and one that writes has then  *)
(* written a prefix of its sectors.  A call that the power cuts short      *)
(* leaves the medium as one that failed.                                   *)
(***************************************************************************)
TransferWorks == ~ (driver = "ahci" /\ is)
ErrorBits(error) == is \/ (error /\ driver = "ahci")

Written(medium, record, n) ==
  [s \in Sectors |-> IF s \in Extent(record.start, n) THEN record.data[s] ELSE medium[s]]

disk_get_covering(start, count) ==
  SelectInSeq(cache, LAMBDA record :
    start >= record.start /\ start + count <= record.start + record.count)

\* What the medium holds after the first `done` records were written to it in turn.
WrittenBack(medium, done) ==
  [s \in Sectors |->
     LET i == SelectLastInSubSeq(cache, 1, done, LAMBDA record : s \in Span(record))
     IN  IF i = 0 THEN medium[s] ELSE cache[i].data[s]]

\* Mutant: a flush of every record but the last added.
Flushed_all_but_last(medium, done, n) == WrittenBack(medium, done - 1)

(***************************************************************************)
(* disk_flush_cache_sync over the records, the first `done` of which reach *)
(* the medium, with n sectors of the one that fails.                       *)
(***************************************************************************)
Flushed(medium, done, n) ==
  IF n = 0 THEN WrittenBack(medium, done)
  ELSE Written(WrittenBack(medium, done), cache[done + 1], n)

\* How far a flush may come: <<whole records, sectors of the next>>.
FlushOutcomes ==
  IF TransferWorks
  THEN {<<Len(cache), 0>>} \union
       UNION {{i} \X (0 .. cache[i + 1].count) : i \in 0 .. Len(cache) - 1}
  ELSE {<<0, 0>>}

(***************************************************************************)
(* disk_add_cache_record_sync.  A block that is too large is not cached,   *)
(* and nothing is flushed.  Else the cache is flushed, records that        *)
(* overlap the new one are erased, and it is linked after the last that is *)
(* left.  cache_capacity stays 0 for ever, so that nothing is evicted.     *)
(***************************************************************************)
AddOutcomes(count) == IF count > DISK_MAX_CACHE_BLOCK THEN {<<0, 0>>} ELSE FlushOutcomes

\* A record too large to be cached fails no flush.
AddFails(count, done) == count <= DISK_MAX_CACHE_BLOCK /\ done < Len(cache)

\* The records among the first i that share no sector with the new one.
Left(record) ==
  LET left[i \in 0 .. Len(cache)] ==
        IF i = 0 THEN <<>>
        ELSE IF Span(cache[i]) \intersect Span(record) = {}
             THEN Append(left[i - 1], cache[i]) ELSE left[i - 1]
  IN  left

Added(record) ==
  IF record.count > DISK_MAX_CACHE_BLOCK THEN cache
  ELSE Append(Left(record)[Len(cache)], record)

Record(start, count, value) ==
  [start |-> start, count |-> count, data |-> [s \in Extent(start, count) |-> value[s]]]

\* fat32_update_directory_entry touches a sector of a cluster that
\* fat32_read_directory has read whole: the only requests inside others.
Disciplined(start, count) ==
  \A r \in Requests :
    Extent(start, count) \subseteq Extent(r[1], r[2]) /\ <<start, count>> # r
      => disk_get_covering(r[1], r[2]) # 0

(***************************************************************************)
(* disk_read_sync: a miss reads the medium, flushes the cache, whatever    *)
(* comes of it, and adds the record.                                       *)
(***************************************************************************)
disk_read_sync(start, count) ==
  /\ driver # "off" /\ Disciplined(start, count)
  /\ disk_get_covering(start, count) = 0
  /\ \/ /\ TransferWorks
        /\ \E outcome \in AddOutcomes(count) :
             /\ disk' = Flushed(disk, outcome[1], outcome[2])
             /\ is' = ErrorBits(AddFails(count, outcome[1]))
        /\ cache' = Added(Record(start, count, disk))
     \/ /\ is' = ErrorBits(TRUE)
        /\ UNCHANGED <<disk, cache>>
  /\ failed' = FALSE
  /\ UNCHANGED <<driver, routine, kept>>

(***************************************************************************)
(* disk_write_sync: a hit changes the record only; a miss writes the       *)
(* medium, flushes the cache and adds the record.                          *)
(***************************************************************************)
WriteHit(start, count, v) ==
  LET i == disk_get_covering(start, count)
  IN  /\ i # 0
      /\ cache' = [cache EXCEPT ![i].data =
                     [s \in DOMAIN @ |-> IF s \in Extent(start, count) THEN v ELSE @[s]]]
      /\ failed' = FALSE
      /\ UNCHANGED <<disk, is>>

WriteMiss(start, count, v) ==
  LET record == Record(start, count, [s \in Sectors |-> v])
  IN  /\ disk_get_covering(start, count) = 0
      /\ \/ /\ TransferWorks
            /\ \E outcome \in AddOutcomes(count) :
                 /\ disk' = Flushed(Written(disk, record, count), outcome[1], outcome[2])
                 /\ is' = ErrorBits(AddFails(count, outcome[1]))
            /\ cache' = Added(record)
            /\ failed' = FALSE
         \/ /\ \E n \in IF TransferWorks THEN 0 .. count ELSE {0} :
                 disk' = Written(disk, record, n)
            /\ is' = ErrorBits(TRUE)
            /\ failed' = TRUE
            /\ UNCHANGED cache

disk_write_sync(start, count, v) ==
  /\ driver # "off" /\ Disciplined(start, count)
  /\ WriteHit(start, count, v) \/ WriteMiss(start, count, v)
  /\ kept' = [s \in Sectors |-> IF s \in Extent(start, count) THEN kept[s] \union {v} ELSE kept[s]]
  /\ UNCHANGED <<driver, routine>>

\* disk_flush_cache_sync, as vfs_close, unmounting and the writes of fsinfo call it.
disk_flush_cache_sync ==
  /\ driver # "off"
  /\ \E outcome \in FlushOutcomes :
       /\ disk' = Flushed(disk, outcome[1], outcome[2])
       /\ is' = ErrorBits(outcome[1] < Len(cache))
       /\ kept' = IF outcome[1] = Len(cache) THEN [s \in Sectors |-> {View(s)}] ELSE kept
  /\ failed' = FALSE
  /\ UNCHANGED <<cache, driver, routine>>

(***************************************************************************)
(* power_gracefully_shutdown and power_gracefully_reboot: the routines     *)
(* run, their results are not looked at, and the machine stops.            *)
(***************************************************************************)
ShutDown ==
  /\ driver # "off"
  /\ \E outcome \in IF routine THEN FlushOutcomes ELSE {<<0, 0>>} :
       disk' = Flushed(disk, outcome[1], outcome[2])
  /\ cache' = <<>> /\ driver' = "off" /\ is' = FALSE /\ routine' = FALSE /\ failed' = FALSE
  /\ kept' = [s \in Sectors |-> {disk'[s]}]

\* The power fails, or the kernel panics.
PowerLost ==
  /\ driver # "off"
  /\ cache' = <<>> /\ driver' = "off" /\ is' = FALSE /\ routine' = FALSE /\ failed' = FALSE
  /\ kept' = [s \in Sectors |-> {disk[s]}]
  /\ UNCHANGED disk

(***************************************************************************)
(* disk_init: AHCI if there is a controller, and PIO if there is none or   *)
(* it does not lead to the disk booted from; the second choice returns     *)
(* before the shutdown routine is registered.                              *)
(***************************************************************************)
disk_init ==
  /\ driver = "off"
  /\ \E ahci \in BOOLEAN, found \in BOOLEAN :
       /\ driver' = IF ahci /\ found THEN "ahci" ELSE "pio"
       /\ routine' = (found \/ ~ ahci)
  /\ UNCHANGED <<disk, cache, is, kept, failed>>

Init ==
  /\ disk = [s \in Sectors |-> CHOOSE v \in Values : TRUE]
  /\ cache = <<>> /\ driver = "off" /\ is = FALSE /\ routine = FALSE
  /\ kept = [s \in Sectors |-> {disk[s]}] /\ failed = FALSE

Next ==
  \/ \E r \in Requests : disk_read_sync(r[1], r[2])
  \/ \E r \in Requests, v \in Values : disk_write_sync(r[1], r[2], v)
  \/ disk_flush_cache_sync
  \/ ShutDown
  \/ PowerLost
  \/ disk_init

Spec == Init /\ [][Next]_vars

(***************************************************************************)
(* Properties                                                              *)
(***************************************************************************)

\* Through hits, misses, transfers that fail half-way and power that fails, the
\* cache and the medium together are one array of sectors: reads return what
\* was written last, a write that reports success has reached all its sectors
\* and one that fails no others, and what disk_flush_cache_sync (disk.c:97) reported as
\* flushed survives everything that follows.
BD == INSTANCE BlockDevice WITH now <- [s \in Sectors |-> View(s)],
  Ranges <- {Extent(r[1], r[2]) : r \in Requests}

DevicePromise == BD!Spec
=============================================================================
