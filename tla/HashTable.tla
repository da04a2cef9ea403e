----------------------------- MODULE HashTable ------------------------------
(***************************************************************************)
(* The hash table of lib/hash_table.c over the lists of lib/linked_list.c: *)
(* the mount tables of vfs.c and the terminal's table of commands.  Every  *)
(* bucket is two lists, of keys and of values, kept in step by position.   *)
(* An insertion first erases the key, and a table that is too full or too  *)
(* empty is rebuilt by inserting every pair into new buckets, which may    *)
(* itself rebuild the table on the way.                                    *)
(*                                                                         *)
(* A key is the number that get_hash makes of its bytes, before the        *)
(* remainder: keys that differ are told apart by memcmp.                   *)
(***************************************************************************)
EXTENDS Integers, Sequences, SequencesExt

CONSTANTS Keys, Values,
  NULL          \* what hash_table_get returns for a key that is not there

HashTableAssumption == Keys \subseteq Nat /\ NULL \notin Values

VARIABLES
  table,  \* hash_table_t
  stored  \* history: what the calls have stored under each key, or NULL

\* Buckets by buff_count_index; the larger indices need more keys than Keys.
primes == [i \in 0..6 |-> <<0, 2, 5, 11, 37, 67, 131>>[i + 1]]

get_hash(key, buff_count) == key % buff_count

Fresh(i) ==
  [buff_count_index |-> i, elements_count |-> 0,
   key_buff_root |-> [b \in 0..primes[i] - 1 |-> <<>>],
   val_buff_root |-> [b \in 0..primes[i] - 1 |-> <<>>]]

hash_table_create == Fresh(1)

BucketOf(t, key) == get_hash(key, primes[t.buff_count_index])

\* Mutant: the last node goes, whatever the key.
linked_list_erase_last(list, i) == Front(list)

linked_list_erase(list, i) == RemoveAt(list, i)
linked_list_add_begin(list, value) == <<value>> \o list

\* The nodes of all buckets, in the order the rebuild walks them.
AllNodes(buff_root, i) == FlattenSeq([b \in 1..primes[i] |-> buff_root[b - 1]])

RECURSIVE hash_table_insert(_, _, _)

hash_table_rebuild(t, buff_count_index_new) ==
  LET ks == AllNodes(t.key_buff_root, t.buff_count_index)
      vs == AllNodes(t.val_buff_root, t.buff_count_index)
  IN FoldLeft(LAMBDA new, n : hash_table_insert(new, ks[n], vs[n]),
              Fresh(buff_count_index_new), [n \in 1..Len(ks) |-> n])

Shrunk(t) ==
  IF t.buff_count_index > 2 /\ t.elements_count <= primes[t.buff_count_index - 2]
  THEN hash_table_rebuild(t, t.buff_count_index - 2)
  ELSE t

hash_table_erase(t, key) ==
  LET b == BucketOf(t, key)
      at == SelectInSeq(t.key_buff_root[b], LAMBDA k : k = key)
  IN IF at = 0 THEN t
     ELSE Shrunk([t EXCEPT
            !.key_buff_root[b] = linked_list_erase(@, at),
            !.val_buff_root[b] = linked_list_erase(@, at),
            !.elements_count = @ - 1])

Grown(t) ==
  IF t.elements_count >= primes[t.buff_count_index] \div 2
  THEN hash_table_rebuild(t, t.buff_count_index + 1)
  ELSE t

hash_table_insert(t, key, value) ==
  LET erased == hash_table_erase(t, key)
      b == BucketOf(erased, key)
  IN Grown([erased EXCEPT
       !.key_buff_root[b] = linked_list_add_begin(@, key),
       !.val_buff_root[b] = linked_list_add_begin(@, value),
       !.elements_count = @ + 1])

hash_table_get(t, key) ==
  LET b == BucketOf(t, key)
      at == SelectInSeq(t.key_buff_root[b], LAMBDA k : k = key)
  IN IF at = 0 THEN NULL ELSE t.val_buff_root[b][at]

-----------------------------------------------------------------------------
Init == table = hash_table_create /\ stored = [k \in Keys |-> NULL]

Insert(key, value) ==
  /\ table' = hash_table_insert(table, key, value)
  /\ stored' = [stored EXCEPT ![key] = value]

Erase(key) ==
  /\ table' = hash_table_erase(table, key)
  /\ stored' = [stored EXCEPT ![key] = NULL]

Next == \E key \in Keys : Erase(key) \/ \E value \in Values : Insert(key, value)

(***************************************************************************)
(* The table is a map: whatever was inserted and erased, and however often *)
(* it was rebuilt, a lookup gives what was stored last under the key, the  *)
(* count is the number of keys, and no bucket is left so full that the     *)
(* next insertion does not rebuild (hash_table.c:93, 106, 130).            *)
(***************************************************************************)
TableIsMap ==
  /\ \A k \in Keys : hash_table_get(table, k) = stored[k]
  /\ table.elements_count = Cardinality({k \in Keys : stored[k] # NULL})
  /\ Len(AllNodes(table.key_buff_root, table.buff_count_index)) = table.elements_count
  /\ table.elements_count < primes[table.buff_count_index] \div 2
=============================================================================
