--------------------------------- MODULE Heap ---------------------------------
(***************************************************************************)
(* The kernel heap, kernel/heap.c: segregated free lists over one arena    *)
(* with boundary tags.  Every public function is a TASK_LOCKED_FUNCTION,   *)
(* so that a call is one step.  The operators below take the heap and      *)
(* return the heap a function of the same name leaves; their calls nest as *)
(* the calls of the code do.                                               *)
(*                                                                         *)
(* heap.head[a] is the block header at address a and heap.foot[a] the end  *)
(* block at a; heap.root is heap_void_bucket_root.  A tag becomes NoTag    *)
(* when heap_block_erase clears its signature or size (its other fields    *)
(* are read only before that) and when it becomes part of a caller's       *)
(* bytes.                                                                  *)
(***************************************************************************)
EXTENDS Integers, FiniteSets

CONSTANTS
  KHEAP_START, KHEAP_END,    \* the arena (arch/ram.h)
  LEFT_EDGE_SIZE,            \* sizeof(heap_void_block_t)
  RIGHT_EDGE_SIZE,           \* sizeof(heap_end_block_t)
  HEAP_VOID_BUCKET_COUNT,
  Sizes,                     \* the sizes callers ask for
  Alignments                 \* the alignments callers ask for

SERVICE_FIELDS_SIZE == LEFT_EDGE_SIZE + RIGHT_EDGE_SIZE

ASSUME HeapAssumption ==
  /\ KHEAP_START \in Nat \ {0} /\ KHEAP_END \in Nat
  /\ LEFT_EDGE_SIZE \in Nat \ {0} /\ RIGHT_EDGE_SIZE \in Nat \ {0}
  /\ KHEAP_END - KHEAP_START > 3 * SERVICE_FIELDS_SIZE
  /\ HEAP_VOID_BUCKET_COUNT \in 1 .. 31       \* one for each power of a uint32_t
  /\ KHEAP_END - KHEAP_START <= 2 ^ (HEAP_VOID_BUCKET_COUNT - 1)
  /\ Sizes \subseteq Nat \ {0}
  /\ Alignments \subseteq {2 ^ i : i \in 0 .. 30}   \* else alligned_malloc panics
  /\ \A size \in Sizes, alignment \in Alignments \cup {1} :  \* else "BAD MALLOC SIZE"
       size + alignment - 1 <= 2 ^ (HEAP_VOID_BUCKET_COUNT - 1)

VARIABLES
  heap,    \* the arena's tags and the roots of its lists
  live,    \* the blocks callers hold: [ptr, size]
  panic    \* the message of the PANIC that stopped the machine, and its size

heapVars == <<heap, live, panic>>

NULL == 0
Addr == KHEAP_START .. KHEAP_END
Buckets == 0 .. HEAP_VOID_BUCKET_COUNT - 1
NoTag == [signature |-> "none", size |-> 0, left |-> NULL, right |-> NULL]
NoPanic == [message |-> "none", size |-> 0]

(* The least power of two that is not less than the size. *)
get_void_block_size_index(size) ==
  CHOOSE i \in 0 .. 30 : 2 ^ i >= size /\ \A j \in 0 .. i - 1 : 2 ^ j < size

get_data_ptr(start) == start + LEFT_EDGE_SIZE
get_block_start(h, end) == end - SERVICE_FIELDS_SIZE - h.foot[end - RIGHT_EDGE_SIZE].size
get_block_end(h, start) == start + SERVICE_FIELDS_SIZE + h.head[start].size

(* create_data_block and create_void_block_default. *)
create_block(h, signature, start, size) ==
  LET tag == [signature |-> signature, size |-> size, left |-> NULL, right |-> NULL]
  IN  [h EXCEPT !.head[start] = tag, !.foot[get_data_ptr(start) + size] = tag]

heap_block_erase(h, start) ==
  [h EXCEPT !.head[start] = NoTag, !.foot[get_data_ptr(start) + h.head[start].size] = NoTag]

(* Unlink a void from the list of bucket i and erase its tags. *)
heap_void_bucket_erase(h, i, curr) ==
  LET right == h.head[curr].right
      left == h.head[curr].left
      unlinked ==
        [h EXCEPT !.root[i] = IF @ = curr THEN right ELSE @,
                  !.head = [a \in Addr |->
                    [h.head[a] EXCEPT !.right = IF a = left THEN right ELSE @,
                                      !.left = IF a = right THEN left ELSE @]]]
  IN  heap_block_erase(unlinked, curr)

(* create_void_block_default and heap_void_bucket_add_begin, which follows *)
(* it on every path: a new void becomes the root of its bucket.            *)
add_void(h, start, size) ==
  LET i == get_void_block_size_index(size)
      next == h.root[i]
      new == create_block(h, "void", start, size)
  IN  [new EXCEPT !.root[i] = start,
                  !.head = [a \in Addr |->
                    [new.head[a] EXCEPT !.right = IF a = start THEN next ELSE @,
                                        !.left = IF a = next THEN start ELSE @]]]

bucket_of(h, start) == get_void_block_size_index(h.head[start].size)

heap_void_block_try_merge(h, start) ==
  LET end == get_block_end(h, start)
      before == get_block_start(h, start)
      mergeLeft == h.foot[start - RIGHT_EDGE_SIZE].signature = "void"
      mergeRight == h.head[end].signature = "void"
      left == IF mergeLeft THEN heap_void_bucket_erase(h, bucket_of(h, before), before) ELSE h
      right == IF mergeRight THEN heap_void_bucket_erase(left, bucket_of(left, end), end) ELSE left
      newStart == IF mergeLeft THEN before ELSE start
      newEnd == IF mergeRight THEN get_block_end(left, end) ELSE end
  IN  IF mergeLeft \/ mergeRight
      THEN add_void(heap_void_bucket_erase(right, bucket_of(right, start), start),
                    newStart, newEnd - newStart - SERVICE_FIELDS_SIZE)
      ELSE h

voids(h) == {a \in Addr : h.head[a].signature = "void"}

(* The nodes of bucket i from its root on, with NULL after the last one.   *)
nodes(h, i) ==
  LET node[k \in 0 .. Cardinality(voids(h))] ==
        IF k = 0 THEN h.root[i]
        ELSE IF node[k - 1] = NULL THEN NULL
        ELSE h.head[node[k - 1]].right
  IN  node

(* The first void of bucket i that is large enough, in the list's order.   *)
first_fit(h, i, size) ==
  LET node == nodes(h, i)
      fits == {k \in DOMAIN node : node[k] # NULL /\ h.head[node[k]].size >= size}
  IN  IF fits = {} THEN NULL
      ELSE node[CHOOSE k \in fits : \A j \in fits : k <= j]

(* try_malloc_from_bucket, once it has found void n in bucket i: what does *)
(* not hold another void with its tags goes to the caller as well.         *)
take_void(h, i, n, size) ==
  LET void_size_left == h.head[n].size - size - SERVICE_FIELDS_SIZE
      taken == heap_void_bucket_erase(h, i, n)
  IN  IF void_size_left <= 0
      THEN create_block(taken, "data", n, h.head[n].size)
      ELSE add_void(create_block(taken, "data", n, size),
                    n + SERVICE_FIELDS_SIZE + size, void_size_left)

(* malloc on its way to a result: ptr is NULL where the code panics.  The  *)
(* buckets from the size's own upward come first, the one below it last.   *)
malloc(h, size) ==
  LET index == get_void_block_size_index(size)
      fits == {i \in Buckets : i >= index - 1 /\ first_fit(h, i, size) # NULL}
      above == fits \ {index - 1}
      i == IF above # {} THEN CHOOSE b \in above : \A c \in above : b <= c ELSE index - 1
      n == first_fit(h, i, size)
  IN  IF fits = {}
      THEN [heap |-> h, ptr |-> NULL]
      ELSE [heap |-> take_void(h, i, n, size), ptr |-> get_data_ptr(n)]

\* Mutant: a pointer that is aligned moves up as well.
align_up_always(ptr, alignment) == (ptr \div alignment + 1) * alignment

align_up(ptr, alignment) == ((ptr + alignment - 1) \div alignment) * alignment

(* alligned_malloc after its malloc returned m: the block starts anew at   *)
(* the first aligned address, and the gap before it becomes a void, or,    *)
(* where it cannot hold one, part of the block before it.                  *)
cut_gap(m, alignment) ==
  LET prev_end == m.ptr - LEFT_EDGE_SIZE
      curr_start == align_up(m.ptr, alignment) - LEFT_EDGE_SIZE
      gap == curr_start - prev_end
      moved == create_block(heap_block_erase(m.heap, prev_end), "data", curr_start,
                            get_block_end(m.heap, prev_end) - curr_start - SERVICE_FIELDS_SIZE)
      prev_start == get_block_start(moved, prev_end)
  IN  IF gap - SERVICE_FIELDS_SIZE <= 0
      THEN create_block(heap_block_erase(moved, prev_start), "data", prev_start,
                        moved.head[prev_start].size + gap)
      ELSE add_void(moved, prev_end, gap - SERVICE_FIELDS_SIZE)

(* The block before the one malloc found, which cut_gap may enlarge. *)
block_before(m) == m.heap.foot[m.ptr - SERVICE_FIELDS_SIZE]

free(h, ptr) ==
  LET start == ptr - LEFT_EDGE_SIZE
      size == h.head[start].size
  IN  heap_void_block_try_merge(add_void(heap_block_erase(h, start), start, size), start)

\* Mutant: the tags between the block and the void are not counted.
grow_without_tags(h, start, size) ==
  LET next == get_block_end(h, start)
      taken == heap_block_erase(heap_void_bucket_erase(h, bucket_of(h, next), next), start)
  IN  create_block(taken, "data", start, h.head[next].size + h.head[start].size)

(* realloc into the void that follows the block, whose old end block is    *)
(* then in the midst of the caller's bytes.                                *)
grow(h, start, size) ==
  LET next == get_block_end(h, start)
      void_size_left == h.head[next].size + h.head[start].size - size
      taken == heap_block_erase(heap_void_bucket_erase(h, bucket_of(h, next), next), start)
  IN  IF void_size_left <= 0
      THEN create_block(taken, "data", start,
                        h.head[next].size + h.head[start].size + SERVICE_FIELDS_SIZE)
      ELSE add_void(create_block(taken, "data", start, size),
                    start + SERVICE_FIELDS_SIZE + size, void_size_left)

\* Mutant: the signature of the next block is not asked.
can_grow_anywhere(h, start, size) ==
  h.head[get_block_end(h, start)].size + h.head[start].size + SERVICE_FIELDS_SIZE >= size

can_grow(h, start, size) ==
  LET next == h.head[get_block_end(h, start)]
  IN  /\ next.signature = "void"
      /\ next.size + h.head[start].size + SERVICE_FIELDS_SIZE >= size

(* heap_init: a block of no data at either end, one void between them. *)
heap_init ==
  LET end == KHEAP_END - SERVICE_FIELDS_SIZE
      first == KHEAP_START + SERVICE_FIELDS_SIZE
      empty == [head |-> [a \in Addr |-> NoTag], foot |-> [a \in Addr |-> NoTag],
                root |-> [i \in Buckets |-> NULL]]
      guarded == create_block(create_block(empty, "data", KHEAP_START, 0), "data", end, 0)
  IN  add_void(guarded, first, end - first - SERVICE_FIELDS_SIZE)

--------------------------------------------------------------------------------
HeapInit ==
  /\ heap = heap_init
  /\ live = {}
  /\ panic = NoPanic

PANIC(message, size) ==
  /\ panic' = [message |-> message, size |-> size]
  /\ UNCHANGED <<heap, live>>

Block(ptr, size) == [ptr |-> ptr, size |-> size]

(* A call whose test of a signature fails panics, and the machine stops    *)
(* with its memory as it was; else it leaves the new heap and blocks.      *)
Finish(signature, message, newHeap, newLive) ==
  LET sound == signature = "data"
  IN  /\ panic' = IF sound THEN panic ELSE [message |-> message, size |-> 0]
      /\ heap' = IF sound THEN newHeap ELSE heap
      /\ live' = IF sound THEN newLive ELSE live

Malloc(size) ==
  LET m == malloc(heap, size)
  IN  /\ panic = NoPanic
      /\ \/ /\ m.ptr = NULL
            /\ PANIC("BAD MALLOC", size)
         \/ /\ m.ptr # NULL
            /\ heap' = m.heap
            /\ live' = live \cup {Block(m.ptr, size)}
            /\ UNCHANGED panic

AllignedMalloc(size, alignment) ==
  LET m == malloc(heap, size + alignment - 1)
  IN  /\ panic = NoPanic
      /\ \/ /\ m.ptr = NULL
            /\ PANIC("BAD MALLOC", size + alignment - 1)
         \/ /\ m.ptr # NULL
            /\ Finish(block_before(m).signature, "BAD ALLIGNED_ALLOC", cut_gap(m, alignment),
                      live \cup {Block(align_up(m.ptr, alignment), size)})

signature_of(b) == heap.head[b.ptr - LEFT_EDGE_SIZE].signature

Free(b) ==
  /\ panic = NoPanic
  /\ Finish(signature_of(b), IF signature_of(b) = "void" THEN "DOUBLE FREE" ELSE "BAD FREE",
            free(heap, b.ptr), live \ {b})

(* realloc of a block that is large enough, or has room after it. *)
ReallocInPlace(b, size) ==
  LET start == b.ptr - LEFT_EDGE_SIZE
      fits == heap.head[start].size >= size
  IN  /\ panic = NoPanic
      /\ fits \/ can_grow(heap, start, size)
      /\ Finish(signature_of(b), "BAD REALLOC", IF fits THEN heap ELSE grow(heap, start, size),
                (live \ {b}) \cup {Block(b.ptr, size)})

(* realloc of any other block: malloc, memcpy, free. *)
ReallocByMove(b, size) ==
  LET start == b.ptr - LEFT_EDGE_SIZE
      m == malloc(heap, size)
  IN  /\ panic = NoPanic
      /\ heap.head[start].size < size
      /\ ~can_grow(heap, start, size)
      /\ \/ /\ m.ptr = NULL
            /\ PANIC("BAD MALLOC", size)
         \/ /\ m.ptr # NULL
            /\ Finish(signature_of(b), "BAD REALLOC", free(m.heap, b.ptr),
                      (live \ {b}) \cup {Block(m.ptr, size)})

HeapNext ==
  \/ \E size \in Sizes : Malloc(size)
  \/ \E size \in Sizes, alignment \in Alignments : AllignedMalloc(size, alignment)
  \/ \E b \in live : Free(b)
  \/ \E b \in live, size \in Sizes : ReallocInPlace(b, size) \/ ReallocByMove(b, size)

HeapSpec == HeapInit /\ [][HeapNext]_heapVars

--------------------------------------------------------------------------------
Starts == {a \in Addr : heap.head[a].signature # "none"}
Voids == voids(heap)
Guards == {KHEAP_START, KHEAP_END - SERVICE_FIELDS_SIZE}

(* Types: tags and roots are what the heap's structures can hold, and the  *)
(* blocks of callers are blocks callers ask for.                           *)
Tag == [signature : {"none", "data", "void"}, size : 0 .. KHEAP_END - KHEAP_START,
        left : Addr \cup {NULL}, right : Addr \cup {NULL}]

TypeOK ==
  /\ heap \in [head : [Addr -> Tag], foot : [Addr -> Tag], root : [Buckets -> Addr \cup {NULL}]]
  /\ live \subseteq [ptr : Addr, size : Sizes]
  /\ panic \in [message : {"none", "BAD MALLOC", "BAD ALLIGNED_ALLOC", "BAD FREE", "DOUBLE FREE",
                           "BAD REALLOC"},
                size : Nat]

(* get_block_start and get_block_end walk the arena: from KHEAP_START on,  *)
(* each block ends where the next one starts, the last one at KHEAP_END,   *)
(* and the tag at a block's end agrees with the one at its start.          *)
BoundaryTags ==
  /\ Guards \subseteq Starts
  /\ \A a \in Starts :
       LET end == get_block_end(heap, a)
           foot == heap.foot[end - RIGHT_EDGE_SIZE]
       IN  /\ end \in Starts \cup {KHEAP_END}
           /\ Starts \cap (a + 1 .. end - 1) = {}
           /\ foot.signature = heap.head[a].signature
           /\ foot.size = heap.head[a].size

(* heap.c:7, "не существует двух соседних пустотных блоков": no two void   *)
(* blocks are neighbours, whatever was freed, cut or grown, and none is    *)
(* empty.                                                                  *)
NoTwoVoids ==
  \A a \in Voids : heap.head[a].size > 0 /\ get_block_end(heap, a) \notin Voids

(* The lists of heap.c:18: every void is in the list of its size's bucket, *)
(* once, and nothing else is in a list; links to the left mirror those to  *)
(* the right, so that any void can be unlinked from the middle.            *)
VoidsListed ==
  \A i \in Buckets :
    LET list == nodes(heap, i)
        mine == {a \in Voids : bucket_of(heap, a) = i}
        length == Cardinality(mine)
    IN  /\ {list[k] : k \in 0 .. length - 1} = mine
        /\ list[length] = NULL
        /\ \A k \in 0 .. length - 1 :
             heap.head[list[k]].left = IF k = 0 THEN NULL ELSE list[k - 1]

(* Nothing is lost: a data block is a guard or belongs to a caller, who    *)
(* has at least the bytes asked for.                                       *)
NothingLost ==
  /\ {get_data_ptr(a) : a \in (Starts \ Voids) \ Guards} = {b.ptr : b \in live}
  /\ \A b \in live : heap.head[b.ptr - LEFT_EDGE_SIZE].size >= b.size

(* The arena is sound after every call, whatever was called before: the    *)
(* four facts that malloc, free and realloc find their blocks by.          *)
ArenaSound == BoundaryTags /\ NoTwoVoids /\ VoidsListed /\ NothingLost

(* The worry of heap.c:10-11, a leak because the guards grow: aligned      *)
(* allocations do enlarge the first guard for good, but all of them        *)
(* together by less than the largest alignment, and the last one never.    *)
GuardLeakBounded ==
  /\ \E alignment \in Alignments \cup {1} : heap.head[KHEAP_START].size < alignment
  /\ heap.head[KHEAP_END - SERVICE_FIELDS_SIZE].size = 0

(* The machine stops in the heap only when no void is large enough: the    *)
(* search through the buckets misses none (heap.c:240-260), and the tests  *)
(* of signatures in free, realloc and alligned_malloc never fail for       *)
(* callers that return what they were given once.                          *)
PanicsOnlyWhenFull ==
  panic # NoPanic =>
    /\ panic.message = "BAD MALLOC"
    /\ \A a \in Voids : heap.head[a].size < panic.size

(* Nothing is wasted.                                                      *)
NothingWasted == GuardLeakBounded /\ PanicsOnlyWhenFull

(* The heap keeps the promise of an allocator: the blocks of callers lie   *)
(* in the arena and never overlap, whatever alignment moved them to and    *)
(* wherever realloc moves them.                                            *)
AbstractAllocator == INSTANCE Allocator

AllocatorPromise ==
  AbstractAllocator!Init /\ [][live' # live => AbstractAllocator!Next]_live
================================================================================
