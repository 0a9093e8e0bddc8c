------------------------------- MODULE RtHeap -------------------------------
(***************************************************************************)
(* The kernel's heap, mem.c: blocks in one stretch of memory, each with a  *)
(* header that names its neighbours, searched first fit from the lowest    *)
(* free block on.                                                          *)
(*                                                                         *)
(* A header is known by its offset from heap_ptr; heap holds the headers   *)
(* in use.  Calls are atomic, as they hold heap_sem, but for rt_realloc,   *)
(* which moves a block in three steps.                                     *)
(***************************************************************************)
EXTENDS Integers, FiniteSets

CONSTANTS Threads,
          Sizes,               \* sizes asked for
          RT_ALIGN_SIZE,       \* 8
          SIZEOF_STRUCT_MEM,   \* of a header: 16
          MIN_SIZE_ALIGNED,    \* least size of a block's data: 16
          mem_size_aligned,    \* bytes of the heap, but for the two first headers
          MaxHeld              \* bound: blocks a thread has at a time

ASSUME HeapConstants ==
    /\ Sizes \subseteq Nat
    /\ RT_ALIGN_SIZE \in Nat \ {0} /\ SIZEOF_STRUCT_MEM \in Nat \ {0}
    /\ MIN_SIZE_ALIGNED \in Nat \ {0} /\ mem_size_aligned \in Nat
    /\ MIN_SIZE_ALIGNED <= mem_size_aligned
    /\ \A n \in {SIZEOF_STRUCT_MEM, MIN_SIZE_ALIGNED, mem_size_aligned} : n % RT_ALIGN_SIZE = 0
    /\ MaxHeld \in Nat

VARIABLES heap, lfree, used_mem,
          held,      \* what each thread has: records [ptr, size]
          moving,    \* rt_realloc between its steps
          refused,   \* size of the request that just got RT_NULL, or 0
          cut        \* history: has rt_realloc cut a block?

vars == <<heap, lfree, used_mem, held, moving, refused, cut>>

heap_end == mem_size_aligned + SIZEOF_STRUCT_MEM
NULL == -1
Still == [from |-> NULL, to |-> NULL, size |-> 0]   \* no rt_realloc under way

RT_ALIGN(size) == ((size + RT_ALIGN_SIZE - 1) \div RT_ALIGN_SIZE) * RT_ALIGN_SIZE

\* The bytes for data in a block.
Room(h, b) == h[b].next - (b + SIZEOF_STRUCT_MEM)

\* rt_system_heap_init
Init ==
    /\ heap = [b \in {0, heap_end} |->
                 IF b = 0 THEN [used |-> FALSE, next |-> heap_end, prev |-> 0]
                          ELSE [used |-> TRUE, next |-> heap_end, prev |-> heap_end]]
    /\ lfree = 0 /\ used_mem = 0
    /\ held = [t \in Threads |-> {}]
    /\ moving = [t \in Threads |-> Still]
    /\ refused = 0 /\ cut = FALSE

-----------------------------------------------------------------------------
(* Blocks.                                                                 *)

\* Block b is split off the end of a, free.
Split(h, a, b) ==
    [x \in DOMAIN h \cup {b} |->
       CASE x = b -> [used |-> FALSE, next |-> h[a].next, prev |-> a]
         [] x = a -> [h[a] EXCEPT !.next = b]
         [] x = h[a].next /\ x # heap_end -> [h[x] EXCEPT !.prev = b]
         [] OTHER -> h[x]]

\* Block b is joined to a, the one before it.
Join(h, a, b) ==
    [x \in DOMAIN h \ {b} |->
       CASE x = a -> [h[a] EXCEPT !.next = h[b].next]
         [] x = h[b].next -> [h[x] EXCEPT !.prev = a]
         [] OTHER -> h[x]]

\* plug_holes: join a free block with a free one behind it, and before it.
Forward(s, mem) ==
    LET n == s.heap[mem].next
    IN  IF n # mem /\ ~s.heap[n].used /\ n # heap_end
        THEN [heap |-> Join(s.heap, mem, n), lfree |-> IF s.lfree = n THEN mem ELSE s.lfree]
        ELSE s
Backward(s, mem) ==
    LET p == s.heap[mem].prev
    IN  IF p # mem /\ ~s.heap[p].used
        THEN [heap |-> Join(s.heap, p, mem), lfree |-> IF s.lfree = mem THEN p ELSE s.lfree]
        ELSE s
\* Mutant: holes are plugged forward only.
plug_holes_Forward(s, mem) == Forward(s, mem)
plug_holes(s, mem) == Backward(Forward(s, mem), mem)

\* Mutant: used blocks are not skipped.
Fits_Used(h, b, size) == Room(h, b) >= size

Fits(h, b, size) == ~h[b].used /\ Room(h, b) >= size

Lowest(S) == CHOOSE p \in S : \A q \in S : p <= q

\* The first block from "from" on that is free and has room.
Search(h, size, from) ==
    LET fit == {p \in DOMAIN h : from <= p /\ p < mem_size_aligned - size /\ Fits(h, p, size)}
    IN  IF fit = {} THEN NULL ELSE Lowest(fit)

\* Mutant: lfree moves on by one block only.
NextFree_Once(h, from) == h[from].next

\* The first free block from "from" on, or the end.
NextFree(h, from) == Lowest({p \in DOMAIN h : from <= p /\ (~h[p].used \/ p = heap_end)})

\* The loops that look for the two, from header to header; see LoopsFindThem.
SearchLoop(h, size, from) ==
    LET S[p \in DOMAIN h] == IF p >= mem_size_aligned - size THEN NULL
                             ELSE IF Fits(h, p, size) THEN p ELSE S[h[p].next]
    IN  S[from]
NextFreeLoop(h, from) ==
    LET F[p \in DOMAIN h] == IF h[p].used /\ p # heap_end THEN F[h[p].next] ELSE p
    IN  F[from]

\* What rt_malloc asks for, and the heap after it got block b.
Rounded(size) ==
    IF RT_ALIGN(size) < MIN_SIZE_ALIGNED THEN MIN_SIZE_ALIGNED ELSE RT_ALIGN(size)
\* Mutant: a block is split although its rest has no room for a header.
Taken_Tight(h, b, size) ==
    LET new == IF Room(h, b) > size THEN Split(h, b, b + SIZEOF_STRUCT_MEM + size) ELSE h
    IN  [new EXCEPT ![b].used = TRUE]
Taken(h, b, size) ==
    LET new == IF Room(h, b) >= size + SIZEOF_STRUCT_MEM + MIN_SIZE_ALIGNED
               THEN Split(h, b, b + SIZEOF_STRUCT_MEM + size) ELSE h
    IN  [new EXCEPT ![b].used = TRUE]

\* rt_malloc: the block it finds, or NULL.
Found(size) ==
    IF size = 0 \/ RT_ALIGN(size) > mem_size_aligned THEN NULL
    ELSE Search(heap, Rounded(size), lfree)

Take(b, size) ==
    LET h == Taken(heap, b, Rounded(size)) IN
      /\ heap' = h
      /\ used_mem' = used_mem + h[b].next - b
      /\ lfree' = IF b = lfree THEN NextFree(h, lfree) ELSE lfree

\* Mutant: a block below the lowest free one is not noticed.
Give_KeepLowest(b) ==
    LET s == plug_holes([heap |-> [heap EXCEPT ![b].used = FALSE], lfree |-> lfree], b)
    IN  heap' = s.heap /\ lfree' = s.lfree /\ used_mem' = used_mem - (heap[b].next - b)

\* rt_free
Give(b) ==
    LET s == plug_holes([heap |-> [heap EXCEPT ![b].used = FALSE],
                         lfree |-> IF b < lfree THEN b ELSE lfree], b)
    IN  heap' = s.heap /\ lfree' = s.lfree /\ used_mem' = used_mem - (heap[b].next - b)

\* rt_realloc of a block to less, in place.  lfree stays, unless it was joined.
Shrink(b, newsize) ==
    LET s == plug_holes([heap |-> Split(heap, b, b + SIZEOF_STRUCT_MEM + newsize),
                         lfree |-> lfree], b + SIZEOF_STRUCT_MEM + newsize)
    IN  /\ heap' = s.heap /\ lfree' = s.lfree
        /\ used_mem' = used_mem - (Room(heap, b) - newsize)

-----------------------------------------------------------------------------
(* Calls.                                                                  *)

Ptr(b) == b + SIZEOF_STRUCT_MEM
Block(ptr) == ptr - SIZEOF_STRUCT_MEM

rt_malloc(t, size) ==
    /\ moving[t] = Still /\ Cardinality(held[t]) < MaxHeld
    /\ LET b == Found(size) IN
         IF b = NULL
         THEN refused' = size /\ UNCHANGED <<heap, lfree, used_mem, held>>
         ELSE /\ Take(b, size) /\ refused' = 0
              /\ held' = [held EXCEPT ![t] = @ \cup {[ptr |-> Ptr(b), size |-> size]}]
    /\ UNCHANGED <<moving, cut>>

rt_free(t, r) ==
    /\ moving[t] = Still /\ r \in held[t]
    /\ Give(Block(r.ptr))
    /\ held' = [held EXCEPT ![t] = @ \ {r}]
    /\ refused' = 0 /\ UNCHANGED <<moving, cut>>

\* rt_realloc up to where it gives heap_sem back: too much is refused, nothing
\* is free, the same size is left alone, and a block is cut when its rest can be
\* one; in all other cases the data will move.  (The code compares with MIN_SIZE,
\* 12, and <; for sizes that are multiples of 8 this is MIN_SIZE_ALIGNED and <=.)
rt_realloc(t, r, size) ==
    LET newsize == RT_ALIGN(size)
        b == Block(r.ptr)
        Keeps == held' = [held EXCEPT ![t] = (@ \ {r}) \cup {[r EXCEPT !.size = size]}]
    IN
    /\ moving[t] = Still /\ r \in held[t]
    /\ \/ newsize > mem_size_aligned /\ UNCHANGED <<heap, lfree, used_mem, held, moving, cut>>
       \/ /\ newsize = 0 /\ Give(b) /\ held' = [held EXCEPT ![t] = @ \ {r}]
          /\ UNCHANGED <<moving, cut>>
       \/ /\ newsize = Room(heap, b) /\ newsize # 0 /\ Keeps
          /\ UNCHANGED <<heap, lfree, used_mem, moving, cut>>
       \/ /\ newsize # 0 /\ newsize + SIZEOF_STRUCT_MEM + MIN_SIZE_ALIGNED <= Room(heap, b)
          /\ Shrink(b, newsize) /\ Keeps /\ cut' = TRUE /\ UNCHANGED moving
       \/ /\ newsize \notin {0, Room(heap, b)} /\ newsize <= mem_size_aligned
          /\ newsize + SIZEOF_STRUCT_MEM + MIN_SIZE_ALIGNED > Room(heap, b)
          /\ moving' = [moving EXCEPT ![t] = [from |-> r.ptr, to |-> NULL, size |-> newsize]]
          /\ UNCHANGED <<heap, lfree, used_mem, held, cut>>
    /\ refused' = 0

\* ... get another block ...
ReallocTake(t) ==
    LET m == moving[t]
        b == Found(m.size) IN
    /\ m # Still /\ m.to = NULL
    /\ IF b = NULL
       THEN /\ refused' = m.size /\ moving' = [moving EXCEPT ![t] = Still]
            /\ UNCHANGED <<heap, lfree, used_mem, held>>
       ELSE /\ Take(b, m.size) /\ refused' = 0
            /\ held' = [held EXCEPT ![t] = @ \cup {[ptr |-> Ptr(b), size |-> m.size]}]
            /\ moving' = [moving EXCEPT ![t].to = Ptr(b)]
    /\ UNCHANGED cut

\* ... copy the data and free the old one.
ReallocFree(t) ==
    LET m == moving[t] IN
    /\ m.to # NULL
    /\ Give(Block(m.from))
    /\ held' = [held EXCEPT ![t] = {r \in @ : r.ptr # m.from}]
    /\ moving' = [moving EXCEPT ![t] = Still] /\ refused' = 0 /\ UNCHANGED cut

Next ==
    \E t \in Threads :
       \/ \E size \in Sizes : rt_malloc(t, size)
       \/ \E r \in held[t] : rt_free(t, r)
       \/ \E r \in held[t], size \in Sizes : rt_realloc(t, r, size)
       \/ ReallocTake(t) \/ ReallocFree(t)

Spec == Init /\ [][Next]_vars

-----------------------------------------------------------------------------
(* Properties.                                                             *)

Blocks == DOMAIN heap \ {heap_end}
Regions == UNION {held[t] : t \in Threads}

\* The headers tile the memory: each block ends where the next header is, no
\* header lies inside a block, and the way back is right, except from the end.
BlocksTile ==
    /\ {0, heap_end} \subseteq DOMAIN heap /\ DOMAIN heap \subseteq 0..heap_end
    /\ heap[heap_end].used /\ heap[0].prev = 0 /\ lfree \in DOMAIN heap
    /\ \A b \in Blocks :
         LET n == heap[b].next IN
           /\ n \in DOMAIN heap /\ b + SIZEOF_STRUCT_MEM < n
           /\ \A c \in DOMAIN heap : c <= b \/ c >= n
           /\ n # heap_end => heap[n].prev = b

\* plug_holes leaves no two free blocks side by side, which rt_malloc relies on
\* when it takes a block whole.
NoTwoHoles == \A b \in Blocks : ~heap[b].used => heap[heap[b].next].used

\* The used blocks are those the threads have, each had by one, with room for
\* what was asked: no block is lost, and none is handed out twice.
Owned ==
    /\ {b \in Blocks : heap[b].used} = {Block(r.ptr) : r \in Regions}
    /\ \A r \in Regions : r.size <= Room(heap, Block(r.ptr))
    /\ \A t, u \in Threads : \A r \in held[t], s \in held[u] : r.ptr = s.ptr => t = u /\ r = s

\* The calls of the threads are those of a heap of disjoint regions.
Abstract == INSTANCE HeapRegions WITH Size <- heap_end, live <- Regions
IsHeap == Abstract!Spec

\* Unless rt_realloc has cut a block, lfree is not above the lowest free block,
\* which the search of rt_malloc relies on.
LowestFree == ~cut => \A b \in Blocks : ~heap[b].used => lfree <= b

\* Then the only block with room that rt_malloc passes over is the last of the
\* heap, when it would be filled to the last byte: nothing else is overlooked.
RefusedRightly ==
    refused > 0 /\ ~cut =>
       \A b \in Blocks : Fits(heap, b, Rounded(refused)) =>
                             b = mem_size_aligned - Rounded(refused)

\* The loops of rt_malloc, which follow the headers' next, find the blocks that
\* Search and NextFree name: the first fit and, when this is lfree itself and has just
\* been marked used, the free block after it, across the used ones in between.
LoopsFindThem ==
    \A size \in {Rounded(n) : n \in Sizes} : size <= mem_size_aligned =>
        /\ SearchLoop(heap, size, lfree) = Search(heap, size, lfree)
        /\ Search(heap, size, lfree) = lfree =>
              LET h == Taken(heap, lfree, size) IN NextFreeLoop(h, lfree) = NextFree(h, lfree)
=============================================================================
