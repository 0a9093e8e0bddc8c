---------------------------- MODULE RtHeapProofs ----------------------------
(***************************************************************************)
(* Proofs about RtHeap: the headers tile the memory, no two free blocks    *)
(* are side by side, every used block has one owner, and the heap          *)
(* implements HeapRegions.  First come lemmas on what cutting and joining  *)
(* blocks do, for any headers h that tile the memory.                      *)
(***************************************************************************)
EXTENDS RtHeap, WellFoundedInduction, TLAPS

Header == [used : BOOLEAN, next : Int, prev : Int]

\* BlocksTile for headers h, with what it needs to be inductive: the way back
\* from a block leads to the block whose next it is.
Tiling(h) ==
    /\ h \in [DOMAIN h -> Header]
    /\ 0 \in DOMAIN h /\ heap_end \in DOMAIN h /\ DOMAIN h \subseteq 0..heap_end
    /\ h[heap_end].used /\ h[0].prev = 0
    /\ \A b \in DOMAIN h \ {heap_end} :
         /\ h[b].next \in DOMAIN h /\ b + SIZEOF_STRUCT_MEM < h[b].next
         /\ \A c \in DOMAIN h : c <= b \/ c >= h[b].next
         /\ h[b].next # heap_end => h[h[b].next].prev = b
         /\ b # 0 => /\ h[b].prev \in DOMAIN h /\ h[b].prev < b
                     /\ h[h[b].prev].next = b

\* Only the end of the heap has no room, and it lies behind the first header.
LEMMA HeapEnd ==
    /\ heap_end \in Nat /\ SIZEOF_STRUCT_MEM \in Nat \ {0}
    /\ SIZEOF_STRUCT_MEM < heap_end /\ heap_end - SIZEOF_STRUCT_MEM = mem_size_aligned
  BY HeapConstants DEF heap_end

\* What splitting and joining blocks, and marking a block, do to the headers.
SplitGives(h, a, b, g) ==
    /\ Tiling(g) /\ DOMAIN g = DOMAIN h \cup {b} /\ b \notin DOMAIN h
    /\ ~g[b].used /\ g[b].next = h[a].next /\ g[b].prev = a
    /\ g[a].used = h[a].used /\ g[a].next = b
    /\ \A x \in DOMAIN h \ {a} : g[x].used = h[x].used /\ g[x].next = h[x].next

JoinGives(h, a, b, g) ==
    /\ Tiling(g) /\ DOMAIN g = DOMAIN h \ {b} /\ b # a
    /\ g[a].next = h[b].next
    /\ \A x \in DOMAIN h \ {b} : g[x].used = h[x].used
    /\ \A x \in DOMAIN h \ {a, b} : g[x].next = h[x].next

MarkGives(h, b, u, g) ==
    /\ Tiling(g) /\ DOMAIN g = DOMAIN h /\ g[b].used = u
    /\ \A x \in DOMAIN h : g[x].next = h[x].next
    /\ \A x \in DOMAIN h \ {b} : g[x].used = h[x].used

\* Splitting a block in two, each with room, keeps the tiling.
LEMMA SplitTiles ==
    ASSUME NEW h, Tiling(h), NEW a \in DOMAIN h \ {heap_end}, NEW b \in Int,
           a + SIZEOF_STRUCT_MEM < b, b + SIZEOF_STRUCT_MEM < h[a].next
    PROVE  SplitGives(h, a, b, Split(h, a, b))
<1> DEFINE g == Split(h, a, b)
<1>1. /\ a \in Int /\ h[a].next \in DOMAIN h /\ h[a].next \in Int /\ DOMAIN h \subseteq 0..heap_end
      /\ \A c \in DOMAIN h : c <= a \/ c >= h[a].next
  BY HeapEnd DEF Tiling, Header
<1>2. b \notin DOMAIN h /\ b # heap_end /\ b \in 0..heap_end /\ a # b /\ a # h[a].next
  BY <1>1, HeapEnd DEF Tiling
<1>3. DOMAIN g = DOMAIN h \cup {b}
  BY Zenon DEF Split
<1>4. ~g[b].used /\ g[b].next = h[a].next /\ g[b].prev = a /\ g[b] \in Header
  <2>1. g[b] = [used |-> FALSE, next |-> h[a].next, prev |-> a]
    <3>1. b # a /\ b # h[a].next /\ b \in DOMAIN h \cup {b}
      BY <1>1, <1>2, Zenon
    <3> QED
      BY <3>1, Zenon DEF Split
  <2> QED
    BY <1>1, <2>1 DEF Header
<1>5. g[a].used = h[a].used /\ g[a].next = b /\ g[a].prev = h[a].prev /\ g[a] \in Header
  <2>1. g[a] = [h[a] EXCEPT !.next = b]
    BY <1>2, Zenon DEF Split
  <2> QED
    BY <2>1 DEF Tiling, Header
<1>6. ASSUME NEW x \in DOMAIN h \ {a}
      PROVE  /\ g[x].used = h[x].used /\ g[x].next = h[x].next /\ g[x] \in Header
             /\ x = h[a].next /\ x # heap_end => g[x].prev = b
             /\ x # h[a].next \/ x = heap_end => g[x].prev = h[x].prev
  <2>1. g[x] = IF x = h[a].next /\ x # heap_end THEN [h[x] EXCEPT !.prev = b] ELSE h[x]
    BY <1>2, Zenon DEF Split
  <2> QED
    BY <2>1 DEF Tiling, Header
<1>7. g \in [DOMAIN g -> Header]
  <2>1. \A x \in DOMAIN g : g[x] \in Header
    BY <1>3, <1>4, <1>5, <1>6, Zenon
  <2> QED
    BY <2>1, Zenon DEF Split
<1> HIDE DEF g
<1>8. ASSUME NEW x \in DOMAIN g \ {heap_end}
      PROVE  /\ g[x].next \in DOMAIN g /\ x + SIZEOF_STRUCT_MEM < g[x].next
             /\ \A c \in DOMAIN g : c <= x \/ c >= g[x].next
  <2>1. CASE x = b
    BY <1>1, <1>2, <1>3, <1>4, <2>1, HeapEnd
  <2>2. CASE x = a
    BY <1>1, <1>2, <1>3, <1>5, <2>2, HeapEnd
  <2>3. CASE x \in DOMAIN h \ {a}
    <3>1. /\ g[x].next = h[x].next /\ h[x].next \in DOMAIN h /\ x + SIZEOF_STRUCT_MEM < h[x].next
          /\ \A c \in DOMAIN h : c <= x \/ c >= h[x].next
      BY <1>6, <2>3, Zenon DEF Tiling
    <3>2. a <= x \/ a >= h[x].next
      BY <3>1, Zenon
    <3>3. x <= a \/ x >= h[a].next
      BY <1>1, <2>3, Zenon
    <3>4. b <= x \/ b >= h[x].next
      BY <1>1, <2>3, <3>2, <3>3, <3>1, HeapEnd
    <3> QED
      BY <1>3, <3>1, <3>4, Zenon
  <2> QED
    BY <1>3, <2>1, <2>2, <2>3, Zenon
<1>9. ASSUME NEW x \in DOMAIN g \ {heap_end}
      PROVE  /\ g[x].next # heap_end => g[g[x].next].prev = x
             /\ x # 0 => g[x].prev \in DOMAIN g /\ g[x].prev < x /\ g[g[x].prev].next = x
  <2>1. CASE x = b
    BY <1>1, <1>2, <1>3, <1>4, <1>5, <1>6, <2>1, HeapEnd
  <2>2. CASE x = a
    <3>1. x # 0 => h[x].prev \in DOMAIN h /\ h[x].prev < x /\ h[h[x].prev].next = x
      BY <2>2, Zenon DEF Tiling
    <3>2. x # 0 => g[h[x].prev].next = x
      BY <3>1, <1>1, <1>2, <1>6, <2>2, Zenon
    <3> QED
      BY <1>2, <1>3, <1>4, <1>5, <2>2, <3>1, <3>2, Zenon
  <2>3. CASE x \in DOMAIN h \ {a}
    <3>1. /\ h[x].next # heap_end => h[h[x].next].prev = x
          /\ h[x].next \in DOMAIN h
          /\ x # 0 => h[x].prev \in DOMAIN h /\ h[x].prev < x /\ h[h[x].prev].next = x
      BY <2>3, Zenon DEF Tiling
    <3>2. h[a].next # heap_end => h[h[a].next].prev = a
      BY Zenon DEF Tiling
    <3>3. g[x].next = h[x].next
      BY <1>6, <2>3, Zenon
    <3>4. h[x].next # heap_end => g[h[x].next].prev = x
      BY <1>2, <1>5, <1>6, <2>3, <3>1, <3>2, Zenon
    <3>5. CASE x = h[a].next
      BY <1>1, <1>2, <1>3, <1>4, <1>6, <2>3, <3>5, <3>3, <3>4, HeapEnd
    <3>6. CASE x # h[a].next
      BY <1>1, <1>2, <1>3, <1>5, <1>6, <2>3, <3>1, <3>3, <3>4, <3>6, Zenon
    <3> QED
      BY <3>5, <3>6, Zenon
  <2> QED
    BY <1>3, <2>1, <2>2, <2>3, Zenon
<1>10. 0 \in DOMAIN g /\ heap_end \in DOMAIN g /\ DOMAIN g \subseteq 0..heap_end /\ g[heap_end].used
  BY <1>2, <1>3, <1>6 DEF Tiling
<1>11. g[0].prev = 0
  BY <1>1, <1>2, <1>5, <1>6, HeapEnd DEF Tiling
<1>12. Tiling(g)
  BY <1>7, <1>8, <1>9, <1>10, <1>11, Zenon DEF Tiling
<1>13. SplitGives(h, a, b, g)
  BY <1>2, <1>3, <1>4, <1>5, <1>6, <1>12, Zenon DEF SplitGives
<1> QED
  BY <1>13, Zenon DEF g

\* Joining a block with the one behind it keeps the tiling.
LEMMA JoinTiles ==
    ASSUME NEW h, Tiling(h), NEW a \in DOMAIN h \ {heap_end}, NEW b, b = h[a].next, b # heap_end
    PROVE  JoinGives(h, a, b, Join(h, a, b))
<1> DEFINE g == Join(h, a, b)
           n == h[b].next
<1>1. /\ a \in Nat /\ b \in DOMAIN h /\ b \in Nat /\ n \in DOMAIN h /\ n \in Nat
      /\ DOMAIN h \subseteq 0..heap_end /\ a < b /\ b < n
      /\ a + SIZEOF_STRUCT_MEM < b /\ b + SIZEOF_STRUCT_MEM < n
      /\ \A c \in DOMAIN h : (c <= a \/ c >= b) /\ (c <= b \/ c >= n)
      /\ n # heap_end => h[n].prev = b
  BY HeapEnd DEF Tiling
<1> HIDE DEF n
<1>2. b # 0 /\ a # b /\ a # n /\ b # n
  BY <1>1
<1>3. DOMAIN g = DOMAIN h \ {b}
  BY Zenon DEF Join
<1>4. g[a].used = h[a].used /\ g[a].next = n /\ g[a].prev = h[a].prev /\ g[a] \in Header
  <2>1. g[a] = [h[a] EXCEPT !.next = n]
    BY <1>2, Zenon DEF Join, n
  <2> QED
    BY <2>1, <1>1 DEF Tiling, Header
<1>5. ASSUME NEW x \in DOMAIN h \ {a, b}
      PROVE  /\ g[x].used = h[x].used /\ g[x].next = h[x].next /\ g[x] \in Header
             /\ x = n => g[x].prev = a
             /\ x # n => g[x].prev = h[x].prev
  <2>1. g[x] = IF x = n THEN [h[x] EXCEPT !.prev = a] ELSE h[x]
    BY <1>2, Zenon DEF Join, n
  <2> QED
    BY <2>1, <1>1 DEF Tiling, Header
<1>6. g \in [DOMAIN g -> Header]
  <2>1. \A x \in DOMAIN g : g[x] \in Header
    BY <1>3, <1>4, <1>5, Zenon
  <2> QED
    BY <2>1, Zenon DEF Join
<1> HIDE DEF g
<1>7. ASSUME NEW x \in DOMAIN g \ {heap_end}
      PROVE  /\ g[x].next \in DOMAIN g /\ x + SIZEOF_STRUCT_MEM < g[x].next
             /\ \A c \in DOMAIN g : c <= x \/ c >= g[x].next
             /\ g[x].next # heap_end => g[g[x].next].prev = x
             /\ x # 0 => g[x].prev \in DOMAIN g /\ g[x].prev < x /\ g[g[x].prev].next = x
  <2>1. /\ h[x].next \in DOMAIN h /\ x + SIZEOF_STRUCT_MEM < h[x].next
        /\ \A c \in DOMAIN h : c <= x \/ c >= h[x].next
        /\ h[x].next # heap_end => h[h[x].next].prev = x
        /\ x # 0 => h[x].prev \in DOMAIN h /\ h[x].prev < x /\ h[h[x].prev].next = x
        /\ x \in DOMAIN h /\ x # b /\ x \in Nat
    BY <1>1, <1>3 DEF Tiling
  <2>2. CASE x = a
    <3>1. /\ g[x].next = n /\ n \in DOMAIN g /\ x + SIZEOF_STRUCT_MEM < n
          /\ \A c \in DOMAIN g : c <= x \/ c >= n
      BY <1>1, <1>2, <1>3, <1>4, <2>2, HeapEnd
    <3>2. n # heap_end => g[n].prev = x
      BY <1>1, <1>2, <1>5, <2>2, Zenon
    <3>3. x # 0 => g[x].prev \in DOMAIN g /\ g[x].prev < x /\ g[g[x].prev].next = x
      BY <1>1, <1>3, <1>4, <1>5, <2>1, <2>2
    <3> QED
      BY <3>1, <3>2, <3>3, Zenon
  <2>3. CASE x # a
    <3>1. h[x].next # b
      <4>1. h[b].prev = a
        BY <1>1, Zenon DEF Tiling
      <4> QED
        BY <2>1, <2>3, <4>1, Zenon
    <3>2. g[x].next = h[x].next
      BY <1>5, <2>1, <2>3, Zenon
    <3>3. h[x].next # n
      <4>1. CASE n = heap_end
        <5>1. x <= b \/ x >= n
          BY <1>1, <2>1, Zenon
        <5>2. x < n
          BY <2>1, <4>1, <1>1
        <5>3. b <= x \/ b >= h[x].next
          BY <2>1, <1>1, Zenon
        <5> QED
          BY <5>1, <5>2, <5>3, <1>1, <2>1
      <4>2. CASE n # heap_end
        BY <1>1, <2>1, <4>2, Zenon
      <4> QED
        BY <4>1, <4>2, Zenon
    <3>4. g[x].next # heap_end => g[g[x].next].prev = x
      BY <1>4, <1>5, <2>1, <3>1, <3>2, <3>3
    <3>5. x # 0 => g[x].prev \in DOMAIN g /\ g[x].prev < x /\ g[g[x].prev].next = x
      <4>1. CASE x = n
        BY <1>1, <1>3, <1>4, <1>5, <2>1, <2>3, <4>1
      <4>2. CASE x # n
        <5>1. x # 0 => h[x].prev # b
          BY <2>1, <4>2, Zenon DEF n
        <5>2. x # 0 => h[x].prev # a
          BY <2>1, Zenon
        <5> QED
          BY <1>3, <1>5, <2>1, <2>3, <4>2, <5>1, <5>2
      <4> QED
        BY <4>1, <4>2, Zenon
    <3> QED
      BY <1>3, <2>1, <3>1, <3>2, <3>4, <3>5, Zenon
  <2> QED
    BY <2>2, <2>3, Zenon
<1>8. 0 \in DOMAIN g /\ heap_end \in DOMAIN g /\ DOMAIN g \subseteq 0..heap_end /\ g[heap_end].used
  BY <1>2, <1>3, <1>5, Zenon DEF Tiling
<1>9. g[0].prev = 0
  BY <1>1, <1>2, <1>4, <1>5 DEF Tiling
<1>10. Tiling(g)
  BY <1>6, <1>7, <1>8, <1>9, Zenon DEF Tiling
<1>11. JoinGives(h, a, b, g)
  BY <1>2, <1>3, <1>4, <1>5, <1>10, Zenon DEF JoinGives, n
<1> QED
  BY <1>11, Zenon DEF g

\* Marking a block used or free keeps the tiling.
LEMMA MarkTiles ==
    ASSUME NEW h, Tiling(h), NEW b \in DOMAIN h \ {heap_end}, NEW u \in BOOLEAN
    PROVE  MarkGives(h, b, u, [h EXCEPT ![b].used = u])
<1> DEFINE g == [h EXCEPT ![b].used = u]
<1>1. DOMAIN g = DOMAIN h /\ g \in [DOMAIN g -> Header] /\ g[b].used = u
  BY DEF Tiling, Header
<1>2. \A x \in DOMAIN h : g[x].next = h[x].next /\ g[x].prev = h[x].prev
  BY DEF Tiling, Header
<1>3. \A x \in DOMAIN h \ {b} : g[x].used = h[x].used
  BY Zenon DEF Tiling, Header
<1> HIDE DEF g
<1>4. \A x \in DOMAIN g \ {heap_end} :
         /\ g[x].next \in DOMAIN g /\ x + SIZEOF_STRUCT_MEM < g[x].next
         /\ \A c \in DOMAIN g : c <= x \/ c >= g[x].next
         /\ g[x].next # heap_end => g[g[x].next].prev = x
         /\ x # 0 => g[x].prev \in DOMAIN g /\ g[x].prev < x /\ g[g[x].prev].next = x
  BY <1>1, <1>2 DEF Tiling
<1>5. Tiling(g)
  BY <1>1, <1>2, <1>3, <1>4, Zenon DEF Tiling
<1>6. MarkGives(h, b, u, g)
  BY <1>1, <1>2, <1>3, <1>5, Zenon DEF MarkGives
<1> QED
  BY <1>6, Zenon DEF g

-----------------------------------------------------------------------------
(* plug_holes.                                                             *)

\* g is h but for free blocks that were joined.
Plugged(h, g) ==
    /\ DOMAIN g \subseteq DOMAIN h
    /\ \A x \in DOMAIN h : h[x].used => x \in DOMAIN g /\ g[x].next = h[x].next
    /\ \A x \in DOMAIN g : g[x].used = h[x].used

\* NoTwoHoles, except perhaps before and behind block m.
HolesApart(h, m) ==
    \A x \in DOMAIN h \ {heap_end, m} : ~h[x].used /\ h[x].next # m => h[h[x].next].used

LowestIs(h, l) == \A x \in DOMAIN h : ~h[x].used => l <= x

\* plug_holes looks behind: what is there is used afterwards.
LEMMA ForwardFacts ==
    ASSUME NEW h, Tiling(h), NEW mem \in DOMAIN h \ {heap_end}, ~h[mem].used, NEW l \in DOMAIN h,
           NEW s, s = Forward([heap |-> h, lfree |-> l], mem)
    PROVE  /\ Tiling(s.heap) /\ s.lfree \in DOMAIN s.heap /\ Plugged(h, s.heap)
           /\ mem \in DOMAIN s.heap
           /\ \A x \in DOMAIN s.heap \ {mem} : s.heap[x].next = h[x].next
           /\ HolesApart(h, mem) => s.heap[s.heap[mem].next].used
           /\ LowestIs(h, l) => LowestIs(s.heap, s.lfree)
<1> DEFINE n == h[mem].next
<1>1. n \in DOMAIN h /\ n \in Nat /\ mem \in Nat /\ mem < n /\ l \in Nat
  BY HeapEnd DEF Tiling
<1>2. CASE ~h[n].used /\ n # heap_end
  <2>1. s = [heap |-> Join(h, mem, n), lfree |-> IF l = n THEN mem ELSE l]
    BY <1>1, <1>2 DEF Forward
  <2> DEFINE g == Join(h, mem, n)
  <2>2. JoinGives(h, mem, n, g)
    BY <1>2, JoinTiles, Zenon
  <2> HIDE DEF g
  <2>3. s.heap = g /\ s.lfree = IF l = n THEN mem ELSE l
    BY <2>1 DEF g
  <2>4. Plugged(h, g)
    BY <1>2, <2>2, Zenon DEF Plugged, JoinGives
  <2>5. HolesApart(h, mem) => g[g[mem].next].used
    <3>1. h[n].next \in DOMAIN h /\ h[n].next # mem /\ h[n].next # n
      BY <1>1, <1>2, HeapEnd DEF Tiling
    <3> QED
      BY <1>1, <1>2, <2>2, <3>1, Zenon DEF HolesApart, JoinGives
  <2>6. LowestIs(h, l) => LowestIs(g, s.lfree)
    BY <1>1, <2>2, <2>3 DEF LowestIs, JoinGives
  <2> QED
    BY <1>1, <2>2, <2>3, <2>4, <2>5, <2>6, Zenon DEF JoinGives
<1>3. CASE ~(~h[n].used /\ n # heap_end)
  <2>1. s = [heap |-> h, lfree |-> l]
    BY <1>3, Zenon DEF Forward
  <2>2. s.heap = h /\ s.lfree = l
    BY <2>1
  <2>3. h[n].used
    BY <1>3, Zenon DEF Tiling
  <2> QED
    BY <2>2, <2>3, Zenon DEF Plugged
<1> QED
  BY <1>2, <1>3, Zenon

\* And before: a block that is free afterwards has a used one behind it.
LEMMA BackwardFacts ==
    ASSUME NEW h, Tiling(h), NEW mem \in DOMAIN h \ {heap_end}, ~h[mem].used, NEW l \in DOMAIN h,
           NEW s, s = Backward([heap |-> h, lfree |-> l], mem)
    PROVE  /\ Tiling(s.heap) /\ s.lfree \in DOMAIN s.heap /\ Plugged(h, s.heap)
           /\ HolesApart(h, mem) /\ h[h[mem].next].used => HolesApart(s.heap, heap_end)
           /\ LowestIs(h, l) => LowestIs(s.heap, s.lfree)
<1> DEFINE p == h[mem].prev
<1>1. mem \in Nat /\ l \in Nat /\ h[mem].next \in DOMAIN h /\ h[mem].next > mem
  BY HeapEnd DEF Tiling
<1>2. CASE p # mem /\ ~h[p].used
  <2>1. mem # 0 /\ p \in DOMAIN h /\ p < mem /\ h[p].next = mem /\ p \in Nat /\ p # heap_end
    BY <1>1, <1>2, HeapEnd DEF Tiling
  <2>2. s = [heap |-> Join(h, p, mem), lfree |-> IF l = mem THEN p ELSE l]
    BY <1>2, Zenon DEF Backward
  <2> DEFINE g == Join(h, p, mem)
  <2>3. JoinGives(h, p, mem, g)
    <3> HIDE DEF p
    <3>1. p \in DOMAIN h \ {heap_end} /\ mem = h[p].next /\ mem # heap_end
      BY <2>1, Zenon
    <3> QED
      BY <3>1, JoinTiles, Zenon
  <2> HIDE DEF g
  <2>4. s.heap = g /\ s.lfree = IF l = mem THEN p ELSE l
    BY <2>2 DEF g
  <2>5. Plugged(h, g)
    BY <1>2, <2>3, Zenon DEF Plugged, JoinGives
  <2>6. ASSUME HolesApart(h, mem), h[h[mem].next].used,
               NEW x \in DOMAIN g \ {heap_end}, ~g[x].used
        PROVE  g[g[x].next].used
    <3>1. CASE x = p
      BY <1>1, <2>1, <2>3, <2>6, <3>1, Zenon DEF JoinGives
    <3>2. CASE x # p
      <4>1. h[x].next # mem
        <5>1. h[x].next = mem => h[mem].prev = x
          BY <2>3, <2>6, Zenon DEF Tiling, JoinGives
        <5> QED
          BY <5>1, <3>2, Zenon
      <4>2. h[h[x].next].used /\ h[x].next \in DOMAIN h
        BY <2>3, <2>6, <4>1, Zenon DEF HolesApart, Tiling, JoinGives
      <4> QED
        BY <2>3, <2>6, <3>2, <4>1, <4>2, Zenon DEF JoinGives
    <3> QED
      BY <3>1, <3>2, Zenon
  <2>7. LowestIs(h, l) => LowestIs(g, s.lfree)
    BY <1>1, <1>2, <2>1, <2>3, <2>4 DEF LowestIs, JoinGives
  <2>8. s.lfree \in DOMAIN g
    BY <1>2, <2>1, <2>3, <2>4, Zenon DEF JoinGives
  <2>9. HolesApart(h, mem) /\ h[h[mem].next].used => HolesApart(g, heap_end)
    BY <2>6, Zenon DEF HolesApart
  <2> QED
    BY <2>3, <2>4, <2>5, <2>7, <2>8, <2>9, Zenon DEF JoinGives
<1>3. CASE ~(p # mem /\ ~h[p].used)
  <2>1. s = [heap |-> h, lfree |-> l]
    BY <1>3, Zenon DEF Backward
  <2>2. s.heap = h /\ s.lfree = l
    BY <2>1
  <2>3. ASSUME HolesApart(h, mem), h[h[mem].next].used,
               NEW x \in DOMAIN h \ {heap_end}, ~h[x].used
        PROVE  h[h[x].next].used
    <3>1. h[x].next = mem => h[mem].prev = x /\ x < mem
      BY HeapEnd, <1>1, <2>3 DEF Tiling
    <3> QED
      BY <1>1, <1>3, <2>3, <3>1, Zenon DEF HolesApart
  <2>4. HolesApart(h, mem) /\ h[h[mem].next].used => HolesApart(h, heap_end)
    BY <2>3, Zenon DEF HolesApart
  <2> QED
    BY <2>2, <2>4, Zenon DEF Plugged
<1> QED
  BY <1>2, <1>3, Zenon

\* Together: plug_holes keeps the tiling and all used blocks, leaves no two free
\* blocks side by side, and lfree stays the lowest if it was.
LEMMA PlugFacts ==
    ASSUME NEW h, Tiling(h), NEW mem \in DOMAIN h \ {heap_end}, ~h[mem].used, NEW l \in DOMAIN h,
           NEW s, s = plug_holes([heap |-> h, lfree |-> l], mem)
    PROVE  /\ Tiling(s.heap) /\ s.lfree \in DOMAIN s.heap /\ Plugged(h, s.heap)
           /\ HolesApart(h, mem) => HolesApart(s.heap, heap_end)
           /\ LowestIs(h, l) => LowestIs(s.heap, s.lfree)
<1> DEFINE f == Forward([heap |-> h, lfree |-> l], mem)
<1>1. /\ Tiling(f.heap) /\ f.lfree \in DOMAIN f.heap /\ Plugged(h, f.heap)
      /\ mem \in DOMAIN f.heap
      /\ \A x \in DOMAIN f.heap \ {mem} : f.heap[x].next = h[x].next
      /\ HolesApart(h, mem) => f.heap[f.heap[mem].next].used
      /\ LowestIs(h, l) => LowestIs(f.heap, f.lfree)
  BY ForwardFacts
<1>2. f = [heap |-> f.heap, lfree |-> f.lfree]
  BY Zenon DEF Forward
<1>3. s = Backward(f, mem)
  BY Zenon DEF plug_holes
<1> HIDE DEF f
<1>4. mem \in DOMAIN f.heap \ {heap_end} /\ ~f.heap[mem].used
  BY <1>1, Zenon DEF Plugged
<1>5. s = Backward([heap |-> f.heap, lfree |-> f.lfree], mem)
  BY <1>2, <1>3, Zenon
<1>6. /\ Tiling(s.heap) /\ s.lfree \in DOMAIN s.heap /\ Plugged(f.heap, s.heap)
      /\ HolesApart(f.heap, mem) /\ f.heap[f.heap[mem].next].used => HolesApart(s.heap, heap_end)
      /\ LowestIs(f.heap, f.lfree) => LowestIs(s.heap, s.lfree)
  BY <1>1, <1>4, <1>5, BackwardFacts, Zenon
<1>7. Plugged(h, s.heap)
  BY <1>1, <1>6, Zenon DEF Plugged
<1>8. HolesApart(h, mem) => HolesApart(f.heap, mem)
  BY <1>1, SMTT(40) DEF HolesApart, Plugged, Tiling
<1> QED
  BY <1>1, <1>6, <1>7, <1>8, Zenon

-----------------------------------------------------------------------------
(* rt_malloc.                                                              *)

Less == {ss \in Nat \X Nat : ss[1] < ss[2]}

\* A set of offsets has a lowest one, which the searches of rt_malloc name.
LEMMA LowestFacts ==
    ASSUME NEW T \in SUBSET Nat, T # {}
    PROVE  Lowest(T) \in T /\ \A q \in T : Lowest(T) <= q
<1>1. IsWellFoundedOn(Less, Nat)
  BY NatLessThanWellFounded, Zenon DEF OpToRel, Less
<1>2. PICK x \in T : \A y \in T : ~ (<<y, x>> \in Less)
  BY <1>1, WFMin, Zenon
<1>3. \A y \in T : ~(y < x)
  BY <1>2, Zenon DEF Less
<1>4. \A y \in T : x <= y
  BY <1>3
<1> QED
  BY <1>2, <1>4, Zenon DEF Lowest

\* RT_ALIGN rounds up, and 0 to 0; rt_malloc takes at least MIN_SIZE_ALIGNED.
LEMMA RoundFacts ==
    ASSUME NEW size \in Nat
    PROVE  /\ RT_ALIGN(size) \in Nat /\ size <= RT_ALIGN(size) /\ (size = 0 => RT_ALIGN(size) = 0)
           /\ Rounded(size) \in Nat \ {0} /\ size <= Rounded(size)
           /\ RT_ALIGN(size) <= Rounded(size)
<1> DEFINE A == RT_ALIGN_SIZE
           q == (size + A - 1) \div A
<1>1. A \in Nat \ {0} /\ MIN_SIZE_ALIGNED \in Nat \ {0}
  BY HeapConstants, Zenon
<1>2. q \in Nat /\ q * A \in Nat /\ size <= q * A /\ (size = 0 => q = 0)
  BY <1>1
<1>3. RT_ALIGN(size) = q * A
  BY Zenon DEF RT_ALIGN
<1>4. size = 0 => q * A = 0
  BY <1>1, <1>2
<1> HIDE DEF q
<1> QED
  BY <1>1, <1>2, <1>3, <1>4 DEF Rounded

\* Taking a block, whole or its front, leaves all others alone.
LEMMA TakenFacts ==
    ASSUME NEW h, Tiling(h), NEW b \in DOMAIN h \ {heap_end}, ~h[b].used,
           NEW size \in Nat \ {0}, size <= Room(h, b), NEW g, g = Taken(h, b, size)
    PROVE  /\ Tiling(g) /\ DOMAIN h \subseteq DOMAIN g /\ g[b].used /\ size <= Room(g, b)
           /\ \A x \in DOMAIN h \ {b} : g[x].used = h[x].used /\ g[x].next = h[x].next
           /\ \A x \in DOMAIN g \ DOMAIN h : ~g[x].used /\ b < x
           /\ HolesApart(h, heap_end) => HolesApart(g, heap_end)
<1> DEFINE c == b + SIZEOF_STRUCT_MEM + size
           new == IF Room(h, b) >= size + SIZEOF_STRUCT_MEM + MIN_SIZE_ALIGNED
                  THEN Split(h, b, c) ELSE h
<1>1. /\ b \in Nat /\ h[b].next \in Nat /\ h[b].next \in DOMAIN h /\ b < h[b].next
      /\ SIZEOF_STRUCT_MEM \in Nat \ {0} /\ MIN_SIZE_ALIGNED \in Nat \ {0} /\ c \in Nat /\ b < c
  <2>1. SIZEOF_STRUCT_MEM \in Nat \ {0} /\ MIN_SIZE_ALIGNED \in Nat \ {0}
    BY HeapConstants, Zenon
  <2>2. b \in Nat /\ h[b].next \in Nat /\ h[b].next \in DOMAIN h /\ b < h[b].next
    BY HeapEnd DEF Tiling
  <2> QED
    BY <2>1, <2>2
<1>2. /\ Tiling(new) /\ DOMAIN h \subseteq DOMAIN new /\ size <= Room(new, b)
      /\ \A x \in DOMAIN h \ {b} : new[x].used = h[x].used /\ new[x].next = h[x].next
      /\ \A x \in DOMAIN new \ DOMAIN h : ~new[x].used /\ b < x /\ new[x].next = h[b].next
  <2>1. CASE Room(h, b) >= size + SIZEOF_STRUCT_MEM + MIN_SIZE_ALIGNED
    <3>1. b + SIZEOF_STRUCT_MEM < c /\ c + SIZEOF_STRUCT_MEM < h[b].next /\ c \in Int
      BY <1>1, <2>1 DEF Room
    <3>2. new = Split(h, b, c)
      BY <2>1, Zenon
    <3> HIDE DEF new, c
    <3>3. SplitGives(h, b, c, new)
      BY <3>1, <3>2, SplitTiles, Zenon
    <3>4. size <= Room(new, b)
      BY <1>1, <3>3 DEF Room, c, SplitGives
    <3> QED
      BY <1>1, <3>3, <3>4, Zenon DEF SplitGives
  <2>2. CASE ~(Room(h, b) >= size + SIZEOF_STRUCT_MEM + MIN_SIZE_ALIGNED)
    BY <2>2, Zenon
  <2> QED
    BY <2>1, <2>2, Zenon
<1>3. g = [new EXCEPT ![b].used = TRUE]
  BY Zenon DEF Taken
<1> HIDE DEF new, c
<1>4. MarkGives(new, b, TRUE, g)
  <2>1. b \in DOMAIN new \ {heap_end} /\ TRUE \in BOOLEAN
    BY <1>2, Zenon
  <2>2. Tiling(new)
    BY <1>2, Zenon
  <2>3. MarkGives(new, b, TRUE, [new EXCEPT ![b].used = TRUE])
    BY <2>1, <2>2, MarkTiles, Zenon
  <2> QED
    BY <1>3, <2>3, Zenon
<1>5. size <= Room(g, b)
  BY <1>2, <1>4, Zenon DEF Room, MarkGives
<1>6. ASSUME HolesApart(h, heap_end), NEW x \in DOMAIN g \ {heap_end}, ~g[x].used
      PROVE  g[g[x].next].used
  <2>1. CASE x \in DOMAIN h
    <3>1. x # b /\ g[x].next = h[x].next /\ ~h[x].used /\ h[x].next \in DOMAIN h
      BY <1>2, <1>4, <1>6, <2>1 DEF Tiling, MarkGives
    <3>2. h[h[x].next].used
      BY <1>6, <3>1, <2>1, Zenon DEF HolesApart, Tiling
    <3> QED
      BY <1>2, <1>4, <3>1, <3>2 DEF MarkGives
  <2>2. CASE x \notin DOMAIN h
    <3>1. g[x].next = h[b].next
      BY <1>2, <1>4, <1>6, <2>2, Zenon DEF MarkGives
    <3>2. h[h[b].next].used
      BY <1>6, Zenon DEF HolesApart, Tiling
    <3> QED
      BY <1>1, <1>2, <1>4, <3>1, <3>2 DEF MarkGives
  <2> QED
    BY <2>1, <2>2, Zenon
<1>7. HolesApart(h, heap_end) => HolesApart(g, heap_end)
  BY <1>6, Zenon DEF HolesApart
<1> QED
  BY <1>2, <1>4, <1>5, <1>7, Zenon DEF MarkGives

\* The block found is free and has room.
LEMMA FoundFacts ==
    ASSUME Tiling(heap), lfree \in DOMAIN heap, NEW size \in Nat, Found(size) # NULL
    PROVE  /\ Found(size) \in DOMAIN heap \ {heap_end} /\ ~heap[Found(size)].used
           /\ Rounded(size) <= Room(heap, Found(size)) /\ size # 0
<1> DEFINE fit == {p \in DOMAIN heap : /\ lfree <= p /\ p < mem_size_aligned - Rounded(size)
                                       /\ Fits(heap, p, Rounded(size))}
<1>1. size # 0 /\ Found(size) = Search(heap, Rounded(size), lfree)
  BY Zenon DEF Found
<1>2. fit # {} /\ Found(size) = Lowest(fit)
  BY <1>1, Zenon DEF Search
<1>3. fit \in SUBSET Nat
  BY HeapEnd DEF Tiling
<1>4. Found(size) \in fit
  BY <1>2, <1>3, LowestFacts, Zenon
<1>5. Found(size) \in DOMAIN heap /\ ~heap[Found(size)].used /\ Room(heap, Found(size)) >= Rounded(size)
  BY <1>4, Zenon DEF Fits
<1>6. Found(size) # heap_end
  BY <1>5, Zenon DEF Tiling
<1>7. Room(heap, Found(size)) \in Int /\ Rounded(size) \in Int
  BY <1>5, <1>6, HeapEnd, RoundFacts DEF Room, Tiling
<1> QED
  BY <1>1, <1>5, <1>6, <1>7, Zenon

\* If none is found although lfree is right, none has room, but perhaps the last
\* one of the heap, and that one exactly.
LEMMA NotFoundFacts ==
    ASSUME Tiling(heap), lfree \in DOMAIN heap, LowestIs(heap, lfree),
           NEW size \in Nat \ {0}, Found(size) = NULL,
           NEW b \in DOMAIN heap \ {heap_end}, Fits(heap, b, Rounded(size))
    PROVE  b = mem_size_aligned - Rounded(size)
<1> DEFINE fit == {p \in DOMAIN heap : /\ lfree <= p /\ p < mem_size_aligned - Rounded(size)
                                       /\ Fits(heap, p, Rounded(size))}
<1>1. /\ b \in Nat /\ heap[b].next \in Nat /\ heap[b].next <= heap_end /\ mem_size_aligned \in Nat
      /\ lfree <= b /\ Rounded(size) \in Nat /\ RT_ALIGN(size) \in Nat
      /\ RT_ALIGN(size) <= Rounded(size)
  BY HeapEnd, HeapConstants, RoundFacts DEF Tiling, LowestIs, Fits
<1>2. b <= mem_size_aligned - Rounded(size)
  <2>1. heap[b].next - (b + SIZEOF_STRUCT_MEM) >= Rounded(size)
    BY Zenon DEF Fits, Room
  <2> QED
    BY <1>1, <2>1, HeapEnd
<1>3. ~(RT_ALIGN(size) > mem_size_aligned)
  BY <1>1, <1>2
<1>4. Search(heap, Rounded(size), lfree) = NULL
  BY <1>3, Zenon DEF Found
<1>5. fit = {}
  <2>1. CASE fit # {}
    <3>1. Lowest(fit) = NULL
      BY <1>4, <2>1, Zenon DEF Search
    <3>2. fit \in SUBSET Nat
      BY HeapEnd DEF Tiling
    <3>3. Lowest(fit) \in Nat
      BY <2>1, <3>2, LowestFacts, Zenon
    <3> QED
      BY <3>1, <3>3 DEF NULL
  <2> QED
    BY <2>1, Zenon
<1>6. ~(b < mem_size_aligned - Rounded(size))
  BY <1>1, <1>5, Zenon
<1> QED
  BY <1>1, <1>2, <1>6

\* NextFree is a header, and no free block from "from" on is below it.
LEMMA NextFreeFacts ==
    ASSUME NEW h, Tiling(h), NEW from \in DOMAIN h
    PROVE  /\ NextFree(h, from) \in DOMAIN h
           /\ \A p \in DOMAIN h : from <= p /\ ~h[p].used => NextFree(h, from) <= p
<1> DEFINE T == {p \in DOMAIN h : from <= p /\ (~h[p].used \/ p = heap_end)}
<1>1. T \in SUBSET Nat /\ heap_end \in T
  BY HeapEnd DEF Tiling
<1>2. Lowest(T) \in T /\ \A q \in T : Lowest(T) <= q
  BY <1>1, LowestFacts, Zenon
<1>3. NextFree(h, from) = Lowest(T)
  BY Zenon DEF NextFree
<1> HIDE DEF T
<1>4. \A p \in DOMAIN h : from <= p /\ ~h[p].used => p \in T
  BY Zenon DEF T
<1>5. \A p \in T : p \in DOMAIN h
  BY Zenon DEF T
<1> QED
  BY <1>2, <1>3, <1>4, <1>5, Zenon

-----------------------------------------------------------------------------
(* The invariant, and what a step does to the headers.                     *)

HeapInv ==
    /\ Tiling(heap) /\ lfree \in DOMAIN heap
    /\ HolesApart(heap, heap_end)
    /\ ~cut => LowestIs(heap, lfree)

HandedOut(b, size) ==
    /\ Tiling(heap') /\ lfree' \in DOMAIN heap' /\ HolesApart(heap', heap_end)
    /\ ~cut => LowestIs(heap', lfree')
    /\ b \in DOMAIN heap \ {heap_end} /\ ~heap[b].used
    /\ DOMAIN heap \subseteq DOMAIN heap' /\ heap'[b].used /\ size <= Room(heap', b)
    /\ \A x \in DOMAIN heap \ {b} : heap'[x].used = heap[x].used /\ heap'[x].next = heap[x].next
    /\ \A x \in DOMAIN heap' \ DOMAIN heap : ~heap'[x].used

\* Used blocks but b are as they were, and no other is used.
OthersKept(b) ==
    /\ \A x \in DOMAIN heap \ {b} :
         heap[x].used => x \in DOMAIN heap' /\ heap'[x].used /\ heap'[x].next = heap[x].next
    /\ \A x \in DOMAIN heap' \ {b} : heap'[x].used => x \in DOMAIN heap /\ heap[x].used

GivenBack(b) ==
    /\ Tiling(heap') /\ lfree' \in DOMAIN heap' /\ HolesApart(heap', heap_end)
    /\ ~cut => LowestIs(heap', lfree')
    /\ OthersKept(b) /\ (b \in DOMAIN heap' => ~heap'[b].used)

CutShort(b, newsize) ==
    /\ Tiling(heap') /\ lfree' \in DOMAIN heap' /\ HolesApart(heap', heap_end)
    /\ OthersKept(b) /\ b \in DOMAIN heap' /\ heap'[b].used
    /\ heap'[b].next = b + SIZEOF_STRUCT_MEM + newsize

\* rt_malloc, once it has found a block.
LEMMA TakeFacts ==
    ASSUME HeapInv, NEW size \in Nat, NEW b, b = Found(size), b # NULL, Take(b, size)
    PROVE  HandedOut(b, size) /\ size # 0
<1>1. /\ b \in DOMAIN heap \ {heap_end} /\ ~heap[b].used
      /\ Rounded(size) <= Room(heap, b) /\ size # 0
  BY FoundFacts, Zenon DEF HeapInv
<1>2. heap' = Taken(heap, b, Rounded(size))
  BY Zenon DEF Take
<1>3. Rounded(size) \in Nat \ {0} /\ size <= Rounded(size)
  BY RoundFacts, Zenon
<1>4. /\ Tiling(heap') /\ DOMAIN heap \subseteq DOMAIN heap' /\ heap'[b].used
      /\ Rounded(size) <= Room(heap', b)
      /\ \A x \in DOMAIN heap \ {b} : heap'[x].used = heap[x].used /\ heap'[x].next = heap[x].next
      /\ \A x \in DOMAIN heap' \ DOMAIN heap : ~heap'[x].used /\ b < x
      /\ HolesApart(heap, heap_end) => HolesApart(heap', heap_end)
  BY <1>1, <1>2, <1>3, TakenFacts DEF HeapInv
<1>5. lfree' = IF b = lfree THEN NextFree(heap', lfree) ELSE lfree
  BY <1>2, Zenon DEF Take
<1>6. /\ NextFree(heap', lfree) \in DOMAIN heap'
      /\ \A p \in DOMAIN heap' : lfree <= p /\ ~heap'[p].used => NextFree(heap', lfree) <= p
  BY <1>4, NextFreeFacts, Zenon DEF HeapInv
<1>7. lfree' \in DOMAIN heap'
  BY <1>4, <1>5, <1>6, Zenon DEF HeapInv
<1>8. size <= Room(heap', b)
  <2>1. Room(heap', b) \in Int
    BY <1>1, <1>4, HeapEnd DEF Room, Tiling
  <2> QED
    BY <1>3, <1>4, <2>1
<1>9. ASSUME ~cut PROVE LowestIs(heap', lfree')
  <2>1. lfree \in Nat /\ b \in Nat /\ lfree <= b /\ DOMAIN heap' \subseteq Nat
    BY <1>1, <1>4, <1>9, HeapEnd DEF HeapInv, Tiling, LowestIs
  <2>2. \A x \in DOMAIN heap' : ~heap'[x].used => lfree <= x
    BY <1>1, <1>4, <1>9, <2>1 DEF HeapInv, LowestIs
  <2> QED
    BY <1>5, <1>6, <2>2, Zenon DEF LowestIs
<1> QED
  BY <1>1, <1>4, <1>7, <1>8, <1>9, Zenon DEF HandedOut, HeapInv

\* rt_free of a used block.
LEMMA GiveFacts ==
    ASSUME HeapInv, NEW b \in DOMAIN heap \ {heap_end}, heap[b].used, Give(b)
    PROVE  GivenBack(b)
<1> DEFINE h == [heap EXCEPT ![b].used = FALSE]
           l == IF b < lfree THEN b ELSE lfree
           s == plug_holes([heap |-> h, lfree |-> l], b)
<1>1. heap' = s.heap /\ lfree' = s.lfree
  BY Zenon DEF Give
<1>2. MarkGives(heap, b, FALSE, h)
  <2>1. Tiling(heap) /\ FALSE \in BOOLEAN
    BY Zenon DEF HeapInv
  <2> QED
    BY <2>1, MarkTiles, Zenon
<1> HIDE DEF h
<1>3. Tiling(h) /\ b \in DOMAIN h \ {heap_end} /\ ~h[b].used /\ l \in DOMAIN h
  BY <1>2, Zenon DEF MarkGives, HeapInv
<1>4. HolesApart(h, b)
  BY <1>2 DEF MarkGives, HeapInv, HolesApart, Tiling
<1>5. ~cut => LowestIs(h, l)
  <2>1. b \in Nat /\ lfree \in Nat /\ DOMAIN heap \subseteq Nat
    BY HeapEnd DEF HeapInv, Tiling
  <2> QED
    BY <1>2, <2>1 DEF MarkGives, HeapInv, LowestIs
<1>6. /\ Tiling(s.heap) /\ s.lfree \in DOMAIN s.heap /\ Plugged(h, s.heap)
      /\ HolesApart(h, b) => HolesApart(s.heap, heap_end)
      /\ LowestIs(h, l) => LowestIs(s.heap, s.lfree)
  <2> HIDE DEF l
  <2> QED
    BY <1>3, PlugFacts, Zenon
<1> HIDE DEF s
<1>7. OthersKept(b) /\ (b \in DOMAIN heap' => ~heap'[b].used)
  BY <1>1, <1>2, <1>6, Zenon DEF MarkGives, Plugged, OthersKept
<1> QED
  BY <1>1, <1>4, <1>5, <1>6, <1>7, Zenon DEF GivenBack

\* rt_realloc that cuts a used block.
LEMMA ShrinkFacts ==
    ASSUME HeapInv, NEW b \in DOMAIN heap \ {heap_end}, heap[b].used, NEW newsize \in Nat \ {0},
           newsize + SIZEOF_STRUCT_MEM + MIN_SIZE_ALIGNED <= Room(heap, b), Shrink(b, newsize)
    PROVE  CutShort(b, newsize)
<1> DEFINE c == b + SIZEOF_STRUCT_MEM + newsize
           h == Split(heap, b, c)
           s == plug_holes([heap |-> h, lfree |-> lfree], c)
<1>1. heap' = s.heap /\ lfree' = s.lfree
  BY Zenon DEF Shrink
<1>2. c \in Int /\ b + SIZEOF_STRUCT_MEM < c /\ c + SIZEOF_STRUCT_MEM < heap[b].next
  <2>1. MIN_SIZE_ALIGNED \in Nat \ {0} /\ b \in Nat /\ heap[b].next \in Nat
    BY HeapConstants, HeapEnd DEF HeapInv, Tiling
  <2> QED
    BY <2>1, HeapEnd DEF Room
<1> HIDE DEF c
<1>3. SplitGives(heap, b, c, h)
  BY <1>2, SplitTiles, Zenon DEF HeapInv
<1> HIDE DEF h
<1>4. Tiling(h) /\ c \in DOMAIN h \ {heap_end} /\ ~h[c].used /\ lfree \in DOMAIN h /\ b # c
  BY <1>3, Zenon DEF SplitGives, HeapInv, Tiling
<1>5. ASSUME NEW x \in DOMAIN h \ {heap_end, c}, ~h[x].used, h[x].next # c
      PROVE  h[h[x].next].used
  <2>1. x \in DOMAIN heap \ {heap_end, b} /\ h[x].next = heap[x].next /\ ~heap[x].used
    BY <1>3, <1>5, Zenon DEF SplitGives
  <2>2. heap[x].next \in DOMAIN heap /\ heap[heap[x].next].used
    BY <2>1, Zenon DEF HeapInv, HolesApart, Tiling
  <2> QED
    BY <1>3, <2>1, <2>2, Zenon DEF SplitGives
<1>6. /\ Tiling(s.heap) /\ s.lfree \in DOMAIN s.heap /\ Plugged(h, s.heap)
      /\ HolesApart(h, c) => HolesApart(s.heap, heap_end)
  BY <1>4, PlugFacts, Zenon
<1> HIDE DEF s
<1>7. OthersKept(b)
  BY <1>1, <1>3, <1>6 DEF SplitGives, Plugged, OthersKept
<1>8. b \in DOMAIN heap' /\ heap'[b].used /\ heap'[b].next = c
  BY <1>1, <1>3, <1>6, Zenon DEF SplitGives, Plugged
<1> QED
  BY <1>1, <1>5, <1>6, <1>7, <1>8, Zenon DEF CutShort, HolesApart, c

-----------------------------------------------------------------------------
(* Owners.                                                                 *)

Piece == [ptr : Nat, size : Nat \ {0}]

\* Owned for headers h and what the threads have, w, one block at a time.
OwnedBy(h, w) ==
    /\ \A t \in Threads : \A r \in w[t] :
         /\ Block(r.ptr) \in DOMAIN h \ {heap_end} /\ h[Block(r.ptr)].used
         /\ r.size <= Room(h, Block(r.ptr))
    /\ \A x \in DOMAIN h \ {heap_end} :
         h[x].used => \E t \in Threads : \E r \in w[t] : Block(r.ptr) = x
    /\ \A t, u \in Threads : \A r \in w[t], s \in w[u] : r.ptr = s.ptr => t = u /\ r = s

HeldInv ==
    /\ held \in [Threads -> SUBSET Piece]
    /\ moving \in [Threads -> [from : Int, to : Int, size : Nat]]
    /\ OwnedBy(heap, held)
    /\ \A t \in Threads : moving[t] # Still => \E r \in held[t] : r.ptr = moving[t].from

LEMMA OwnedFollows == ASSUME OwnedBy(heap, held) PROVE Owned
<1>1. \A r : r \in Regions <=> \E t \in Threads : r \in held[t]
  BY Zenon DEF Regions
<1>2. {b \in Blocks : heap[b].used} = {Block(r.ptr) : r \in Regions}
  <2>1. ASSUME NEW b \in Blocks, heap[b].used PROVE \E r \in Regions : b = Block(r.ptr)
    BY <1>1, <2>1, Zenon DEF OwnedBy, Blocks
  <2>2. ASSUME NEW r \in Regions PROVE Block(r.ptr) \in Blocks /\ heap[Block(r.ptr)].used
    BY <1>1, Zenon DEF OwnedBy, Blocks
  <2> QED
    BY <2>1, <2>2, Zenon
<1>3. \A r \in Regions : r.size <= Room(heap, Block(r.ptr))
  BY <1>1, ZenonT(40) DEF OwnedBy
<1> QED
  BY <1>2, <1>3, Zenon DEF OwnedBy, Owned

\* A piece with room in its block lies inside the heap, and pieces in different
\* blocks do not overlap.
LEMMA PieceFacts ==
    ASSUME NEW h, Tiling(h), NEW r \in Piece, NEW b \in DOMAIN h \ {heap_end},
           b = Block(r.ptr), r.size <= Room(h, b)
    PROVE  /\ r.ptr + r.size <= h[b].next /\ h[b].next <= heap_end
           /\ b \in Nat /\ h[b].next \in Nat /\ r.ptr = b + SIZEOF_STRUCT_MEM
  BY HeapEnd DEF Tiling, Piece, Room, Block

LEMMA PiecesDisjoint ==
    ASSUME NEW h, Tiling(h), NEW r \in Piece, NEW s \in Piece,
           Block(r.ptr) \in DOMAIN h \ {heap_end}, r.size <= Room(h, Block(r.ptr)),
           Block(s.ptr) \in DOMAIN h \ {heap_end}, s.size <= Room(h, Block(s.ptr)),
           r.ptr # s.ptr
    PROVE  Abstract!Disjoint(r, s)
<1> DEFINE b == Block(r.ptr)
           c == Block(s.ptr)
<1>1. /\ r.ptr + r.size <= h[b].next /\ b \in Nat /\ h[b].next \in Nat
      /\ r.ptr = b + SIZEOF_STRUCT_MEM
  BY PieceFacts, Zenon
<1>2. /\ s.ptr + s.size <= h[c].next /\ c \in Nat /\ h[c].next \in Nat
      /\ s.ptr = c + SIZEOF_STRUCT_MEM
  BY PieceFacts, Zenon
<1>3. (c <= b \/ c >= h[b].next) /\ (b <= c \/ b >= h[c].next)
  BY Zenon DEF Tiling
<1>4. r.size \in Nat /\ s.size \in Nat /\ r.ptr \in Nat /\ s.ptr \in Nat
  BY Zenon DEF Piece
<1> HIDE DEF b, c
<1> QED
  BY <1>1, <1>2, <1>3, <1>4, HeapEnd DEF Abstract!Disjoint

\* A block that is handed out gets one owner, and is an allocation for users.
LEMMA OwnedByTake ==
    ASSUME Tiling(heap), HeldInv, NEW t \in Threads, NEW b, NEW size \in Nat \ {0}, HandedOut(b, size),
           held' = [held EXCEPT ![t] = @ \cup {[ptr |-> Ptr(b), size |-> size]}]
    PROVE  held' \in [Threads -> SUBSET Piece] /\ OwnedBy(heap', held') /\ Abstract!Alloc
<1> DEFINE new == [ptr |-> Ptr(b), size |-> size]
<1>1. /\ b \in Nat /\ Block(Ptr(b)) = b /\ Ptr(b) \in Nat /\ b \in DOMAIN heap
      /\ b \in DOMAIN heap' \ {heap_end} /\ heap'[b].used /\ size <= Room(heap', b)
  BY HeapEnd DEF HandedOut, Tiling, Ptr, Block
<1>2. new \in Piece /\ new.ptr = Ptr(b) /\ new.size = size
  BY <1>1, Zenon DEF Piece
<1>3. \A u \in Threads : held'[u] = IF u = t THEN held[t] \cup {new} ELSE held[u]
  BY Zenon DEF HeldInv
<1>4. held' \in [Threads -> SUBSET Piece]
  BY <1>2, Zenon DEF HeldInv
<1> HIDE DEF new
<1>5. ASSUME NEW u \in Threads, NEW r \in held[u]
      PROVE  /\ Block(r.ptr) \in DOMAIN heap' \ {heap_end} /\ heap'[Block(r.ptr)].used
             /\ r.size <= Room(heap', Block(r.ptr)) /\ r.ptr # new.ptr
  <2>1. /\ Block(r.ptr) \in DOMAIN heap \ {heap_end} /\ heap[Block(r.ptr)].used
        /\ r.size <= Room(heap, Block(r.ptr))
    BY Zenon DEF HeldInv, OwnedBy
  <2>2. Block(r.ptr) # b
    BY <2>1, Zenon DEF HandedOut
  <2> QED
    BY <1>1, <1>2, <2>1, <2>2, Zenon DEF HandedOut, Room
<1>6. ASSUME NEW u \in Threads, NEW r \in held'[u]
      PROVE  /\ Block(r.ptr) \in DOMAIN heap' \ {heap_end} /\ heap'[Block(r.ptr)].used
             /\ r.size <= Room(heap', Block(r.ptr))
  BY <1>1, <1>2, <1>3, <1>5
<1>7. ASSUME NEW x \in DOMAIN heap' \ {heap_end}, heap'[x].used
      PROVE  \E u \in Threads : \E r \in held'[u] : Block(r.ptr) = x
  <2>1. CASE x = b
    BY <1>1, <1>2, <1>3, <2>1
  <2>2. CASE x # b
    <3>1. x \in DOMAIN heap \ {heap_end} /\ heap[x].used
      BY <1>7, <2>2, Zenon DEF HandedOut
    <3>2. PICK u \in Threads : \E r \in held[u] : Block(r.ptr) = x
      BY <3>1, Zenon DEF HeldInv, OwnedBy
    <3> QED
      BY <1>3, <3>2
  <2> QED
    BY <2>1, <2>2, Zenon
<1>8. ASSUME NEW u \in Threads, NEW v \in Threads, NEW r \in held'[u], NEW s \in held'[v],
             r.ptr = s.ptr
      PROVE  u = v /\ r = s
  <2>1. (r \in held[u] \/ (r = new /\ u = t)) /\ (s \in held[v] \/ (s = new /\ v = t))
    BY <1>3
  <2>2. CASE r \in held[u] /\ s \in held[v]
    BY <1>8, <2>2 DEF HeldInv, OwnedBy
  <2> QED
    BY <1>5, <1>8, <2>1, <2>2, Zenon
<1>9. OwnedBy(heap', held')
  BY <1>6, <1>7, <1>8, Zenon DEF OwnedBy
<1>10. Regions' = Regions \cup {new} /\ new \notin Regions
  <2>1. \A r : r \in Regions <=> \E u \in Threads : r \in held[u]
    BY Zenon DEF Regions
  <2>2. \A r : r \in Regions' <=> \E u \in Threads : r \in held'[u]
    BY Zenon DEF Regions
  <2>3. \A r : r \in Regions' <=> r \in Regions \/ r = new
    BY <1>3, <2>1, <2>2
  <2> QED
    BY <1>5, <2>1, <2>3, Zenon
<1>11. Abstract!Fitting(new, Regions)
  <2>1. new \in Abstract!Region
    BY <1>2, Zenon DEF Abstract!Region, Piece
  <2>2. new.ptr + new.size <= heap_end
    BY <1>1, <1>2, PieceFacts, HeapEnd DEF HandedOut, Piece
  <2>3. ASSUME NEW s \in Regions PROVE Abstract!Disjoint(new, s)
    <3>1. PICK u \in Threads : s \in held[u]
      BY Zenon DEF Regions
    <3>2. s \in Piece
      BY <3>1, Zenon DEF HeldInv
    <3> QED
      BY <1>1, <1>2, <1>5, <3>1, <3>2, PiecesDisjoint DEF HandedOut
  <2> QED
    BY <2>1, <2>2, <2>3, Zenon DEF Abstract!Fitting
<1>12. Abstract!Alloc
  BY <1>10, <1>11, Zenon DEF Abstract!Alloc
<1> QED
  BY <1>4, <1>9, <1>12, Zenon

\* A block given back was its owner's alone, and for users it is freed.
LEMMA OwnedByGive ==
    ASSUME Tiling(heap), HeldInv, NEW t \in Threads, NEW r \in held[t], GivenBack(Block(r.ptr)),
           held' = [held EXCEPT ![t] = @ \ {r}]
    PROVE  held' \in [Threads -> SUBSET Piece] /\ OwnedBy(heap', held') /\ Abstract!Free
<1> DEFINE b == Block(r.ptr)
<1>1. \A u \in Threads : held'[u] = IF u = t THEN held[t] \ {r} ELSE held[u]
  BY Zenon DEF HeldInv
<1>2. held' \in [Threads -> SUBSET Piece]
  BY Zenon DEF HeldInv
<1>3. ASSUME NEW u \in Threads, NEW s \in held'[u]
      PROVE  s \in held[u] /\ s.ptr # r.ptr /\ Block(s.ptr) # b
  <2>1. s \in held[u] /\ (u # t \/ s # r)
    BY <1>1
  <2>2. s.ptr # r.ptr
    BY <2>1 DEF HeldInv, OwnedBy
  <2>3. s.ptr \in Nat /\ r.ptr \in Nat
    BY <2>1 DEF HeldInv, Piece
  <2> QED
    BY <2>1, <2>2, <2>3, HeapEnd DEF Block
<1> HIDE DEF b
<1>4. ASSUME NEW u \in Threads, NEW s \in held'[u]
      PROVE  /\ Block(s.ptr) \in DOMAIN heap' \ {heap_end} /\ heap'[Block(s.ptr)].used
             /\ s.size <= Room(heap', Block(s.ptr))
  <2>1. /\ Block(s.ptr) \in DOMAIN heap \ {heap_end} /\ heap[Block(s.ptr)].used
        /\ s.size <= Room(heap, Block(s.ptr))
    BY <1>3, Zenon DEF HeldInv, OwnedBy
  <2> QED
    BY <1>3, <2>1, Zenon DEF GivenBack, OthersKept, Room, b
<1>5. ASSUME NEW x \in DOMAIN heap' \ {heap_end}, heap'[x].used
      PROVE  \E u \in Threads : \E s \in held'[u] : Block(s.ptr) = x
  <2>1. x # b /\ x \in DOMAIN heap \ {heap_end} /\ heap[x].used
    BY <1>5, Zenon DEF GivenBack, OthersKept, b
  <2>2. PICK u \in Threads : \E s \in held[u] : Block(s.ptr) = x
    BY <2>1, Zenon DEF HeldInv, OwnedBy
  <2>3. PICK s \in held[u] : Block(s.ptr) = x
    BY <2>2, Zenon
  <2>4. s \in held'[u]
    BY <1>1, <2>1, <2>3 DEF b
  <2> QED
    BY <2>3, <2>4, Zenon
<1>6. ASSUME NEW u \in Threads, NEW v \in Threads, NEW p \in held'[u], NEW s \in held'[v],
             p.ptr = s.ptr
      PROVE  u = v /\ p = s
  BY <1>3, <1>6 DEF HeldInv, OwnedBy
<1>7. OwnedBy(heap', held')
  BY <1>4, <1>5, <1>6, Zenon DEF OwnedBy
<1>8. Regions' = Regions \ {r} /\ r \in Regions
  <2>1. \A s : s \in Regions <=> \E u \in Threads : s \in held[u]
    BY Zenon DEF Regions
  <2>2. \A s : s \in Regions' <=> \E u \in Threads : s \in held'[u]
    BY Zenon DEF Regions
  <2>3. \A s : s \in Regions' => s \in Regions /\ s # r
    BY <1>3, <2>1, <2>2, Zenon
  <2>4. \A s : s \in Regions /\ s # r => s \in Regions'
    BY <1>1, <2>1, <2>2
  <2> QED
    BY <2>1, <2>3, <2>4, Zenon
<1>9. Abstract!Free
  BY <1>8, Zenon DEF Abstract!Free
<1> QED
  BY <1>2, <1>7, <1>9, Zenon

\* A block resized where it is: its owner's piece is replaced.
LEMMA OwnedByResize ==
    ASSUME Tiling(heap), HeldInv, Tiling(heap'),
           NEW t \in Threads, NEW r \in held[t], NEW size \in Nat \ {0},
           OthersKept(Block(r.ptr)), Block(r.ptr) \in DOMAIN heap', heap'[Block(r.ptr)].used,
           size <= Room(heap', Block(r.ptr)),
           held' = [held EXCEPT ![t] = (@ \ {r}) \cup {[r EXCEPT !.size = size]}]
    PROVE  /\ held' \in [Threads -> SUBSET Piece] /\ OwnedBy(heap', held')
           /\ Abstract!Resize \/ UNCHANGED Regions
           /\ \E s \in held'[t] : s.ptr = r.ptr
<1> DEFINE b == Block(r.ptr)
           new == [r EXCEPT !.size = size]
<1>1. \A u \in Threads : held'[u] = IF u = t THEN (held[t] \ {r}) \cup {new} ELSE held[u]
  BY Zenon DEF HeldInv
<1>2. r \in Piece /\ new \in Piece /\ new.ptr = r.ptr /\ new.size = size
  BY DEF HeldInv, Piece
<1>3. held' \in [Threads -> SUBSET Piece]
  BY <1>1, <1>2, Zenon DEF HeldInv
<1> HIDE DEF new
<1>4. ASSUME NEW u \in Threads, NEW s \in held[u], u # t \/ s # r
      PROVE  s.ptr # r.ptr /\ Block(s.ptr) # b /\ s \in Piece
  <2>1. s.ptr # r.ptr
    BY <1>4 DEF HeldInv, OwnedBy
  <2>2. s.ptr \in Nat /\ r.ptr \in Nat /\ s \in Piece
    BY DEF HeldInv, Piece
  <2> QED
    BY <2>1, <2>2, HeapEnd DEF Block
<1>5. b \in DOMAIN heap \ {heap_end}
  BY Zenon DEF HeldInv, OwnedBy
<1> HIDE DEF b
<1>6. ASSUME NEW u \in Threads, NEW s \in held[u], u # t \/ s # r
      PROVE  /\ Block(s.ptr) \in DOMAIN heap' \ {heap_end} /\ heap'[Block(s.ptr)].used
             /\ s.size <= Room(heap', Block(s.ptr))
  <2>1. /\ Block(s.ptr) \in DOMAIN heap \ {heap_end} /\ heap[Block(s.ptr)].used
        /\ s.size <= Room(heap, Block(s.ptr))
    BY Zenon DEF HeldInv, OwnedBy
  <2> QED
    BY <1>4, <1>6, <2>1, Zenon DEF OthersKept, Room, b
<1>7. ASSUME NEW u \in Threads, NEW s \in held'[u]
      PROVE  (s = new /\ u = t) \/ (s \in held[u] /\ (u # t \/ s # r))
  BY <1>1
<1>8. ASSUME NEW u \in Threads, NEW s \in held'[u]
      PROVE  /\ Block(s.ptr) \in DOMAIN heap' \ {heap_end} /\ heap'[Block(s.ptr)].used
             /\ s.size <= Room(heap', Block(s.ptr))
  <2>1. CASE s = new
    BY <1>2, <1>5, <2>1, Zenon DEF b
  <2> QED
    BY <1>6, <1>7, <2>1, Zenon
<1>9. ASSUME NEW x \in DOMAIN heap' \ {heap_end}, heap'[x].used
      PROVE  \E u \in Threads : \E s \in held'[u] : Block(s.ptr) = x
  <2>1. CASE x = b
    BY <1>1, <1>2, <2>1 DEF b
  <2>2. CASE x # b
    <3>1. x \in DOMAIN heap \ {heap_end} /\ heap[x].used
      BY <1>9, <2>2, Zenon DEF OthersKept, b
    <3>2. PICK u \in Threads : \E s \in held[u] : Block(s.ptr) = x
      BY <3>1, Zenon DEF HeldInv, OwnedBy
    <3>3. PICK s \in held[u] : Block(s.ptr) = x
      BY <3>2, Zenon
    <3>4. s \in held'[u]
      BY <1>1, <2>2, <3>3 DEF b
    <3> QED
      BY <3>3, <3>4, Zenon
  <2> QED
    BY <2>1, <2>2, Zenon
<1>10. ASSUME NEW u \in Threads, NEW v \in Threads, NEW p \in held'[u], NEW s \in held'[v],
              p.ptr = s.ptr
       PROVE  u = v /\ p = s
  <2>1. CASE p \in held[u] /\ s \in held[v]
    BY <1>10, <2>1, ZenonT(40) DEF HeldInv, OwnedBy
  <2> QED
    BY <1>2, <1>4, <1>7, <1>10, <2>1, Zenon
<1>11. OwnedBy(heap', held')
  BY <1>8, <1>9, <1>10, Zenon DEF OwnedBy
<1>12. r \in Regions /\ Regions' = (Regions \ {r}) \cup {new}
  <2>1. \A s : s \in Regions <=> \E u \in Threads : s \in held[u]
    BY Zenon DEF Regions
  <2>2. \A s : s \in Regions' <=> \E u \in Threads : s \in held'[u]
    BY Zenon DEF Regions
  <2>3. ASSUME NEW s \in Regions' PROVE s \in Regions \ {r} \/ s = new
    BY <1>4, <1>7, <2>1, <2>2, Zenon
  <2>4. ASSUME NEW s \in Regions \ {r} PROVE s \in Regions'
    BY <1>1, <2>1, <2>2
  <2>5. new \in Regions'
    BY <1>1, <2>2
  <2>6. r \in Regions
    BY <2>1, Zenon
  <2> QED
    BY <2>3, <2>4, <2>5, <2>6, Zenon
<1>13. CASE new = r
  <2>1. Regions' = Regions
    BY <1>12, <1>13, Zenon
  <2> QED
    BY <1>1, <1>2, <1>3, <1>11, <2>1, Zenon
<1>14. CASE new # r
  <2>1. ASSUME NEW s \in Regions \ {r}
        PROVE  s \in Piece /\ s.ptr # new.ptr /\ Abstract!Disjoint(new, s)
    <3>1. PICK u \in Threads : s \in held[u]
      BY Zenon DEF Regions
    <3>2. s.ptr # r.ptr /\ s \in Piece
      BY <1>4, <2>1, <3>1, Zenon
    <3>3. /\ Block(s.ptr) \in DOMAIN heap' \ {heap_end} /\ s.size <= Room(heap', Block(s.ptr))
      BY <1>6, <2>1, <3>1, Zenon
    <3>4. Block(new.ptr) \in DOMAIN heap' \ {heap_end} /\ new.size <= Room(heap', Block(new.ptr))
      BY <1>2, <1>5, Zenon DEF b
    <3>5. Abstract!Disjoint(new, s)
      BY <1>2, <3>2, <3>3, <3>4, PiecesDisjoint, Zenon
    <3> QED
      BY <1>2, <3>2, <3>5, Zenon
  <2>2. new \notin Regions
    BY <1>2, <1>14, <2>1, Zenon
  <2>3. new \in Abstract!Region
    BY <1>2, Zenon DEF Abstract!Region, Piece
  <2>4. new.ptr + new.size <= heap_end
    <3>1. b \in DOMAIN heap' \ {heap_end} /\ b = Block(new.ptr) /\ new.size <= Room(heap', b)
      BY <1>2, <1>5, Zenon DEF b
    <3> QED
      BY <1>2, <3>1, PieceFacts, HeapEnd DEF Piece
  <2>5. Abstract!Fitting(new, Regions \ {r})
    BY <2>1, <2>3, <2>4, Zenon DEF Abstract!Fitting
  <2>6. Abstract!Resize
    BY <1>2, <1>12, <2>2, <2>5, Zenon DEF Abstract!Resize
  <2> QED
    BY <1>1, <1>2, <1>3, <1>11, <2>6, Zenon
<1> QED
  BY <1>13, <1>14, Zenon

-----------------------------------------------------------------------------
(* The actions.                                                            *)

IInv == HeapInv /\ HeldInv /\ refused \in Nat /\ RefusedRightly

\* A refusal changes nothing, and is right.
LEMMA RefusedStep ==
    ASSUME IInv, NEW size \in Nat, Found(size) = NULL, refused' = size,
           UNCHANGED <<heap, lfree, held, cut>>
    PROVE  HeapInv' /\ refused' \in Nat /\ RefusedRightly' /\ UNCHANGED Regions
<1>1. HeapInv'
  BY Zenon DEF IInv, HeapInv, Tiling, HolesApart, LowestIs
<1>2. ASSUME size > 0, ~cut, NEW b \in Blocks, Fits(heap, b, Rounded(size))
      PROVE  b = mem_size_aligned - Rounded(size)
  <2>1. /\ Tiling(heap) /\ lfree \in DOMAIN heap /\ LowestIs(heap, lfree) /\ size \in Nat \ {0}
        /\ b \in DOMAIN heap \ {heap_end}
    BY <1>2 DEF IInv, HeapInv, Blocks
  <2> QED
    BY <1>2, <2>1, NotFoundFacts, Zenon
<1>3. RefusedRightly'
  BY <1>2, Zenon DEF RefusedRightly, Blocks, Fits, Room, Rounded, RT_ALIGN
<1>4. UNCHANGED Regions
  BY Zenon DEF Regions
<1> QED
  BY <1>1, <1>3, <1>4, Zenon

LEMMA MallocStep ==
    ASSUME IInv, NEW t \in Threads, NEW size \in Sizes, rt_malloc(t, size)
    PROVE  IInv' /\ (Abstract!Next \/ UNCHANGED Regions)
<1>1. size \in Nat
  BY HeapConstants, Zenon
<1>2. CASE Found(size) = NULL
  <2>1. refused' = size /\ UNCHANGED <<heap, lfree, held, moving, cut>>
    BY <1>2, Zenon DEF rt_malloc
  <2>2. HeapInv' /\ refused' \in Nat /\ RefusedRightly' /\ UNCHANGED Regions
    BY <1>1, <1>2, <2>1, RefusedStep, Zenon
  <2>3. HeldInv'
    BY <2>1 DEF IInv, HeldInv, OwnedBy, Room
  <2> QED
    BY <2>2, <2>3, Zenon DEF IInv
<1>3. CASE Found(size) # NULL
  <2> DEFINE b == Found(size)
  <2>1. /\ Take(b, size) /\ refused' = 0 /\ UNCHANGED <<moving, cut>>
        /\ held' = [held EXCEPT ![t] = @ \cup {[ptr |-> Ptr(b), size |-> size]}]
    BY <1>3, Zenon DEF rt_malloc
  <2> HIDE DEF b
  <2>2. HandedOut(b, size) /\ size # 0
    BY <1>1, <1>3, <2>1, TakeFacts, Zenon DEF IInv, b
  <2>3. held' \in [Threads -> SUBSET Piece] /\ OwnedBy(heap', held') /\ Abstract!Alloc
    BY <1>1, <2>1, <2>2, OwnedByTake, Zenon DEF IInv, HeapInv
  <2>4. HeapInv'
    BY <2>1, <2>2, Zenon DEF HeapInv, HandedOut
  <2>5. HeldInv'
    <3>1. \A u \in Threads : held[u] \subseteq held'[u]
      BY <2>1, Zenon DEF IInv, HeldInv
    <3>2. \A u \in Threads : moving'[u] # Still => \E r \in held'[u] : r.ptr = moving'[u].from
      BY <2>1, <3>1, Zenon DEF IInv, HeldInv
    <3> QED
      BY <2>1, <2>3, <3>2, Zenon DEF IInv, HeldInv
  <2> QED
    BY <2>1, <2>3, <2>4, <2>5 DEF IInv, RefusedRightly, Abstract!Next
<1> QED
  BY <1>2, <1>3, Zenon

\* What rt_free and rt_realloc need of a piece: its block is used.
LEMMA HeldBlock ==
    ASSUME IInv, NEW t \in Threads, NEW r \in held[t]
    PROVE  /\ Block(r.ptr) \in DOMAIN heap \ {heap_end} /\ heap[Block(r.ptr)].used
           /\ r.size <= Room(heap, Block(r.ptr)) /\ Room(heap, Block(r.ptr)) \in Nat
           /\ r.ptr \in Nat /\ r.size \in Nat \ {0}
<1>1. /\ Block(r.ptr) \in DOMAIN heap \ {heap_end} /\ heap[Block(r.ptr)].used
      /\ r.size <= Room(heap, Block(r.ptr))
  BY Zenon DEF IInv, HeldInv, OwnedBy
<1>2. Room(heap, Block(r.ptr)) \in Nat
  BY <1>1, HeapEnd DEF IInv, HeapInv, Tiling, Room
<1>3. r.ptr \in Nat /\ r.size \in Nat \ {0}
  BY DEF IInv, HeldInv, Piece
<1> QED
  BY <1>1, <1>2, <1>3, Zenon

\* Giving a piece back, by rt_free or by rt_realloc to no size or to a new place.
LEMMA GiveStep ==
    ASSUME IInv, NEW t \in Threads, NEW r \in held[t], Give(Block(r.ptr)),
           held' = [held EXCEPT ![t] = @ \ {r}], refused' = 0, cut' = cut,
           moving' \in [Threads -> [from : Int, to : Int, size : Nat]],
           moving'[t] = Still, \A u \in Threads \ {t} : moving'[u] = moving[u]
    PROVE  IInv' /\ Abstract!Next
<1>1. GivenBack(Block(r.ptr))
  BY HeldBlock, GiveFacts, Zenon DEF IInv
<1>2. held' \in [Threads -> SUBSET Piece] /\ OwnedBy(heap', held') /\ Abstract!Free
  BY <1>1, OwnedByGive, Zenon DEF IInv, HeapInv
<1>3. HeapInv'
  BY <1>1, Zenon DEF HeapInv, GivenBack
<1>4. \A u \in Threads : moving'[u] # Still => \E s \in held'[u] : s.ptr = moving'[u].from
  <2>1. \A u \in Threads \ {t} : held'[u] = held[u]
    BY Zenon DEF IInv, HeldInv
  <2> QED
    BY <2>1 DEF IInv, HeldInv
<1> QED
  BY <1>2, <1>3, <1>4 DEF IInv, HeldInv, RefusedRightly, Abstract!Next

LEMMA FreeStep ==
    ASSUME IInv, NEW t \in Threads, NEW r \in held[t], rt_free(t, r)
    PROVE  IInv' /\ Abstract!Next
<1>1. /\ Give(Block(r.ptr)) /\ held' = [held EXCEPT ![t] = @ \ {r}] /\ refused' = 0
      /\ moving' = moving /\ cut' = cut /\ moving[t] = Still
  BY Zenon DEF rt_free
<1>2. moving \in [Threads -> [from : Int, to : Int, size : Nat]]
  BY Zenon DEF IInv, HeldInv
<1> QED
  BY <1>1, <1>2, GiveStep, Zenon

LEMMA ReallocFreeStep ==
    ASSUME IInv, NEW t \in Threads, ReallocFree(t)
    PROVE  IInv' /\ Abstract!Next
<1>1. /\ Give(Block(moving[t].from)) /\ moving[t].to # NULL
      /\ held' = [held EXCEPT ![t] = {r \in @ : r.ptr # moving[t].from}]
      /\ moving' = [moving EXCEPT ![t] = Still] /\ refused' = 0 /\ cut' = cut
  BY Zenon DEF ReallocFree
<1>2. moving[t] # Still
  BY <1>1 DEF Still
<1>3. PICK r \in held[t] : r.ptr = moving[t].from
  BY <1>2, Zenon DEF IInv, HeldInv
<1>4. {s \in held[t] : s.ptr # moving[t].from} = held[t] \ {r}
  BY <1>3 DEF IInv, HeldInv, OwnedBy
<1>5. held' = [held EXCEPT ![t] = @ \ {r}]
  BY <1>1, <1>4, Zenon
<1>6. /\ moving' \in [Threads -> [from : Int, to : Int, size : Nat]]
      /\ moving'[t] = Still /\ \A u \in Threads \ {t} : moving'[u] = moving[u]
  BY <1>1 DEF IInv, HeldInv, Still, NULL
<1> QED
  BY <1>1, <1>3, <1>5, <1>6, GiveStep, Zenon

LEMMA ReallocTakeStep ==
    ASSUME IInv, NEW t \in Threads, ReallocTake(t)
    PROVE  IInv' /\ (Abstract!Next \/ UNCHANGED Regions)
<1> DEFINE m == moving[t]
           b == Found(m.size)
<1>1. m \in [from : Int, to : Int, size : Nat] /\ m.size \in Nat /\ m # Still
  BY Zenon DEF IInv, HeldInv, ReallocTake
<1>2. CASE b = NULL
  <2>1. /\ refused' = m.size /\ moving' = [moving EXCEPT ![t] = Still]
        /\ UNCHANGED <<heap, lfree, held, cut>>
    BY <1>2, Zenon DEF ReallocTake
  <2>2. HeapInv' /\ refused' \in Nat /\ RefusedRightly' /\ UNCHANGED Regions
    BY <1>1, <1>2, <2>1, RefusedStep, Zenon
  <2>3. HeldInv'
    <3>1. /\ moving' \in [Threads -> [from : Int, to : Int, size : Nat]]
          /\ \A u \in Threads : moving'[u] # Still => moving'[u] = moving[u]
      BY <2>1 DEF IInv, HeldInv, Still, NULL
    <3> QED
      BY <2>1, <3>1 DEF IInv, HeldInv, OwnedBy, Room
  <2> QED
    BY <2>2, <2>3, Zenon DEF IInv
<1>3. CASE b # NULL
  <2>1. /\ Take(b, m.size) /\ refused' = 0 /\ cut' = cut
        /\ held' = [held EXCEPT ![t] = @ \cup {[ptr |-> Ptr(b), size |-> m.size]}]
        /\ moving' = [moving EXCEPT ![t].to = Ptr(b)]
    BY <1>3, Zenon DEF ReallocTake
  <2>2. HandedOut(b, m.size) /\ m.size # 0
    BY <1>1, <1>3, <2>1, TakeFacts, Zenon DEF IInv
  <2> HIDE DEF b
  <2>3. held' \in [Threads -> SUBSET Piece] /\ OwnedBy(heap', held') /\ Abstract!Alloc
    BY <1>1, <2>1, <2>2, OwnedByTake, Zenon DEF IInv, HeapInv
  <2>4. HeapInv'
    BY <2>1, <2>2, Zenon DEF HeapInv, HandedOut
  <2>5. HeldInv'
    <3>1. \A u \in Threads : held[u] \subseteq held'[u]
      BY <2>1, Zenon DEF IInv, HeldInv
    <3>2. Ptr(b) \in Int
      BY <2>2, HeapEnd DEF HandedOut, IInv, HeapInv, Tiling, Ptr
    <3>3. /\ moving' \in [Threads -> [from : Int, to : Int, size : Nat]]
          /\ \A u \in Threads : moving'[u].from = moving[u].from
          /\ \A u \in Threads \ {t} : moving'[u] = moving[u]
      BY <2>1, <3>2, Zenon DEF IInv, HeldInv
    <3>4. \A u \in Threads : moving'[u] # Still => \E r \in held'[u] : r.ptr = moving'[u].from
      BY <1>1, <3>1, <3>3, Zenon DEF IInv, HeldInv
    <3> QED
      BY <2>3, <3>3, <3>4, Zenon DEF HeldInv
  <2> QED
    BY <2>1, <2>3, <2>4, <2>5 DEF IInv, RefusedRightly, Abstract!Next
<1> QED
  BY <1>2, <1>3, Zenon

LEMMA ReallocStep ==
    ASSUME IInv, NEW t \in Threads, NEW r \in held[t], NEW size \in Sizes, rt_realloc(t, r, size)
    PROVE  IInv' /\ (Abstract!Next \/ UNCHANGED Regions)
<1> DEFINE newsize == RT_ALIGN(size)
           b == Block(r.ptr)
           Keeps == held' = [held EXCEPT ![t] = (@ \ {r}) \cup {[r EXCEPT !.size = size]}]
<1>1. size \in Nat /\ newsize \in Nat /\ size <= newsize /\ (size = 0 => newsize = 0)
  BY HeapConstants, RoundFacts, Zenon
<1>2. moving[t] = Still /\ refused' = 0
  BY Zenon DEF rt_realloc
<1>3. /\ b \in DOMAIN heap \ {heap_end} /\ heap[b].used
      /\ r.size <= Room(heap, b) /\ Room(heap, b) \in Nat
      /\ r.ptr \in Nat /\ r.size \in Nat \ {0}
  BY HeldBlock, Zenon
<1>4. CASE UNCHANGED <<heap, lfree, used_mem, held, moving, cut>>
  <2>1. HeapInv'
    BY <1>4, Zenon DEF IInv, HeapInv, Tiling, HolesApart, LowestIs
  <2>2. HeldInv'
    BY <1>4 DEF IInv, HeldInv, OwnedBy, Room
  <2>3. UNCHANGED Regions
    BY <1>4, Zenon DEF Regions
  <2> QED
    BY <1>2, <2>1, <2>2, <2>3 DEF IInv, RefusedRightly
<1>5. CASE /\ newsize = 0 /\ Give(b) /\ held' = [held EXCEPT ![t] = @ \ {r}]
           /\ UNCHANGED <<moving, cut>>
  <2>1. moving \in [Threads -> [from : Int, to : Int, size : Nat]]
    BY Zenon DEF IInv, HeldInv
  <2> QED
    BY <1>2, <1>5, <2>1, GiveStep, Zenon
<1>6. CASE /\ newsize = Room(heap, b) /\ newsize # 0 /\ Keeps
           /\ UNCHANGED <<heap, lfree, used_mem, moving, cut>>
  <2>1. /\ Tiling(heap) /\ Tiling(heap') /\ HeldInv /\ size \in Nat \ {0} /\ OthersKept(b)
        /\ b \in DOMAIN heap' /\ heap'[b].used /\ size <= Room(heap', b)
    BY <1>1, <1>3, <1>6, Zenon DEF IInv, HeapInv, OthersKept, Room, Tiling
  <2>2. /\ held' \in [Threads -> SUBSET Piece] /\ OwnedBy(heap', held')
        /\ Abstract!Resize \/ UNCHANGED Regions
    BY <1>6, <2>1, OwnedByResize, Zenon
  <2>3. HeapInv'
    BY <1>6, <2>1, Zenon DEF IInv, HeapInv, HolesApart, LowestIs
  <2>4. \A u \in Threads : moving'[u] # Still => \E s \in held'[u] : s.ptr = moving'[u].from
    <3>1. \A u \in Threads \ {t} : held'[u] = held[u]
      BY <1>6, Zenon DEF IInv, HeldInv
    <3> QED
      BY <1>2, <1>6, <3>1, Zenon DEF IInv, HeldInv
  <2>5. HeldInv'
    BY <1>6, <2>2, <2>4, Zenon DEF IInv, HeldInv
  <2> QED
    BY <1>2, <2>2, <2>3, <2>5 DEF IInv, RefusedRightly, Abstract!Next
<1>7. CASE /\ newsize # 0 /\ newsize + SIZEOF_STRUCT_MEM + MIN_SIZE_ALIGNED <= Room(heap, b)
           /\ Shrink(b, newsize) /\ Keeps /\ cut' = TRUE /\ UNCHANGED moving
  <2>1. CutShort(b, newsize)
    BY <1>1, <1>3, <1>7, ShrinkFacts, Zenon DEF IInv
  <2>2. /\ Tiling(heap) /\ Tiling(heap') /\ HeldInv /\ size \in Nat \ {0} /\ OthersKept(b)
        /\ b \in DOMAIN heap' /\ heap'[b].used
    BY <1>1, <1>7, <2>1, Zenon DEF IInv, HeapInv, CutShort
  <2>3. size <= Room(heap', b)
    <3>1. b \in Nat /\ heap'[b].next = b + SIZEOF_STRUCT_MEM + newsize
      BY <1>3, <2>1, HeapEnd DEF CutShort, IInv, HeapInv, Tiling
    <3> QED
      BY <1>1, <3>1, HeapEnd DEF Room
  <2>4. /\ held' \in [Threads -> SUBSET Piece] /\ OwnedBy(heap', held')
        /\ Abstract!Resize \/ UNCHANGED Regions
    BY <1>7, <2>2, <2>3, OwnedByResize, Zenon
  <2>5. HeapInv'
    BY <1>7, <2>1, Zenon DEF CutShort, HeapInv
  <2>6. \A u \in Threads : moving'[u] # Still => \E s \in held'[u] : s.ptr = moving'[u].from
    <3>1. \A u \in Threads \ {t} : held'[u] = held[u]
      BY <1>7, Zenon DEF IInv, HeldInv
    <3> QED
      BY <1>2, <1>7, <3>1, Zenon DEF IInv, HeldInv
  <2>7. HeldInv'
    BY <1>7, <2>4, <2>6, Zenon DEF IInv, HeldInv
  <2> QED
    BY <1>2, <2>4, <2>5, <2>7 DEF IInv, RefusedRightly, Abstract!Next
<1>8. CASE /\ moving' = [moving EXCEPT ![t] = [from |-> r.ptr, to |-> NULL, size |-> newsize]]
           /\ UNCHANGED <<heap, lfree, used_mem, held, cut>>
  <2>1. HeapInv'
    BY <1>8, Zenon DEF IInv, HeapInv, Tiling, HolesApart, LowestIs
  <2>2. /\ moving' \in [Threads -> [from : Int, to : Int, size : Nat]]
        /\ moving'[t].from = r.ptr
        /\ \A u \in Threads \ {t} : moving'[u] = moving[u]
    BY <1>1, <1>3, <1>8 DEF IInv, HeldInv, NULL
  <2>3. HeldInv'
    BY <1>8, <2>2 DEF IInv, HeldInv, OwnedBy, Room
  <2>4. UNCHANGED Regions
    BY <1>8, Zenon DEF Regions
  <2> QED
    BY <1>2, <2>1, <2>3, <2>4 DEF IInv, RefusedRightly
<1>9. \/ UNCHANGED <<heap, lfree, used_mem, held, moving, cut>>
      \/ /\ newsize = 0 /\ Give(b) /\ held' = [held EXCEPT ![t] = @ \ {r}]
         /\ UNCHANGED <<moving, cut>>
      \/ /\ newsize = Room(heap, b) /\ newsize # 0 /\ Keeps
         /\ UNCHANGED <<heap, lfree, used_mem, moving, cut>>
      \/ /\ newsize # 0 /\ newsize + SIZEOF_STRUCT_MEM + MIN_SIZE_ALIGNED <= Room(heap, b)
         /\ Shrink(b, newsize) /\ Keeps /\ cut' = TRUE /\ UNCHANGED moving
      \/ /\ moving' = [moving EXCEPT ![t] = [from |-> r.ptr, to |-> NULL, size |-> newsize]]
         /\ UNCHANGED <<heap, lfree, used_mem, held, cut>>
  BY Zenon DEF rt_realloc
<1> QED
  BY <1>4, <1>5, <1>6, <1>7, <1>8, <1>9, Zenon

-----------------------------------------------------------------------------
(* The theorems.                                                           *)

\* rt_system_heap_init: one free block, and nobody has any.
LEMMA InitGives == ASSUME Init PROVE IInv /\ Regions = {}
<1> USE DEF Init
<1>1. DOMAIN heap = {0, heap_end} /\ 0 # heap_end /\ heap_end \in Nat /\ 0 \in 0..heap_end
  BY HeapEnd
<1>2. ~heap[0].used /\ heap[0].next = heap_end /\ heap[0].prev = 0 /\ heap[0] \in Header
  <2>1. heap[0] = [used |-> FALSE, next |-> heap_end, prev |-> 0]
    BY <1>1, Zenon
  <2> QED
    BY <1>1, <2>1 DEF Header
<1>3. heap[heap_end].used /\ heap[heap_end] \in Header
  <2>1. heap[heap_end] = [used |-> TRUE, next |-> heap_end, prev |-> heap_end]
    BY <1>1, Zenon
  <2> QED
    BY <1>1, <2>1 DEF Header
<1>4. Tiling(heap)
  <2>1. heap \in [DOMAIN heap -> Header]
    BY <1>1, <1>2, <1>3, Zenon
  <2> QED
    BY <1>1, <1>2, <1>3, <2>1, HeapEnd DEF Tiling
<1>5. HeapInv
  BY <1>1, <1>2, <1>3, <1>4 DEF HeapInv, HolesApart, LowestIs
<1>6. \A t \in Threads : held[t] = {} /\ moving[t] = Still
  BY Zenon
<1>7. OwnedBy(heap, held)
  BY <1>1, <1>2, <1>6, Zenon DEF OwnedBy
<1>8. HeldInv
  BY <1>6, <1>7 DEF HeldInv, Still, NULL
<1> QED
  BY <1>5, <1>6, <1>8 DEF IInv, Regions, RefusedRightly

LEMMA StepGives ==
    ASSUME IInv, [Next]_vars
    PROVE  IInv' /\ (Abstract!Next \/ UNCHANGED Regions)
<1>1. CASE UNCHANGED vars
  <2>1. UNCHANGED <<heap, lfree, held, moving, refused, cut>>
    BY <1>1, Zenon DEF vars
  <2>2. HeapInv' /\ HeldInv'
    BY <2>1 DEF IInv, HeapInv, HeldInv, OwnedBy, Tiling, HolesApart, LowestIs, Room
  <2>3. RefusedRightly'
    BY <2>1, Zenon DEF IInv, RefusedRightly, Blocks, Fits, Room, Rounded, RT_ALIGN
  <2>4. UNCHANGED Regions
    BY <2>1, Zenon DEF Regions
  <2> QED
    BY <2>1, <2>2, <2>3, <2>4, Zenon DEF IInv
<1>2. CASE Next
  <2>1. PICK t \in Threads :
           \/ \E size \in Sizes : rt_malloc(t, size)
           \/ \E r \in held[t] : rt_free(t, r)
           \/ \E r \in held[t], size \in Sizes : rt_realloc(t, r, size)
           \/ ReallocTake(t) \/ ReallocFree(t)
    BY <1>2, Zenon DEF Next
  <2>2. CASE \E size \in Sizes : rt_malloc(t, size)
    BY <2>2, MallocStep, Zenon
  <2>3. CASE \E r \in held[t] : rt_free(t, r)
    BY <2>3, FreeStep, Zenon
  <2>4. CASE \E r \in held[t], size \in Sizes : rt_realloc(t, r, size)
    BY <2>4, ReallocStep, Zenon
  <2>5. CASE ReallocTake(t)
    BY <2>5, ReallocTakeStep, Zenon
  <2>6. CASE ReallocFree(t)
    BY <2>6, ReallocFreeStep, Zenon
  <2> QED
    BY <2>1, <2>2, <2>3, <2>4, <2>5, <2>6, Zenon
<1> QED
  BY <1>1, <1>2, Zenon

LEMMA HeapInductive == Spec => []IInv
<1>1. Init => IInv
  BY InitGives, Zenon
<1>2. IInv /\ [Next]_vars => IInv'
  BY StepGives, Zenon
<1> QED
  BY <1>1, <1>2, PTL DEF Spec

\* For any sizes, alignment, header and heap, and any calls of any threads, the
\* headers of mem.c tile the memory.
THEOREM HeadersTile == Spec => []BlocksTile
<1>1. IInv => BlocksTile
  BY HeapEnd, Zenon DEF IInv, HeapInv, Tiling, BlocksTile, Blocks
<1> QED
  BY <1>1, HeapInductive, PTL

\* plug_holes never leaves two free blocks side by side.
THEOREM HolesNeverMeet == Spec => []NoTwoHoles
<1>1. IInv => NoTwoHoles
  BY Zenon DEF IInv, HeapInv, HolesApart, Tiling, NoTwoHoles, Blocks
<1> QED
  BY <1>1, HeapInductive, PTL

\* Every used block has exactly one owner, who has room for what it asked.
THEOREM BlocksHaveOneOwner == Spec => []Owned
<1>1. IInv => Owned
  BY OwnedFollows, Zenon DEF IInv, HeldInv
<1> QED
  BY <1>1, HeapInductive, PTL

\* lfree is not above a free block until rt_realloc cuts one.
THEOREM LowestFreeKept == Spec => []LowestFree
<1>1. IInv => LowestFree
  BY Zenon DEF IInv, HeapInv, LowestIs, LowestFree, Blocks
<1> QED
  BY <1>1, HeapInductive, PTL

\* rt_malloc refuses only what no block can hold, except that it passes over the
\* last block of the heap if that one would be filled exactly.
THEOREM RefusalsAreRight == Spec => []RefusedRightly
<1>1. IInv => RefusedRightly
  BY Zenon DEF IInv
<1> QED
  BY <1>1, HeapInductive, PTL

\* The heap implements disjoint regions, which only calls of rt_malloc, rt_free
\* and rt_realloc add, remove or resize, one at a time.
THEOREM ImplementsHeapRegions == Spec => IsHeap
<1>1. Init => Abstract!Init
  BY InitGives, Zenon DEF Abstract!Init
<1>2. IInv /\ [Next]_vars => [Abstract!Next]_Regions
  BY StepGives, Zenon
<1> QED
  BY <1>1, <1>2, HeapInductive, PTL DEF Spec, IsHeap, Abstract!Spec
=============================================================================
