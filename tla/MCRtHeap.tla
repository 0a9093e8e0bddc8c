------------------------------ MODULE MCRtHeap ------------------------------
(* RtHeap for TLC.                                                          *)
EXTENDS RtHeap, FiniteSetsExt

\* used_mem is the memory of the used blocks with their headers, as
\* rt_memory_info reports it.
UsedCounted ==
    used_mem = MapThenSumSet(LAMBDA b : heap[b].next - b, {b \in Blocks : heap[b].used})
=============================================================================
