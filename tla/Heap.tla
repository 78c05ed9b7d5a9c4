-------------------------------- MODULE Heap --------------------------------
(***************************************************************************)
(* The kernel heap (kernel/heap.c): a first-fit list of blocks that are    *)
(* split on allocation and merged with their neighbours on release.        *)
(*                                                                         *)
(* Addresses and sizes are counted in units of HEAP_ALIGNMENT.  block gives *)
(* the header at an address; one whose block was merged away is never read  *)
(* again and becomes Nothing.  The list is what first_block reaches.        *)
(***************************************************************************)
EXTENDS Integers, FiniteSets

CONSTANTS
  HeapSize,     \* (HEAP_END - HEAP_START) / HEAP_ALIGNMENT
  Header,       \* sizeof(HeapBlock) / HEAP_ALIGNMENT
  MaxRequest    \* largest request, in units

ASSUME HeapAssumption ==
  /\ Header \in Nat \ {0}
  /\ HeapSize \in Nat /\ HeapSize > Header
  /\ MaxRequest \in Nat

VARIABLES
  block,        \* the header at every address
  held          \* callers' pointers: header address to units requested

heap_vars == <<block, held>>

NULL == -1
first_block == 0
Units == 0..(HeapSize - 1)
Nothing == [size |-> 0, previous |-> NULL, next |-> NULL, free |-> FALSE]

Headers == {b \in Units : block[b] # Nothing}

\* The headers a walk along next from first_block meets: the least set that
\* holds first_block and, with a header, the one its next points to.
List ==
  {b \in Headers : \A S \in SUBSET Headers :
     (/\ first_block \in S
      /\ \A c \in S : block[c].next = NULL \/ block[c].next \in S) => b \in S}

heap_init ==
  /\ block = [b \in Units |->
       IF b = first_block
       THEN [size |-> HeapSize - Header, previous |-> NULL, next |-> NULL, free |-> TRUE]
       ELSE Nothing]
  /\ held = << >>

\* The headers after split_block: the rest becomes a block when it has room
\* for a header and one unit.
split_block(b, size) ==
  IF block[b].size < size + Header + 1 THEN block
  ELSE LET r == b + Header + size
           split == [block EXCEPT
             ![r] = [size |-> block[b].size - size - Header, previous |-> b,
                     next |-> block[b].next, free |-> TRUE],
             ![b].next = r, ![b].size = size]
       IN IF block[b].next = NULL THEN split
          ELSE [split EXCEPT ![block[b].next].previous = r]

\* heap_alloc: the first block of the list that is free and large enough.
\* Without one the call returns NULL and changes nothing.
heap_alloc(size) ==
  LET fits == {b \in List : block[b].free /\ block[b].size >= size}
  IN /\ fits # {}
     /\ LET b == CHOOSE b \in fits : \A c \in fits : b <= c
        IN /\ block' = [split_block(b, size) EXCEPT ![b].free = FALSE]
           /\ held' = [c \in DOMAIN held \cup {b} |-> IF c = b THEN size ELSE held[c]]

\* Mutant: a neighbour in use is merged too.
merge_next_Any(blocks, b) ==
  LET next == blocks[b].next
      merged == [blocks EXCEPT ![b].size = @ + Header + blocks[next].size,
                               ![b].next = blocks[next].next, ![next] = Nothing]
  IN IF next = NULL THEN blocks
     ELSE IF merged[b].next = NULL THEN merged
     ELSE [merged EXCEPT ![merged[b].next].previous = b]

\* The headers after merge_next.
merge_next(blocks, b) ==
  LET next == blocks[b].next
      merged == [blocks EXCEPT ![b].size = @ + Header + blocks[next].size,
                               ![b].next = blocks[next].next, ![next] = Nothing]
  IN IF next = NULL \/ ~blocks[next].free THEN blocks
     ELSE IF merged[b].next = NULL THEN merged
     ELSE [merged EXCEPT ![merged[b].next].previous = b]

\* heap_free of a pointer its caller holds.
heap_free(b) ==
  /\ ~block[b].free
  /\ LET freed == merge_next([block EXCEPT ![b].free = TRUE], b)
         before == freed[b].previous
     IN block' = IF before # NULL /\ freed[before].free
                 THEN merge_next(freed, before) ELSE freed
  /\ held' = [c \in DOMAIN held \ {b} |-> held[c]]

HeapNext ==
  \/ \E size \in 1..MaxRequest : heap_alloc(size)
  \/ \E b \in DOMAIN held : heap_free(b)

HeapSpec == heap_init /\ [][HeapNext]_heap_vars

-----------------------------------------------------------------------------
(* Properties *)

\* The memory a caller was given, and all the units of a block.
Payload(b) == (b + Header)..(b + Header + held[b] - 1)
Extent(b) == b..(b + Header + block[b].size - 1)

\* The list tiles the heap: each block ends where the next begins and the last
\* at the end, and previous is the inverse of next.  Freed memory does not stay
\* in pieces: no two neighbours are free, and a block in use belongs to a
\* caller.  What callers hold is never handed out again or overwritten by a
\* header: their payloads lie inside blocks in use, apart from all others.
HeapSound ==
  /\ \A b \in List :
       /\ IF block[b].next = NULL THEN b + Header + block[b].size = HeapSize
          ELSE /\ block[b].next = b + Header + block[b].size
               /\ block[block[b].next].previous = b
       /\ block[b].previous = NULL <=> b = first_block
       /\ ~block[b].free => b \in DOMAIN held
       /\ block[b].free /\ block[b].next # NULL => ~block[block[b].next].free
  /\ \A b \in DOMAIN held : b \in List /\ ~block[b].free /\ held[b] <= block[b].size
  /\ \A b \in DOMAIN held, c \in List : b # c => Payload(b) \cap Extent(c) = {}
=============================================================================
