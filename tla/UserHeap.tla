------------------------------ MODULE UserHeap ------------------------------
(***************************************************************************)
(* malloc, free and realloc of user/libc.c over the brk system call of     *)
(* kernel/process.c, in a program with threads.                            *)
(*                                                                         *)
(* The list of blocks is shared and guarded by heap_lock.  The break is    *)
(* not: every Process has a program_break of its own, which clone copies.  *)
(* A thread can be preempted anywhere, so taking the lock, the search, the *)
(* two brk calls and the release are separate steps.  The spinning         *)
(* exchange on a held lock changes nothing and is left out.                *)
(*                                                                         *)
(* Sizes and addresses are in units.  Blocks that overlap would overwrite  *)
(* each other's headers; the model stops short of that.                    *)
(***************************************************************************)
EXTENDS Integers, Sequences

CONSTANTS
  Threads,      \* the first of them runs main
  Main,
  Allocators,   \* the threads that call malloc; any thread may call free
  Header,       \* sizeof(HeapBlock)
  Granule,      \* sizes are rounded up to a multiple of it
  MaxRequest,   \* bound on a request
  Limit         \* VM_USER_MMAP_BASE, or the memory there is

VARIABLES
  heap_lock,      \* 0 or 1
  heap_blocks,    \* the list
  program_break,  \* per thread; -1 before it is created
  call,           \* what each thread is doing
  held            \* the pointers callers have: place in the list, size asked for

vars == <<heap_lock, heap_blocks, program_break, call, held>>

-----------------------------------------------------------------------------
NULL == 0
Places == DOMAIN heap_blocks

\* pc: what the thread does next; old: the pointer realloc replaces; result:
\* the place malloc returns.
Idle == [pc |-> "idle"]
Call(pc, size, old, result) == [pc |-> pc, size |-> size, old |-> old, result |-> result]
NoPointer == [place |-> NULL, size |-> 0]

Goto(t, c) == call' = [call EXCEPT ![t] = c]

Rounded(size) ==
  LET s == IF size = 0 THEN 1 ELSE size
  IN ((s + Granule - 1) \div Granule) * Granule

\* clone with CLONE_VM: the new thread starts with a copy of the break.
Create(t, u) ==
  /\ program_break[t] # -1 /\ call[t] = Idle
  /\ program_break[u] = -1
  /\ program_break' = [program_break EXCEPT ![u] = program_break[t]]
  /\ UNCHANGED <<heap_lock, heap_blocks, call, held>>

Ready(t) == program_break[t] # -1 /\ call[t] = Idle

Malloc(t, size) ==
  /\ Ready(t) /\ t \in Allocators
  /\ Goto(t, Call("malloc", size, NoPointer, NULL))
  /\ UNCHANGED <<heap_lock, heap_blocks, program_break, held>>

\* The pointer is given up when free is called.
Free(t, p) ==
  /\ Ready(t)
  /\ held' = held \ {p}
  /\ Goto(t, Call("free", 0, p, NULL))
  /\ UNCHANGED <<heap_lock, heap_blocks, program_break>>

\* realloc: the block is returned when it is large enough.
Realloc(t, p, size) ==
  /\ Ready(t) /\ t \in Allocators
  /\ IF heap_blocks[p.place].size >= size
     THEN /\ held' = (held \ {p}) \cup {[p EXCEPT !.size = size]}
          /\ UNCHANGED call
     ELSE /\ held' = held \ {p}
          /\ Goto(t, Call("malloc", size, p, NULL))
  /\ UNCHANGED <<heap_lock, heap_blocks, program_break>>

lock_heap(t) ==
  /\ call[t].pc \in {"malloc", "free"}
  /\ heap_lock = 0
  /\ heap_lock' = 1
  /\ Goto(t, [call[t] EXCEPT !.pc = IF @ = "malloc" THEN "search" ELSE "release"])
  /\ UNCHANGED <<heap_blocks, program_break, held>>

Fitting(size) == {b \in Places : heap_blocks[b].free /\ heap_blocks[b].size >= Rounded(size)}

\* The walk along the list, under the lock.
Search(t) ==
  /\ call[t].pc = "search"
  /\ LET fitting == Fitting(call[t].size) IN
     IF fitting = {}
     THEN Goto(t, [call[t] EXCEPT !.pc = "break"]) /\ UNCHANGED heap_blocks
     ELSE LET b == CHOOSE b \in fitting : \A c \in fitting : b <= c
          IN /\ heap_blocks' = [heap_blocks EXCEPT ![b].free = FALSE]
             /\ Goto(t, [call[t] EXCEPT !.pc = "unlock", !.result = b])
  /\ UNCHANGED <<heap_lock, program_break, held>>

\* brk(0).
Break(t) ==
  /\ call[t].pc = "break"
  /\ Goto(t, [call[t] EXCEPT !.pc = "extend", !.result = program_break[t]])
  /\ UNCHANGED <<heap_lock, heap_blocks, program_break, held>>

Requested(current, size) == current + Header + Rounded(size)

\* brk(requested) and the new block at the end of the list.  linux_brk fails
\* beyond the limit or when no page can be mapped.
Extend(t) ==
  /\ call[t].pc = "extend"
  /\ LET current == call[t].result
         requested == Requested(current, call[t].size)
     IN \/ /\ requested < Limit
           /\ program_break' = [program_break EXCEPT ![t] = requested]
           /\ heap_blocks' = Append(heap_blocks,
                [at |-> current, size |-> Rounded(call[t].size), free |-> FALSE])
           /\ Goto(t, [call[t] EXCEPT !.pc = "unlock", !.result = Len(heap_blocks) + 1])
        \/ /\ Goto(t, [call[t] EXCEPT !.pc = "unlock", !.result = NULL])
           /\ UNCHANGED <<program_break, heap_blocks>>
  /\ UNCHANGED <<heap_lock, held>>

\* The store of free, under the lock.
Release(t) ==
  /\ call[t].pc = "release"
  /\ heap_blocks' = [heap_blocks EXCEPT ![call[t].old.place].free = TRUE]
  /\ Goto(t, [call[t] EXCEPT !.pc = "unlock", !.old = NoPointer])
  /\ UNCHANGED <<heap_lock, program_break, held>>

\* The lock is released and the call returns; realloc goes on to free the old
\* block, or leaves it with the caller when malloc failed.
unlock_heap(t) ==
  /\ call[t].pc = "unlock"
  /\ heap_lock' = 0
  /\ LET c == call[t]
         new == [place |-> c.result, size |-> c.size]
     IN /\ held' = held \cup (IF c.result # NULL THEN {new}
                              ELSE IF c.old # NoPointer THEN {c.old} ELSE {})
        /\ Goto(t, IF c.result # NULL /\ c.old # NoPointer
                   THEN Call("free", 0, c.old, NULL) ELSE Idle)
  /\ UNCHANGED <<heap_blocks, program_break>>

Init ==
  /\ heap_lock = 0
  /\ heap_blocks = << >>
  /\ program_break = [t \in Threads |-> IF t = Main THEN 0 ELSE -1]
  /\ call = [t \in Threads |-> Idle]
  /\ held = {}

Next ==
  \E t \in Threads :
    \/ \E u \in Threads : Create(t, u)
    \/ \E size \in 0..MaxRequest : Malloc(t, size)
    \/ \E p \in held : Free(t, p)
    \/ \E p \in held, size \in 1..MaxRequest : Realloc(t, p, size)
    \/ lock_heap(t) \/ Search(t) \/ Break(t) \/ Extend(t) \/ Release(t) \/ unlock_heap(t)

Spec == Init /\ [][Next]_vars

-----------------------------------------------------------------------------
(* Properties *)

Body(b) == heap_blocks[b].at..(heap_blocks[b].at + Header + heap_blocks[b].size - 1)

\* Two blocks of the list, header and body, share no byte: what malloc returns
\* belongs to its caller alone, although the threads of a program share the
\* list and each has a program_break of its own.
BlocksDisjoint == \A b, c \in Places : b # c => Body(b) \cap Body(c) = {}

=============================================================================
