# A TLA+ model of NovaOS

NovaOS is a small x86-64 operating system with a Linux system-call interface,
a file system, a network stack, a desktop, user libraries and a bridge program
on the host.  These modules model the parts of it whose correctness depends on
the order of many steps: virtual memory, processes, locks, IPC, the program
loader, the file system and the services that write to it, the network adapter,
the desktop, and the way of a page from the host to the screen.  TLC checks them
on small instances.  TLAPS proves the safety of virtual memory, of the page hash
and the heap, of processes, locks and IPC, of the adapter and of the file system
for instances of any size, and that virtual memory implements the memory
programs are promised.

Line numbers refer to the source tree this project accompanies; PROJECT.json
maps every definition to the lines it models.

## 1. Inventory

| Part | Source | State and concurrency | Modelled by |
|---|---|---|---|
| virtual memory | `kernel/vm.c`, memory calls of `kernel/process.c` | page records, frames with counts, page tables, memfd frames; user stores interleave with every handler | `Vm`, `Memory`, `VmRefinement` |
| page hash | `kernel/vm.c` 100-240 | record array, open-addressed hash with tombstones | `PageIndex` |
| kernel heap | `kernel/heap.c` | list of headers inside the memory it manages | `Heap` |
| processes, scheduler, futex, signals, sandbox | `kernel/process.c`, loop in `kernel/kernel.c` | 64 slots, reference-counted address spaces, tick | `Process` |
| ELF loader, dynamic linker, TLS | `kernel/process.c` 560-1882, 1950-2050 | built once per execve, may fail at any step; threads take TLS blocks later | `ElfLoader` |
| descriptors and IPC objects | `kernel/process.c` 2150-3000 | five object tables, a descriptor table per slot | `Ipc` |
| pthread library | `user/pthread_compat.c` | futex words; preempted between any two instructions | `Pthread` |
| C library allocator | `user/libc.c` 167-253 | shared block list, a break per thread | `UserHeap` |
| NovaFS | `kernel/filesystem.c`, `drivers/ata.c` | directory in memory and on disk, data sectors; power failures | `NovaFs` |
| migration, packages, accounts, boot-time files | `kernel/filesystem.c` 315-410, `kernel/deb.c`, `kernel/account.c`, `kernel/kernel.c`, `kernel/compiler.c` 195-204 | several NovaFS calls each; failures and power loss in between | `Storage` |
| network adapter | `drivers/e1000.c` | two descriptor rings shared with the device | `E1000` |
| network, browser, bridge | `kernel/network.c`, `ui/ui.c`, `tools/nova/` | receive buffer, wire buffer, staged page, history; host runs concurrently | `Browser` |
| keyboard and mouse | `drivers/input.c` | packet assembly, modifiers; two devices at one port | `Input` |
| desktop and applications | `ui/ui.c`, `graphics/graphics.c`, loop in `kernel/kernel.c` | window, menu, note, calculator, terminal, ...; dirty flags and three frame buffers | `Desktop` |
| files as descriptors, downloads, VM control, compiler, drawing of glyphs, strings, libm, boot code, serial, clock, PCI, host import, test programs | | see section 6 | not modelled |

There is one CPU.  A system call, a page fault or an interrupt handler runs
with interrupts masked, and every system call returns to the kernel loop
(`kernel_main`), which polls input and network and calls `process_schedule`.
A handler is therefore one atomic action.  What interleaves are the *user
instructions* of different processes and threads, the handlers they call, the
timer, the disk losing power between two sector writes, the adapter reading and
writing its rings, the input devices, and the host.

## 2. Modules

### `Vm`, `Memory`, `VmRefinement`: virtual memory

State: `references` and `data` of every frame, the `live` spaces, `page` (the
record of each virtual page), `entry` (the hardware's view), `memfd`.  A page's
bytes are one value.  A space's records are indexed by virtual page; that the
hash finds them is `PageIndex`'s subject.

Actions are whole handlers: anonymous, file and memfd `mmap` (including its
unmapping of a fixed range before it can fail), `munmap`, `mprotect`, `brk`,
`clone` with copy-on-write and its failure half way, image loading, stack and
copy-on-write faults, user copies, plain user stores, memfd creation,
`ftruncate`, writes and release, and the end of a space.  Every allocation may
fail, so each handler also has its failing outcomes with what they leave behind.

`Memory` is what programs are promised: private pages are owned outright, a fork
copies them at once, shared pages name segments, and faults and failed forks
change nothing.  `VmRefinement` gives the mapping (a private page's value is
its frame's contents (`Mem`); a shared page names its frame, whose contents
`Segment` gives; `File` is a memory file without its frames' counts) and
`ImplementsMemory` states that `Vm` implements `Memory`.

### `PageIndex`: the page hash

The record array and `page_lookup` with linear probing, wrap-around and
tombstones, under map and unmap, including the removal path when the page table
cannot be extended.  Values in a slot are 0, a tombstone or a record index + 1,
as in the code.

### `Heap`: the kernel heap

Headers at addresses, linked both ways; first fit, split, release, merge with
the following and the preceding block.  Sizes are in units of the alignment.
The blocks a walk along `next` meets are the least set that holds the first
header and is closed under `next` (`List`).

### `Process`: slots, scheduler, futex, signals, sandbox

`processes` holds the fields of a slot that decide control; `references` counts
the holders of an address space; `word` is the memory futexes and thread ids
live in.  fork, clone (with thread-id stores and their failures), execve, exit,
exit_group, wait4 (which never blocks), futex wait and wake, nanosleep, kill and
signal delivery, handlers, prctl and seccomp, the tick and `process_schedule`
are actions.  A system call sets `current_slot` to -1 because the kernel goes
back to its loop.

### `ElfLoader`: programs, libraries, thread-local storage

One action per phase of `load_elf_image`: mapping the program's segments, the
interpreter, each needed library in breadth-first order, the layout of static
TLS, relocation and protection of all objects, the first thread's TLS block and
the table of initializers, and the program's start; `LoadFails` is the common
exit of every check and allocation.  Lookup follows the GNU hash (Bloom word,
bucket, chain end) or the SysV one, with versions, hidden definitions and weak
references.  `relocated` gives the word each relocation type of
`apply_relocation_table` stores, addends included; a TLS relocation without a
symbol is about its own object.  After the start, threads take TLS blocks from
the template and use them, by the thread pointer, by descriptors and by
`__tls_get_addr` (`nova_ld.asm`).
The audit of direct dependencies that the terminal makes first is an action.

### `Ipc`: descriptors, pipes, events, timers, epoll, memory files

Object tables, descriptor tables, duplication, inheritance, close and exit;
transfers in chunks with user buffers that may fault between two chunks.  Byte
number n of a queue has the value n, so that loss, repetition and reordering are
visible.

### `Pthread`: mutex, condition variable, once

Each atomic instruction and each system call of `pthread_compat.c` is a step.
The clients are a producer and consumers over a buffer guarded by the mutex and
the condition; each first goes through `pthread_once`.

### `UserHeap`: malloc with threads

Taking `heap_lock`, the search, the two `brk` calls and the release are
separate steps, because a thread is preempted between them.  `program_break`
belongs to a thread, as `clone_current` copies it (process.c:3049).

### `NovaFs`: the file system with power failures

An operation changes the directory in memory and then writes sectors one at a
time (`op.writes`); the last one is the directory slot.  Any write may fail and
power may fail between any two; `fs_init` then reads the directory again.  The
variable `promised` records what callers were told a path holds.  Links are
resolved as in `resolve_path`, to the same depth.

### `Storage`: the services over NovaFS

`Storage` extends `NovaFs` with its callers: mounting with `format_v2` and
`migrate_legacy`, the installation of the built-in programs, the self tests of
the package installer, of large files and of the compiler, account database,
login and account creation, and `deb_install` of sound packages, of cut, garbled
and unended ones, and of one with a member of a type `install_tar` passes over.  A
service is a list of calls with the condition each checks first; a
call is a NovaFS operation with its sector writes, so that a failure or a power
loss falls between any two of them, and the next boot runs the services again on
what is left.

### `E1000`: the adapter's rings

Each store of the driver that the adapter can see is a step (copy, clear the
status, move the tail register), and so is each of the adapter's (fill a buffer,
set the status).  Frames are numbered, so loss, repetition and reordering are
visible.

### `Browser`: from the bridge to the screen

The single connection attempt of `kernel_main`, the handshake, in-order
segments that may come twice, the receive buffer and what it drops when it is
full (`tcp.dropped` remembers that), reads of a fixed size into the wire buffer, line dispatch, the staged page and its commit at `PAGEEND`,
navigation and history, prompts and downloads, and the bridge's session with
handlers that raise.  Bytes are units: a line is a head, a tail and a newline,
so that a cut can fall inside it.

### `Input`: keyboard and mouse

The devices put bytes into one controller port in any interleaving; `input_poll`
takes one and assembles packets and scan codes, resynchronizing on the bit that
marks a first byte.  A packet has its three bytes: flags, and movements of nine
bits of which the driver uses eight (`int8`).  The first packet may have lost its
start to `input_init`.  History variables keep what the user's hand and keys did;
`hand.exact` and `hand.doubt` say when the pointer and the button must be right.

### `Desktop`: the user interface

`Desktop` composes `Input` and `Browser` with `ui.c` in the loop of
`kernel_main`: all pending input, then rendering if something is dirty, then the
services.  The geometry is the code's own, in pixels, written twice as the code
has it: once in the drawing routines and once in the click handlers.  The three
buffers (base picture, frame, video memory) are kept at chosen pixels; a pixel
knows the surface and the control drawn there.  `View` is the data a window's
drawing routine shows, in two parts: what handlers mark dirty when they change
it, and what others change without a mark.  The calculator computes with 32-bit
integers that wrap.  Windows: file list, desktop, browser, note,
terminal, calculator, settings, C Studio, assistant, the start menu and the
taskbar.

### Instances

`MCVm`, `MCPageIndex`, `MCProcess`, `MCStorage`, `MCIpc`, `MCElf`, `MCDesktop`
and `MCBrowser` give the constants their values.  `MCParts` runs four parts that
share no state (`PageIndex`, `Heap`, `E1000`, `Pthread`), one in each behaviour.

## 3. Runs

Where several small scenarios answer one question, a variable chosen in `Init`
(`workload`, `volume`, `files`, `session`, `part`) selects one of them with its
bounds, and a run explores all.

| Run | Bounds | Shows |
|---|---|---|
| `vm` | 2 spaces, 3 frames, 2 pages, 1 memfd of 1 page, 2 values | `RefcountExact`, `WriteIsolation`, `WriteXorExec`, `ImplementsMemory` |
| `process` | 3 slots, 2 spaces; workloads with execve, with futexes, with signals and sandbox | `ReferencesExact`, `ZombieKept`, `JoinersWoken`, `NoEscape` |
| `process_live` | 3 slots, delays up to 1 tick, 2 ticks | `RunnableRuns`, `DeadlinesFire` |
| `parts` | hash: 7 pages, 3 records, 4 slots; heap: 18 units, requests up to 4; rings of 3, 7 frames each way; 1 producer with 2 items, 2 consumers | `FindExact`, `HeapSound`, `FramesExact`, `MutualExclusion`, `InitializedOnce`, `ItemsTaken`, `OnceReturns` |
| `storage` | 3 small volumes under arbitrary calls; 11 machines (5 packages, none, a v1 volume) with up to 3 mishaps | `VolumeSound`, `Durability`, `GrowAtomic`, `MigrationComplete`, `PackageInstalled`, `AccountsKept` |
| `ipc` | 2 processes; a workload per kind of object, rings of 3 bytes, chunks of 2 | `DescriptorsValid`, `QueueExact`, `ExpirationsExact`, `ReadyExact` |
| `elf` | 11 volumes: a diamond, a cycle, crossed and missing libraries, an unresolved symbol, a weak TLS variable nobody defines (by index and by descriptor), a relocation outside the image, oversized TLS, a nested interpreter, an object without TLS; 3 threads | `ImageIntact`, `SymbolsBound`, `TlsModelsAgree`, `NothingLeaked` |
| `ui` | 5 browser sessions of up to 5 requests, one with a receive buffer of 7 units; 34 desktop sessions | `WholeUnlessDropped`, `HistoryCurrent`, `PageLoads`, `InputExact`, `PointerClean`, `ScreenCurrent`, `PressMatches`, `NoteSafe`, `NoDivideTrap` |
| `page_index_capacity` | 7 pages, 2 records, 4 slots | **violated**: `CapacityAvailable` (finding 1) |
| `user_heap_threads` | 2 threads | **violated**: `BlocksDisjoint` (finding 2) |
| `browser_overflow` | a receive buffer of 7 units | **violated**: `VisibleWhole` (finding 3) |
| `elf_order` | 3 volumes | **violated**: `DependenciesFirst` (finding 4) |

What the properties say, in short:

- *vm*: a frame counts its users exactly; what one space can write no other sees
  except through the same shared object; no page is writable and executable unless
  a program segment asks for both.
- *process*: an address space lives as long as its last holder; an exit status
  is lost only to a full table; joiners are woken however a thread ends; the
  sandbox has no way out; every runnable process runs; deadlines fire.
- *parts*: a lookup finds the mapped pages and nothing else; heap blocks tile
  the arena, stay apart and are merged; frames arrive once, whole and in order;
  the mutex excludes, the initializer runs once, no wake-up is lost.
- *storage*: no two files share sectors and every path has its directory; what a
  caller was told is there after a restart; a file that grows keeps its old or
  its new contents; a volume reported as migrated holds what the v1 volume held;
  a package reported as installed had a whole archive and its directories, files
  and links are there; an account reported as created is in the database on disk,
  which differs from the one in memory by at most the last account.
- *ipc*: descriptors name live objects of their kind; bytes come out once and in
  order; timer expirations are counted once; poll and epoll report a descriptor
  writable exactly when a write is accepted, and once.
- *elf*: the image is what relocation makes of the file, with final protections;
  a reference is bound to the first definition in lookup order with the right
  version; initial-exec accesses, descriptors and module indices of all objects
  reach one variable per thread, apart from those of others; a failed load
  leaves no page and no heap object.
- *ui*: a visible page is complete unless the receive buffer overflowed, and the
  history names it; a page that loads comes to an end (not after an overflow, a
  lost connection or a handler that raised); events are what the devices sent, and
  after a packet that lost its start the decoder finds the next; the pointer
  leaves no trail; when nothing is dirty the screen shows what handlers marked; a
  press acts on the control that was drawn under it; a note whose
  window is closed or replaced is saved or the failure reported; the calculator
  never divides the least int by -1.

Why the bounds are enough to meet the interesting cases:

- *vm*: three frames allow two spaces to share one, a copy to be made, and the
  copy to fail for want of a frame; two pages give one image and one stack/mmap
  page.  Frames and spaces are interchangeable, hence the symmetry.
- *parts*: seven pages over four slots collide, wrap and reuse tombstones, and
  three records run out.  The heap has room for blocks with a free neighbour on
  either side, on both or on none.  Seven frames go around rings of three twice,
  and the driver gets a whole ring ahead.
- *process*: three slots are a parent, a thread and a child, and the table is
  full with them, which is when `reserve_slot` takes a zombie.
- *ipc*: a ring of 3 filled in chunks of 2 wraps and is cut by its limit;
  an eventfd's largest number is 3; timers run for 4 ticks with times and
  intervals up to `MaxPeriod` = 2, which expire more than once between two reads.
- *storage*: a file of two sectors must move to grow; the small disks fill; a
  directory has a child; three power failures reach a boot that repairs what a
  repair left behind.
- *elf*: two versions of a symbol share a hash chain with another name; a
  library is needed twice and by a cycle; TLS blocks need alignment.
- *ui*: `WireSize` is exactly the longest line plus one read, the relation the
  comment at ui.c:144 asks for.  Screen and windows have their real sizes; the
  sessions press the corners of every control, at the window's first place and
  after a drag.  Pages, answers and ends of programs come while another window,
  the menu or nothing is in front.  The calculator has its real int and its real
  limit on digits; its session squares 32768, doubles that to the least int, and
  divides it, shortens it and appends to it.  The receive buffer holds the longest
  answer except in the session that overflows it.

Deadlock is checked except in *parts*, where the threads finish and the frames
run out, in *ui*, where a session's plan comes to its end, and in
`browser_overflow`, where the user may have nothing left to ask.

### Fairness

Safety is checked without relying on any.  `process_live` assumes weak fairness
of the tick (a hardware timer) and of `process_schedule` (called in every turn of
the kernel loop, and the timer preempts user code).  `parts` assumes that a
thread that can take a step takes one, which is what the round robin guarantees
and `RunnableRuns` checks; nothing is assumed of the other parts.  `ui` assumes
that the kernel loop keeps turning and that the host keeps sending; nothing is
assumed of the user, and a request whose handler raised on the host has no answer
(`unanswered` in `PageLoads`).  The stop of a load after an overflow or on a closed
connection is excused for the same reason: the code has no timeout.

### Findings

1. `page_index_capacity`.  `insert_page_lookup` (vm.c:159) takes a tombstone
   only after its probe reached a never-used slot.  When every slot holds a page
   or a tombstone, no page can be mapped, however few are.
2. `user_heap_threads`.  Threads share the allocator's list but not the break
   (process.c:3049), so two threads that both grow the heap receive overlapping
   blocks.
3. `browser_overflow`.  `handle_tcp` acknowledges what the receive buffer cannot
   hold (network.c:253-259); the browser then shows a page with lines missing,
   which the comment at ui.c:117 rules out.  When `PAGEEND` itself is dropped the
   page never ends, and `browser_loading` refuses every later request.
4. `elf_order`.  Initializers run in reverse load order (process.c:1776), which
   is not dependency order when a library is named by the program first and
   needed by a later library too; docs/NATIVE_CHROME_STATUS.md:56 says
   dependencies come first.

### Behaviour worth knowing

The models reproduce the following because the code does it.  No document
promises otherwise, so no property states it; properties exclude these cases
where they matter.

- *Processes and IPC.*  close never frees pipes, events, timers and epoll sets.
  A read of a pipe that faults skips bytes (`skipped` in `QueueExact`).  A futex
  wait with an unreadable timeout blocks without one.  execve keeps signal
  dispositions.
- *Loader.*  The TLS mapping of a thread stays when the thread ends.  A library
  larger than `ELF_LIBRARY_STRIDE` would overlap the next one.  The interpreter's
  own initializers do not run.  The audit looks at direct dependencies only.
- *Storage.*  `fs_init` formats the volume when the superblock cannot be read
  (filesystem.c:401), and `account_init` treats a read error like a missing
  database.  A crash between the two saves of `fs_symlink` leaves a regular file,
  and later installations of that link fail.  A volume whose
  migration failed part-way stays mounted as v2.  `account_create` may report
  failure and leave the account on the disk, where a restart finds it.
  `install_tar` passes over members that are no file, directory or link without a
  report, and fails an archive without its closing block with everything
  installed.  `ui_init` takes any failed `fs_read` of `note.txt` for a missing
  note and writes the welcome text over it (ui.c:1502-1510); `Desktop` starts
  with a note that was read or is missing, not with a read that failed.  Replaced links leave sectors that
  are not reclaimed.
- *A directory write that fails.*  `fs_delete`, `fs_write` and others keep their
  change in memory when `save_entry` reports an error.  A delete that failed this
  way frees sectors that the entry on disk still names; a later file takes them,
  and a restart then finds two files sharing sectors (four calls and one failed
  write on a disk of two sectors show it).  `VolumeSound`, `Durability` and
  `GrowAtomic` therefore speak of the directory on disk only where its writes do
  not fail (`DirectoryKept`), and of the directory in memory unless it was read
  back from a disk that lost such a write (`Trusted`).
- *Adapter.*  When the driver is a whole transmit ring ahead, the tail register
  meets the head register and the adapter sees an empty ring, so those frames
  wait for the next one (`FramesExact` allows a difference of `TX_COUNT`).
- *Desktop.*  A redraw of the window alone ignores what lies over it.  Save
  without a file system does not redraw the status.  A press between a page's
  arrival and its drawing follows the rows of the old page.  Escape and the
  taskbar minimize without saving, and power-off loses an unsaved note.  A long
  browser title is not clipped.  A change of the connection does not mark the
  window dirty, nor does a file that a service or a program writes while Explorer
  lists the directory (`unmarked` in `View`).  An answer that arrives redraws the
  content of its window over an open menu, and on the desktop when the window is
  minimized.  C Studio shows the output of any foreground program.
- *Mouse.*  A movement beyond an int8_t, or the rest of a packet with bit 3 set,
  displaces the pointer for good.  The decoder recovers from the latter with the
  first report in whose movements that bit is clear.
- *What three properties do not say.*  `DeadlinesFire` does not notice a deadline
  that is met too early.  The promises of `Durability` are what the disk holds
  when a call returns, not the caller's argument.  `ReadyExact` is about
  readiness to write; readiness to read is in the model but not in a property.

## 4. Proofs

All theorems hold for every value of the constants that satisfies the modules'
ASSUMEs; TLC evaluates those in the runs, and it checked every inductive
invariant on a small instance before the proof was written.

| Theorem | States | Module |
|---|---|---|
| `Inductive`, `TypeCorrect` | `Spec => []IndInv`, `Spec => []TypeOK` | `VmProofs` |
| `ReferencesExact` | `Spec => []RefcountExact` | `VmProofs` |
| `Isolation` | `Spec => []WriteIsolation` | `VmProofs` |
| `RecordsAreProper` | `Spec => []ProperRecords` | `VmProofs` |
| `WriteOrExecute` | `Spec => []WriteXorExec`, if no program segment is writable and executable | `VmProofs` |
| `FramesWithinSize` | `Spec => []Sized` | `VmImplements` |
| `Implements` | `Spec => ImplementsMemory` | `VmImplements` |
| `SpacesCounted` | `Spec => []ReferencesExact` | `ProcessProofs` |
| `SandboxHolds` | `Spec => NoEscape` | `ProcessProofs` |
| `StatusesWait` | `Spec => ZombieKept` | `ProcessProofs` |
| `NobodyJoinsTheDead` | `Spec => JoinersWoken` | `ProcessProofs` |
| `FindIsExact` | `Spec => []FindExact` (`PageIndex`) | `PartsProofs` |
| `HeapIsSound` | `HeapSpec => []HeapSound` | `PartsProofs` |
| `Exclusion`, `Once` | `PthreadSpec => []MutualExclusion`, `... => []InitializedOnce` | `PartsProofs` |
| `FramesAreExact` | `E1000Spec => []FramesExact` | `PartsProofs` |
| `DescriptorsAreValid` | `Spec => []DescriptorsValid` | `IpcProofs` |
| `QueuesAreExact` | `Spec => []QueueExact` | `IpcProofs` |
| `ReadinessIsExact` | `Spec => []ReadyExact` | `IpcProofs` |
| `ExpirationsAreExact` | `Spec => []ExpirationsExact` | `IpcProofs` |
| `VolumeInvariant` | `Spec => []VolumeInv` | `NovaFsProofs` |
| `VolumeIsSound` | `Spec => []VolumeSound` | `NovaFsProofs` |
| `PromisesAreDurable` | `Spec => []Durability` | `NovaFsProofs` |
| `GrowthIsAtomic` | `Spec => GrowAtomic` | `NovaFsProofs` |

A prover has no induction over data, so wherever the code searches or walks, the
argument is by the least element of a set of numbers (`LeastNatural`).

### Virtual memory (`VmBasics`, `VmProofs`, `VmViews`, `VmImplements`)

Assumptions: finitely many frames, spaces and memory files, `NoFrame` is no
frame, page numbers are an interval, `Zero` is a value.

`WriteIsolation` is not inductive.  After a fork a page is safe because it is
marked copy-on-write and its *entry* is read-only, so entries must agree with
records (`EntriesMatch`).  `make_private` writes in place when the count is 1,
so counts must be exact (`RefcountExact`); counts stay exact only if a frame is
used in one role (`FrameRoles`: one address in several spaces, or one memory
file) and absent records are clean (`CleanRecords`).  `IndInv` is the
conjunction.  `ProperRecords` says that a page of a memory file is never
copy-on-write, and that a record is writable and executable only if a program
segment is; it is inductive once types are known, because every record a handler
writes has the protection of a request that was checked, of the stack or heap,
or of the record it replaces.

- `VmBasics` has what both arguments need: a frame that is free is held by
  nobody and one with count 1 by one page, the frames an allocation draws are
  fresh and different, and what `vm_protect_page`, `make_private` and the
  copy-on-write marking do to a record.
- `VmProofs` shows `IndInv` and `ProperRecords` inductive: how the holders of a
  frame change when records of one space or slots of one memory file change,
  what a step that replaces records must satisfy (`PagesStep`), then one lemma
  for each handler and each way it fails.
- `VmViews` shows what programs see of each handler under the mapping of
  `VmRefinement`: the corresponding step of `Memory`, or none.  The lemmas
  (`...Seen`) are about one handler each.
- `VmImplements` puts them together.  Besides `IndInv` the mapping needs
  `ProperRecords` (a store to a shared page must reach the segment, so it must
  not be copied away first) and `Sized` (no memory file has a frame past its
  size; otherwise growing it would bring old contents back where `Memory` has
  zeroes).

### Processes (`ProcessProofs`)

The theorems follow from `TableInv`: the types, counts over all slots
(`CountsExact`), and that a slot in use has an address space, a pid drawn before,
and `no_new_privs` when it is strict (`SlotsFilled`).  The pids are what tells a
process that keeps its slot from a new one in the same slot, so `NoEscape` and
`ZombieKept` need them.  A step either moves no slot (`StillStep`) or puts one
record into one slot (`MovedStep`: the old space loses a holder, then the new one
gains one, and they may be the same); each action is shown to be of one kind.
For `JoinersWoken` every way to end goes through `finish_process`, which wakes
all waiters of the word before the slot changes.

### Parts that share no state (`PartsProofs`)

*Page hash.*  `IndexInv`: types, one record for a page, one slot for a record, no
slot for a free record, and `AllReached`: the probe for a mapped page meets its
slot before an empty one.  Insertion keeps the last because it fills the first
empty slot or a tombstone before it, removal because it leaves a tombstone.
Nothing is assumed of the hash function but that its values are slots.

*Heap.*  `HeapInv`: the headers form one chain in the order of their addresses
(`Chain`: each ends where the next begins, and `previous` is the inverse of
`next`), no two free ones are neighbours (`Coalesced`), and callers hold exactly
the blocks in use, none larger than its block.  Splitting (`Cut`) and merging
keep the chain; a release merges with both neighbours, so a chain with one pair
of free neighbours in between is part of the argument.  That the walk meets every
header, and only headers, is a consequence of `Chain`.

*Locks.*  `MutexInv` says that the places between lock and unlock, the first part
of a condition wait included, hold at most one thread, and that the word is 0
exactly when they hold none.  `OnceInv` ties the word of `pthread_once` to the
place of the one thread in the initializer and to the number of its runs.

*Adapter.*  Registers and indexes are positions of counters that only grow
(`Slot(n, k)` is `k % n`): `RxInv` and `TxInv` say which counter each register
follows, that the two sides are at most a ring apart, and what status and frame
every slot between them has.

### IPC (`IpcProofs`)

Four invariants, the later ones using the first.  `FilesInv`: types, a free slot
has no descriptors, every descriptor names an object in use, and a memory file
counts the descriptors that name it.  `QueueInv`: every ring that no faulting
read cut holds the bytes between those received and those sent, at the places its
offsets say; an object not yet in use has seen no bytes.  `ReadyInv`: counters
stay below their limit, and an epoll set has one entry for a descriptor.
`TimerInv`: a timer's deadline is its first one plus the periods taken, and the
last of these is due.  The expirations due are a cardinality; it is found by a
bijection with the multiples of the period.  Assumption: finitely many processes,
sizes that are positive.

### NovaFS (`NovaFsProofs`)

The theorems are about `NovaFs`'s own `Spec`, in which any caller may make any
call; the run `storage` checks the same properties there on small volumes, and
with the services of `Storage` as the callers.

`VolumeInv` relates four things: the directory in memory, the one on disk, the
operation under way and what callers were told.  `TableOK`: no file is larger
than its extent, extents are apart, names differ, every entry is in a directory.
`Lags`: the disk holds entries of memory, in the extents they have or had before,
and none of those is an extent of another entry.  `Held`: every promise is what
the directory gives.  `Working`: the sectors still to be written lie in the
extent the operation will save, nothing is promised of its path, and the entry to
be saved fits both directories.  A crash replaces memory by the disk's directory,
which `Lags` and `Held` describe.  All this is claimed unless a reboot may read a
directory that lost writes (`Trusted`), see section 3.

### Model-checked only

- *Liveness under fairness* (`RunnableRuns`, `DeadlinesFire`, `ItemsTaken`,
  `OnceReturns`, `PageLoads`): out of the prover's reach.
- *Input, Storage, ElfLoader*: packets are decoded by a fold over bytes, services
  are lists of calls assembled by flattening and recursion over the tree of
  names, and lookup follows chains.  What such definitions give for all inputs
  needs induction over data.  For the same reason the theorems about `NovaFs` are
  not carried over to `Storage`.
- *Browser, Desktop*: the properties relate sessions and screen coordinates that
  are given as concrete tables.
- *UserHeap* and `CapacityAvailable`: the runs show violations.

## 5. What the models leave out

- Contents: registers, exit codes, checksums, wording and glyphs are abstracted
  to what the properties distinguish.
- `Vm`: page-table pages are not counted; their exhaustion is one of the
  failures an allocation may have.
- `Process`: descriptors are in `Ipc`, memory in `Vm`, TLS blocks in
  `ElfLoader`; the four share the fork action by name and are not composed.
- `ElfLoader`: malformed tables the code only checks for being mapped; `dlopen`,
  which supports only the program itself.
- `NovaFs` and `Storage`: owners and modes (the kernel's services run
  privileged), sizes that are not whole sectors, a power failure inside the
  formatting of a volume, and a restart after a directory write that failed
  (section 3).
- `Browser`: the limit of 16 frames per turn, frames that the link loses, the
  limits of the staging buffers.
- `UserHeap`: the wrap-around of sizes near 2^64.
- `Pthread`: the condition variable's sequence number wraps after 2^32 signals;
  the model wraps earlier but never lets a waiter miss a whole round.

## 6. Not modelled

- Files and directories as descriptors (`process.c` 2340-2630): an offset per
  descriptor over the operations of `NovaFs`, each one handler that nothing
  interleaves with.
- Downloads on the host (a temporary file and a rename as the last step), the
  model client, and the script that starts and stops the emulator.
- The translation of NovaCC: a pure function of one source text.  Its output file
  is in `Storage`.
- Boot loader, kernel entry, register save and restore; serial port, clock and
  PCI: machine setup and register access, below the level of these models.
- Fonts, string functions, mathematics, unwinder stubs, test programs and the
  offline import of packages: no state shared between steps.
