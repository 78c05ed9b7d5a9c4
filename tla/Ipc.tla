-------------------------------- MODULE Ipc ---------------------------------
(***************************************************************************)
(* Descriptors and the objects behind them (kernel/process.c): pipes,      *)
(* socket pairs, eventfds, timerfds, epoll instances and memory files.     *)
(*                                                                         *)
(* Objects live in fixed tables of the kernel.  A descriptor table belongs *)
(* to one process slot and is copied by clone, for threads too.  Closing   *)
(* the last descriptor frees a memory file; the other objects stay in use. *)
(* No call blocks, so each one is a single action.  A copy from or to user *)
(* memory may fault between two chunks of a transfer.                      *)
(*                                                                         *)
(* The n-th byte put in a queue has the value n, so that a byte says what  *)
(* it is.  The contents of memory files are in Vm.                         *)
(***************************************************************************)
EXTENDS Integers, FiniteSets, FiniteSetsExt

CONSTANTS
  Processes,    \* process slots
  BufferSize,   \* IPC_BUFFER_SIZE
  Chunk,        \* bytes copied at a time
  EventMax,     \* the largest unsigned number, 2^64 - 1 in the code
  NEntries,     \* MAX_EPOLL_ENTRIES
  MaxPeriod,    \* bound on the times given to timerfd_settime
  Workloads     \* what the programs of a boot may create, and its bounds

Kinds == {"pipe", "socket", "event", "timer", "epoll", "memfd"}

ASSUME SizesAssumption ==
  /\ Workloads \subseteq [kinds : SUBSET Kinds, fds : Nat, objects : Nat,
                           bytes : Nat, ticks : Nat]
  /\ IsFiniteSet(Processes)
  /\ NEntries \in Nat /\ BufferSize \in Nat \ {0} /\ Chunk \in Nat \ {0}
  /\ EventMax \in Nat \ {0, 1} /\ MaxPeriod \in Nat

VARIABLES
  state,        \* of each slot: "free", "running", "zombie"
  descriptors,  \* of each slot
  used,         \* the objects of each kind in use
  queue,        \* the ring buffers of pipes and socket pairs
  event,        \* EventObject
  timer,        \* TimerObject
  epoll,        \* EpollObject
  references,   \* MemfdObject.references
  scheduler_ticks,
  sent,         \* history: bytes put in each queue
  received,     \* history: bytes of each queue delivered to a reader
  skipped,      \* history: queues a read of which faulted
  armed,        \* history: each timer's first expiry and expirations taken
  workload      \* the workload of this boot; it never changes

objects == <<used, queue, event, timer, epoll, references>>
history == <<sent, received, skipped, armed>>
vars == <<state, descriptors, objects, scheduler_ticks, history, workload>>

-----------------------------------------------------------------------------
(* Objects and descriptors *)

Ids == 1..workload.objects      \* of each kind (MAX_PIPE_OBJECTS and so on)
Fds == 3..(workload.fds + 2)    \* up to MAX_FILE_DESCRIPTORS - 1
MaxBytes == workload.bytes      \* bound on the bytes put in one queue
MaxTicks == workload.ticks      \* bound on scheduler_ticks
QueueIds == {<<"pipe", o, 0>> : o \in Ids} \cup {<<"socket", o, e>> : o \in Ids, e \in {0, 1}}
Smaller(a, b) == IF a <= b THEN a ELSE b

None == [type |-> "none", object |-> 0, endpoint |-> 0]
Descriptor(type, object, endpoint) ==
  [type |-> type, object |-> object, endpoint |-> endpoint]

EmptyQueue == [data |-> [i \in 0..(BufferSize - 1) |-> 0],
               read_offset |-> 0, write_offset |-> 0, count |-> 0]
NoEntry == [used |-> FALSE, descriptor |-> 0, events |-> {}]
NoEntries == [i \in 1..NEntries |-> NoEntry]

KindOf(file) ==
  IF file.type \in {"pipe_read", "pipe_write"} THEN "pipe" ELSE file.type

\* The descriptors find_descriptor may return, in its order.
FreeFds(p) == {fd \in Fds : descriptors[p][fd] = None}

\* The object allocate_*_object returns, if any: the first unused one.
allocate(kind) == IF used[kind] = Ids THEN {} ELSE {Min(Ids \ used[kind])}

Running(p) == state[p] = "running"
File(p, fd) == descriptors[p][fd]

descriptor_read_queue(file) ==
  IF file.type = "pipe_read" THEN {<<"pipe", file.object, 0>>}
  ELSE IF file.type = "socket" THEN {<<"socket", file.object, file.endpoint>>} ELSE {}

descriptor_write_queue(file) ==
  IF file.type = "pipe_write" THEN {<<"pipe", file.object, 0>>}
  ELSE IF file.type = "socket" THEN {<<"socket", file.object, 1 - file.endpoint>>} ELSE {}

Count(q) == queue[q].count

-----------------------------------------------------------------------------
(* Creating objects *)

\* pipe2 and socketpair.  With one descriptor left, or when the numbers
\* cannot be stored, the call undoes everything.
CreatePair(p, kind) ==
  /\ Running(p) /\ kind \in workload.kinds
  /\ Cardinality(FreeFds(p)) >= 2
  /\ \E o \in allocate(kind) :
       LET first == Min(FreeFds(p))
           second == Min(FreeFds(p) \ {first})
       IN /\ used' = [used EXCEPT ![kind] = @ \cup {o}]
          /\ queue' = [q \in QueueIds |->
                         IF q[1] = kind /\ q[2] = o THEN EmptyQueue ELSE queue[q]]
          /\ descriptors' = [descriptors EXCEPT
               ![p][first] = IF kind = "pipe" THEN Descriptor("pipe_read", o, 0)
                                              ELSE Descriptor("socket", o, 0),
               ![p][second] = IF kind = "pipe" THEN Descriptor("pipe_write", o, 0)
                                               ELSE Descriptor("socket", o, 1)]
  /\ UNCHANGED <<state, event, timer, epoll, references, scheduler_ticks, history,
                 workload>>

\* eventfd2, timerfd_create, epoll_create and memfd_create.
CreateOne(p, kind, value, semaphore) ==
  /\ Running(p) /\ kind \in workload.kinds
  /\ FreeFds(p) # {}
  /\ \E o \in allocate(kind) :
       /\ used' = [used EXCEPT ![kind] = @ \cup {o}]
       /\ descriptors' = [descriptors EXCEPT ![p][Min(FreeFds(p))] = Descriptor(kind, o, 0)]
       /\ event' = IF kind # "event" THEN event
                   ELSE [event EXCEPT ![o] = [counter |-> value, semaphore |-> semaphore]]
       /\ timer' = IF kind # "timer" THEN timer
                   ELSE [timer EXCEPT ![o] = [expires |-> 0, interval |-> 0]]
       /\ epoll' = IF kind # "epoll" THEN epoll ELSE [epoll EXCEPT ![o] = NoEntries]
       /\ references' = IF kind # "memfd" THEN references ELSE [references EXCEPT ![o] = 1]
  /\ UNCHANGED <<state, queue, scheduler_ticks, history, workload>>

\* Any of them with no descriptor left: the object stays allocated; only
\* memfd_create gives it back.
CreateLeaks(p, kind) ==
  /\ Running(p) /\ kind \in workload.kinds \ {"memfd"}
  /\ FreeFds(p) = {}
  /\ \E o \in allocate(kind) : used' = [used EXCEPT ![kind] = @ \cup {o}]
  /\ UNCHANGED <<state, descriptors, queue, event, timer, epoll, references,
                 scheduler_ticks, history, workload>>

-----------------------------------------------------------------------------
(* Copying and closing descriptors *)

\* How many of these descriptors name memory file o.
Naming(files, o) ==
  Cardinality({fd \in DOMAIN files : files[fd] = Descriptor("memfd", o, 0)})

\* The memory files after the descriptors `released` were given up and the
\* descriptors `retained` taken (memfd_release_object, descriptor_retain).
Recount(released, retained) ==
  /\ references' = [o \in Ids |->
       references[o] - Naming(released, o) + Naming(retained, o)]
  /\ used' = [used EXCEPT !["memfd"] = {o \in @ : references'[o] > 0}]

Close(p, fd) ==
  /\ Running(p) /\ File(p, fd) # None
  /\ descriptors' = [descriptors EXCEPT ![p][fd] = None]
  /\ Recount([x \in {fd} |-> File(p, fd)], << >>)
  /\ UNCHANGED <<state, queue, event, timer, epoll, scheduler_ticks, history, workload>>

\* Mutant: what the new descriptor named before is not released.
Duplicate_Leak(p, old, new) ==
  /\ Running(p) /\ File(p, old) # None /\ old # new
  /\ descriptors' = [descriptors EXCEPT ![p][new] = File(p, old)]
  /\ Recount(<< >>, [x \in {old} |-> File(p, old)])
  /\ UNCHANGED <<state, queue, event, timer, epoll, scheduler_ticks, history, workload>>

\* dup2 to another number, and dup, whose number is the first free one.
Duplicate(p, old, new) ==
  /\ Running(p) /\ File(p, old) # None /\ old # new
  /\ descriptors' = [descriptors EXCEPT ![p][new] = File(p, old)]
  /\ Recount([x \in {new} |-> File(p, new)], [x \in {old} |-> File(p, old)])
  /\ UNCHANGED <<state, queue, event, timer, epoll, scheduler_ticks, history, workload>>

\* create_process: a program starts with no descriptors.
Load(p) ==
  /\ state[p] = "free"
  /\ state' = [state EXCEPT ![p] = "running"]
  /\ UNCHANGED <<descriptors, objects, scheduler_ticks, history, workload>>

\* clone: the child gets a copy of the table, whether or not it shares memory.
Clone(p, c) ==
  /\ Running(p) /\ state[c] = "free"
  /\ state' = [state EXCEPT ![c] = "running"]
  /\ descriptors' = [descriptors EXCEPT ![c] = descriptors[p]]
  /\ Recount(<< >>, descriptors[p])
  /\ UNCHANGED <<queue, event, timer, epoll, scheduler_ticks, history, workload>>

\* exit: a zombie keeps its descriptors until its slot is reset.
Exit(p) ==
  /\ Running(p)
  /\ state' = [state EXCEPT ![p] = "zombie"]
  /\ UNCHANGED <<descriptors, objects, scheduler_ticks, history, workload>>

\* reset_process_slot of a zombie, by wait4 or reserve_slot.
Reset(p) ==
  /\ state[p] = "zombie"
  /\ state' = [state EXCEPT ![p] = "free"]
  /\ descriptors' = [descriptors EXCEPT ![p] = [fd \in Fds |-> None]]
  /\ Recount(descriptors[p], << >>)
  /\ UNCHANGED <<queue, event, timer, epoll, scheduler_ticks, history, workload>>

-----------------------------------------------------------------------------
(* Pipes and socket pairs *)

\* Mutant: a write is not cut to the room left.
Accepted_Whole(q, n) == n

\* The bytes a write or a read of n bytes may transfer.
Accepted(q, n) == Smaller(n, BufferSize - Count(q))
Available(q, n) == Smaller(n, Count(q))

\* The points a transfer of n bytes may end at: its end, or a fault of the
\* user's buffer before one of its chunks.
Faults(n) == {k \in 0..(n - 1) : k % Chunk = 0}

\* queue_write_user.  A fault leaves the chunks before it in the queue.
QueueWrite(p, fd, n) ==
  /\ Running(p)
  /\ \E q \in descriptor_write_queue(File(p, fd)) :
       /\ Count(q) < BufferSize
       /\ \E k \in {Accepted(q, n)} \cup Faults(Accepted(q, n)) :
            /\ sent[q] + k <= MaxBytes
            /\ queue' = [queue EXCEPT
                 ![q].data = [i \in DOMAIN @ |->
                    LET place == 1 + ((i - queue[q].write_offset) % BufferSize)
                    IN IF place <= k THEN sent[q] + place ELSE @[i]],
                 ![q].write_offset = (@ + k) % BufferSize,
                 ![q].count = @ + k]
            /\ sent' = [sent EXCEPT ![q] = @ + k]
  /\ UNCHANGED <<state, descriptors, used, event, timer, epoll, references,
                 scheduler_ticks, received, skipped, armed, workload>>

\* queue_read_user.  The chunk whose copy faults is skipped, and still counted.
QueueRead(p, fd, n) ==
  /\ Running(p)
  /\ \E q \in descriptor_read_queue(File(p, fd)) :
       /\ Count(q) > 0
       /\ LET m == Available(q, n) IN
          \/ /\ queue' = [queue EXCEPT ![q].read_offset = (@ + m) % BufferSize,
                                       ![q].count = @ - m]
             /\ received' = [received EXCEPT ![q] = @ + m]
             /\ UNCHANGED skipped
          \/ \E k \in Faults(m) :
               /\ queue' = [queue EXCEPT
                    ![q].read_offset = (@ + k + Smaller(Chunk, m - k)) % BufferSize,
                    ![q].count = @ - k]
               /\ received' = [received EXCEPT ![q] = @ + k]
               /\ skipped' = skipped \cup {q}
  /\ UNCHANGED <<state, descriptors, used, event, timer, epoll, references,
                 scheduler_ticks, sent, armed, workload>>

-----------------------------------------------------------------------------
(* Eventfds *)

\* The values a write may add to a counter.
EventFits(counter, value) == value # EventMax /\ counter <= EventMax - 1 - value

EventWrite(p, fd, value) ==
  /\ Running(p) /\ File(p, fd).type = "event"
  /\ LET o == File(p, fd).object IN
       /\ EventFits(event[o].counter, value)
       /\ event' = [event EXCEPT ![o].counter = (@ + value) % (EventMax + 1)]
  /\ UNCHANGED <<state, descriptors, used, queue, timer, epoll, references,
                 scheduler_ticks, history, workload>>

\* The value is copied out before the counter changes.
EventRead(p, fd) ==
  /\ Running(p) /\ File(p, fd).type = "event"
  /\ LET o == File(p, fd).object IN
       /\ event[o].counter # 0
       /\ event' = [event EXCEPT ![o].counter = IF event[o].semaphore THEN @ - 1 ELSE 0]
  /\ UNCHANGED <<state, descriptors, used, queue, timer, epoll, references,
                 scheduler_ticks, history, workload>>

-----------------------------------------------------------------------------
(* Timerfds *)

Expired(t) == t.expires # 0 /\ scheduler_ticks >= t.expires

\* timerfd_settime.
SetTime(p, fd, value, interval, absolute) ==
  /\ Running(p) /\ File(p, fd).type = "timer"
  /\ LET o == File(p, fd).object
         expires == IF value = 0 \/ absolute THEN value ELSE scheduler_ticks + value
     IN /\ timer' = [timer EXCEPT ![o] = [expires |-> expires, interval |-> interval]]
        /\ armed' = [armed EXCEPT ![o] = [first |-> expires, taken |-> 0]]
  /\ UNCHANGED <<state, descriptors, used, queue, event, epoll, references,
                 scheduler_ticks, sent, received, skipped, workload>>

\* timerfd_settime with a time so far away that the sum overflows: the call
\* fails with the interval already changed.
SetTimeOverflow(p, fd, interval) ==
  /\ Running(p) /\ File(p, fd).type = "timer"
  /\ scheduler_ticks > 0
  /\ LET o == File(p, fd).object IN
       /\ timer' = [timer EXCEPT ![o].interval = interval]
       /\ armed' = [armed EXCEPT ![o] = [first |-> timer[o].expires, taken |-> 0]]
  /\ UNCHANGED <<state, descriptors, used, queue, event, epoll, references,
                 scheduler_ticks, sent, received, skipped, workload>>

\* Mutant: the next expiry is one interval from now.
TimerTaken_FromNow(t) ==
  IF t.interval = 0 THEN [expirations |-> 1, expires |-> 0]
  ELSE [expirations |-> 1 + (scheduler_ticks - t.expires) \div t.interval,
        expires |-> scheduler_ticks + t.interval]

\* What a read of an expired timer returns, and the expiry it leaves.
TimerTaken(t) ==
  IF t.interval = 0 THEN [expirations |-> 1, expires |-> 0]
  ELSE LET n == 1 + (scheduler_ticks - t.expires) \div t.interval
       IN [expirations |-> n, expires |-> t.expires + n * t.interval]

\* The timer moves on before the number is copied out; a fault loses it.
TimerRead(p, fd) ==
  /\ Running(p) /\ File(p, fd).type = "timer"
  /\ LET o == File(p, fd).object IN
       /\ Expired(timer[o])
       /\ timer' = [timer EXCEPT ![o].expires = TimerTaken(timer[o]).expires]
       /\ armed' = [armed EXCEPT ![o].taken = @ + TimerTaken(timer[o]).expirations]
  /\ UNCHANGED <<state, descriptors, used, queue, event, epoll, references,
                 scheduler_ticks, sent, received, skipped, workload>>

Tick ==
  /\ scheduler_ticks < MaxTicks
  /\ scheduler_ticks' = scheduler_ticks + 1
  /\ UNCHANGED <<state, descriptors, objects, history, workload>>

-----------------------------------------------------------------------------
(* Epoll *)

Existing(entries, fd) ==
  {i \in DOMAIN entries : entries[i].used /\ entries[i].descriptor = fd}
Unused(entries) == {i \in DOMAIN entries : ~entries[i].used}

AddSlot(entries, target) ==
  IF Existing(entries, target) # {} \/ Unused(entries) = {} THEN {} ELSE {Min(Unused(entries))}

\* epoll_ctl.  An entry keeps the number of its descriptor, not the object.
EpollCtl(p, fd, target, operation, events) ==
  /\ Running(p) /\ File(p, fd).type = "epoll" /\ File(p, target) # None
  /\ LET o == File(p, fd).object
         slots == IF operation = "ADD" THEN AddSlot(epoll[o], target)
                  ELSE Existing(epoll[o], target)
     IN /\ slots # {}
        /\ epoll' = [epoll EXCEPT ![o][Max(slots)] =
             IF operation = "DEL" THEN NoEntry
             ELSE [used |-> TRUE, descriptor |-> target, events |-> events]]
  /\ UNCHANGED <<state, descriptors, used, queue, event, timer, references,
                 scheduler_ticks, history, workload>>

\* Mutant: an eventfd is taken for writable up to its largest value.
EventWritable_Full(counter) == counter <= EventMax - 1

EventWritable(counter) == counter < EventMax - 1

\* descriptor_ready_events with both events requested.
descriptor_ready_events(p, fd) ==
  LET file == File(p, fd)
      readable == \/ file.type = "event" /\ event[file.object].counter # 0
                  \/ file.type = "timer" /\ Expired(timer[file.object])
                  \/ \E q \in descriptor_read_queue(file) : Count(q) # 0
                  \/ file.type = "memfd"
      writable == \/ file.type = "event" /\ EventWritable(event[file.object].counter)
                  \/ \E q \in descriptor_write_queue(file) : Count(q) < BufferSize
                  \/ file.type = "memfd"
  IN {e \in {"IN"} : readable} \cup {e \in {"OUT"} : writable}

\* The descriptors epoll_wait on fd reports to p, with their events.
epoll_wait(p, fd) ==
  {<<e.descriptor, e.events \cap descriptor_ready_events(p, e.descriptor)>> :
     e \in {e \in {epoll[File(p, fd).object][i] : i \in 1..NEntries} :
             e.used /\ e.events \cap descriptor_ready_events(p, e.descriptor) # {}}}

-----------------------------------------------------------------------------
(* The specification *)

Init ==
  /\ workload \in Workloads
  /\ state = [p \in Processes |-> "free"]
  /\ descriptors = [p \in Processes |-> [fd \in Fds |-> None]]
  /\ used = [kind \in Kinds |-> {}]
  /\ queue = [q \in QueueIds |-> EmptyQueue]
  /\ event = [o \in Ids |-> [counter |-> 0, semaphore |-> FALSE]]
  /\ timer = [o \in Ids |-> [expires |-> 0, interval |-> 0]]
  /\ epoll = [o \in Ids |-> NoEntries]
  /\ references = [o \in Ids |-> 0]
  /\ scheduler_ticks = 0
  /\ sent = [q \in QueueIds |-> 0]
  /\ received = [q \in QueueIds |-> 0]
  /\ skipped = {}
  /\ armed = [o \in Ids |-> [first |-> 0, taken |-> 0]]

Creation(p) ==
  \/ \E kind \in {"pipe", "socket"} : CreatePair(p, kind)
  \/ \E kind \in {"timer", "epoll", "memfd"} : CreateOne(p, kind, 0, FALSE)
  \/ \E value \in {0, 1}, semaphore \in BOOLEAN : CreateOne(p, "event", value, semaphore)
  \/ \E kind \in Kinds : CreateLeaks(p, kind)

Sharing(p) ==
  \/ \E fd \in Fds : Close(p, fd)
  \/ \E old, new \in Fds : Duplicate(p, old, new)
  \/ \E c \in Processes : Clone(p, c)
  \/ Load(p)
  \/ Exit(p)
  \/ Reset(p)

Transfer(p, fd) ==
  \/ \E n \in 1..BufferSize : QueueWrite(p, fd, n) \/ QueueRead(p, fd, n)
  \/ \E value \in 0..EventMax : EventWrite(p, fd, value)
  \/ EventRead(p, fd)
  \/ \E value, interval \in 0..MaxPeriod, absolute \in BOOLEAN :
       SetTime(p, fd, value, interval, absolute)
  \/ \E interval \in 0..MaxPeriod : SetTimeOverflow(p, fd, interval)
  \/ TimerRead(p, fd)
  \/ \E target \in Fds, operation \in {"ADD", "MOD", "DEL"}, events \in {{"IN"}, {"OUT"}} :
       EpollCtl(p, fd, target, operation, events)

Next ==
  \/ \E p \in Processes : Creation(p) \/ Sharing(p) \/ \E fd \in Fds : Transfer(p, fd)
  \/ Tick

Spec == Init /\ [][Next]_vars

-----------------------------------------------------------------------------
(* Properties *)

\* A descriptor, a zombie's too, never names an object that was given back
\* and may be handed to somebody else (close, dup2, clone, reset): a memory
\* file counts the descriptors that name it in all slots and is given back
\* with the last of them.
DescriptorsValid ==
  /\ \A p \in Processes, fd \in Fds :
       File(p, fd) # None => File(p, fd).object \in used[KindOf(File(p, fd))]
  /\ \A o \in Ids :
       /\ references[o] = Cardinality({c \in Processes \X Fds :
                                        File(c[1], c[2]) = Descriptor("memfd", o, 0)})
       /\ o \in used["memfd"] <=> references[o] > 0

\* Whoever writes and reads a pipe or socket pair, and however the transfers
\* are cut, readers get every byte once and in order: the ring holds exactly
\* the bytes sent and not yet received.  A read that faulted ends this.
QueueExact ==
  \A q \in QueueIds \ skipped :
    LET r == queue[q] IN
    /\ received[q] + r.count = sent[q]
    /\ r.write_offset = (r.read_offset + r.count) % BufferSize
    /\ \A k \in 1..r.count :
         r.data[(r.read_offset + k - 1) % BufferSize] = received[q] + k

\* The expirations of a timer armed at `first`, by definition.
Due(first, interval) ==
  IF first = 0 THEN 0
  ELSE Cardinality({t \in first..scheduler_ticks :
                      IF interval = 0 THEN t = first ELSE (t - first) % interval = 0})

\* However late and however often a timerfd is read, no expiration is
\* reported twice and none is missed: those taken and those the next read
\* would take are those due since the timer was set.
ExpirationsExact ==
  \A o \in Ids :
    armed[o].taken
      + (IF Expired(timer[o]) THEN TimerTaken(timer[o]).expirations ELSE 0)
      = Due(armed[o].first, timer[o].interval)

\* poll and epoll tell the truth: a descriptor is reported writable exactly
\* when a write of the smallest amount is accepted, at the limits too, and an
\* epoll instance has one entry for a descriptor, so that it is reported once.
ReadyExact ==
  /\ \A p \in Processes, fd \in Fds :
       LET file == File(p, fd)
           writable == \/ /\ file.type = "event"
                          /\ EventFits(event[file.object].counter, 1)
                       \/ \E q \in descriptor_write_queue(file) : Accepted(q, 1) = 1
                       \/ file.type = "memfd"
       IN "OUT" \in descriptor_ready_events(p, fd) <=> writable
  /\ \A p \in Processes, fd \in Fds : File(p, fd).type = "epoll" =>
       \A r1, r2 \in epoll_wait(p, fd) : r1[1] = r2[1] => r1 = r2
=============================================================================
