-------------------------------- MODULE NovaFs ------------------------------
(***************************************************************************)
(* NovaFS (kernel/filesystem.c): a directory of entries, each with one     *)
(* contiguous extent of data sectors.                                      *)
(*                                                                         *)
(* An operation changes the entries in memory at once and then writes the  *)
(* disk one sector at a time; the last write is the entry's directory slot *)
(* (save_entry).  Power can fail between any two sector writes, and a      *)
(* write can report an error.  fs_init then reads the directory back.      *)
(*                                                                         *)
(* Sizes are whole sectors and a sector is one value.  A symbolic link's   *)
(* sector holds its target: a path from the root, or from the link's own   *)
(* directory.  The caller is privileged, as the kernel's own services are: *)
(* modes and owners are left out.                                          *)
(***************************************************************************)
EXTENDS Integers, Sequences, FiniteSets

CONSTANTS
  Names,        \* paths
  Parent,       \* the directory part of a path, Root for a top-level one
  Joined,       \* the path a target names from a link's directory, or Root
  Root,
  Zero,         \* a sector of zeroes
  LinkDepth,    \* links resolve_entry follows
  Volumes       \* the disks considered: their size, what is written to them
                \* and what may fail

ASSUME TreeAssumption ==
  /\ Root \notin Names /\ Parent \in [Names -> Names \cup {Root}]
  /\ Joined \in [Names \X Names -> Names \cup {Root}]
ASSUME SizeAssumption == LinkDepth \in Nat
ASSUME VolumesAssumption ==
  \A v \in Volumes :
    /\ v.entries \in Nat /\ v.sectors \in Nat /\ v.lba \in Nat /\ v.size \in Nat
    /\ v.names \subseteq Names
    /\ Zero \in v.values
    /\ v.links \subseteq [to : Names, rooted : BOOLEAN]
    /\ v.faults \subseteq {"data", "directory", "crash", "read"}

VARIABLES
  entries,      \* the directory in memory
  directory,    \* the directory on disk
  disk,         \* the data sectors
  op,           \* the operation in progress
  promised,     \* history: what callers were last told a path holds
  volume        \* the disk in use; it never changes

vars == <<entries, directory, disk, op, promised, volume>>

MaxEntries == volume.entries \* FS_MAX_ENTRIES
Sectors == volume.sectors   \* data sectors of the disk
MaxLba == volume.lba        \* bound on where an extent that does not fit may lie
MaxSize == volume.size      \* bound on the size of a write
Values == volume.values     \* contents written
Faults == volume.faults     \* "data", "directory": those writes may report an
                            \* error; "crash": power may fail

-----------------------------------------------------------------------------
(* Entries *)

Indices == 1..MaxEntries
Contents == UNION {[1..n -> Values] : n \in 0..MaxSize}
NoEntry == [name |-> Root, type |-> "none", start |-> 0, size |-> 0, capacity |-> 0]

Used(dir) == {i \in Indices : dir[i].type # "none"}
Named(dir, n) == {i \in Used(dir) : dir[i].name = n}
Lowest(S) == CHOOSE x \in S : \A y \in S : x <= y
Max2(a, b) == IF a >= b THEN a ELSE b

\* ata_read_sector fails outside the disk.
OnDisk(lba) == lba < Sectors

parent_directory_exists(n) ==
  Parent[n] = Root
  \/ \E i \in Named(entries, Parent[n]) : entries[i].type = "directory"

\* The slots allocate_entry may use for a new path: the first free one.
allocate_entry(n) ==
  IF Named(entries, n) = {} /\ parent_directory_exists(n) /\ Used(entries) # Indices
  THEN {Lowest(Indices \ Used(entries))} ELSE {}

Links == [to : Names, rooted : BOOLEAN]
Pointed(n, link) == IF link.rooted THEN link.to ELSE Joined[n, link.to]

\* The entry a path leads to through at most LinkDepth links.
resolve_entry(n) ==
  LET target[d \in 0..LinkDepth, m \in Names \cup {Root}] ==
        IF d = 0 THEN {}
        ELSE {i \in Named(entries, m) : entries[i].type # "symlink"} \cup
             UNION {target[d - 1, Pointed(m, disk[entries[i].start])] :
                      i \in {j \in Named(entries, m) :
                               /\ entries[j].type = "symlink"
                               /\ OnDisk(entries[j].start)
                               /\ disk[entries[j].start] \in Links}}
  IN target[LinkDepth, n]

\* Mutant: the end of the entry with the highest index is used.
next_data_lba_Last ==
  LET i == CHOOSE i \in Used(entries) : \A j \in Used(entries) : i >= j
  IN IF Used(entries) = {} THEN 0 ELSE entries[i].start + entries[i].capacity

\* The first sector after every extent in use.
next_data_lba ==
  LET ends == {entries[i].start + entries[i].capacity : i \in Used(entries)}
  IN IF ends = {} THEN 0 ELSE CHOOSE e \in ends : \A f \in ends : e >= f

\* read_raw_data, sector by sector.
ReadSectors(e) ==
  [k \in 1..e.size |-> IF OnDisk(e.start + k - 1) THEN disk[e.start + k - 1] ELSE "error"]

\* What a directory and the data sectors say a path holds.
Holding(dir, n) ==
  IF Named(dir, n) = {} THEN <<"absent">>
  ELSE LET e == dir[Lowest(Named(dir, n))]
       IN <<e.type>> \o ReadSectors(e)

-----------------------------------------------------------------------------
(* Operations *)

Idle == [kind |-> "idle"]
Unknown == <<"unknown">>

\* An operation on the entry at index: the data writes it will make, each
\* with the entry as it is in memory by then, and the entry it saves.
Plan(kind, index, writes, final) ==
  [kind |-> kind, index |-> index, writes |-> writes, final |-> final]

Begin(name, plan) ==
  /\ op' = plan
  /\ promised' = [promised EXCEPT ![name] = Unknown]

\* The entry and the sectors of a whole-file write at its place.
Writes(e, data) ==
  [k \in DOMAIN data |-> [lba |-> e.start + k - 1, value |-> data[k], entry |-> e]]

NeededSectors(size) == Max2(size, 1)
Padded(data) == IF data = << >> THEN <<Zero>> ELSE data

\* The existing regular file a path leads to, or the slot of a new one.
Target(n) ==
  IF Named(entries, n) # {}
  THEN {i \in Indices : i \in resolve_entry(n) /\ entries[i].type = "file"}
  ELSE allocate_entry(n)

EntryFor(n, i) ==
  IF Named(entries, n) # {} THEN entries[i]
  ELSE [NoEntry EXCEPT !.name = n, !.type = "file"]

\* Mutant: a file that grows is written where it lies.
Placed_InPlace(e, size) ==
  IF e.capacity >= NeededSectors(size) THEN e
  ELSE [e EXCEPT !.start = IF e.capacity = 0 THEN next_data_lba ELSE @,
                 !.capacity = NeededSectors(size)]

\* The entry write_entry_data writes to: a file that outgrows its extent gets
\* a new one behind all others.
Placed(e, size) ==
  IF e.capacity >= NeededSectors(size) THEN e
  ELSE [e EXCEPT !.start = next_data_lba, !.capacity = NeededSectors(size)]

\* write_entry_data up to its first disk write.  When the disk is too small
\* the call fails with the entry already changed in memory.
StartWrite(kind, n, i, data) ==
  LET e == Placed(EntryFor(n, i), Len(data))
      fits == e.start + NeededSectors(Len(data)) <= Sectors
      name == EntryFor(n, i).name
  IN /\ e.start <= MaxLba
     /\ entries' = [entries EXCEPT ![i] = e]
     /\ Begin(name, IF fits THEN Plan(kind, i, Writes(e, Padded(data)),
                                      [e EXCEPT !.size = Len(data)])
                    ELSE Idle)
     /\ UNCHANGED <<directory, disk, volume>>

\* fs_write.
Write(n, data) ==
  /\ op = Idle
  /\ \E i \in Target(n) : StartWrite("write", n, i, data)

\* fs_symlink: the target is written as a file, then the type is changed.
Symlink(link, n) ==
  /\ op = Idle
  /\ Named(entries, n) = {}
  /\ \E i \in allocate_entry(n) : StartWrite("symlink", n, i, <<link>>)

NewSize(e, offset, data) == Max2(e.size, offset + Len(data))

\* The sectors fs_write_at writes: a file that outgrows its extent is copied
\* to the new one (moved), the gap up to offset zeroed, and the data written.
CopyWrites(e, moved) ==
  IF moved = e THEN << >>
  ELSE [k \in 1..moved.capacity |->
          [lba |-> moved.start + k - 1, entry |-> e,
           value |-> IF k <= e.capacity THEN disk[e.start + k - 1] ELSE Zero]]
GapWrites(moved, offset) ==
  [k \in 1..Max2(0, offset - moved.size) |->
     [lba |-> moved.start + moved.size + k - 1, entry |-> moved, value |-> Zero]]
AtWrites(moved, offset, data) ==
  [k \in DOMAIN data |->
     [lba |-> moved.start + offset + k - 1, entry |-> moved, value |-> data[k]]]

\* fs_write_at.  A new entry is saved first.  The call fails at once when the
\* new extent does not fit the disk, or the old one cannot be read.
WriteAt(n, offset, data) ==
  /\ op = Idle
  /\ \E i \in Target(n) :
       LET e == EntryFor(n, i)
           moved == Placed(e, NewSize(e, offset, data))
           possible == moved # e => /\ moved.start + moved.capacity <= Sectors
                                    /\ e.start + e.capacity <= Sectors
           created == Named(entries, n) = {}
       IN /\ entries' = [entries EXCEPT ![i] = e]
          /\ \/ /\ directory' = IF created THEN [directory EXCEPT ![i] = e] ELSE directory
                /\ Begin(e.name,
                         IF ~possible THEN Idle
                         ELSE Plan("write", i,
                                   CopyWrites(e, moved) \o GapWrites(moved, offset)
                                     \o AtWrites(moved, offset, data),
                                   [moved EXCEPT !.size = NewSize(e, offset, data)]))
             \/ /\ created /\ "directory" \in Faults
                /\ Begin(e.name, Idle)
                /\ UNCHANGED directory
          /\ UNCHANGED <<disk, volume>>

\* Mutant: the write goes to the sector after.
DataWrite_Shifted ==
  /\ op # Idle /\ op.writes # << >>
  /\ entries' = [entries EXCEPT ![op.index] = Head(op.writes).entry]
  /\ disk' = [disk EXCEPT ![(Head(op.writes).lba + 1) % Sectors] = Head(op.writes).value]
  /\ op' = [op EXCEPT !.writes = Tail(@)]
  /\ UNCHANGED <<directory, promised, volume>>

\* The next data sector is written.
DataWrite ==
  /\ op # Idle /\ op.writes # << >>
  /\ OnDisk(Head(op.writes).lba)
  /\ entries' = [entries EXCEPT ![op.index] = Head(op.writes).entry]
  /\ disk' = [disk EXCEPT ![Head(op.writes).lba] = Head(op.writes).value]
  /\ op' = [op EXCEPT !.writes = Tail(@)]
  /\ UNCHANGED <<directory, promised, volume>>

\* The write fails, as it must outside the disk: the operation returns false.
\* An error may be reported for a sector that was written.
DataFault ==
  /\ op # Idle /\ op.writes # << >>
  /\ OnDisk(Head(op.writes).lba) => "data" \in Faults
  /\ entries' = [entries EXCEPT ![op.index] = Head(op.writes).entry]
  /\ \/ UNCHANGED disk
     \/ /\ OnDisk(Head(op.writes).lba)
        /\ disk' = [disk EXCEPT ![Head(op.writes).lba] = Head(op.writes).value]
  /\ op' = Idle
  /\ UNCHANGED <<directory, promised, volume>>

\* The caller is told that the operation on entry e succeeded.
Promise(e) == promised' = [promised EXCEPT ![e.name] = <<e.type>> \o ReadSectors(e)]

\* save_entry at the end of write_entry_data or fs_write_at.  For fs_symlink
\* a second save with the new type follows.
Save ==
  /\ op # Idle /\ op.writes = << >>
  /\ entries' = [entries EXCEPT ![op.index] = op.final]
  /\ directory' = [directory EXCEPT ![op.index] = op.final]
  /\ IF op.kind = "symlink"
     THEN /\ op' = Plan("write", op.index, << >>, [op.final EXCEPT !.type = "symlink"])
          /\ UNCHANGED promised
     ELSE op' = Idle /\ Promise(op.final)
  /\ UNCHANGED <<disk, volume>>

SaveFault ==
  /\ "directory" \in Faults
  /\ op # Idle /\ op.writes = << >>
  /\ entries' = [entries EXCEPT ![op.index] = op.final]
  /\ op' = Idle
  /\ UNCHANGED <<directory, disk, promised, volume>>

\* An operation that only writes the directory slot.
SaveAlone(i, e) ==
  /\ entries' = [entries EXCEPT ![i] = e]
  /\ \/ /\ directory' = [directory EXCEPT ![i] = e]
        /\ promised' = [promised EXCEPT ![IF e = NoEntry THEN entries[i].name ELSE e.name] =
                          IF e = NoEntry THEN <<"absent">> ELSE <<e.type>>]
     \/ /\ "directory" \in Faults
        /\ UNCHANGED directory
        /\ promised' = [promised EXCEPT ![IF e = NoEntry THEN entries[i].name ELSE e.name] =
                          Unknown]
  /\ UNCHANGED <<disk, op, volume>>

Mkdir(n) ==
  /\ op = Idle
  /\ \E i \in allocate_entry(n) :
       SaveAlone(i, [NoEntry EXCEPT !.name = n, !.type = "directory"])

\* fs_delete: a directory must be empty; a link itself is deleted.
Delete(n) ==
  /\ op = Idle
  /\ \E i \in Named(entries, n) :
       /\ entries[i].type = "directory" =>
            \A j \in Used(entries) : Parent[entries[j].name] # n
       /\ SaveAlone(i, NoEntry)

\* fs_chmod, fs_chown: the entry is saved as it is in memory.
Chmod(n) ==
  /\ op = Idle
  /\ \E i \in Named(entries, n) :
       \/ directory' = [directory EXCEPT ![i] = entries[i]]
       \/ "directory" \in Faults /\ UNCHANGED directory
  /\ UNCHANGED <<entries, disk, op, promised, volume>>

\* Power fails; fs_init reads the directory.
Crash ==
  /\ "crash" \in Faults
  /\ entries' = directory
  /\ op' = Idle
  /\ UNCHANGED <<directory, disk, promised, volume>>

-----------------------------------------------------------------------------
(* The specification: a formatted, empty volume *)

Init ==
  /\ volume \in Volumes
  /\ entries = [i \in Indices |-> NoEntry]
  /\ directory = [i \in Indices |-> NoEntry]
  /\ disk = [s \in 0..(Sectors - 1) |-> Zero]
  /\ op = Idle
  /\ promised = [n \in Names |-> <<"absent">>]

Next ==
  \/ \E n \in volume.names, data \in Contents : Write(n, data)
  \/ \E n \in volume.names, offset \in 0..MaxSize, data \in Contents \ {<< >>} :
       offset + Len(data) <= MaxSize /\ WriteAt(n, offset, data)
  \/ \E n \in volume.names, link \in volume.links : Symlink(link, n)
  \/ \E n \in volume.names : Mkdir(n) \/ Delete(n) \/ Chmod(n)
  \/ DataWrite \/ DataFault \/ Save \/ SaveFault
  \/ Crash

Spec == Init /\ [][Next]_vars

-----------------------------------------------------------------------------
(* Properties *)

Extent(e) == e.start..(e.start + e.capacity - 1)

\* Every directory write took effect, so the directory on disk can be relied
\* on.  fs_delete and others go on in memory when save_entry fails.
DirectoryKept == "directory" \notin Faults

Disjoint(dir) ==
  \A i, j \in Used(dir) : i # j => Extent(dir[i]) \cap Extent(dir[j]) = {}

\* No reboot reads back a directory that lost writes.
Trusted == DirectoryKept \/ "crash" \notin Faults

\* The directories a reader may see: the one in memory, and the one a reboot
\* finds when its writes took effect.
Seen == {d \in {entries} : Trusted} \cup {d \in {directory} : DirectoryKept}

Connected(dir) ==
  \A i \in Used(dir) :
    \/ Parent[dir[i].name] = Root
    \/ \E j \in Used(dir) : dir[j].name = Parent[dir[i].name] /\ dir[j].type = "directory"

\* In memory, and for a reboot after whatever was interrupted: no file is
\* larger than its extent, no sector belongs to two entries (next_data_lba
\* looks only at memory), and every entry lies in a directory.
VolumeSound ==
  \A dir \in Seen : /\ Disjoint(dir) /\ Connected(dir)
                    /\ \A i \in Used(dir) : dir[i].size <= dir[i].capacity

\* What a caller was told is written is what fs_read returns, and what a reboot
\* finds, until the next operation on that path, whatever fails in the
\* operations on other paths.
Durability == \A dir \in Seen : \A n \in Names : promised[n] \in {Unknown, Holding(dir, n)}

\* Growing a file is atomic on disk: while the larger contents are written a
\* crash finds the old ones; they change in the one step that saves the entry.
\* (A slot whose deletion was lost still names the old file's sectors.)
GrowAtomic ==
  [][\A n \in Names :
       (/\ DirectoryKept
        /\ op # Idle /\ op.kind = "write" /\ op.writes # << >>
        /\ directory[op.index].name = n
        /\ directory[op.index].capacity < op.final.capacity)
         => Holding(directory, n)' = Holding(directory, n)]_vars
=============================================================================
