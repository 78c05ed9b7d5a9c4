----------------------------- MODULE ElfLoader ------------------------------
(***************************************************************************)
(* The ELF loader and shared linker of kernel/process.c: load_elf_image    *)
(* maps a program, its interpreter and, breadth first, the libraries they   *)
(* need; lays out their thread-local storage; relocates, protects; builds   *)
(* the TLS block of the first thread and the table of initializers.         *)
(* Afterwards clone gives every further thread a TLS block of its own from  *)
(* the template kept in the AddressSpace.                                   *)
(*                                                                         *)
(* Addresses of images are page numbers.  Thread-local storage is counted   *)
(* in words of eight bytes, PageWords to a page.  A page holds at most one  *)
(* relocated word: its value is <<"file", name>> as read from the file, or  *)
(* what the relocation stored; words that lie side by side, as those of a   *)
(* TLS index, are on neighbouring pages.  The 32-bit relocations store the  *)
(* lower half of an offset no larger than the static TLS, which fits.       *)
(* Names are what elf_basename leaves of a path.  Images are well formed where the code only checks that a table    *)
(* it reads is mapped; every other check of the loader can fail here.       *)
(***************************************************************************)
EXTENDS Integers, Sequences, FiniteSets, FiniteSetsExt

CONSTANTS
  Volumes,          \* contents of NovaFS: functions from file names to images
  Programs,         \* files that process_load is asked to run
  Audited,          \* programs the terminal audits first (chrome)
  None,             \* no interpreter, no version, no file
  Hash,             \* gnu_symbol_hash of every symbol name
  NBuckets,         \* gnu_hash_bucket_count
  BloomBits,        \* bits of the Bloom word (64)
  BloomShift,       \* 2^gnu_hash_bloom_shift
  MaxObjects,       \* ELF_MAX_OBJECTS
  MaxFunctions,     \* ELF_STARTUP_MAX_FUNCTIONS
  MaxTlsSize,       \* ELF_TLS_MAX_SIZE, in words
  UserBase, InterpreterBase, LibraryBase, LibraryStride, LoadLimit,
  MmapBase, MmapLimit, StackPage,
  PageWords,        \* VM_PAGE_SIZE, in words
  TcbWords,         \* ELF_TLS_TCB_SIZE, in words
  DtvWords,         \* ELF_TLS_DTV_ENTRIES
  MaxThreads        \* threads a program creates, its first one included

ASSUME LayoutAssumption ==
  /\ UserBase < InterpreterBase /\ InterpreterBase < LibraryBase
  /\ LibraryBase < LoadLimit /\ LoadLimit < MmapBase
  /\ MmapBase < MmapLimit /\ MmapLimit < StackPage
  /\ {NBuckets, BloomBits, BloomShift, PageWords} \subseteq Nat \ {0}

VARIABLES
  files,      \* the volume; it never changes
  pc,         \* the step of load_elf_image that comes next
  mem,        \* the mapped pages of the address space
  objects,    \* the ElfLoadedObject array
  cursor,     \* load_needed_objects: object_index and needed_index, from 1
  heap,       \* heap objects the load holds
  template,   \* tls_template and its sizes in the AddressSpace
  context,    \* what the first thread starts with
  threads     \* the TLS mapping of every thread

vars == <<files, pc, mem, objects, cursor, heap, template, context, threads>>

-----------------------------------------------------------------------------
(* Reading an object: the symbol tables *)

RWX == {"R", "W", "X"}
NoTemplate == [size |-> 0, fs_base |-> 0, dtv |-> << >>, block |-> << >>]
NoContext == [entry |-> None, functions |-> << >>, break |-> 0]

\* The hash table a link editor writes: symbols from offset on are sorted by
\* bucket, a bucket holds its first symbol, the last of a chain is marked.
Bucket(name) == Hash[name] % NBuckets
Hashed(image) == {i \in DOMAIN image.symbols : i >= image.offset}
FirstOf(image, b) ==
  LET S == {i \in Hashed(image) : Bucket(image.symbols[i].name) = b}
  IN IF S = {} THEN 0 ELSE Min(S)
ChainEnd(image, i) ==
  i + 1 \notin Hashed(image)
    \/ Bucket(image.symbols[i + 1].name) # Bucket(image.symbols[i].name)
BloomMask(name) ==
  {Hash[name] % BloomBits, (Hash[name] \div BloomShift) % BloomBits}
Bloom(image) == UNION {BloomMask(image.symbols[i].name) : i \in Hashed(image)}

\* The number of symbols parse_gnu_hash finds by following every chain.
parse_gnu_hash(image) == Max({image.offset} \cup {i + 1 : i \in Hashed(image)})

\* symbol_count: from DT_HASH, from DT_GNU_HASH, or from the distance between
\* the symbol and the string table when the latter follows.
symbol_count(image) ==
  Max({0}
      \cup (IF image.hash = "sysv" THEN {Len(image.symbols) + 1} ELSE {})
      \cup (IF image.hash = "gnu" THEN {parse_gnu_hash(image)} ELSE {})
      \cup (IF image.contiguous THEN {Len(image.symbols) + 1} ELSE {}))

\* Mutant: a version is not compared.
symbol_version_matches_Any(symbol, version) == TRUE

\* symbol_version_matches: without a version any symbol that is not hidden
\* matches, with one only a symbol of that version.
symbol_version_matches(symbol, version) ==
  IF version = None THEN ~symbol.hidden ELSE symbol.version = version

\* What both searches ask of a candidate.
Candidate(image, i, name, version) ==
  LET symbol == image.symbols[i] IN
  /\ symbol.defined /\ symbol.name = name
  /\ symbol_version_matches(symbol, version)

\* The index of a definition of name in the object, or 0.  With a GNU hash
\* table: Bloom word, bucket, chain up to its mark; otherwise every symbol.
find_symbol_in_object(image, name, version) ==
  LET count == symbol_count(image)
      start == FirstOf(image, Bucket(name))
      chain == {i \in start..(count - 1) :
                  \A j \in start..(i - 1) : ~ChainEnd(image, j)}
      walk == IF image.hash = "gnu"
              THEN IF BloomMask(name) \subseteq Bloom(image) /\ start >= image.offset
                   THEN {i \in chain : Hash[image.symbols[i].name] \div 2
                                         = Hash[name] \div 2}
                   ELSE {}
              ELSE 1..(count - 1)
      found == {i \in walk : Candidate(image, i, name, version)}
  IN IF found = {} THEN 0 ELSE Min(found)

-----------------------------------------------------------------------------
(* Mapping objects *)

\* The pages of a LOAD segment of an object.
Extent(o, segment) == (o.bias + segment.first)..(o.bias + segment.last)
Loaded(o) == UNION {Extent(o, o.image.loads[k]) : k \in DOMAIN o.image.loads}

\* map_elf_object: the ways to map the file, none if it is refused.  Pages are
\* writable and executable until they are relocated; a page that is mapped
\* already is overwritten.  Only the program may name an interpreter.
map_elf_object(name, bias, main) ==
  IF name \notin DOMAIN files THEN {}
  ELSE
  LET image == files[name]
      o == [name |-> name, image |-> image,
            bias |-> IF image.dynamic THEN bias ELSE 0,
            tls_offset |-> 0, tls_module_id |-> 0]
      pages == Loaded(o)
  IN IF /\ image.interpreter # None => main /\ image.interpreter \in DOMAIN files
        /\ pages # {} /\ \A p \in pages : p >= UserBase /\ p < LoadLimit
        /\ image.tls.size > 0 => o.bias + image.tls.page \in pages \cup DOMAIN mem
     THEN {[object |-> o,
            mem |-> [p \in pages \cup DOMAIN mem |->
               IF p \in pages
               THEN [object |-> name, protection |-> RWX, value |-> <<"file", name>>]
               ELSE mem[p]]]}
     ELSE {}

\* process_audit_elf_dependencies: the interpreter and the libraries the file
\* itself names that NovaFS does not hold.
process_audit_elf_dependencies(name) ==
  LET image == files[name]
      named == {image.needed[k] : k \in DOMAIN image.needed} \cup
               ({image.interpreter} \ {None})
  IN Cardinality(named \ DOMAIN files)

\* create_process: a new address space and the object array.
Load(name) ==
  /\ pc = "idle"
  /\ name \in Audited =>
       name \in DOMAIN files /\ process_audit_elf_dependencies(name) = 0
  /\ \E m \in map_elf_object(name, UserBase, TRUE) :
       /\ objects' = <<m.object>>
       /\ mem' = m.mem
  /\ pc' = "interpreter"
  /\ cursor' = <<1, 1>>
  /\ heap' = {"space", "objects"}
  /\ UNCHANGED <<files, template, context, threads>>

HasInterpreter == files[objects[1].name].interpreter # None

\* load_elf_image: the interpreter, object 2, when the program names one.
MapInterpreter ==
  /\ pc = "interpreter"
  /\ \/ ~HasInterpreter /\ UNCHANGED <<mem, objects>>
     \/ /\ HasInterpreter /\ Len(objects) < MaxObjects
        /\ \E m \in map_elf_object(objects[1].image.interpreter, InterpreterBase, FALSE) :
             objects' = Append(objects, m.object) /\ mem' = m.mem
  /\ pc' = "needed"
  /\ UNCHANGED <<files, cursor, heap, template, context, threads>>

Names == {objects[i].name : i \in DOMAIN objects}

\* Libraries loaded so far: library_number.
Libraries == Len(objects) - (IF HasInterpreter THEN 2 ELSE 1)

Needed == objects[cursor[1]].image.needed

\* load_needed_objects, one DT_NEEDED entry: a library is mapped at the next
\* stride unless an object of its name is loaded already.
LoadNeeded ==
  /\ pc = "needed" /\ cursor[1] <= Len(objects) /\ cursor[2] <= Len(Needed)
  /\ cursor' = <<cursor[1], cursor[2] + 1>>
  /\ \/ Needed[cursor[2]] \in Names /\ UNCHANGED <<mem, objects>>
     \/ /\ Needed[cursor[2]] \notin Names /\ Len(objects) < MaxObjects
        /\ \E m \in map_elf_object(Needed[cursor[2]],
                      LibraryBase + Libraries * LibraryStride, FALSE) :
             objects' = Append(objects, m.object) /\ mem' = m.mem
  /\ UNCHANGED <<files, pc, heap, template, context, threads>>

\* load_needed_objects: the object's entries are done.
NextObject ==
  /\ pc = "needed" /\ cursor[1] <= Len(objects) /\ cursor[2] > Len(Needed)
  /\ cursor' = <<cursor[1] + 1, 1>>
  /\ pc' = IF cursor[1] = Len(objects) THEN "layout" ELSE "needed"
  /\ UNCHANGED <<files, mem, objects, heap, template, context, threads>>

-----------------------------------------------------------------------------
(* Thread-local storage and relocation *)

AlignUp(value, alignment) == ((value + alignment - 1) \div alignment) * alignment
PagesOf(words) == (words + PageWords - 1) \div PageWords
TlsObjects == {i \in DOMAIN objects : objects[i].image.tls.size > 0}
MinimumAlignment == 2

\* layout_static_tls: the distance of object i's block below the thread pointer.
tls_offset(i) ==
  LET offset[k \in 0..Len(objects)] ==
        IF k = 0 THEN 0
        ELSE IF k \notin TlsObjects THEN offset[k - 1]
        ELSE AlignUp(offset[k - 1] + objects[k].image.tls.size,
                     objects[k].image.tls.alignment)
  IN offset[i]

static_size ==
  AlignUp(tls_offset(Len(objects)),
          Max({MinimumAlignment} \cup {objects[i].image.tls.alignment : i \in TlsObjects}))

\* layout_static_tls: offsets and module numbers of the objects with a PT_TLS.
Layout ==
  /\ pc = "layout" /\ static_size <= MaxTlsSize
  /\ objects' = [i \in DOMAIN objects |->
       IF i \notin TlsObjects THEN objects[i]
       ELSE [objects[i] EXCEPT !.tls_offset = tls_offset(i),
               !.tls_module_id = Cardinality({j \in TlsObjects : j <= i})]]
  /\ pc' = "relocate"
  /\ UNCHANGED <<files, mem, cursor, heap, template, context, threads>>

\* The definition resolve_symbol and resolve_tls_symbol find for symbol k of
\* object i: its own if it has one, else the first in the order of loading,
\* else nothing if it is weak.  The empty set is a failure.
resolve_symbol(i, k) ==
  LET image == objects[i].image
      symbol == image.symbols[k]
      at(j) == find_symbol_in_object(objects[j].image, symbol.name, symbol.version)
      definers == {j \in DOMAIN objects : at(j) # 0}
  IN IF k >= symbol_count(image) THEN {}
     ELSE IF symbol.defined THEN {<<i, k>>}
     ELSE IF definers # {} THEN {<<Min(definers), at(Min(definers))>>}
     ELSE IF symbol.weak THEN {<<0, 0>>} ELSE {}

\* resolve_named_symbol: the first object that defines the name, in any version.
resolve_named_symbol(name) ==
  LET at(j) == find_symbol_in_object(objects[j].image, name, None)
      definers == {j \in DOMAIN objects : at(j) # 0}
  IN {<<j, at(j)>> : j \in IF definers = {} THEN {} ELSE {Min(definers)}}

\* The address of a definition, None for the null pointer.
Address(d) == IF d[1] = 0 THEN None ELSE <<objects[d[1]].name, d[2]>>
SymbolValue(d) == objects[d[1]].image.symbols[d[2]].value

Absolute == {"64", "GLOB_DAT", "JUMP_SLOT"}
ThreadPointer == {"TPOFF64", "TPOFF32"}
BlockOffset == {"DTPOFF64", "DTPOFF32"}

\* The value of a definition; a TLS relocation without a symbol is about the
\* block of its own object.
DefinedAt(d) == IF d[2] = 0 THEN 0 ELSE SymbolValue(d)
HasTls(d) == d[1] # 0 /\ objects[d[1]].tls_module_id > 0
FromPointer(d) == DefinedAt(d) - objects[d[1]].tls_offset

\* What apply_relocation_table stores for relocation r of object i; the empty
\* set makes the load fail.  A weak symbol without a definition is 0, but it
\* has no descriptor.
relocated(i, r) ==
  LET named == IF r.symbol = 0 THEN {} ELSE resolve_symbol(i, r.symbol)
      place == IF r.symbol = 0 THEN {<<i, 0>>} ELSE named
      known == {d \in place : HasTls(d) \/ d[1] = 0}
  IN CASE r.type = "RELATIVE" -> {<<"base", objects[i].name, r.addend>>}
       [] r.type \in Absolute -> {<<"address", Address(d), r.addend>> : d \in named}
       [] r.type = "TLSDESC" ->
            {<<"descriptor", FromPointer(d) + r.addend, Address(f)>> :
               d \in {e \in named : HasTls(e)},
               f \in resolve_named_symbol("__nova_tlsdesc_static")}
       [] r.type = "DTPMOD64" ->
            {<<"module", IF HasTls(d) THEN objects[d[1]].tls_module_id ELSE 0>> : d \in known}
       [] r.type \in BlockOffset ->
            {<<"offset", IF HasTls(d) THEN DefinedAt(d) + r.addend ELSE 0>> : d \in known}
       [] r.type \in ThreadPointer ->
            {<<"offset", IF HasTls(d) THEN FromPointer(d) + r.addend ELSE 0>> : d \in known}
       [] OTHER -> {}

\* Every relocation of every object, as object and position in its table; those
\* of type 0 are passed over.
RelocationOf(x) == objects[x[1]].image.relocations[x[2]]
Relocations ==
  {x \in UNION {{i} \X DOMAIN objects[i].image.relocations : i \in DOMAIN objects} :
     RelocationOf(x).type # "NONE"}
Target(x) == objects[x[1]].bias + RelocationOf(x).page
Applicable(x) == Target(x) \in DOMAIN mem /\ relocated(x[1], RelocationOf(x)) # {}

\* The protection vm_protect leaves on a page: that of the last segment of the
\* last object that covers it.
segment_protection(p) ==
  LET i == Max({j \in DOMAIN objects : p \in Loaded(objects[j])})
      loads == objects[i].image.loads
  IN loads[Max({k \in DOMAIN loads : p \in Extent(objects[i], loads[k])})].flags

\* Mutant: only pages of the program get their final protection.
RelocateAndProtect_Main ==
  /\ pc = "relocate"
  /\ \A x \in Relocations : Applicable(x)
  /\ mem' = [p \in DOMAIN mem |->
       [mem[p] EXCEPT
          !.protection = IF mem[p].object = objects[1].name
                         THEN segment_protection(p) ELSE @,
          !.value = IF \E x \in Relocations : Target(x) = p
                    THEN LET x == CHOOSE x \in Relocations : Target(x) = p
                         IN CHOOSE v \in relocated(x[1], RelocationOf(x)) : TRUE
                    ELSE @]]
  /\ pc' = "tls"
  /\ UNCHANGED <<files, objects, cursor, heap, template, context, threads>>

\* relocate_and_protect_objects: all relocations first, then the protection
\* of every segment.
RelocateAndProtect ==
  /\ pc = "relocate"
  /\ \A x \in Relocations : Applicable(x)
  /\ mem' = [p \in DOMAIN mem |->
       [mem[p] EXCEPT
          !.protection = segment_protection(p),
          !.value = IF \E x \in Relocations : Target(x) = p
                    THEN LET x == CHOOSE x \in Relocations : Target(x) = p
                         IN CHOOSE v \in relocated(x[1], RelocationOf(x)) : TRUE
                    ELSE @]]
  /\ pc' = "tls"
  /\ UNCHANGED <<files, objects, cursor, heap, template, context, threads>>

\* vm_find_free_range: the first free run of n pages from hint on.
vm_find_free_range(hint, n) ==
  LET start == IF hint < MmapBase THEN MmapBase ELSE hint
      fits == {a \in start..(MmapLimit - n) : a..(a + n - 1) \cap DOMAIN mem = {}}
  IN IF fits = {} THEN {} ELSE {Min(fits)}

\* map_user_rw_pages of n pages at a.
WithPages(a, n, owner, protection) ==
  [p \in DOMAIN mem \cup (a..(a + n - 1)) |->
     IF p \in DOMAIN mem THEN mem[p]
     ELSE [object |-> owner, protection |-> protection, value |-> <<"zero">>]]

\* The object of TLS module m.
ModuleObject(m) == CHOOSE o \in {objects[i] : i \in DOMAIN objects} : o.tls_module_id = m
Modules == 1..Cardinality(TlsObjects)

-----------------------------------------------------------------------------
(* The first thread, the startup table, further threads *)

\* What initialize_static_tls copies into the block of module m.
tls_image(m) == mem[ModuleObject(m).bias + ModuleObject(m).image.tls.page].value

\* A thread's mapping: fs_base (also TCB words 0 and 2), the DTV word 1 points
\* at, and the blocks.
TlsAt(a, size, dtv, block) ==
  [mapping |-> a, fs_base |-> a * PageWords + size,
   dtv_address |-> a * PageWords + size + TcbWords, dtv |-> dtv, block |-> block]

TlsPages == PagesOf(static_size + TcbWords + DtvWords)

\* initialize_static_tls: mapping, blocks, TCB and DTV of the first thread,
\* then the template is copied from them.  More modules than the DTV holds
\* are refused.
InitializeTls ==
  /\ pc = "tls" /\ static_size > 0 /\ Cardinality(TlsObjects) < DtvWords
  /\ \E a \in vm_find_free_range(MmapBase, TlsPages) :
       LET first == TlsAt(a, static_size,
             [m \in Modules |-> a * PageWords + static_size - ModuleObject(m).tls_offset],
             [m \in Modules |-> tls_image(m)])
       IN /\ mem' = WithPages(a, TlsPages, "tls", {"R", "W"})
          /\ threads' = <<first>>
          /\ template' = [size |-> static_size, fs_base |-> first.fs_base,
                          dtv |-> first.dtv, block |-> first.block]
          /\ heap' = heap \cup {"template"}
  /\ pc' = "startup"
  /\ UNCHANGED <<files, objects, cursor, context>>

\* initialize_static_tls when no object has thread-local storage.
NoTls ==
  /\ pc = "tls" /\ static_size = 0
  /\ threads' = <<TlsAt(0, 0, << >>, << >>)>>
  /\ pc' = "startup"
  /\ UNCHANGED <<files, mem, objects, cursor, heap, template, context>>

\* append_object_initializers: DT_INIT and DT_INIT_ARRAY of an object.
initializers(o) == [k \in 1..o.image.inits |-> <<o.name, k>>]

\* The initializers in the order of the startup table: the preinit array, the
\* libraries from the last loaded to the first, the program.  Object 2, the
\* interpreter, is left out.
startup_functions ==
  LET after[i \in 2..Len(objects)] ==
        IF i = 2 THEN initializers(objects[1])
        ELSE initializers(objects[i]) \o after[i - 1]
  IN [k \in 1..objects[1].image.preinits |-> <<"preinit", k>>] \o after[Len(objects)]

\* prepare_interpreter_startup up to the collected functions.
CollectInitializers ==
  /\ pc = "startup" /\ HasInterpreter
  /\ resolve_named_symbol("nova_interpreter_start") # {}
  /\ Len(startup_functions) <= MaxFunctions
  /\ heap' = heap \cup {"functions"}
  /\ context' = [context EXCEPT !.functions = startup_functions]
  /\ pc' = "table"
  /\ UNCHANGED <<files, mem, objects, cursor, template, threads>>

\* prepare_interpreter_startup: the read-only table of one page.
WriteStartup ==
  /\ pc = "table"
  /\ \E a \in vm_find_free_range(MmapBase, 1) :
       mem' = WithPages(a, 1, "startup", {"R"})
  /\ heap' = heap \ {"functions"}
  /\ pc' = "stack"
  /\ UNCHANGED <<files, objects, cursor, template, context, threads>>

\* The last pages of the program bound its heap.
program_break == Max(Loaded(objects[1])) + 1

\* load_elf_image from map_stack on; the program enters user mode through the
\* interpreter if it has one.
MapStack ==
  /\ pc \in {"startup", "stack"} /\ (pc = "stack" <=> HasInterpreter)
  /\ mem' = WithPages(StackPage, 1, "stack", {"R", "W"})
  /\ context' = [context EXCEPT
       !.entry = IF HasInterpreter THEN objects[2].name ELSE objects[1].name,
       !.break = program_break]
  /\ heap' = heap \ {"objects"}
  /\ pc' = "running"
  /\ UNCHANGED <<files, objects, cursor, template, threads>>

Released ==
  /\ pc' = "idle" /\ mem' = << >> /\ objects' = << >> /\ cursor' = <<1, 1>>
  /\ template' = NoTemplate /\ context' = NoContext /\ threads' = << >>
  /\ UNCHANGED files

\* load_elf_image's cleanup and reset_process_slot: the object array, then the
\* address space with its template.
cleanup(held) == held \ {"objects", "space", "template"}

\* Mutant: a failure after the functions are collected does not free them.
LoadFails_KeepFunctions ==
  /\ pc \in {"interpreter", "needed", "layout", "relocate", "tls", "startup",
             "table", "stack"}
  /\ heap' = cleanup(heap)
  /\ Released

\* The load gives up: memory runs out in a step that maps or allocates, or the
\* step's checks refuse the image.
LoadFails ==
  /\ \/ pc \in {"interpreter", "needed", "tls", "startup", "table", "stack"}
     \/ pc = "layout" /\ static_size > MaxTlsSize
     \/ pc = "relocate" /\ \E x \in Relocations : ~Applicable(x)
  /\ heap' = cleanup(IF pc = "table" THEN heap \ {"functions"} ELSE heap)
  /\ Released

\* Mutant: the copied DTV keeps pointing at the first thread's blocks.
allocate_thread_tls_SharedDtv(a) == TlsAt(a, template.size, template.dtv, template.block)

\* allocate_thread_tls: a copy of the template, its TCB and DTV moved to the
\* new mapping.
allocate_thread_tls(a) ==
  LET fs_base == a * PageWords + template.size
  IN TlsAt(a, template.size,
           [m \in DOMAIN template.dtv |->
              fs_base - (template.fs_base - template.dtv[m])],
           template.block)

\* clone_current with CLONE_VM, CLONE_SETTLS and NOVA_AUTO_TLS.
CloneThread ==
  /\ pc = "running" /\ Len(threads) < MaxThreads
  /\ \/ /\ template.size > 0
        /\ \E a \in vm_find_free_range(MmapBase, TlsPages) :
             /\ mem' = WithPages(a, TlsPages, "tls", {"R", "W"})
             /\ threads' = Append(threads, allocate_thread_tls(a))
     \/ /\ template.size = 0
        /\ threads' = Append(threads, TlsAt(0, 0, << >>, << >>))
        /\ UNCHANGED mem
  /\ UNCHANGED <<files, pc, objects, cursor, heap, template, context>>

\* User code stores to a thread-local variable of its own block.
UserStore(t, m) ==
  /\ pc = "running" /\ t \in DOMAIN threads /\ m \in DOMAIN threads[t].block
  /\ threads' = [threads EXCEPT ![t].block[m] = <<"stored">>]
  /\ UNCHANGED <<files, pc, mem, objects, cursor, heap, template, context>>

\* fork, seen from the child: address_space_clone copies the pages and the
\* template, and only the calling thread goes on.
ForkChild(t) ==
  /\ pc = "running" /\ t \in DOMAIN threads
  /\ threads' = <<threads[t]>>
  /\ UNCHANGED <<files, pc, mem, objects, cursor, heap, template, context>>

\* A thread that is not the last one exits; its TLS mapping stays.
ThreadExit(t) ==
  /\ pc = "running" /\ t \in DOMAIN threads /\ Len(threads) > 1
  /\ threads' = SubSeq(threads, 1, t - 1) \o SubSeq(threads, t + 1, Len(threads))
  /\ UNCHANGED <<files, pc, mem, objects, cursor, heap, template, context>>

\* The last thread exits and the address space is released.
Exit ==
  /\ pc = "running"
  /\ heap' = heap \ {"space", "template"}
  /\ Released

Init ==
  /\ files \in Volumes
  /\ pc = "idle" /\ mem = << >> /\ objects = << >> /\ cursor = <<1, 1>>
  /\ heap = {} /\ template = NoTemplate /\ context = NoContext /\ threads = << >>

Next ==
  \/ \E name \in Programs : Load(name)
  \/ MapInterpreter \/ LoadNeeded \/ NextObject \/ Layout \/ RelocateAndProtect
  \/ InitializeTls \/ NoTls \/ CollectInitializers \/ WriteStartup \/ MapStack
  \/ LoadFails \/ CloneThread \/ Exit
  \/ \E t \in 1..MaxThreads : ThreadExit(t)
  \/ \E t \in 1..MaxThreads : ForkChild(t)
  \/ \E t \in 1..MaxThreads, m \in 1..MaxObjects : UserStore(t, m)

Spec == Init /\ [][Next]_vars

-----------------------------------------------------------------------------
(* Properties *)

running == pc = "running"

\* The files a set of objects reaches through DT_NEEDED and PT_INTERP.
Closure(program) ==
  LET reach[k \in 0..Cardinality(DOMAIN files)] ==
        IF k = 0 THEN {program} \cup ({files[program].interpreter} \ {None})
        ELSE reach[k - 1] \cup
             UNION {{files[f].needed[n] : n \in DOMAIN files[f].needed} : f \in reach[k - 1]}
  IN reach[Cardinality(DOMAIN files)]

\* When load_elf_image succeeds, exactly the files the program needs are
\* mapped, each once, no object has overwritten a page of another, and every
\* page has the protection of its segment: nothing stays writable and
\* executable from the time it was relocated.
ImageIntact ==
  running =>
    /\ Names = Closure(objects[1].name) /\ Cardinality(Names) = Len(objects)
    /\ \A i \in DOMAIN objects : \A p \in Loaded(objects[i]) :
         /\ mem[p].object = objects[i].name
         /\ \E k \in DOMAIN objects[i].image.loads :
              /\ p \in Extent(objects[i], objects[i].image.loads[k])
              /\ mem[p].protection = objects[i].image.loads[k].flags

\* The definitions of a name and version that the files themselves give,
\* whatever their hash tables.
Definitions(image, symbol) ==
  {k \in DOMAIN image.symbols :
     /\ image.symbols[k].defined /\ image.symbols[k].name = symbol.name
     /\ IF symbol.version = None THEN ~image.symbols[k].hidden
        ELSE image.symbols[k].version = symbol.version}

\* Every word a symbol relocation stored holds the address of a definition of
\* that name and version in the object itself or, failing that, in the first
\* loaded object that has one; it is null only for a weak symbol that no
\* object defines.  Bloom words, buckets and chains never lose a definition.
SymbolsBound ==
  running => \A x \in Relocations :
    RelocationOf(x).type \in Absolute =>
      LET symbol == objects[x[1]].image.symbols[RelocationOf(x).symbol]
          value == mem[Target(x)].value[2]
          definers == {j \in DOMAIN objects : Definitions(objects[j].image, symbol) # {}}
      IN IF symbol.defined THEN value = <<objects[x[1]].name, RelocationOf(x).symbol>>
         ELSE IF definers = {} THEN symbol.weak /\ value = None
         ELSE LET j == Min(definers)
              IN /\ value[1] = objects[j].name
                 /\ value[2] \in Definitions(objects[j].image, symbol)

\* The words of module m in the block of thread t.
BlockOf(t, m) ==
  threads[t].dtv[m]..(threads[t].dtv[m] + ModuleObject(m).image.tls.size - 1)
ThreadWords(t) ==
  (threads[t].mapping * PageWords)..((threads[t].mapping + TlsPages) * PageWords - 1)

\* __tls_get_addr of nova_ld.asm, called by thread t: the DTV knows the block of
\* a module; 0 is the null pointer.
tls_get_addr(t, module, offset) ==
  IF module = 0 \/ module > Len(threads[t].dtv) THEN 0 ELSE threads[t].dtv[module] + offset

\* Where initialize_static_tls puts the variable d for thread t.
VariableOf(t, d) == threads[t].fs_base + FromPointer(d)

\* The address thread t computes for the variable of relocation x from the words
\* the loader stored: initial-exec adds one to the thread pointer, a descriptor
\* names a function that does, and an index of module and offset is passed to
\* __tls_get_addr.
Reached(t, x) ==
  LET word == mem[Target(x)].value
  IN  IF RelocationOf(x).type = "DTPMOD64"
      THEN tls_get_addr(t, word[2], mem[Target(x) + 1].value[2])
      ELSE threads[t].fs_base + word[2]

\* The relocations through which code reaches a thread-local variable; for an
\* index, that of its module.  The symbol, the addend and the definition of a
\* variable: an index of the object's own block (symbol 0) names it in its
\* second word.
Accesses ==
  {x \in Relocations : RelocationOf(x).type \in ThreadPointer \cup {"TLSDESC", "DTPMOD64"}}
Wanted(x) ==
  IF RelocationOf(x).type # "DTPMOD64" THEN RelocationOf(x)
  ELSE RelocationOf(CHOOSE y \in Relocations : Target(y) = Target(x) + 1)

\* Thread-local variables are the thread's own: the blocks the DTV names lie in
\* the thread's mapping, below its TCB, aligned and apart from each other; the
\* mappings of two threads are disjoint; initial-exec accesses (TPOFF64/32),
\* descriptors (TLSDESC) and indices (DTPMOD64 with DTPOFF64/32) of all objects
\* reach one and the same word for a variable, and an index of a weak variable
\* that nobody defines gives the null pointer; and the template still holds the
\* relocated images whatever threads stored.
TlsModelsAgree ==
  running /\ static_size > 0 =>
    /\ \A t \in DOMAIN threads :
         /\ \A u \in DOMAIN threads \ {t} : ThreadWords(t) \cap ThreadWords(u) = {}
         /\ \A m \in Modules :
              /\ BlockOf(t, m) \subseteq ThreadWords(t)
              /\ \A w \in BlockOf(t, m) : w < threads[t].fs_base
              /\ threads[t].dtv[m] % ModuleObject(m).image.tls.alignment = 0
              /\ \A n \in Modules \ {m} : BlockOf(t, m) \cap BlockOf(t, n) = {}
         /\ \A x \in Accesses : \E d \in resolve_symbol(x[1], Wanted(x).symbol) :
              IF HasTls(d) THEN Reached(t, x) = VariableOf(t, d) + Wanted(x).addend
              ELSE RelocationOf(x).type = "DTPMOD64" => Reached(t, x) = 0
    /\ \A m \in Modules :
         template.block[m] = mem[ModuleObject(m).bias + ModuleObject(m).image.tls.page].value

\* A load that fails, at whatever step, and a program that exits leave nothing
\* behind on the kernel heap; a running program holds its space and template.
NothingLeaked ==
  /\ pc = "idle" => heap = {}
  /\ running => heap = {"space"} \cup (IF static_size > 0 THEN {"template"} ELSE {})

\* The claim of docs/NATIVE_CHROME_STATUS.md:56 that initializers run
\* dependency first: those of a library come before those of an object that
\* names it in DT_NEEDED, unless the two need each other.
DependenciesFirst ==
  running => \A a, b \in DOMAIN context.functions :
    LET A == context.functions[a][1]
        B == context.functions[b][1]
    IN /\ A \in Names /\ B \in Names
       /\ B \in {files[A].needed[n] : n \in DOMAIN files[A].needed}
       /\ A \notin Closure(B)
       => b < a

=============================================================================
