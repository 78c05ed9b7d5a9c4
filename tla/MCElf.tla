------------------------------- MODULE MCElf --------------------------------
(* Small volumes for ElfLoader: programs, an interpreter and libraries. *)
EXTENDS ElfLoader, TLC

Symbol(name, defined, version) ==
  [name |-> name, defined |-> defined, weak |-> FALSE, version |-> version,
   hidden |-> FALSE, value |-> 0]
Defines(name, version) == Symbol(name, TRUE, version)
Refers(name, version) == Symbol(name, FALSE, version)
Relocation(type, symbol, page) ==
  [type |-> type, symbol |-> symbol, page |-> page, addend |-> 0]
Weak(symbol) == [symbol EXCEPT !.weak = TRUE]

\* A library of one code and one data page.
Library ==
  [dynamic |-> TRUE, interpreter |-> None, needed |-> << >>,
   loads |-> <<[first |-> 0, last |-> 0, flags |-> {"R", "X"}],
               [first |-> 1, last |-> 1, flags |-> {"R", "W"}]>>,
   symbols |-> << >>, hash |-> "gnu", offset |-> 1, contiguous |-> TRUE,
   relocations |-> << >>, tls |-> [size |-> 0, alignment |-> 1, page |-> 1],
   inits |-> 1, preinits |-> 0]

\* The interpreter defines what the kernel looks up by name.
Interpreter ==
  [Library EXCEPT !.symbols = <<Defines("nova_interpreter_start", None),
                                Defines("__nova_tlsdesc_static", None)>>]

\* libA has two versions of f, the older one hidden, in one hash chain with h,
\* which has the hash of f; it uses t by initial-exec.
LibA ==
  [Library EXCEPT
     !.symbols = <<Refers("g", None), Refers("t", None), Defines("h", None),
                   [Defines("f", "V1") EXCEPT !.hidden = TRUE], Defines("f", "V2")>>,
     !.offset = 3, !.contiguous = TRUE,
     !.loads[2].last = 2,
     !.relocations = <<Relocation("JUMP_SLOT", 1, 1), Relocation("TPOFF32", 2, 2),
                       Relocation("NONE", 1, 2)>>]

\* libB defines g and a thread-local t; its TLS image is relocated.  It uses t by
\* initial-exec, and by an index of its own block.
LibB ==
  [Library EXCEPT
     !.symbols = <<Defines("g", None), [Defines("t", None) EXCEPT !.value = 1]>>,
     !.hash = "sysv",
     !.loads = <<[first |-> 0, last |-> 1, flags |-> {"R", "X"}],
                 [first |-> 1, last |-> 4, flags |-> {"R", "W"}]>>,
     !.relocations = <<Relocation("RELATIVE", 0, 1), Relocation("TPOFF64", 2, 2),
                       Relocation("DTPMOD64", 0, 3), Relocation("DTPOFF32", 2, 4)>>,
     !.tls = [size |-> 3, alignment |-> 4, page |-> 1]]

\* The program uses t by a descriptor, here of the word after it, and by an index.
Program ==
  [Library EXCEPT
     !.interpreter = "ld",
     !.symbols = <<Refers("f", "V2"), Refers("t", None), Weak(Refers("absent", None))>>,
     !.offset = 4,
     !.loads = <<[first |-> 0, last |-> 0, flags |-> {"R", "X"}],
                 [first |-> 1, last |-> 5, flags |-> {"R", "W"}]>>,
     !.relocations = <<Relocation("GLOB_DAT", 1, 1),
                       [Relocation("TLSDESC", 2, 2) EXCEPT !.addend = 1],
                       Relocation("64", 3, 3),
                       Relocation("DTPMOD64", 2, 4), Relocation("DTPOFF64", 2, 5)>>,
     !.tls = [size |-> 1, alignment |-> 2, page |-> 3],
     !.preinits = 1]

Volume(needed, needed_a, needed_b) ==
  "init" :> [Program EXCEPT !.needed = needed] @@ "ld" :> Interpreter
    @@ "libA" :> [LibA EXCEPT !.needed = needed_a]
    @@ "libB" :> [LibB EXCEPT !.needed = needed_b]
    @@ "libC" :> Library
    @@ "chrome" :> [Library EXCEPT !.interpreter = "ld", !.needed = <<"libC">>]

\* A program without interpreter, libraries or thread-local storage.
Static == [Library EXCEPT !.dynamic = FALSE,
             !.loads = <<[first |-> UserBase, last |-> UserBase, flags |-> {"R", "X"}]>>,
             !.hash = "none", !.contiguous = FALSE]

Diamond == Volume(<<"libA", "libB">>, <<"libC">>, <<"libC">>)
Cycle == Volume(<<"libB", "libA">>, <<"libB">>, <<"libA", "ld">>)
Crossed == Volume(<<"libA", "libB">>, << >>, <<"libA">>)
Missing == [f \in DOMAIN Diamond \ {"libC"} |-> Diamond[f]]

Unresolved ==
  [Diamond EXCEPT !["libA"].symbols[1].name = "absent", !["libB"].tls.size = 1]
\* The index of a weak variable that nobody defines; a relocation of no page.
Indexless ==
  [Diamond EXCEPT !["init"].relocations[2].type = "NONE",
                  !["init"].relocations[4].symbol = 3, !["init"].relocations[5].symbol = 3]
Descriptorless == [Diamond EXCEPT !["init"].relocations[2].symbol = 3]
Astray == [Diamond EXCEPT !["libA"].relocations[1].page = 5]
TooLarge == [Diamond EXCEPT !["libB"].tls.size = 9]
Nested == [Diamond EXCEPT !["libC"].interpreter = "ld"]
NoTlsObject ==
  "init" :> [Library EXCEPT !.interpreter = "ld"] @@ "ld" :> Interpreter
    @@ "static" :> Static

SafetyVolumes ==
  {Diamond, Cycle, Crossed, Missing, Unresolved, Indexless, Descriptorless, Astray, TooLarge,
   Nested, NoTlsObject}
OrderVolumes == {Diamond, Cycle, Crossed}

Hashes ==
  "f" :> 5 @@ "h" :> 5 @@ "g" :> 9 @@ "t" :> 4 @@ "absent" :> 13
    @@ "nova_interpreter_start" :> 6 @@ "__nova_tlsdesc_static" :> 7
=============================================================================
