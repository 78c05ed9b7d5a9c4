----------------------------- MODULE MCStorage ------------------------------
(* The volumes TLC explores NovaFs and Storage on. *)
EXTENDS Storage

CONSTANTS zero, x, image, edge

InDirectory == {"d/f", "d/l", "o/f", "o/l"}
TreeParent ==
  [n \in Names |-> IF n \notin InDirectory THEN Root
                   ELSE IF n \in {"d/f", "d/l"} THEN "d" ELSE "o"]
TreeJoined ==
  [p \in Names \X Names |-> IF p[1] \notin InDirectory THEN p[2]
                            ELSE IF p = <<"o/l", "f">> THEN "o/f" ELSE Root]

Package(members) == [sound |-> TRUE, members |-> members, ended |-> TRUE]
NoPackage == [Package(<< >>) EXCEPT !.sound = FALSE]
Calls(v) == v @@ [system |-> FALSE, mishaps |-> 0, version |-> "v2", legacy |-> << >>,
                  package |-> NoPackage, test |-> << >>]

\* Two files with failing data writes and power failures; a directory with a
\* file in it and a file beside it, with power failures; two paths and one
\* entry with every write failing.
Data == Calls([entries |-> 2, sectors |-> 3, lba |-> 3, size |-> 2, names |-> {"d", "g"},
               values |-> {zero, x}, links |-> {}, faults |-> {"data", "crash"}])
Tree == Calls([entries |-> 3, sectors |-> 3, lba |-> 2, size |-> 1,
               names |-> {"d", "d/f", "g"}, values |-> {zero},
               links |-> {[to |-> "d/f", rooted |-> TRUE], [to |-> "g", rooted |-> FALSE]},
               faults |-> {"crash"}])
Failing == Calls([entries |-> 1, sectors |-> 2, lba |-> 2, size |-> 1, names |-> {"d", "g"},
                  values |-> {zero}, links |-> {}, faults |-> {"data", "directory"}])

\* The machine with its services: the test package, packages whose last member
\* is cut short or garbled or lacks the end of the archive, one with a member of
\* another type, no package, a v1 volume.  volume.mishaps lets power
\* fail three times, or twice where file writes fail as well; the disk holds all
\* that is ever left behind in so many boots.
File(n) == [name |-> n, type |-> "file", data |-> <<image>>]
Directory(n) == [name |-> n, type |-> "directory", data |-> << >>]
Link(n, to) == [name |-> n, type |-> "symlink", data |-> <<[to |-> to, rooted |-> FALSE]>>]
Odd(n, type) == [name |-> n, type |-> type, data |-> << >>]
TestPackage == Package(<<Directory("o"), File("o/f"), Link("o/l", "f")>>)
CutPackage == Package(<<File("o/f"), Odd("o/l", "cut")>>)
GarbledPackage == Package(<<File("o/f"), Odd("o/l", "garbled")>>)
OtherPackage == Package(<<Odd("o/l", "other"), File("o/f")>>)
UnendedPackage == [Package(<<File("o/f")>>) EXCEPT !.ended = FALSE]

System(package, faults) ==
  [entries |-> 7, sectors |-> 14, lba |-> 20, size |-> 2, names |-> {}, values |-> {zero},
   links |-> {}, faults |-> faults, system |-> TRUE,
   mishaps |-> IF "data" \in faults THEN 2 ELSE 3, version |-> "v2", legacy |-> << >>,
   package |-> package, test |-> IF package = TestPackage THEN <<"o/l">> ELSE << >>]
V1(faults) ==
  [System(NoPackage, faults) EXCEPT !.version = "v1",
     !.legacy = <<File("d/f"), Link("d/l", "d/f"), Directory("d")>>]

Disks ==
  {Data, Tree, Failing,
   System(TestPackage, {"crash"}), System(TestPackage, {"data", "crash"}),
   System(TestPackage, {"directory"}), System(CutPackage, {"crash"}),
   System(GarbledPackage, {"crash"}), System(OtherPackage, {"crash"}),
   System(UnendedPackage, {"crash"}), System(NoPackage, {"read", "crash"}),
   System(NoPackage, {"read", "directory"}), V1({"data", "directory"}), V1({"crash"})}
=============================================================================
