------------------------------- MODULE Storage ------------------------------
(***************************************************************************)
(* The services that keep their data in NovaFS, in the order kernel_main    *)
(* runs them: fs_init with the migration of a v1 volume, the built-in       *)
(* programs, the self-test of the .deb installer and of large files, the    *)
(* compiler's test program and the accounts.  Once the desktop runs, users  *)
(* log in, add accounts and install packages.                               *)
(*                                                                         *)
(* A service is a list of calls to NovaFS, each with the condition it       *)
(* checks first; a call that fails ends the service.  Power can fail at any *)
(* sector write, and the machine starts again.  Passwords are left out, and *)
(* so are the refusals of may_read and may_write: an administrator installs *)
(* packages.                                                                *)
(***************************************************************************)
EXTENDS NovaFs, SequencesExt

CONSTANTS
  BuiltIn, Large, Compiled, Users,  \* the paths of what the kernel writes
  Image, Edge,                      \* a sector of a program, of the large file
  NewAccounts,                      \* the accounts an administrator may add
  AccountMax                        \* ACCOUNT_MAX

VARIABLE machine   \* what the kernel keeps in memory, the superblock's version
                   \* and some history

all == <<vars, machine>>

-----------------------------------------------------------------------------
(* Calls *)

Call(do, name, data) == [do |-> do, name |-> name, data |-> data]
Broken == Call("broken", Root, << >>)

Exists(n) == Named(entries, n) # {}
TypeOf(n) == entries[Lowest(Named(entries, n))].type

\* fs_read of a whole file, through links; fails for anything but a file.
fs_read(n) ==
  LET found == {i \in resolve_entry(n) : entries[i].type = "file"}
  IN  IF found = {} THEN << >> ELSE ReadSectors(entries[Lowest(found)])

\* A call that reaches the disk.
Starts(c) ==
  \/ c.do = "ensure" /\ ~Exists(c.name) /\ Mkdir(c.name)
  \/ c.do = "put" /\ (Exists(c.name) => TypeOf(c.name) = "file") /\ Write(c.name, c.data)
  \/ c.do = "unlink" /\ Exists(c.name) /\ TypeOf(c.name) = "symlink" /\ Delete(c.name)
  \/ c.do = "symlink" /\ Symlink(c.data[1], c.name)
  \/ c.do = "remove" /\ Delete(c.name)

\* A call with nothing to do.
Skips(c) ==
  \/ c.do = "ensure" /\ Exists(c.name) /\ TypeOf(c.name) = "directory"
  \/ c.do = "unlink" /\ ~Exists(c.name)
  \/ c.do = "check" /\ fs_read(c.name) = c.data

\* A call that fails before it reaches the disk.
Fails(c) ==
  \/ c.do = "broken"
  \/ c.do = "check" /\ (fs_read(c.name) # c.data \/ "read" \in Faults)
  \/ c.do = "ensure" /\ Exists(c.name) /\ TypeOf(c.name) # "directory"
  \/ c.do = "put" /\ Exists(c.name) /\ TypeOf(c.name) # "file"
  \/ c.do = "unlink" /\ Exists(c.name) /\ TypeOf(c.name) # "symlink"
  \/ c.do = "symlink" /\ Exists(c.name)
  \/ c.do \in {"ensure", "put", "symlink"} /\ ~Exists(c.name) /\ allocate_entry(c.name) = {}

\* The services in the order of kernel_main, then those a user starts.
Services == <<"mount", "builtin", "deb", "large", "compile", "accounts", "desktop">>
Following(service) ==
  IF service \in {"useradd", "install"} THEN "desktop"
  ELSE IF service = "migrate" THEN "builtin"
  ELSE Services[1 + CHOOSE k \in 1..6 : Services[k] = service]

-----------------------------------------------------------------------------
(* The scripts *)

\* ensure_parent_directories.
Ancestors(n) ==
  LET up[m \in Names] ==
        IF Parent[m] = Root THEN << >>
        ELSE Append(up[Parent[m]], Call("ensure", Parent[m], << >>))
  IN  up[n]

\* The members install_tar knows; those of any other type flag (hard links,
\* devices, extended headers) it passes over.
Installable == {"directory", "symlink", "file"}

\* Mutant: a link whose path is taken already is left as it is.
Member_KeepLink(e) ==
  IF e.type = "garbled" THEN <<Broken>>
  ELSE Ancestors(e.name) \o
       CASE e.type = "cut" -> <<Broken>>
         [] e.type = "other" \/ (e.type = "symlink" /\ Exists(e.name)) -> << >>
         [] e.type = "directory" -> <<Call("ensure", e.name, << >>)>>
         [] e.type = "symlink" -> <<Call("symlink", e.name, e.data)>>
         [] e.type = "file" -> <<Call("put", e.name, e.data)>>

\* install_tar: one member of the archive.  A garbled header or path, and data
\* that is cut short or a target that is no path, are found when the member's
\* turn comes, the latter with its ancestors made.
Member(e) ==
  IF e.type = "garbled" THEN <<Broken>>
  ELSE Ancestors(e.name) \o
       CASE e.type = "cut" -> <<Broken>>
         [] e.type = "other" -> << >>
         [] e.type = "directory" -> <<Call("ensure", e.name, << >>)>>
         [] e.type = "symlink" ->
              <<Call("unlink", e.name, << >>), Call("symlink", e.name, e.data)>>
         [] e.type = "file" -> <<Call("put", e.name, e.data)>>

\* install_tar: the members in turn.  An archive without a block of zeroes at
\* its end fails with all of them installed.
install_tar(package) ==
  FlattenSeq([k \in DOMAIN package.members |-> Member(package.members[k])])
    \o (IF package.ended THEN << >> ELSE <<Broken>>)

\* deb_install: the ar archive is checked before anything is installed.
deb_install(package) == IF package.sound THEN install_tar(package) ELSE <<Broken>>

\* Mutant: a link's target is written as v1 stored it.
Rewritten_Same(e) == e.data

\* migrate_legacy: v1 targets are paths from the root and get a slash.
Rewritten(e) ==
  IF e.type = "symlink" THEN <<[e.data[1] EXCEPT !.rooted = TRUE]>> ELSE e.data

\* migrate_legacy: the directories by depth, then the rest by index.  v1 names
\* are distinct.  fs_chmod and fs_chown write the same entry again, and their
\* results are ignored.
migrate_legacy(legacy) ==
  LET directories == SelectSeq(legacy, LAMBDA e : e.type = "directory")
      others      == SelectSeq(legacy, LAMBDA e : e.type # "directory")
      level(d)    == SelectSeq(directories, LAMBDA e : Len(Ancestors(e.name)) = d)
      call(e)     == Call(CASE e.type = "directory" -> "ensure"
                            [] e.type = "symlink" -> "symlink"
                            [] OTHER -> "put", e.name, Rewritten(e))
      order       == FlattenSeq([d \in 1..Cardinality(Names) |-> level(d - 1)]) \o others
  IN  [k \in DOMAIN order |-> call(order[k])]

\* save_database.
Database(accounts) == <<[accounts |-> accounts]>>
Defaults == <<"root", "user">>
save_database(accounts) ==
  <<Call("put", Users, Database(accounts)), Call("protect", Users, << >>)>>

\* process_install_builtin: a file that is current is left alone.
process_install_builtin ==
  IF fs_read(BuiltIn) = <<Image>> THEN <<Call("renew", BuiltIn, << >>)>>
  ELSE <<Call("put", BuiltIn, <<Image>>), Call("protect", BuiltIn, << >>)>>

deb_self_test ==
  deb_install(volume.package) \o
    [k \in DOMAIN volume.test |-> Call("check", volume.test[k], <<Image>>)]

\* The large file is removed whatever reading it back showed.
filesystem_large_file_self_test ==
  <<Call("put", Large, <<Edge, Edge>>), Call("remove", Large, << >>)>>

\* compiler_compile of the self-test's source, which is correct.
compiler_compile == <<Call("put", Compiled, <<Image>>)>>

\* What a service does when its turn comes.
Script(service) ==
  CASE service = "builtin" -> process_install_builtin
    [] service = "deb" -> deb_self_test
    [] service = "large" -> filesystem_large_file_self_test
    [] service = "compile" -> compiler_compile

\* The databases account_init accepts.
Databases == {Database(Defaults \o s) : s \in SeqOf(NewAccounts, AccountMax - 2)}
Administrator(m) == m.current # 0 /\ m.db[m.current] = "root"

\* A service ends and the next one follows.  account_init logs the desktop
\* user in; account_create forgets the account when it could not be saved.
Ended(m, ok) ==
  [m EXCEPT !.service = Following(m.service), !.step = "enter", !.todo = << >>,
            !.outcome = IF m.service \notin {"deb", "install"} THEN @
                        ELSE IF ok THEN "installed" ELSE "failed",
            !.migrated = @ \/ (m.service = "migrate" /\ ok),
            !.current = IF m.service # "accounts" THEN @ ELSE IF ok THEN 2 ELSE 0,
            !.db = IF m.service = "useradd" /\ ~ok THEN Front(@) ELSE @,
            !.created = IF m.service = "useradd" /\ ok THEN @ \cup {Last(m.db)} ELSE @]

Advanced(m) == [m EXCEPT !.todo = Tail(@), !.step = "run"]

-----------------------------------------------------------------------------
(* A service runs *)

Entering(service) == machine.service = service /\ machine.step = "enter"
Running == machine.step = "run" /\ op = Idle
Current == Head(machine.todo)

Enter ==
  /\ \E service \in {"builtin", "deb", "large", "compile"} :
       /\ Entering(service)
       /\ machine' = [machine EXCEPT !.step = "run",
                        !.todo = IF machine.mounted THEN Script(service) ELSE <<Broken>>]
  /\ UNCHANGED vars

CallStarts ==
  /\ Running /\ machine.todo # << >> /\ Starts(Current)
  /\ machine' = [machine EXCEPT !.step = "wait"]

CallSkips ==
  /\ Running /\ machine.todo # << >> /\ Skips(Current)
  /\ machine' = Advanced(machine)
  /\ UNCHANGED vars

CallFails ==
  /\ Running /\ machine.todo # << >> /\ Fails(Current)
  /\ machine' = Ended(machine, FALSE)
  /\ UNCHANGED vars

\* The call returns: whether NovaFS reported success.  The result of removing
\* the large file is not looked at.
CallReturns ==
  /\ machine.step = "wait" /\ op = Idle
  /\ machine' = IF promised[Current.name] # Unknown \/ Current.do = "remove"
                THEN Advanced(machine) ELSE Ended(machine, FALSE)
  /\ UNCHANGED vars

\* fs_chmod; install_builtin_file ignores its result for a current file.
CallProtects ==
  /\ Running /\ machine.todo # << >> /\ Current.do \in {"protect", "renew"}
  /\ Chmod(Current.name)
  /\ \/ /\ \A i \in Named(entries, Current.name) : directory'[i] = entries[i]
        /\ machine' = Advanced(machine)
     \/ /\ "directory" \in Faults
        /\ machine' = IF Current.do = "renew" THEN Advanced(machine)
                      ELSE Ended(machine, FALSE)

ServiceEnds ==
  /\ Running /\ machine.todo = << >>
  /\ machine' = Ended(machine, TRUE)
  /\ UNCHANGED vars

-----------------------------------------------------------------------------
(* Mounting, accounts, users and power failures *)

Empty == [i \in Indices |-> NoEntry]

\* format_v2: the superblock, then the directory.  A write that fails leaves
\* the volume without a mount.  Power does not fail in here: what it would
\* leave is an old directory under a new superblock.
Formats(m) ==
  /\ entries' = Empty
  /\ \/ directory' = Empty /\ machine' = [m EXCEPT !.mounted = TRUE, !.version = "v2"]
     \/ /\ "directory" \in Faults
        /\ \E version \in {m.version, "v2"} :
             machine' = [Ended(m, FALSE) EXCEPT !.version = version]
        /\ UNCHANGED directory
  /\ promised' = [n \in Names |-> <<"absent">>]
  /\ UNCHANGED <<disk, op, volume>>

\* fs_init of a v2 volume.
Mount ==
  /\ Entering("mount") /\ machine.version = "v2"
  /\ entries' = directory
  /\ machine' = [Ended(machine, TRUE) EXCEPT !.mounted = TRUE]
  /\ UNCHANGED <<directory, disk, op, promised, volume>>

\* fs_init when the superblock cannot be read: the volume is formatted.
MountUnread ==
  /\ Entering("mount") /\ "read" \in Faults
  /\ Formats([machine EXCEPT !.unread = TRUE, !.step = "run"])

\* migrate_legacy: everything is read, then the volume formatted; format_v2
\* mounts it.
MountLegacy ==
  /\ Entering("mount") /\ machine.version = "v1"
  /\ Formats([machine EXCEPT !.service = "migrate", !.step = "run",
                              !.todo = migrate_legacy(volume.legacy)])

\* fs_init when the directory cannot be read, or a v1 file, or the heap has no
\* room for the v1 files: nothing is mounted and nothing changes.
MountRefused ==
  /\ Entering("mount") /\ (machine.version = "v1" \/ "read" \in Faults)
  /\ machine' = Ended(machine, FALSE)
  /\ UNCHANGED vars

\* account_init: a database that is missing, unreadable or not one is replaced
\* by the two default accounts.
account_init ==
  /\ Entering("accounts")
  /\ LET found == IF machine.mounted THEN fs_read(Users) ELSE << >>
         renewed(m) == [m EXCEPT !.step = "run", !.db = Defaults,
                          !.todo = IF m.mounted THEN save_database(Defaults) ELSE <<Broken>>]
     IN  \/ /\ found \in Databases
            /\ machine' = Ended([machine EXCEPT !.db = found[1].accounts], TRUE)
         \/ found \notin Databases /\ machine' = renewed(machine)
         \/ "read" \in Faults /\ machine' = renewed([machine EXCEPT !.unread = TRUE])
  /\ UNCHANGED vars

\* account_login with the right password.
account_login(k) ==
  /\ Entering("desktop") /\ k \in DOMAIN machine.db
  /\ machine' = [machine EXCEPT !.current = k]
  /\ UNCHANGED vars

\* Mutant: the database is saved before the account is counted.
account_create_Early(name) ==
  /\ Entering("desktop") /\ Administrator(machine) /\ Len(machine.db) < AccountMax
  /\ ~Contains(machine.db, name)
  /\ machine' = [machine EXCEPT !.service = "useradd", !.step = "run",
                   !.db = Append(@, name),
                   !.todo = IF machine.mounted THEN save_database(machine.db) ELSE <<Broken>>]
  /\ UNCHANGED vars

\* account_create.
account_create(name) ==
  /\ Entering("desktop") /\ Administrator(machine) /\ Len(machine.db) < AccountMax
  /\ ~Contains(machine.db, name)
  /\ LET db == Append(machine.db, name)
     IN  machine' = [machine EXCEPT !.service = "useradd", !.step = "run", !.db = db,
                       !.todo = IF machine.mounted THEN save_database(db) ELSE <<Broken>>]
  /\ UNCHANGED vars

\* The terminal's deb install: deb_install_file.
deb_install_file ==
  /\ Entering("desktop") /\ Administrator(machine) /\ machine.mounted
  /\ machine' = [machine EXCEPT !.service = "install", !.step = "run",
                   !.outcome = "none",
                   !.todo = deb_install(volume.package)]
  /\ UNCHANGED vars

\* The kernel's memory when the machine starts.
Booting(m) ==
  [m EXCEPT !.service = "mount", !.step = "enter", !.todo = << >>, !.mounted = FALSE,
            !.db = << >>, !.current = 0, !.outcome = "none", !.mishaps = @ + 1]

\* volume.mishaps bounds how often power or a sector write of a file fails.
MayFail == machine.mishaps < volume.mishaps

PowerFails == MayFail /\ Crash /\ machine' = Booting(machine)

DiskGoesOn ==
  \/ (DataWrite \/ Save) /\ UNCHANGED machine
  \/ /\ MayFail /\ (DataFault \/ SaveFault)
     /\ machine' = [machine EXCEPT !.mishaps = @ + 1]

-----------------------------------------------------------------------------
(* The specification *)

\* A v1 volume shows nothing of v2; the migration formats it.
StorageInit ==
  /\ Init
  /\ machine = [service |-> "mount", step |-> "enter", todo |-> << >>, mounted |-> FALSE,
                db |-> << >>, current |-> 0, version |-> volume.version, unread |-> FALSE,
                migrated |-> FALSE, created |-> {}, outcome |-> "none", mishaps |-> 0]

\* NovaFS by itself, under any calls.
Alone == ~volume.system /\ Next /\ UNCHANGED machine

StorageNext ==
  \/ Alone
  \/ /\ volume.system
     /\ \/ Mount \/ MountUnread \/ MountLegacy \/ MountRefused
        \/ Enter \/ CallStarts \/ CallSkips \/ CallFails \/ CallReturns \/ CallProtects
        \/ ServiceEnds
        \/ DiskGoesOn
        \/ account_init
        \/ \E k \in 1..AccountMax : account_login(k)
        \/ \E name \in NewAccounts : account_create(name)
        \/ deb_install_file
        \/ PowerFails

StorageSpec == StorageInit /\ [][StorageNext]_all

-----------------------------------------------------------------------------
(* Properties *)

\* fs_init reports that a v1 volume was migrated only when every directory,
\* file and link of it is there with its data, in memory and for later boots,
\* and every link leads where it led in v1 (a v1 target is a path from the
\* root).  Only a boot that cannot read the superblock destroys them again.
MigrationComplete ==
  machine.migrated /\ ~machine.unread =>
    \A k \in DOMAIN volume.legacy :
      LET e == volume.legacy[k] IN
        /\ \A dir \in Seen :
             Named(dir, e.name) # {} /\ (e.type # "symlink" => Holding(dir, e.name) = <<e.type>> \o e.data)
        /\ machine.mounted /\ e.type = "symlink" =>
             resolve_entry(e.name) = resolve_entry(e.data[1].to)

\* deb_install returns true only for an archive that is whole and when each of
\* its directories, files and links is there, in memory and on disk, whatever an
\* earlier attempt left behind when a write or the power failed.  (Members of
\* other types are passed over without a report.)  When only the power can fail,
\* trying again succeeds, with one exception: fs_symlink was interrupted between
\* its two directory writes, and the link's path is a regular file, which
\* install_tar refuses to replace.
PackageInstalled ==
  LET members == {volume.package.members[k] : k \in DOMAIN volume.package.members}
  IN  /\ machine.outcome = "installed" =>
           /\ volume.package.ended
           /\ \A dir \in Seen : \A e \in members :
                \/ e.type = "other"
                \/ e.type \in Installable /\ Holding(dir, e.name) = <<e.type>> \o e.data
      /\ machine.outcome = "failed" /\ machine.mounted /\ volume.package.sound
           /\ volume.package.ended /\ Faults = {"crash"} =>
           \E e \in members :
             \/ e.type \in {"garbled", "cut"}
             \/ e.type = "symlink" /\ Exists(e.name) /\ TypeOf(e.name) = "file"

\* The accounts users.db holds on disk.
Saved == {db[1].accounts : db \in {d \in Databases : Holding(directory, Users) = <<"file">> \o d}}

\* An account the terminal reported as created is in users.db on disk from then
\* on, whatever write of a later account failed, its directory slot included,
\* and whenever the power fails.  And the database in memory stays the one on
\* disk but for one account at its end: account_create takes an account back
\* when save_database fails, although the sector may already hold it, and after
\* a restart that account exists.  Two things do lose accounts: a boot that
\* cannot read the database, and one that reads a directory whose writes failed.
AccountsKept ==
  Trusted /\ ~machine.unread =>
    /\ \A a \in machine.created : \E s \in Saved : Contains(s, a)
    /\ Entering("desktop") /\ machine.mounted /\ machine.created # {} =>
         \E s \in Saved : machine.db \in {s, Front(s)}
=============================================================================
