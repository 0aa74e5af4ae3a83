------------------------------ MODULE Directory ------------------------------
(***************************************************************************)
(* One directory and the threads that look up, add, remove and list its    *)
(* entries (filesys/directory.c), under the two locks of its inode         *)
(* (filesys/inode.c): inode_lock, which inode_read_at and inode_write_at   *)
(* hold while they move one entry, and inode_dir_lock, which get_dir_lock  *)
(* acquires while it holds inode_lock.                                     *)
(*                                                                         *)
(* The entries name subdirectories, by the sector of their inode, which is *)
(* in use from subdir_create until the last inode_close of the removed     *)
(* inode and may then be given to another.  The entries "." and ".." are   *)
(* left out: subdir_create writes them before anyone else can see them.    *)
(***************************************************************************)
EXTENDS Integers, Sequences, FiniteSets

CONSTANTS Thread, Name, NULL,
          File,      \* inode sectors
          Op,        \* the calls each thread makes
          MaxSlot    \* entries the directory can grow to

ASSUME DirectoryAssumption ==
  /\ MaxSlot \in Nat \ {0}
  /\ NULL \notin Thread \cup Name \cup File
  /\ Op \in [Thread -> SUBSET {"lookup", "add", "remove", "readdir"}]

VARIABLES
  entries,         \* the directory: a sequence of struct dir_entry
  live,            \* the sectors that hold an inode
  removed,         \* inodes with removed set
  inode_lock,      \* the holder, or NULL
  inode_dir_lock,
  pc,
  op,              \* which call the thread is in
  name, sector,    \* its arguments; dir_remove reads sector from the entry
  ofs,             \* the entry it reads next
  pos,             \* dir->pos of the struct dir that it lists
  opened,          \* the inode that it has looked up and not closed
  steady,          \* the names in the directory ever since it began to list it
  listed           \* the names that dir_readdir_2 has returned to it, in order

vars == <<entries, live, removed, inode_lock, inode_dir_lock, pc, op, name,
          sector, ofs, pos, opened, steady, listed>>

\* Nobody looks at the other fields of an entry that is not in use.
Entry == [in_use : {TRUE}, name : Name, inode_sector : File]
           \cup [in_use : {FALSE}, name : {NULL}, inode_sector : {NULL}]
Unused == [in_use |-> FALSE, name |-> NULL, inode_sector |-> NULL]

TypeOK ==
  /\ entries \in Seq(Entry) /\ Len(entries) <= MaxSlot
  /\ live \subseteq File /\ removed \subseteq File
  /\ inode_lock \in Thread \cup {NULL} /\ inode_dir_lock \in Thread \cup {NULL}
  /\ pc \in [Thread -> {"idle", "lock", "dir_lock", "alloc", "scan", "found",
                        "absent", "slot", "write", "open", "erase", "close",
                        "end", "done", "release_failed"}]
  /\ op \in [Thread -> {"lookup", "add", "remove", "readdir"}]
  /\ name \in [Thread -> Name \cup {NULL}] /\ sector \in [Thread -> File \cup {NULL}]
  /\ ofs \in [Thread -> 1 .. MaxSlot + 1] /\ pos \in [Thread -> 1 .. MaxSlot + 1]
  /\ opened \in [Thread -> SUBSET File]
  /\ steady \in [Thread -> SUBSET Name]
  /\ listed \in [Thread -> Seq(Name)]

Init ==
  /\ entries = <<>>
  /\ live = {} /\ removed = {}
  /\ inode_lock = NULL /\ inode_dir_lock = NULL
  /\ pc = [t \in Thread |-> "idle"]
  /\ op = [t \in Thread |-> "lookup"]
  /\ name = [t \in Thread |-> NULL]
  /\ sector = [t \in Thread |-> NULL]
  /\ ofs = [t \in Thread |-> 1] /\ pos = [t \in Thread |-> 1]
  /\ opened = [t \in Thread |-> {}]
  /\ steady = [t \in Thread |-> {}]
  /\ listed = [t \in Thread |-> <<>>]

\* The ASSERT of free_map_release panics.
Halted == \E t \in Thread : pc[t] = "release_failed"

At(t, l) == ~Halted /\ pc[t] = l
Goto(t, l) == pc' = [pc EXCEPT ![t] = l]

\* inode_read_at and inode_write_at hold inode_lock from begin to end.
InodeFree == inode_lock = NULL

InUse == {k \in DOMAIN entries : entries[k].in_use}
Names == {entries[k].name : k \in InUse}

\* Every change of the directory is seen by the threads that list it.
Write(k, e) ==
  /\ entries' = IF k > Len(entries) THEN Append(entries, e)
                ELSE [entries EXCEPT ![k] = e]
  /\ steady' = [t \in Thread |-> steady[t] \cap {entries'[l].name : l \in
                                   {l \in DOMAIN entries' : entries'[l].in_use}}]

-----------------------------------------------------------------------------
(* The locks                                                                *)

\* get_dir_lock acquires inode_lock, and inode_dir_lock under it.
get_dir_lock(t) ==
  /\ At(t, "lock") /\ InodeFree
  /\ inode_lock' = t
  /\ Goto(t, "dir_lock")
  /\ UNCHANGED <<entries, live, removed, inode_dir_lock, op, name, sector, ofs, pos,
                 opened, steady, listed>>

DirLock(t) ==
  /\ At(t, "dir_lock") /\ inode_dir_lock = NULL
  /\ inode_dir_lock' = t
  /\ inode_lock' = NULL
  /\ Goto(t, IF op[t] = "add" THEN "alloc" ELSE "scan")
  /\ UNCHANGED <<entries, live, removed, op, name, sector, ofs, pos, opened, steady,
                 listed>>

\* release_dir_lock needs inode_lock too.
release_dir_lock == InodeFree /\ inode_dir_lock' = NULL /\ UNCHANGED inode_lock

\* The arguments and locals of a call that has returned are dead.
Return(t) ==
  /\ Goto(t, "idle")
  /\ op' = [op EXCEPT ![t] = "lookup"]
  /\ name' = [name EXCEPT ![t] = NULL]
  /\ sector' = [sector EXCEPT ![t] = NULL]
  /\ ofs' = [ofs EXCEPT ![t] = 1]

-----------------------------------------------------------------------------
(* lookup_unsynched, and the loop of dir_add_unsynched for a free slot      *)

\* inode_read_at of the entry at ofs; a short read ends the loop.
lookup_unsynched(t) ==
  LET k == ofs[t] IN
  /\ At(t, "scan") /\ op[t] # "readdir" /\ InodeFree
  /\ \/ /\ k > Len(entries)
        /\ Goto(t, "absent")
        /\ ofs' = [ofs EXCEPT ![t] = 1]
        /\ UNCHANGED sector
     \/ /\ k \in InUse /\ entries[k].name = name[t]
        /\ Goto(t, "found")
        /\ sector' = IF op[t] = "add" THEN sector
                     ELSE [sector EXCEPT ![t] = entries[k].inode_sector]
        /\ UNCHANGED ofs
     \/ /\ k \in DOMAIN entries
        /\ ~(k \in InUse /\ entries[k].name = name[t])
        /\ ofs' = [ofs EXCEPT ![t] = k + 1]
        /\ UNCHANGED <<pc, sector>>
  /\ UNCHANGED <<entries, live, removed, inode_lock, inode_dir_lock, op, name,
                 pos, opened, steady, listed>>

\* What follows the search, still under inode_dir_lock.  dir_lookup_unsynched
\* opens the inode.  subdir_create gives its sector back when the name is
\* taken, and looks for a free slot when it is not.  dir_remove releases the
\* lock, and only then opens the inode and erases the entry.
LookupFound(t) ==
  /\ At(t, "found") /\ op[t] = "lookup"
  /\ opened' = [opened EXCEPT ![t] = @ \cup {sector[t]}]
  /\ Goto(t, "done")
  /\ UNCHANGED <<entries, live, removed, inode_lock, inode_dir_lock, op, name,
                 sector, ofs, pos, steady, listed>>

\* Mutant: the name is added though it is there.
AddFound_again(t) ==
  /\ At(t, "found") /\ op[t] = "add"
  /\ ofs' = [ofs EXCEPT ![t] = 1]
  /\ Goto(t, "slot")
  /\ UNCHANGED <<entries, live, removed, inode_lock, inode_dir_lock, op, name,
                 sector, pos, opened, steady, listed>>

AddFound(t) ==
  /\ At(t, "found") /\ op[t] = "add"
  /\ live' = live \ {sector[t]}
  /\ Goto(t, "done")
  /\ UNCHANGED <<entries, removed, inode_lock, inode_dir_lock, op, name, sector,
                 ofs, pos, opened, steady, listed>>

RemoveFound(t) ==
  /\ At(t, "found") /\ op[t] = "remove"
  /\ release_dir_lock
  /\ Goto(t, "open")
  /\ UNCHANGED <<entries, live, removed, op, name, sector, ofs, pos, opened,
                 steady, listed>>

Absent(t) ==
  /\ At(t, "absent")
  /\ Goto(t, IF op[t] = "add" THEN "slot" ELSE "done")
  /\ UNCHANGED <<entries, live, removed, inode_lock, inode_dir_lock, op, name,
                 sector, ofs, pos, opened, steady, listed>>

Done(t) ==
  /\ At(t, "done")
  /\ release_dir_lock
  /\ Return(t)
  /\ UNCHANGED <<entries, live, removed, pos, opened, steady, listed>>

-----------------------------------------------------------------------------
(* subdir_create and dir_add_unsynched                                      *)

\* free_map_allocate and dir_create; when there is no sector the call fails.
\* (After dir_add_unsynched it looks the entry up again, and opens and closes
\* the new inode to add "." and ".."; nobody else has it open by then.)
subdir_create(t) ==
  /\ At(t, "alloc")
  /\ \/ \E f \in File \ live :
          /\ live' = live \cup {f}
          /\ sector' = [sector EXCEPT ![t] = f]
          /\ Goto(t, "scan")
     \/ /\ live = File
        /\ Goto(t, "done")
        /\ UNCHANGED <<live, sector>>
  /\ UNCHANGED <<entries, removed, inode_lock, inode_dir_lock, op, name, ofs, pos,
                 opened, steady, listed>>

\* The loop that sets ofs to a free slot or the end of the directory.
FindSlot(t) ==
  /\ At(t, "slot") /\ InodeFree
  /\ \/ /\ ofs[t] \in InUse
        /\ ofs' = [ofs EXCEPT ![t] = @ + 1]
        /\ UNCHANGED pc
     \/ /\ ofs[t] \notin InUse
        /\ Goto(t, "write")
        /\ UNCHANGED ofs
  /\ UNCHANGED <<entries, live, removed, inode_lock, inode_dir_lock, op, name,
                 sector, pos, opened, steady, listed>>

\* Mutant: the slot after the free one is written.
dir_add_unsynched_next(t) ==
  /\ At(t, "write") /\ InodeFree
  /\ Write(IF ofs[t] < Len(entries) THEN ofs[t] + 1 ELSE ofs[t],
           [in_use |-> TRUE, name |-> name[t], inode_sector |-> sector[t]])
  /\ Goto(t, "done")
  /\ UNCHANGED <<live, removed, inode_lock, inode_dir_lock, op, name, sector, ofs,
                 pos, opened, listed>>

\* The write of the slot; when the directory cannot grow it fails, and
\* subdir_create gives the sector back.
dir_add_unsynched(t) ==
  /\ At(t, "write") /\ InodeFree
  /\ \/ /\ ofs[t] <= MaxSlot
        /\ Write(ofs[t], [in_use |-> TRUE, name |-> name[t],
                          inode_sector |-> sector[t]])
        /\ UNCHANGED live
     \/ /\ ofs[t] > MaxSlot
        /\ live' = live \ {sector[t]}
        /\ UNCHANGED <<entries, steady>>
  /\ Goto(t, "done")
  /\ UNCHANGED <<removed, inode_lock, inode_dir_lock, op, name, sector, ofs, pos,
                 opened, listed>>

-----------------------------------------------------------------------------
(* dir_remove                                                               *)

RemoveOpen(t) ==
  /\ At(t, "open")
  /\ Goto(t, "erase")
  /\ UNCHANGED <<entries, live, removed, inode_lock, inode_dir_lock, op, name,
                 sector, ofs, pos, opened, steady, listed>>

\* It writes the entry that it has read, with in_use cleared.
dir_remove(t) ==
  /\ At(t, "erase") /\ InodeFree
  /\ Write(ofs[t], Unused)
  /\ Goto(t, "close")
  /\ UNCHANGED <<live, removed, inode_lock, inode_dir_lock, op, name, sector, ofs,
                 pos, opened, listed>>

\* The references to the inode f, which open_cnt counts: of the threads that
\* have looked it up, and of those inside dir_remove.
OpenCnt(f) ==
  Cardinality({u \in Thread : f \in opened[u]})
  + Cardinality({u \in Thread : pc[u] \in {"erase", "close"} /\ sector[u] = f})

\* inode_close of f, when `gone' are the removed inodes.  The last one frees
\* the sector of a removed inode; free_map_release asserts that it is in use.
Close(t, f, gone) ==
  LET last == OpenCnt(f) = 1 IN
  /\ removed' = IF last THEN gone \ {f} ELSE gone
  /\ live' = IF last /\ f \in gone THEN live \ {f} ELSE live
  /\ IF last /\ f \in gone /\ f \notin live
     THEN Goto(t, "release_failed") /\ UNCHANGED <<op, name, sector, ofs>>
     ELSE Return(t)

\* inode_remove and inode_close.
RemoveClose(t) ==
  /\ At(t, "close")
  /\ Close(t, sector[t], removed \cup {sector[t]})
  /\ UNCHANGED <<entries, inode_lock, inode_dir_lock, pos, opened, steady, listed>>

-----------------------------------------------------------------------------
(* dir_readdir_2                                                            *)

\* Mutant: it skips the entry after the one that it returns.
dir_readdir_2_skipping(t) ==
  LET k == pos[t] IN
  /\ At(t, "scan") /\ op[t] = "readdir" /\ InodeFree
  /\ \/ /\ k > Len(entries)
        /\ Goto(t, "end")
        /\ UNCHANGED <<pos, listed>>
     \/ /\ k \in InUse
        /\ pos' = [pos EXCEPT ![t] = IF k < Len(entries) THEN k + 2 ELSE k + 1]
        /\ listed' = [listed EXCEPT ![t] = Append(@, entries[k].name)]
        /\ Goto(t, "done")
     \/ /\ k \in DOMAIN entries \ InUse
        /\ pos' = [pos EXCEPT ![t] = k + 1]
        /\ UNCHANGED <<pc, listed>>
  /\ UNCHANGED <<entries, live, removed, inode_lock, inode_dir_lock, op, name,
                 sector, ofs, opened, steady>>

\* It advances dir->pos past every entry that it reads.
dir_readdir_2(t) ==
  LET k == pos[t] IN
  /\ At(t, "scan") /\ op[t] = "readdir" /\ InodeFree
  /\ \/ /\ k > Len(entries)
        /\ Goto(t, "end")
        /\ UNCHANGED <<pos, listed>>
     \/ /\ k \in InUse
        /\ pos' = [pos EXCEPT ![t] = k + 1]
        /\ listed' = [listed EXCEPT ![t] = Append(@, entries[k].name)]
        /\ Goto(t, "done")
     \/ /\ k \in DOMAIN entries \ InUse
        /\ pos' = [pos EXCEPT ![t] = k + 1]
        /\ UNCHANGED <<pc, listed>>
  /\ UNCHANGED <<entries, live, removed, inode_lock, inode_dir_lock, op, name,
                 sector, ofs, opened, steady>>

\* The caller gets false and closes the directory.
ReaddirEnd(t) ==
  /\ At(t, "end")
  /\ release_dir_lock
  /\ Return(t)
  /\ pos' = [pos EXCEPT ![t] = 1]
  /\ steady' = [steady EXCEPT ![t] = {}]
  /\ listed' = [listed EXCEPT ![t] = <<>>]
  /\ UNCHANGED <<entries, live, removed, opened>>

-----------------------------------------------------------------------------
(* The calls                                                                *)

Begin(t, o, n) ==
  /\ At(t, "idle") /\ o \in Op[t]
  /\ op' = [op EXCEPT ![t] = o]
  /\ name' = [name EXCEPT ![t] = n]
  /\ Goto(t, "lock")
  /\ UNCHANGED <<entries, live, removed, inode_lock, inode_dir_lock, sector, ofs,
                 pos, opened, listed>>

\* A thread keeps one inode open at a time.  filesys_remove and the mkdir system
\* call look the name up first: that is a call of dir_lookup and an inode_close
\* before these.
dir_lookup(t, n) == Begin(t, "lookup", n) /\ opened[t] = {} /\ UNCHANGED steady
mkdir(t, n) == Begin(t, "add", n) /\ UNCHANGED steady
rmdir(t, n) == Begin(t, "remove", n) /\ UNCHANGED steady

readdir(t) ==
  /\ Begin(t, "readdir", NULL)
  /\ steady' = IF pos[t] = 1 THEN [steady EXCEPT ![t] = Names] ELSE steady

\* A thread closes the inode that it has looked up.
inode_close(t) ==
  /\ At(t, "idle")
  /\ \E f \in opened[t] :
       /\ Close(t, f, removed)
       /\ opened' = [opened EXCEPT ![t] = @ \ {f}]
  /\ UNCHANGED <<entries, inode_lock, inode_dir_lock, pos, steady, listed>>

Call(t) ==
  \/ \E n \in Name : dir_lookup(t, n) \/ mkdir(t, n) \/ rmdir(t, n)
  \/ readdir(t)

Step(t) ==
  \/ get_dir_lock(t) \/ DirLock(t) \/ lookup_unsynched(t)
  \/ LookupFound(t) \/ AddFound(t) \/ RemoveFound(t) \/ Absent(t) \/ Done(t)
  \/ subdir_create(t) \/ FindSlot(t) \/ dir_add_unsynched(t)
  \/ RemoveOpen(t) \/ dir_remove(t) \/ RemoveClose(t)
  \/ dir_readdir_2(t) \/ ReaddirEnd(t)

Next == \E t \in Thread : Call(t) \/ inode_close(t) \/ Step(t)

Spec == Init /\ [][Next]_vars

\* More than the code gives: a woken waiter of a lock can find it taken again.
\* DirectoryDeadlock.cfg has its counterexample all the same.
FairSpec == Spec /\ \A t \in Thread : SF_vars(Step(t))

-----------------------------------------------------------------------------
(* Properties                                                               *)

\* dir_add_unsynched looks the name up and writes the entry in two critical
\* sections of inode_lock; inode_dir_lock keeps two threads from adding the
\* same name twice.
NamesAreUnique ==
  \A k, l \in InUse : entries[k].name = entries[l].name => k = l

\* A caller of dir_readdir_2 gets every name that is in the directory from the
\* first call to the last, and gets it once, whatever is added and removed
\* around it between the calls.
ReaddirComplete ==
  \A t \in Thread :
    pc[t] = "end" =>
      \A n \in steady[t] :
        Cardinality({k \in DOMAIN listed[t] : listed[t][k] = n}) = 1

\* The slot that dir_add_unsynched found free is still free when it is written,
\* though dir_remove writes entries without inode_dir_lock (directory.c:278): no
\* add replaces an entry in use, and the only step that changes one is the erase
\* of a dir_remove in the slot where it found its name.  That the entry it
\* erases is still the one it found is RemovesItsName, which does not hold.
AddOverwritesNothing ==
  [][\A k \in InUse :
       entries'[k] # entries[k] =>
         /\ ~entries'[k].in_use
         /\ \E t \in Thread : pc[t] = "erase" /\ pc'[t] = "close" /\ ofs[t] = k]_vars

\* dir_remove "Removes any entry for NAME in DIR" (directory.c:245), and no
\* entry for another name.
RemovesItsName ==
  [][\A k \in InUse :
       ~entries'[k].in_use =>
         \E t \in Thread : pc[t] = "erase" /\ name[t] = entries[k].name]_vars

\* ASSERT (bitmap_all (free_map, sector, cnt)) (free-map.c:65): the inode that
\* dir_remove frees has a sector that is in use.
ReleaseAssert == \A t \in Thread : pc[t] # "release_failed"

\* dir_lookup "sets *INODE to an inode for the file" (directory.c:139): the
\* inode that a lookup opens is in use.
LookupOpensInode ==
  [][\A t \in Thread : LookupFound(t) => sector[t] \in live]_vars

\* A call on a directory returns: dir_lookup "returns true if one exists, false
\* otherwise" (directory.c:137).
CallsReturn == \A t \in Thread : pc[t] # "idle" ~> pc[t] = "idle"
=============================================================================
