--------------------------- MODULE DirectoryProofs ---------------------------
(***************************************************************************)
(* Proofs about Directory, for any number of threads, names and slots: no  *)
(* name is in the directory twice, dir_add_unsynched overwrites no entry   *)
(* in use, and a listing returns every name that stays, once.              *)
(***************************************************************************)
EXTENDS Directory, TLAPS

\* Leaves are for Zenon; the ones for an SMT solver say so.
USE ZenonT(60)

-----------------------------------------------------------------------------
(* The invariant                                                            *)

\* The threads inside inode_dir_lock.
Held == {"alloc", "scan", "found", "absent", "slot", "write", "end", "done"}

\* Which thread has which lock.
LockInv ==
  \A t \in Thread :
    /\ inode_lock = t <=> pc[t] = "dir_lock"
    /\ inode_dir_lock = t <=> pc[t] \in Held

\* What a thread knows of its arguments and of the entry at ofs.  Only the
\* threads inside inode_dir_lock know which names there are not; dir_remove
\* only knows, when it writes, that the entry is inside the directory.
CallOK(t) ==
  /\ pc[t] \in {"idle", "lock", "dir_lock", "alloc", "absent"} => ofs[t] = 1
  /\ pc[t] \in {"alloc", "slot", "write"} => op[t] = "add"
  /\ op[t] = "add" => name[t] \in Name
  /\ op[t] = "add" /\ pc[t] \in {"scan", "absent", "slot", "write"} => sector[t] \in File
  /\ pc[t] \in {"found", "open", "erase"} => ofs[t] \in DOMAIN entries
  /\ pc[t] \in {"found", "open", "erase", "close"} => sector[t] \in File
  /\ op[t] = "add" /\ pc[t] = "scan" =>
       \A k \in InUse : k < ofs[t] => entries[k].name # name[t]
  /\ op[t] = "add" /\ pc[t] \in {"absent", "slot", "write"} => name[t] \notin Names
  /\ pc[t] \in {"slot", "write"} => ofs[t] <= Len(entries) + 1
  /\ pc[t] = "write" => ofs[t] \notin InUse

\* The sequence s has n once, or not at all.
HasOnce(s, n) == \E i \in DOMAIN s : s[i] = n /\ \A j \in DOMAIN s : s[j] = n => j = i
HasNot(s, n) == \A i \in DOMAIN s : s[i] # n

\* A name that has been there since the listing began has been returned once if
\* its entry is before dir->pos, and not yet if it is not.
ListOK(t) ==
  /\ steady[t] \subseteq Names
  /\ pos[t] = 1 => listed[t] = << >>
  /\ pc[t] = "end" => pos[t] > Len(entries)
  /\ \A k \in InUse :
       entries[k].name \in steady[t] =>
         /\ k < pos[t] => HasOnce(listed[t], entries[k].name)
         /\ k >= pos[t] => HasNot(listed[t], entries[k].name)

IInv ==
  /\ TypeOK /\ LockInv /\ NamesAreUnique
  /\ \A t \in Thread : CallOK(t) /\ ListOK(t)

-----------------------------------------------------------------------------
(* Types and locks                                                          *)

\* An entry in use has a name and a sector.
LEMMA EntryInUse ==
  ASSUME TypeOK, NEW k \in InUse
  PROVE  /\ k \in 1 .. Len(entries) /\ entries[k].name \in Name
         /\ entries[k].inode_sector \in File
  <1>1. k \in 1 .. Len(entries) /\ entries[k] \in Entry /\ entries[k].in_use
    BY SMTT(60) DEF InUse, TypeOK
  <1>2. QED
    BY <1>1 DEF Entry

\* The calls keep the types: a thread starts with its arguments.
LEMMA CallType ==
  ASSUME TypeOK, NEW t \in Thread, Call(t)
  PROVE  TypeOK'
  <1> USE DirectoryAssumption
  <1>1. ASSUME NEW n \in Name \cup {NULL}, NEW o \in {"lookup", "add", "remove", "readdir"},
               Begin(t, o, n), steady' \in [Thread -> SUBSET Name]
        PROVE  TypeOK'
    BY <1>1 DEF TypeOK, Begin, Goto
  <1>2. Names \subseteq Name
    BY EntryInUse DEF Names
  <1>3. steady' \in [Thread -> SUBSET Name]
    BY <1>2, SMTT(60) DEF TypeOK, Call, dir_lookup, mkdir, rmdir, readdir
  <1>4. QED
    BY <1>1, <1>3 DEF Call, dir_lookup, mkdir, rmdir, readdir

\* The end of a call, with the types of what the return resets.
LEMMA ReturnType ==
  ASSUME TypeOK, NEW t \in Thread, Return(t)
  PROVE  /\ pc' \in [Thread -> {"idle", "lock", "dir_lock", "alloc", "scan", "found",
                                "absent", "slot", "write", "open", "erase", "close",
                                "end", "done", "release_failed"}]
         /\ op' \in [Thread -> {"lookup", "add", "remove", "readdir"}]
         /\ name' \in [Thread -> Name \cup {NULL}] /\ sector' \in [Thread -> File \cup {NULL}]
         /\ ofs' \in [Thread -> 1 .. MaxSlot + 1]
  BY DirectoryAssumption, SMTT(60) DEF TypeOK, Return, Goto

\* inode_close keeps the types of what it changes.
LEMMA CloseType ==
  ASSUME TypeOK, NEW t \in Thread, NEW f \in File, NEW gone \in SUBSET File, Close(t, f, gone)
  PROVE  /\ live' \subseteq File /\ removed' \subseteq File
         /\ pc' \in [Thread -> {"idle", "lock", "dir_lock", "alloc", "scan", "found",
                                "absent", "slot", "write", "open", "erase", "close",
                                "end", "done", "release_failed"}]
         /\ op' \in [Thread -> {"lookup", "add", "remove", "readdir"}]
         /\ name' \in [Thread -> Name \cup {NULL}] /\ sector' \in [Thread -> File \cup {NULL}]
         /\ ofs' \in [Thread -> 1 .. MaxSlot + 1]
  <1>1. live' \subseteq File /\ removed' \subseteq File
    BY DEF Close, TypeOK
  <1>2. CASE Return(t)
    BY <1>1, <1>2, ReturnType
  <1>3. CASE Goto(t, "release_failed") /\ UNCHANGED <<op, name, sector, ofs>>
    BY <1>1, <1>3 DEF TypeOK, Goto
  <1>4. QED
    BY <1>2, <1>3 DEF Close

\* The write of one entry, inside the directory or at its end.
LEMMA WriteEffect ==
  ASSUME TypeOK, NEW k \in 1 .. MaxSlot, k <= Len(entries) + 1, NEW e \in Entry, Write(k, e)
  PROVE  /\ entries' \in Seq(Entry) /\ Len(entries') <= MaxSlot
         /\ Len(entries') = IF k > Len(entries) THEN k ELSE Len(entries)
         /\ entries'[k] = e
         /\ \A l \in DOMAIN entries : l # k => entries'[l] = entries[l]
         /\ \A t \in Thread : steady'[t] = steady[t] \cap Names'
         /\ steady' \in [Thread -> SUBSET Name]
  <1>1. entries \in Seq(Entry) /\ Len(entries) \in Nat /\ Len(entries) <= MaxSlot
    BY SMTT(60) DEF TypeOK
  <1>2. /\ entries' \in Seq(Entry) /\ Len(entries') <= MaxSlot
        /\ Len(entries') = IF k > Len(entries) THEN k ELSE Len(entries)
        /\ entries'[k] = e
        /\ \A l \in DOMAIN entries : l # k => entries'[l] = entries[l]
    BY <1>1, DirectoryAssumption, SMTT(60) DEF Write
  <1>3. \A t \in Thread : steady'[t] = steady[t] \cap Names'
    BY DEF Write, Names, InUse
  <1>4. steady' \in [Thread -> SUBSET Name]
    BY DEF Write, TypeOK
  <1>5. QED
    BY <1>2, <1>3, <1>4

\* Every action keeps the types.
LEMMA StepType ==
  ASSUME TypeOK, NEW t \in Thread, CallOK(t), Step(t) \/ inode_close(t)
  PROVE  TypeOK'
  <1> USE DirectoryAssumption
  <1>a. Len(entries) \in Nat /\ ofs[t] \in 1 .. MaxSlot + 1 /\ pos[t] \in 1 .. MaxSlot + 1
    BY SMTT(60) DEF TypeOK
  <1>b. \A k \in DOMAIN entries : k \in 1 .. MaxSlot /\ k + 1 \in 1 .. MaxSlot + 1
    BY <1>a, SMTT(60) DEF TypeOK
  <1>c. 1 \in 1 .. MaxSlot + 1
    BY SMTT(60)
  <1>d. ASSUME NEW v \in 1 .. MaxSlot + 1
        PROVE  /\ [ofs EXCEPT ![t] = v] \in [Thread -> 1 .. MaxSlot + 1]
               /\ [pos EXCEPT ![t] = v] \in [Thread -> 1 .. MaxSlot + 1]
    BY <1>d DEF TypeOK
  <1>1. CASE get_dir_lock(t) \/ DirLock(t)
    BY <1>1 DEF get_dir_lock, DirLock, TypeOK, Goto
  <1>2. CASE lookup_unsynched(t)
    <2>1. sector' \in [Thread -> File \cup {NULL}]
      BY <1>2, EntryInUse DEF lookup_unsynched, TypeOK
    <2>2. ofs' \in [Thread -> 1 .. MaxSlot + 1]
      <3>1. \/ ofs' = [ofs EXCEPT ![t] = 1] \/ ofs' = ofs
            \/ ofs' = [ofs EXCEPT ![t] = ofs[t] + 1] /\ ofs[t] \in DOMAIN entries
        BY <1>2 DEF lookup_unsynched
      <3>2. ofs \in [Thread -> 1 .. MaxSlot + 1]
        BY DEF TypeOK
      <3>3. QED
        BY <1>b, <1>c, <1>d, <3>1, <3>2
    <2>3. QED
      BY <1>2, <2>1, <2>2 DEF lookup_unsynched, TypeOK, Goto
  <1>3. CASE LookupFound(t)
    BY <1>3 DEF LookupFound, At, TypeOK, Goto, CallOK
  <1>3a. CASE AddFound(t) \/ Absent(t) \/ RemoveOpen(t)
    BY <1>3a DEF AddFound, Absent, RemoveOpen, TypeOK, Goto
  <1>3b. CASE RemoveFound(t)
    BY <1>3b DEF RemoveFound, release_dir_lock, TypeOK, Goto
  <1>4. CASE Done(t)
    BY <1>4, ReturnType DEF Done, release_dir_lock, TypeOK
  <1>4a. CASE ReaddirEnd(t)
    <2>1. /\ pos' \in [Thread -> 1 .. MaxSlot + 1] /\ steady' \in [Thread -> SUBSET Name]
          /\ listed' \in [Thread -> Seq(Name)]
      BY <1>4a, <1>c, <1>d, SMTT(60) DEF ReaddirEnd, TypeOK
    <2>2. QED
      BY <1>4a, <2>1, ReturnType DEF ReaddirEnd, release_dir_lock, TypeOK
  <1>5. CASE subdir_create(t)
    <2>1. live' \subseteq File /\ sector' \in [Thread -> File \cup {NULL}]
      <3>1. live \subseteq File /\ sector \in [Thread -> File \cup {NULL}]
        BY DEF TypeOK
      <3>2. \/ \E f \in File : live' = live \cup {f} /\ sector' = [sector EXCEPT ![t] = f]
            \/ live' = live /\ sector' = sector
        BY <1>5 DEF subdir_create
      <3>3. QED
        BY <3>1, <3>2, SMTT(60)
    <2>2. QED
      BY <1>5, <2>1 DEF subdir_create, TypeOK, Goto
  <1>6. CASE FindSlot(t)
    <2>1. ofs' \in [Thread -> 1 .. MaxSlot + 1]
      <3>1. \/ ofs' = ofs
            \/ ofs' = [ofs EXCEPT ![t] = ofs[t] + 1] /\ ofs[t] \in DOMAIN entries
        BY <1>6 DEF FindSlot, InUse
      <3>2. ofs \in [Thread -> 1 .. MaxSlot + 1]
        BY DEF TypeOK
      <3>3. QED
        BY <1>b, <1>d, <3>1, <3>2
    <2>2. QED
      BY <1>6, <2>1 DEF FindSlot, TypeOK, Goto
  <1>7. CASE dir_add_unsynched(t)
    <2>1. pc[t] = "write" /\ pc' \in [Thread -> {"idle", "lock", "dir_lock", "alloc", "scan",
                    "found", "absent", "slot", "write", "open", "erase", "close", "end",
                    "done", "release_failed"}]
      BY <1>7 DEF dir_add_unsynched, At, Goto, TypeOK
    <2>2. /\ live' \subseteq File /\ entries' \in Seq(Entry) /\ Len(entries') <= MaxSlot
          /\ steady' \in [Thread -> SUBSET Name]
      <3>1. CASE ofs[t] <= MaxSlot
        <4>1. /\ Write(ofs[t], [in_use |-> TRUE, name |-> name[t], inode_sector |-> sector[t]])
              /\ live' = live
          BY <1>7, <1>a, <3>1, SMTT(60) DEF dir_add_unsynched
        <4>2. [in_use |-> TRUE, name |-> name[t], inode_sector |-> sector[t]] \in Entry
          BY <2>1 DEF CallOK, Entry
        <4>3. ofs[t] \in 1 .. MaxSlot /\ ofs[t] <= Len(entries) + 1
          BY <1>a, <2>1, <3>1, SMTT(60) DEF CallOK
        <4>4. QED
          BY <4>1, <4>2, <4>3, WriteEffect DEF TypeOK
      <3>2. CASE ofs[t] > MaxSlot
        BY <1>7, <1>a, <3>2, SMTT(60) DEF dir_add_unsynched, TypeOK
      <3>3. QED
        BY <1>a, <3>1, <3>2, SMTT(60)
    <2>3. QED
      BY <1>7, <2>1, <2>2 DEF dir_add_unsynched, TypeOK
  <1>8. CASE dir_remove(t)
    <2>1. pc[t] = "erase" /\ Write(ofs[t], Unused)
      BY <1>8 DEF dir_remove, At
    <2>2. ofs[t] \in 1 .. MaxSlot /\ ofs[t] <= Len(entries) + 1
      BY <1>a, <1>b, <2>1, SMTT(60) DEF CallOK, TypeOK
    <2>3. Unused \in Entry
      BY DEF Unused, Entry
    <2>4. /\ entries' \in Seq(Entry) /\ Len(entries') <= MaxSlot
          /\ steady' \in [Thread -> SUBSET Name]
      BY <2>1, <2>2, <2>3, WriteEffect
    <2>5. QED
      BY <1>8, <2>4 DEF dir_remove, TypeOK, Goto
  <1>9. CASE RemoveClose(t)
    BY <1>9, CloseType, SMTT(60) DEF RemoveClose, At, CallOK, TypeOK
  <1>10. CASE dir_readdir_2(t)
    <2>1. pos' \in [Thread -> 1 .. MaxSlot + 1]
      BY <1>10, <1>b, SMTT(60) DEF dir_readdir_2, TypeOK, InUse
    <2>2. listed' \in [Thread -> Seq(Name)]
      <3>1. listed \in [Thread -> Seq(Name)]
        BY DEF TypeOK
      <3>2. CASE listed' = listed
        BY <3>1, <3>2
      <3>3. CASE pos[t] \in InUse /\ listed' = [listed EXCEPT ![t] = Append(@, entries[pos[t]].name)]
        BY <3>1, <3>3, EntryInUse, SMTT(60)
      <3>4. QED
        BY <1>10, <3>2, <3>3 DEF dir_readdir_2
    <2>3. QED
      BY <1>10, <2>1, <2>2 DEF dir_readdir_2, TypeOK, Goto
  <1>11. CASE inode_close(t)
    BY <1>11, CloseType, SMTT(60) DEF inode_close, TypeOK
  <1>12. QED
    BY <1>1, <1>2, <1>3, <1>3a, <1>3b, <1>4, <1>4a, <1>5, <1>6, <1>7, <1>8, <1>9, <1>10, <1>11
       DEF Step

\* Every action keeps the locks: inode_dir_lock is taken and released under
\* inode_lock.
LEMMA LocksKept ==
  ASSUME TypeOK, LockInv, NEW t \in Thread, Call(t) \/ Step(t) \/ inode_close(t)
  PROVE  LockInv'
  <1> USE DirectoryAssumption
  <1>a. pc \in [Thread -> {"idle", "lock", "dir_lock", "alloc", "scan", "found",
                           "absent", "slot", "write", "open", "erase", "close",
                           "end", "done", "release_failed"}]
    BY DEF TypeOK
  <1>b. ASSUME NEW l, pc' = [pc EXCEPT ![t] = l], UNCHANGED <<inode_lock, inode_dir_lock>>,
               pc[t] # "dir_lock", l # "dir_lock", pc[t] \in Held <=> l \in Held
        PROVE  LockInv'
    BY <1>a, <1>b DEF LockInv
  <1>c. ASSUME NEW l, pc' = [pc EXCEPT ![t] = l], pc[t] \in Held, l \notin Held, l # "dir_lock",
               release_dir_lock
        PROVE  LockInv'
    BY <1>a, <1>c DEF LockInv, release_dir_lock, Held
  <1>1. CASE Call(t)
    BY <1>1, <1>b DEF Call, dir_lookup, mkdir, rmdir, readdir, Begin, At, Goto, Held
  <1>2. CASE get_dir_lock(t)
    BY <1>2, <1>a DEF get_dir_lock, At, Goto, InodeFree, LockInv, Held
  <1>3. CASE DirLock(t)
    BY <1>3, <1>a DEF DirLock, At, Goto, LockInv, Held
  <1>4. CASE lookup_unsynched(t) \/ FindSlot(t) \/ dir_readdir_2(t)
    BY <1>4, <1>a, <1>b DEF lookup_unsynched, FindSlot, dir_readdir_2, At, Goto, Held, LockInv
  <1>5. CASE LookupFound(t) \/ AddFound(t) \/ Absent(t) \/ subdir_create(t)
               \/ dir_add_unsynched(t) \/ RemoveOpen(t) \/ dir_remove(t)
    BY <1>5, <1>b DEF LookupFound, AddFound, Absent, subdir_create, dir_add_unsynched,
       RemoveOpen, dir_remove, At, Goto, Held
  <1>6. CASE RemoveFound(t) \/ Done(t) \/ ReaddirEnd(t)
    BY <1>6, <1>c DEF RemoveFound, Done, ReaddirEnd, Return, At, Goto, Held
  <1>7. CASE RemoveClose(t) \/ inode_close(t)
    BY <1>7, <1>b DEF RemoveClose, inode_close, Close, Return, At, Goto, Held
  <1>8. QED
    BY <1>1, <1>2, <1>3, <1>4, <1>5, <1>6, <1>7 DEF Step

-----------------------------------------------------------------------------
(* What the threads know                                                    *)

\* The locals of the other threads.
Others(t) ==
  \A u \in Thread \ {t} :
    /\ pc'[u] = pc[u] /\ op'[u] = op[u] /\ name'[u] = name[u] /\ sector'[u] = sector[u]
    /\ ofs'[u] = ofs[u] /\ pos'[u] = pos[u] /\ listed'[u] = listed[u]

\* A step that leaves the directory alone: only what its thread knows changes.
LEMMA QuietStep ==
  ASSUME IInv, NEW t \in Thread, TypeOK', LockInv', UNCHANGED entries, Others(t),
         \A u \in Thread \ {t} : steady'[u] = steady[u], CallOK(t)', ListOK(t)'
  PROVE  IInv'
  <1>1. UNCHANGED <<InUse, Names>>
    BY DEF InUse, Names
  <1>2. ASSUME NEW u \in Thread \ {t} PROVE CallOK(u)' /\ ListOK(u)'
    BY <1>1, <1>2, SMTT(60) DEF IInv, CallOK, ListOK, Others
  <1>3. NamesAreUnique'
    BY <1>1 DEF IInv, NamesAreUnique
  <1>4. QED
    BY <1>2, <1>3 DEF IInv

\* A step outside dir_readdir_2 that leaves the directory alone.
LEMMA NoListStep ==
  ASSUME IInv, NEW t \in Thread, TypeOK', LockInv', UNCHANGED <<entries, pos, steady, listed>>,
         Others(t), CallOK(t)', pc'[t] # "end"
  PROVE  IInv'
  <1>1. UNCHANGED <<InUse, Names>>
    BY DEF InUse, Names
  <1>2. ListOK(t)'
    BY <1>1 DEF IInv, ListOK
  <1>3. QED
    BY <1>2, QuietStep

\* The locals that a step of t assigns.
LEMMA OthersKept ==
  ASSUME TypeOK, NEW t \in Thread, Call(t) \/ Step(t) \/ inode_close(t)
  PROVE  Others(t)
  <1>a. /\ DOMAIN pc = Thread /\ DOMAIN op = Thread /\ DOMAIN name = Thread
        /\ DOMAIN sector = Thread /\ DOMAIN ofs = Thread /\ DOMAIN pos = Thread
        /\ DOMAIN listed = Thread
    BY DEF TypeOK
  <1>b. \/ UNCHANGED pc \/ \E v : pc' = [pc EXCEPT ![t] = v]
    BY DEF Call, dir_lookup, mkdir, rmdir, readdir, Begin, Step, get_dir_lock, DirLock,
       lookup_unsynched, LookupFound, AddFound, RemoveFound, Absent, Done, subdir_create,
       FindSlot, dir_add_unsynched, RemoveOpen, dir_remove, RemoveClose, dir_readdir_2,
       ReaddirEnd, inode_close, Close, Return, Goto
  <1>c. /\ UNCHANGED op \/ \E v : op' = [op EXCEPT ![t] = v]
        /\ UNCHANGED name \/ \E v : name' = [name EXCEPT ![t] = v]
    BY DEF Call, dir_lookup, mkdir, rmdir, readdir, Begin, Step, get_dir_lock, DirLock,
       lookup_unsynched, LookupFound, AddFound, RemoveFound, Absent, Done, subdir_create,
       FindSlot, dir_add_unsynched, RemoveOpen, dir_remove, RemoveClose, dir_readdir_2,
       ReaddirEnd, inode_close, Close, Return
  <1>d. /\ UNCHANGED sector \/ \E v : sector' = [sector EXCEPT ![t] = v]
        /\ UNCHANGED ofs \/ \E v : ofs' = [ofs EXCEPT ![t] = v]
    BY DEF Call, dir_lookup, mkdir, rmdir, readdir, Begin, Step, get_dir_lock, DirLock,
       lookup_unsynched, LookupFound, AddFound, RemoveFound, Absent, Done, subdir_create,
       FindSlot, dir_add_unsynched, RemoveOpen, dir_remove, RemoveClose, dir_readdir_2,
       ReaddirEnd, inode_close, Close, Return
  <1>e. /\ UNCHANGED pos \/ \E v : pos' = [pos EXCEPT ![t] = v]
        /\ UNCHANGED listed \/ \E v : listed' = [listed EXCEPT ![t] = v]
    BY DEF Call, dir_lookup, mkdir, rmdir, readdir, Begin, Step, get_dir_lock, DirLock,
       lookup_unsynched, LookupFound, AddFound, RemoveFound, Absent, Done, subdir_create,
       FindSlot, dir_add_unsynched, RemoveOpen, dir_remove, RemoveClose, dir_readdir_2,
       ReaddirEnd, inode_close
  <1>1. \A u \in Thread \ {t} : pc'[u] = pc[u]
    BY <1>a, <1>b
  <1>2. \A u \in Thread \ {t} : op'[u] = op[u] /\ name'[u] = name[u]
    BY <1>a, <1>c
  <1>3. \A u \in Thread \ {t} : sector'[u] = sector[u] /\ ofs'[u] = ofs[u]
    BY <1>a, <1>d
  <1>4. \A u \in Thread \ {t} : pos'[u] = pos[u] /\ listed'[u] = listed[u]
    BY <1>a, <1>e
  <1>5. QED
    BY <1>1, <1>2, <1>3, <1>4 DEF Others

\* The calls: the listing of a thread begins with the names that are there.
LEMMA CallKeeps ==
  ASSUME IInv, NEW t \in Thread, Call(t)
  PROVE  IInv'
  <1>1. TypeOK' /\ LockInv' /\ Others(t)
    BY CallType, LocksKept, OthersKept DEF IInv
  <1>2. /\ pc[t] = "idle" /\ pc'[t] = "lock" /\ ofs'[t] = ofs[t] /\ entries' = entries
        /\ pos' = pos /\ listed' = listed
    BY DEF Call, dir_lookup, mkdir, rmdir, readdir, Begin, At, Goto, IInv, TypeOK
  <1>3. op'[t] = "add" => name'[t] \in Name
    BY DEF Call, dir_lookup, mkdir, rmdir, readdir, Begin, IInv, TypeOK
  <1>4. CallOK(t)'
    BY <1>2, <1>3 DEF IInv, CallOK
  <1>5. CASE UNCHANGED steady
    BY <1>1, <1>2, <1>4, <1>5, NoListStep
  <1>6. CASE readdir(t) /\ pos[t] = 1
    <2>1. steady'[t] = Names /\ \A u \in Thread \ {t} : steady'[u] = steady[u]
      BY <1>6 DEF readdir, IInv, TypeOK
    <2>2. listed[t] = << >>
      BY <1>6 DEF IInv, ListOK
    <2>3. \A k \in InUse : k >= 1
      BY EntryInUse, SMTT(60) DEF IInv
    <2>4. UNCHANGED <<InUse, Names>>
      BY <1>2 DEF InUse, Names
    <2>5. ListOK(t)'
      <3>1. pos'[t] = 1 /\ listed'[t] = << >> /\ pc'[t] # "end" /\ steady'[t] = Names'
        BY <1>2, <1>6, <2>1, <2>2, <2>4
      <3>2. \A k \in InUse' : ~(k < 1)
        BY <2>3, <2>4, EntryInUse, SMTT(60) DEF IInv
      <3>3. \A n : HasNot(listed'[t], n)
        BY <3>1, SMTT(60) DEF HasNot
      <3>4. QED
        BY <3>1, <3>2, <3>3 DEF ListOK
    <2>6. QED
      BY <1>1, <1>2, <1>4, <2>1, <2>5, QuietStep
  <1>7. QED
    BY <1>5, <1>6 DEF Call, dir_lookup, mkdir, rmdir, readdir

\* The steps that leave the directory and the listings alone.
LEMMA SearchKeeps ==
  ASSUME IInv, NEW t \in Thread, Step(t) \/ inode_close(t),
         UNCHANGED <<entries, pos, steady, listed>>, ~dir_readdir_2(t), ~ReaddirEnd(t),
         ~dir_remove(t)
  PROVE  IInv'
  <1> USE DirectoryAssumption
  <1>a. TypeOK /\ CallOK(t)
    BY DEF IInv
  <1>b. TypeOK' /\ LockInv' /\ Others(t)
    BY StepType, LocksKept, OthersKept DEF IInv
  <1>c. UNCHANGED <<InUse, Names>>
    BY DEF InUse, Names
  <1>d. CallOK(t)' /\ pc'[t] # "end" => IInv'
    BY <1>b, NoListStep
  <1>e. ASSUME Return(t) PROVE CallOK(t)' /\ pc'[t] # "end"
    BY <1>a, <1>e DEF Return, Goto, TypeOK, CallOK
  <1>1. CASE get_dir_lock(t)
    BY <1>1, <1>a, <1>c, <1>d DEF get_dir_lock, At, Goto, TypeOK, CallOK
  <1>2. CASE DirLock(t)
    <2>1. /\ pc'[t] = (IF op[t] = "add" THEN "alloc" ELSE "scan") /\ ofs[t] = 1
          /\ UNCHANGED <<op, name, sector, ofs>>
      BY <1>2, <1>a DEF DirLock, At, Goto, TypeOK, CallOK
    <2>2. QED
      BY <1>a, <1>c, <1>d, <2>1 DEF CallOK
  <1>3. CASE lookup_unsynched(t)
    <2>1. /\ pc[t] = "scan" /\ UNCHANGED <<op, name>> /\ ofs[t] \in Nat \ {0}
          /\ op[t] = "add" => sector'[t] = sector[t]
      BY <1>3, <1>a, SMTT(60) DEF lookup_unsynched, At, TypeOK
    <2>2. CASE ofs[t] > Len(entries) /\ Goto(t, "absent") /\ ofs' = [ofs EXCEPT ![t] = 1]
      <3>1. pc'[t] = "absent" /\ ofs'[t] = 1
        BY <1>a, <2>2 DEF Goto, TypeOK
      <3>2. op[t] = "add" => name[t] \notin Names
        <4>1. \A k \in InUse : k < ofs[t]
          BY <1>a, <2>1, <2>2, EntryInUse, SMTT(60) DEF TypeOK
        <4>2. QED
          BY <1>a, <2>1, <4>1 DEF CallOK, Names
      <3>3. QED
        BY <1>a, <1>c, <1>d, <2>1, <3>1, <3>2 DEF CallOK
    <2>3. CASE /\ ofs[t] \in InUse /\ Goto(t, "found") /\ UNCHANGED ofs
               /\ sector' = IF op[t] = "add" THEN sector
                            ELSE [sector EXCEPT ![t] = entries[ofs[t]].inode_sector]
      <3>1. pc'[t] = "found" /\ ofs'[t] \in DOMAIN entries /\ sector'[t] \in File
        BY <1>a, <2>1, <2>3, EntryInUse DEF Goto, TypeOK, CallOK, InUse
      <3>2. QED
        BY <1>a, <1>c, <1>d, <2>1, <3>1 DEF CallOK
    <2>4. CASE /\ ~(ofs[t] \in InUse /\ entries[ofs[t]].name = name[t])
               /\ ofs' = [ofs EXCEPT ![t] = ofs[t] + 1] /\ UNCHANGED <<pc, sector>>
      <3>1. pc'[t] = "scan" /\ ofs'[t] = ofs[t] + 1
        BY <1>a, <2>1, <2>4 DEF TypeOK
      <3>2. op[t] = "add" => \A k \in InUse : k < ofs[t] + 1 => entries[k].name # name[t]
        <4>1. \A k \in InUse : k \in Nat /\ (k < ofs[t] + 1 => k < ofs[t] \/ k = ofs[t])
          BY <1>a, <2>1, EntryInUse, SMTT(60)
        <4>2. QED
          BY <1>a, <2>1, <2>4, <4>1 DEF CallOK
      <3>3. QED
        BY <1>a, <1>c, <1>d, <2>1, <2>4, <3>1, <3>2 DEF CallOK
    <2>5. QED
      BY <1>3, <2>2, <2>3, <2>4 DEF lookup_unsynched
  <1>4. CASE LookupFound(t) \/ AddFound(t)
    <2>1. pc'[t] = "done" /\ UNCHANGED <<op, name, sector, ofs>>
      BY <1>4, <1>a DEF LookupFound, AddFound, Goto, TypeOK
    <2>2. QED
      BY <1>a, <1>d, <2>1 DEF CallOK
  <1>5. CASE RemoveFound(t)
    <2>1. pc[t] = "found" /\ op[t] = "remove" /\ pc'[t] = "open" /\ UNCHANGED <<op, name, sector, ofs>>
      BY <1>5, <1>a DEF RemoveFound, At, Goto, TypeOK
    <2>2. QED
      BY <1>a, <1>c, <1>d, <2>1 DEF CallOK
  <1>6. CASE Absent(t)
    <2>1. /\ pc[t] = "absent" /\ pc'[t] = (IF op[t] = "add" THEN "slot" ELSE "done")
          /\ UNCHANGED <<op, name, sector, ofs>> /\ 1 <= Len(entries) + 1
      BY <1>6, <1>a, SMTT(60) DEF Absent, At, Goto, TypeOK
    <2>2. QED
      BY <1>a, <1>c, <1>d, <2>1 DEF CallOK
  <1>7. CASE Done(t)
    BY <1>7, <1>d, <1>e DEF Done
  <1>8. CASE subdir_create(t)
    <2>1. /\ pc[t] = "alloc" /\ UNCHANGED <<op, name, ofs>>
          /\ (pc'[t] = "scan" /\ sector'[t] \in File) \/ pc'[t] = "done"
      BY <1>8, <1>a DEF subdir_create, At, Goto, TypeOK
    <2>2. \A k \in InUse : ~(k < 1)
      BY <1>a, EntryInUse, SMTT(60)
    <2>3. QED
      BY <1>a, <1>c, <1>d, <2>1, <2>2 DEF CallOK
  <1>9. CASE FindSlot(t)
    <2>1. pc[t] = "slot" /\ UNCHANGED <<op, name, sector>>
      BY <1>9 DEF FindSlot, At
    <2>2. CASE ofs[t] \in InUse /\ ofs' = [ofs EXCEPT ![t] = @ + 1] /\ UNCHANGED pc
      <3>1. ofs'[t] <= Len(entries) + 1
        BY <1>a, <2>2, EntryInUse, SMTT(60) DEF TypeOK
      <3>2. QED
        BY <1>a, <1>c, <1>d, <2>1, <2>2, <3>1 DEF CallOK
    <2>3. CASE ofs[t] \notin InUse /\ Goto(t, "write") /\ UNCHANGED ofs
      <3>1. pc'[t] = "write"
        BY <1>a, <2>3 DEF TypeOK, Goto
      <3>2. QED
        BY <1>a, <1>c, <1>d, <2>1, <2>3, <3>1 DEF CallOK
    <2>4. QED
      BY <1>9, <2>2, <2>3 DEF FindSlot
  <1>10. CASE dir_add_unsynched(t)
    <2>1. pc'[t] = "done" /\ UNCHANGED <<op, name, sector, ofs>>
      BY <1>10, <1>a DEF dir_add_unsynched, Goto, TypeOK
    <2>2. QED
      BY <1>a, <1>d, <2>1 DEF CallOK
  <1>11. CASE RemoveOpen(t)
    <2>1. pc[t] = "open" /\ pc'[t] = "erase" /\ UNCHANGED <<op, name, sector, ofs>>
      BY <1>11, <1>a DEF RemoveOpen, At, Goto, TypeOK
    <2>2. QED
      BY <1>a, <1>c, <1>d, <2>1 DEF CallOK
  <1>12. CASE RemoveClose(t) \/ inode_close(t)
    <2>1. CASE Goto(t, "release_failed") /\ UNCHANGED <<op, name, sector, ofs>>
      BY <1>a, <1>d, <2>1 DEF CallOK, Goto, TypeOK
    <2>2. QED
      BY <1>12, <1>d, <1>e, <2>1 DEF RemoveClose, inode_close, Close
  <1>13. QED
    BY <1>1, <1>2, <1>3, <1>4, <1>5, <1>6, <1>7, <1>8, <1>9, <1>10, <1>11, <1>12 DEF Step

-----------------------------------------------------------------------------
(* The writes                                                               *)

\* dir_add_unsynched writes a slot that is not in use with a name that is not
\* there.
LEMMA AddEffect ==
  ASSUME IInv, NEW t \in Thread, dir_add_unsynched(t), ofs[t] <= MaxSlot
  PROVE  /\ ofs[t] \notin InUse /\ name[t] \notin Names
         /\ InUse' = InUse \cup {ofs[t]} /\ entries'[ofs[t]].name = name[t]
         /\ \A k \in InUse : entries'[k] = entries[k]
         /\ DOMAIN entries \subseteq DOMAIN entries'
         /\ \A u \in Thread : steady'[u] = steady[u] \cap Names'
  <1> DEFINE e == [in_use |-> TRUE, name |-> name[t], inode_sector |-> sector[t]]
  <1>1. TypeOK /\ CallOK(t) /\ pc[t] = "write" /\ Write(ofs[t], e)
    BY DirectoryAssumption, SMTT(60) DEF IInv, dir_add_unsynched, At, TypeOK
  <1>2. /\ ofs[t] \notin InUse /\ name[t] \notin Names /\ e \in Entry
        /\ ofs[t] \in 1 .. MaxSlot /\ ofs[t] <= Len(entries) + 1
    BY <1>1, DirectoryAssumption, SMTT(60) DEF CallOK, TypeOK, Entry
  <1> HIDE DEF e
  <1>3. /\ entries' \in Seq(Entry)
        /\ Len(entries') = IF ofs[t] > Len(entries) THEN ofs[t] ELSE Len(entries)
        /\ entries'[ofs[t]] = e
        /\ \A l \in DOMAIN entries : l # ofs[t] => entries'[l] = entries[l]
        /\ \A u \in Thread : steady'[u] = steady[u] \cap Names'
    BY <1>1, <1>2, WriteEffect
  <1>4. /\ entries \in Seq(Entry) /\ DOMAIN entries = 1 .. Len(entries) /\ Len(entries) \in Nat
        /\ DOMAIN entries' = 1 .. Len(entries')
    BY <1>1, <1>3, SMTT(60) DEF TypeOK
  <1>5. DOMAIN entries' = DOMAIN entries \cup {ofs[t]}
    BY <1>2, <1>3, <1>4, SMTT(60)
  <1>6. e.in_use /\ e.name = name[t]
    BY DEF e
  <1>7. InUse' = InUse \cup {ofs[t]}
    BY <1>3, <1>5, <1>6 DEF InUse
  <1>8. \A k \in InUse : entries'[k] = entries[k]
    BY <1>2, <1>3 DEF InUse
  <1>9. QED
    BY <1>2, <1>3, <1>5, <1>6, <1>7, <1>8

\* dir_remove clears one entry and leaves the others in place.
LEMMA RemoveEffect ==
  ASSUME IInv, NEW t \in Thread, dir_remove(t)
  PROVE  /\ InUse' = InUse \ {ofs[t]}
         /\ \A k \in InUse' : entries'[k] = entries[k]
         /\ \A k \in InUse : k # ofs[t] => entries'[k] = entries[k]
         /\ ~entries'[ofs[t]].in_use
         /\ DOMAIN entries' = DOMAIN entries /\ Len(entries') = Len(entries)
         /\ \A u \in Thread : steady'[u] = steady[u] \cap Names'
  <1>1. TypeOK /\ CallOK(t) /\ pc[t] = "erase" /\ Write(ofs[t], Unused) /\ Unused \in Entry
    BY DEF IInv, dir_remove, At, Unused, Entry
  <1>2. /\ entries \in Seq(Entry) /\ DOMAIN entries = 1 .. Len(entries) /\ Len(entries) \in Nat
        /\ Len(entries) <= MaxSlot /\ ofs[t] \in DOMAIN entries
    BY <1>1, SMTT(60) DEF CallOK, TypeOK
  <1>3. ofs[t] \in 1 .. MaxSlot /\ ofs[t] <= Len(entries) + 1 /\ ~(ofs[t] > Len(entries))
    BY <1>2, DirectoryAssumption, SMTT(60)
  <1>4. /\ entries' \in Seq(Entry) /\ Len(entries') = Len(entries) /\ entries'[ofs[t]] = Unused
        /\ \A l \in DOMAIN entries : l # ofs[t] => entries'[l] = entries[l]
        /\ \A u \in Thread : steady'[u] = steady[u] \cap Names'
    BY <1>1, <1>3, WriteEffect
  <1>5. DOMAIN entries' = DOMAIN entries
    BY <1>2, <1>4, SMTT(60)
  <1>6. ~Unused.in_use
    BY DEF Unused
  <1>7. InUse' = InUse \ {ofs[t]}
    BY <1>2, <1>4, <1>5, <1>6 DEF InUse
  <1>8. QED
    BY <1>4, <1>5, <1>6, <1>7 DEF InUse

\* A new entry: nobody else is inside inode_dir_lock, and nobody's listing has
\* the new name to return.
LEMMA AddKeeps ==
  ASSUME IInv, NEW t \in Thread, dir_add_unsynched(t), ofs[t] <= MaxSlot
  PROVE  IInv'
  <1>a. Step(t)
    BY DEF Step
  <1>b. TypeOK' /\ LockInv' /\ Others(t)
    BY <1>a, StepType, LocksKept, OthersKept DEF IInv
  <1>c. /\ pc[t] = "write" /\ pc'[t] = "done" /\ UNCHANGED <<op, name, sector, ofs, pos, listed>>
    BY DEF dir_add_unsynched, At, Goto, IInv, TypeOK
  <1>d. \A u \in Thread \ {t} : pc[u] \notin Held
    BY <1>c DEF IInv, LockInv, Held
  <1>e. Names' = Names \cup {name[t]}
    BY AddEffect, SMTT(60) DEF Names
  <1>1. NamesAreUnique'
    BY AddEffect, SMTT(60) DEF NamesAreUnique, IInv, Names
  <1>2. ASSUME NEW u \in Thread PROVE CallOK(u)'
    <2>1. CASE u = t
      BY <1>c, <2>1 DEF IInv, CallOK
    <2>2. CASE u # t
      <3>1. CallOK(u) /\ pc'[u] = pc[u] /\ pc[u] \notin Held
        BY <1>b, <1>d, <2>2 DEF IInv, Others
      <3>2. QED
        BY <1>c, <3>1, AddEffect DEF CallOK, Held
    <2>3. QED
      BY <2>1, <2>2
  <1>3. ASSUME NEW u \in Thread PROVE ListOK(u)'
    <2>1. ListOK(u) /\ steady'[u] = steady[u]
      BY <1>e, AddEffect DEF IInv, ListOK
    <2>2. pc'[u] # "end"
      BY <1>b, <1>c, <1>d DEF Others, Held
    <2>3. ASSUME NEW k \in InUse', entries'[k].name \in steady'[u]
          PROVE  k \in InUse /\ entries'[k] = entries[k]
      BY <2>1, <2>3, AddEffect DEF ListOK
    <2>4. QED
      BY <1>c, <1>e, <2>1, <2>2, <2>3 DEF ListOK
  <1>4. QED
    BY <1>b, <1>1, <1>2, <1>3 DEF IInv

\* An erased entry: the other threads may be anywhere, dir_remove does not have
\* inode_dir_lock.
LEMMA RemoveKeeps ==
  ASSUME IInv, NEW t \in Thread, dir_remove(t)
  PROVE  IInv'
  <1>a. Step(t)
    BY DEF Step
  <1>b. TypeOK' /\ LockInv' /\ Others(t)
    BY <1>a, StepType, LocksKept, OthersKept DEF IInv
  <1>c. /\ pc[t] = "erase" /\ pc'[t] = "close" /\ UNCHANGED <<op, name, sector, ofs, pos, listed>>
    BY DEF dir_remove, At, Goto, IInv, TypeOK
  <1>d. /\ InUse' \subseteq InUse /\ \A k \in InUse' : entries'[k] = entries[k]
        /\ DOMAIN entries' = DOMAIN entries /\ Len(entries') = Len(entries)
    BY RemoveEffect
  <1>e. Names' \subseteq Names
    BY <1>d DEF Names
  <1>1. NamesAreUnique'
    BY <1>d DEF NamesAreUnique, IInv
  <1>2. ASSUME NEW u \in Thread PROVE CallOK(u)'
    <2>1. CASE u = t
      BY <1>c, <2>1 DEF IInv, CallOK
    <2>2. CASE u # t
      <3>1. CallOK(u) /\ pc'[u] = pc[u]
        BY <1>b, <2>2 DEF IInv, Others
      <3>2. QED
        BY <1>c, <1>d, <1>e, <3>1 DEF CallOK
    <2>3. QED
      BY <2>1, <2>2
  <1>3. ASSUME NEW u \in Thread PROVE ListOK(u)'
    <2>1. ListOK(u) /\ steady'[u] = steady[u] \cap Names'
      BY RemoveEffect DEF IInv
    <2>2. pc'[u] = "end" => pc[u] = "end"
      BY <1>b, <1>c DEF Others
    <2>3. QED
      BY <1>c, <1>d, <2>1, <2>2 DEF ListOK
  <1>4. QED
    BY <1>b, <1>1, <1>2, <1>3 DEF IInv

-----------------------------------------------------------------------------
(* The listing                                                              *)

\* A name that is appended to a sequence without it is there once.
LEMMA AppendOnce ==
  ASSUME NEW S, NEW s \in Seq(S), NEW m \in S, NEW n
  PROVE  /\ HasNot(s, m) => HasOnce(Append(s, m), m)
         /\ n # m /\ HasNot(s, n) => HasNot(Append(s, m), n)
         /\ n # m /\ HasOnce(s, n) => HasOnce(Append(s, m), n)
  <1>1. /\ Len(s) \in Nat /\ DOMAIN s = 1 .. Len(s)
        /\ DOMAIN Append(s, m) = 1 .. Len(s) + 1
        /\ Append(s, m)[Len(s) + 1] = m
        /\ \A i \in 1 .. Len(s) : Append(s, m)[i] = s[i]
    BY SMTT(60)
  <1>2. DOMAIN Append(s, m) = DOMAIN s \cup {Len(s) + 1} /\ Len(s) + 1 \notin DOMAIN s
    BY <1>1, SMTT(60)
  <1>3. \A i \in DOMAIN s : Append(s, m)[i] = s[i]
    BY <1>1
  <1>4. Append(s, m)[Len(s) + 1] = m
    BY <1>1
  <1>5. QED
    BY <1>2, <1>3, <1>4 DEF HasNot, HasOnce

\* The count of a name that is there once.  (The library's theorem says the same,
\* but with it the provers would carry the whole library.)
LEMMA CardinalityOne == ASSUME NEW i PROVE Cardinality({i}) = 1
  <1> DEFINE Counts(CS) == CS = [T \in SUBSET {i} |->
                                   IF T = {} THEN 0 ELSE 1 + CS[T \ {CHOOSE x : x \in T}]]
             Count == [T \in SUBSET {i} |-> IF T = {} THEN 0 ELSE 1]
             C == CHOOSE CS : Counts(CS)
  <1>1. {i} \ {CHOOSE x : x \in {i}} = {} /\ \A T \in SUBSET {i} : T = {} \/ T = {i}
    OBVIOUS
  <1>2. Counts(Count)
    BY <1>1, SMTT(60)
  <1>3. Cardinality({i}) = C[{i}]
    BY DEF Cardinality
  <1> HIDE DEF Counts, Count
  <1>4. Counts(C)
    BY <1>2
  <1> HIDE DEF C
  <1>5. C[{}] = 0 /\ C[{i}] = 1 + C[{i} \ {CHOOSE x : x \in {i}}]
    BY <1>4 DEF Counts
  <1>6. QED
    BY <1>1, <1>3, <1>5, SMTT(60)

\* dir_readdir_2 moves past an entry, and returns its name if it is in use.
LEMMA ReaddirKeeps ==
  ASSUME IInv, NEW t \in Thread, dir_readdir_2(t)
  PROVE  IInv'
  <1>a. Step(t)
    BY DEF Step
  <1>b. TypeOK' /\ LockInv' /\ Others(t)
    BY <1>a, StepType, LocksKept, OthersKept DEF IInv
  <1>c. /\ pc[t] = "scan" /\ op[t] = "readdir" /\ UNCHANGED <<entries, op, name, sector, ofs, steady>>
        /\ TypeOK /\ CallOK(t) /\ ListOK(t) /\ pos[t] \in Nat \ {0}
        /\ listed[t] \in Seq(Name)
    BY SMTT(60) DEF dir_readdir_2, At, IInv, TypeOK
  <1>d. UNCHANGED <<InUse, Names>>
    BY <1>c DEF InUse, Names
  <1>e. pc'[t] \in {"scan", "end", "done"}
    BY <1>c DEF dir_readdir_2, Goto, TypeOK
  <1>f. CallOK(t)'
    BY <1>c, <1>d, <1>e DEF CallOK
  <1>g. \A k \in InUse : /\ k \in Nat
                         /\ k < pos[t] + 1 => k < pos[t] \/ k = pos[t]
                         /\ k >= pos[t] + 1 => k >= pos[t] /\ k # pos[t]
    BY <1>c, EntryInUse, SMTT(60)
  <1>1. CASE pos[t] > Len(entries) /\ UNCHANGED <<pos, listed>>
    <2>1. ListOK(t)'
      BY <1>c, <1>d, <1>1 DEF ListOK
    <2>2. QED
      BY <1>b, <1>c, <1>f, <2>1, QuietStep
  <1>2. CASE /\ pos[t] \in InUse /\ pos' = [pos EXCEPT ![t] = pos[t] + 1] /\ Goto(t, "done")
             /\ listed' = [listed EXCEPT ![t] = Append(@, entries[pos[t]].name)]
    <2> DEFINE m == entries[pos[t]].name
    <2>1. /\ pos'[t] = pos[t] + 1 /\ listed'[t] = Append(listed[t], m) /\ m \in Name
          /\ pos'[t] # 1 /\ pc'[t] = "done"
      BY <1>c, <1>2, EntryInUse, SMTT(60) DEF TypeOK, Goto
    <2>2. ASSUME NEW k \in InUse, entries[k].name \in steady[t]
          PROVE  /\ k < pos[t] + 1 => HasOnce(listed'[t], entries[k].name)
                 /\ k >= pos[t] + 1 => HasNot(listed'[t], entries[k].name)
      <3>1. CASE k = pos[t]
        <4>1. HasNot(listed[t], m)
          BY <1>c, <1>2, <2>2, <3>1, SMTT(60) DEF ListOK
        <4>2. HasOnce(listed'[t], m)
          BY <1>c, <2>1, <4>1, AppendOnce, SMTT(60)
        <4>3. QED
          BY <1>c, <3>1, <4>2, SMTT(60)
      <3>2. CASE k # pos[t]
        <4>1. entries[k].name # m
          BY <1>2, <3>2 DEF IInv, NamesAreUnique
        <4>2. /\ k < pos[t] => HasOnce(listed[t], entries[k].name)
              /\ k >= pos[t] => HasNot(listed[t], entries[k].name)
          BY <1>c, <2>2 DEF ListOK
        <4>3. /\ k < pos[t] => HasOnce(listed'[t], entries[k].name)
              /\ k >= pos[t] => HasNot(listed'[t], entries[k].name)
          BY <1>c, <2>1, <4>1, <4>2, AppendOnce, SMTT(60)
        <4>4. QED
          BY <1>g, <3>2, <4>3
      <3>3. QED
        BY <3>1, <3>2
    <2> HIDE DEF m
    <2>3. ListOK(t)'
      BY <1>c, <1>d, <2>1, <2>2 DEF ListOK
    <2>4. QED
      BY <1>b, <1>c, <1>f, <2>3, QuietStep
  <1>3. CASE /\ pos[t] \in DOMAIN entries \ InUse /\ pos' = [pos EXCEPT ![t] = pos[t] + 1]
             /\ UNCHANGED <<pc, listed>>
    <2>1. pos'[t] = pos[t] + 1 /\ pos'[t] # 1 /\ pc'[t] = "scan"
      BY <1>c, <1>3, SMTT(60) DEF TypeOK
    <2>2. \A k \in InUse : /\ k < pos[t] + 1 => k < pos[t]
                           /\ k >= pos[t] + 1 => k >= pos[t]
      BY <1>g, <1>3
    <2>3. ListOK(t)'
      BY <1>c, <1>d, <1>3, <2>1, <2>2 DEF ListOK
    <2>4. QED
      BY <1>b, <1>c, <1>f, <2>3, QuietStep
  <1>4. QED
    BY <1>1, <1>2, <1>3 DEF dir_readdir_2

\* The listing ends, and the caller closes the directory.
LEMMA EndKeeps ==
  ASSUME IInv, NEW t \in Thread, ReaddirEnd(t)
  PROVE  IInv'
  <1>a. Step(t)
    BY DEF Step
  <1>b. TypeOK' /\ LockInv' /\ Others(t)
    BY <1>a, StepType, LocksKept, OthersKept DEF IInv
  <1>1. /\ pc'[t] = "idle" /\ op'[t] = "lookup" /\ ofs'[t] = 1 /\ pos'[t] = 1
        /\ steady'[t] = {} /\ listed'[t] = << >> /\ entries' = entries
        /\ \A u \in Thread \ {t} : steady'[u] = steady[u]
    BY DEF ReaddirEnd, Return, Goto, IInv, TypeOK
  <1>2. CallOK(t)' /\ ListOK(t)'
    BY <1>1 DEF CallOK, ListOK
  <1>3. QED
    BY <1>b, <1>1, <1>2, QuietStep

-----------------------------------------------------------------------------
(* The theorems                                                             *)

\* The invariant holds in the empty directory.
LEMMA InitIInv == Init => IInv
  <1> SUFFICES ASSUME Init PROVE IInv
    OBVIOUS
  <1> USE DirectoryAssumption
  <1>1. InUse = {}
    BY SMTT(60) DEF Init, InUse
  <1>2. TypeOK
    BY SMTT(60) DEF Init, TypeOK
  <1>3. LockInv
    BY DEF Init, LockInv, Held
  <1>4. NamesAreUnique /\ \A t \in Thread : CallOK(t) /\ ListOK(t)
    BY <1>1 DEF Init, NamesAreUnique, CallOK, ListOK
  <1>5. QED
    BY <1>2, <1>3, <1>4 DEF IInv

\* Which steps write the directory.
LEMMA StepKeeps ==
  ASSUME IInv, NEW t \in Thread, Step(t) \/ inode_close(t)
  PROVE  IInv'
  <1>1. CASE dir_add_unsynched(t) /\ ofs[t] <= MaxSlot
    BY <1>1, AddKeeps
  <1>2. CASE dir_remove(t)
    BY <1>2, RemoveKeeps
  <1>3. CASE dir_readdir_2(t)
    BY <1>3, ReaddirKeeps
  <1>4. CASE ReaddirEnd(t)
    BY <1>4, EndKeeps
  <1>5. CASE UNCHANGED <<entries, pos, steady, listed>>
    BY <1>2, <1>3, <1>4, <1>5, SearchKeeps
  <1>6. QED
    BY <1>1, <1>2, <1>3, <1>4, <1>5 DEF Step, get_dir_lock, DirLock, lookup_unsynched,
       LookupFound, AddFound, RemoveFound, Absent, Done, subdir_create, FindSlot,
       dir_add_unsynched, RemoveOpen, RemoveClose, inode_close

\* Every step keeps the invariant.
LEMMA NextIInv == IInv /\ [Next]_vars => IInv'
  <1> SUFFICES ASSUME IInv, [Next]_vars PROVE IInv'
    OBVIOUS
  <1>1. CASE UNCHANGED vars
    <2>1. /\ UNCHANGED <<entries, live, removed, inode_lock, inode_dir_lock, pc, op, name>>
          /\ UNCHANGED <<sector, ofs, pos, opened, steady, listed>>
      BY <1>1 DEF vars
    <2>2. TypeOK' /\ LockInv' /\ NamesAreUnique'
      BY <2>1 DEF IInv, TypeOK, LockInv, NamesAreUnique, InUse
    <2>3. ASSUME NEW t \in Thread PROVE CallOK(t)' /\ ListOK(t)'
      BY <2>1, SMTT(60) DEF IInv, CallOK, ListOK, InUse, Names
    <2>4. QED
      BY <2>2, <2>3 DEF IInv
  <1>2. QED
    BY <1>1, CallKeeps, StepKeeps DEF Next

\* The invariant holds in every state: which thread is inside which lock, what
\* dir_add_unsynched and dir_remove know of the entry at ofs, and what of a
\* listing has been returned.
THEOREM Invariance == Spec => []IInv
  BY InitIInv, NextIInv, PTL DEF Spec

\* No name is in the directory twice, for any number of threads that add and
\* remove names: inode_dir_lock covers the search of dir_add_unsynched and its
\* write.
THEOREM UniqueNames == Spec => []NamesAreUnique
  <1>1. IInv => NamesAreUnique
    BY DEF IInv
  <1>2. QED
    BY <1>1, Invariance, PTL

\* A listing with dir_readdir_2 returns each name that stays in the directory
\* from its first call to its last exactly once.
THEOREM ListingIsComplete == Spec => []ReaddirComplete
  <1>1. IInv => ReaddirComplete
    <2>1. SUFFICES ASSUME IInv, NEW t \in Thread, pc[t] = "end", NEW n \in steady[t]
                   PROVE  Cardinality({k \in DOMAIN listed[t] : listed[t][k] = n}) = 1
      BY DEF ReaddirComplete
    <2>2. PICK k \in InUse : entries[k].name = n
      BY <2>1 DEF IInv, ListOK, Names
    <2>3. k \in 1 .. Len(entries)
      BY <2>1, EntryInUse DEF IInv
    <2>4. Len(entries) \in Nat /\ pos[t] \in Nat /\ pos[t] > Len(entries)
      BY <2>1, SMTT(60) DEF IInv, TypeOK, ListOK
    <2>5. k < pos[t]
      BY ONLY <2>3, <2>4, SMTT(60)
    <2>6. HasOnce(listed[t], n)
      BY <2>1, <2>2, <2>5 DEF IInv, ListOK
    <2>7. PICK i \in DOMAIN listed[t] : {j \in DOMAIN listed[t] : listed[t][j] = n} = {i}
      BY <2>6 DEF HasOnce
    <2>8. QED
      BY <2>7, CardinalityOne
  <1>2. QED
    BY <1>1, Invariance, PTL

\* No add replaces an entry in use: the slot that dir_add_unsynched found free
\* is still free when it is written.  An entry in use only changes by the erase
\* of a dir_remove, without inode_dir_lock, in the slot where it found its name.
THEOREM EntriesChangeByErase == Spec => AddOverwritesNothing
  <1> DEFINE Erased(k) == \E u \in Thread : pc[u] = "erase" /\ pc'[u] = "close" /\ ofs[u] = k
  <1>1. IInv /\ [Next]_vars =>
          [\A k \in InUse :
             entries'[k] # entries[k] =>
               /\ ~entries'[k].in_use
               /\ \E t \in Thread : pc[t] = "erase" /\ pc'[t] = "close" /\ ofs[t] = k]_vars
    <2>1. SUFFICES ASSUME IInv, NEW t \in Thread, Call(t) \/ inode_close(t) \/ Step(t),
                          NEW k \in InUse, entries'[k] # entries[k]
                   PROVE  ~entries'[k].in_use /\ Erased(k)
      BY DEF Next
    <2>2. CASE entries' = entries
      BY <2>1, <2>2
    <2>3. CASE dir_add_unsynched(t) /\ ofs[t] <= MaxSlot
      BY <2>1, <2>3, AddEffect
    <2>4. CASE dir_remove(t)
      <3>1. k = ofs[t] /\ ~entries'[k].in_use
        BY <2>1, <2>4, RemoveEffect
      <3>2. pc[t] = "erase" /\ pc'[t] = "close"
        BY <2>1, <2>4 DEF IInv, TypeOK, dir_remove, At, Goto
      <3>3. QED
        BY <3>1, <3>2
    <2>5. QED
      BY <2>1, <2>2, <2>3, <2>4 DEF Call, dir_lookup, mkdir, rmdir, readdir, Begin, Step,
         get_dir_lock, DirLock, lookup_unsynched, LookupFound, AddFound, RemoveFound, Absent,
         Done, subdir_create, FindSlot, dir_add_unsynched, RemoveOpen, RemoveClose,
         dir_readdir_2, ReaddirEnd, inode_close
  <1>2. QED
    BY <1>1, Invariance, PTL DEF Spec, AddOverwritesNothing
=============================================================================
