-------------------------------- MODULE Inode --------------------------------
(***************************************************************************)
(* The blocks of files: the free map (filesys/free-map.c), and how         *)
(* filesys/inode.c creates, extends, writes and frees an inode.            *)
(*                                                                         *)
(* Sectors are read and written through the buffer cache, which behaves as *)
(* SectorStore says.  A sector is its words.  An inode holds its length in *)
(* word 0, then the direct pointers and the single and the double indirect *)
(* pointer; an index block holds pointers; 0 is the null pointer.  Whoever *)
(* extends, writes or closes an inode holds its inode_lock.  Another       *)
(* thread sees the free map between any two calls that change it.          *)
(***************************************************************************)
EXTENDS Integers, Sequences, FiniteSetsExt

CONSTANTS Thread,
          Kind,         \* which of "file", "dir" are created
          Sectors,      \* block_size (fs_device)
          SectorSize,   \* BLOCK_SECTOR_SIZE, in bytes
          NumDirect,    \* NUM_DIRECT_PTRS
          Data,         \* the word that user programs write
          Length,       \* offsets and sizes of calls, in bytes
          MaxCreate,    \* calls of filesys_create_2 in a behaviour
          MaxRemove     \* calls of filesys_remove in a behaviour

ASSUME InodeAssumption ==
  /\ Sectors \in Nat /\ SectorSize \in Nat \ {0} /\ NumDirect \in Nat
  /\ Data \in 1 .. Sectors - 1 /\ Length \subseteq Nat
  /\ Kind \subseteq {"file", "dir"}
  /\ MaxCreate \in Nat /\ MaxRemove \in Nat

Sector == 0 .. Sectors - 1

\* Words 0 .. Single - 1 are the length and the direct pointers.
Single == NumDirect + 1
Double == NumDirect + 2
Word == 0 .. NumDirect + 2
Indirect == NumDirect + 3  \* Indirect_Block, the pointers of an index block

VARIABLES
  free_map,  \* the sectors in use
  disk,
  files,     \* the inodes that a directory entry names
  dirs,      \* those of them that are directories
  pc,
  op,        \* which call the thread is in
  inode,     \* the inode it works on
  offset,    \* its arguments
  size,
  got,       \* sectors of can_allocate
  i,         \* the block to install or to free next
  end,       \* the block after the last one to install
  sec,       \* the data sector that install_sector has allocated
  id,        \* the number of the file that the thread works on
  owner,     \* the number of the file a sector is part of, or 0
  written,   \* the blocks that programs have written, as <<inode, block>>
  creates, removes

locals == <<op, inode, offset, size, got, i, end, sec, id>>
vars == <<free_map, disk, files, dirs, pc, locals, owner, written, creates, removes>>

TypeOK ==
  /\ free_map \subseteq Sector /\ files \subseteq Sector /\ dirs \subseteq files
  /\ disk \in [Sector -> [Word -> Nat]]
  /\ pc \in [Thread -> {"idle", "can", "give", "give_fail", "install", "link",
                        "data", "add", "freeing", "alloc_failed", "release_failed",
                        "map_failed"}]
  /\ op \in [Thread -> {"create", "mkdir", "write", "close"}]
  /\ inode \in [Thread -> Sector]
  /\ offset \in [Thread -> Nat] /\ size \in [Thread -> Nat]
  /\ got \in [Thread -> Seq(Sector)]
  /\ i \in [Thread -> Nat] /\ end \in [Thread -> Nat]
  /\ sec \in [Thread -> Sector]
  /\ id \in [Thread -> 0 .. MaxCreate] /\ owner \in [Sector -> 0 .. MaxCreate]
  /\ written \subseteq Sector \X Nat
  /\ creates \in 0 .. MaxCreate /\ removes \in 0 .. MaxRemove

\* The free map and the root directory have their sectors, 0 and 1.
Init ==
  /\ free_map = {0, 1}
  /\ disk = [s \in Sector |-> [w \in Word |-> 0]]
  /\ files = {} /\ dirs = {}
  /\ pc = [t \in Thread |-> "idle"]
  /\ op = [t \in Thread |-> "create"]
  /\ inode = [t \in Thread |-> 0]
  /\ offset = [t \in Thread |-> 0] /\ size = [t \in Thread |-> 0]
  /\ got = [t \in Thread |-> <<>>]
  /\ i = [t \in Thread |-> 0] /\ end = [t \in Thread |-> 0]
  /\ sec = [t \in Thread |-> 0]
  /\ id = [t \in Thread |-> 0]
  /\ owner = [s \in Sector |-> 0]
  /\ written = {}
  /\ creates = 0 /\ removes = 0

\* A failed ASSERT panics.
Halted == \E t \in Thread : pc[t] \in {"alloc_failed", "release_failed", "map_failed"}

At(t, l) == ~Halted /\ pc[t] = l
Goto(t, l) == pc' = [pc EXCEPT ![t] = l]

Zero == [w \in Word |-> 0]

-----------------------------------------------------------------------------
(* The block map of an inode                                                *)

bytes_to_sectors(n) == (n + SectorSize - 1) \div SectorSize

\* C rounds -1 / SectorSize to 0.
bytes_to_sector_index(n) == IF n < 0 THEN 0 ELSE n \div SectorSize

length(s) == disk[s][0]

\* The <<sector, word>> that holds the pointer to block k of the inode in s,
\* when the index blocks on the way to it are there, and the <<sector, word>>
\* of the first null index pointer on the way when one is not.
PtrAt(s, k) ==
  LET n == k - NumDirect - Indirect
      double == disk[s][Double] IN
  CASE k < NumDirect -> <<s, k + 1>>
    [] k >= NumDirect /\ n < 0 ->
         IF disk[s][Single] = 0 THEN <<s, Single>>
         ELSE <<disk[s][Single], k - NumDirect>>
    [] OTHER ->
         IF double = 0 THEN <<s, Double>>
         ELSE IF disk[double][n \div Indirect] = 0 THEN <<double, n \div Indirect>>
         ELSE <<disk[double][n \div Indirect], n % Indirect>>

\* An index block on the way to block k is missing.
IndexMissing(s, k) ==
  LET n == k - NumDirect - Indirect
      double == disk[s][Double] IN
  \/ k >= NumDirect /\ n < 0 /\ disk[s][Single] = 0
  \/ n >= 0 /\ (double = 0 \/ disk[double][n \div Indirect] = 0)

\* The sector of block k, or 0.
byte_to_sector(s, k) == disk[PtrAt(s, k)[1]][PtrAt(s, k)[2]]

SetWord(at, value) == [disk EXCEPT ![at[1]][at[2]] = value]

-----------------------------------------------------------------------------
(* The free map                                                             *)

\* Mutant: the bit is not flipped.
free_map_allocate_unmarked(s) ==
  /\ s \in Sector \ free_map
  /\ \A r \in Sector \ free_map : s <= r
  /\ UNCHANGED free_map

\* free_map_allocate: bitmap_scan_and_flip takes the first free sector.
free_map_allocate(s) ==
  /\ s \in Sector \ free_map
  /\ \A r \in Sector \ free_map : s <= r
  /\ free_map' = free_map \cup {s}

Full == free_map = Sector

free_map_release(s) == free_map' = free_map \ {s}

\* The locals of a call that has returned are dead.
Return(t) ==
  /\ Goto(t, "idle")
  /\ op' = [op EXCEPT ![t] = "create"]
  /\ inode' = [inode EXCEPT ![t] = 0]
  /\ offset' = [offset EXCEPT ![t] = 0]
  /\ size' = [size EXCEPT ![t] = 0]
  /\ got' = [got EXCEPT ![t] = <<>>]
  /\ i' = [i EXCEPT ![t] = 0]
  /\ end' = [end EXCEPT ![t] = 0]
  /\ sec' = [sec EXCEPT ![t] = 0]
  /\ id' = [id EXCEPT ![t] = 0]

-----------------------------------------------------------------------------
(* can_allocate                                                             *)

Creating(t) == op[t] \in {"create", "mkdir"}

\* The sectors that the call still has to install.
need(t) == end[t] - i[t]

can_allocate(t) ==
  /\ At(t, "can")
  /\ \/ /\ Len(got[t]) < need(t)
        /\ \E s \in Sector :
             /\ free_map_allocate(s)
             /\ disk' = [disk EXCEPT ![s] = Zero]
             /\ got' = [got EXCEPT ![t] = Append(@, s)]
        /\ UNCHANGED pc
     \/ /\ Len(got[t]) < need(t) /\ Full
        /\ Goto(t, "give_fail")
        /\ UNCHANGED <<free_map, disk, got>>
     \/ /\ Len(got[t]) = need(t)
        /\ Goto(t, "give")
        /\ UNCHANGED <<free_map, disk, got>>
  /\ UNCHANGED <<files, dirs, op, inode, offset, size, i, end, sec, id,
                 owner, written, creates, removes>>

\* It gives the sectors back, all but the first.
GiveBack(t) ==
  /\ At(t, "give") \/ At(t, "give_fail")
  /\ Len(got[t]) > 1
  /\ free_map_release(got[t][Len(got[t])])
  /\ got' = [got EXCEPT ![t] = SubSeq(@, 1, Len(@) - 1)]
  /\ UNCHANGED <<disk, files, dirs, pc, op, inode, offset, size, i, end, sec, id,
                 owner, written, creates, removes>>

\* inode_create_wild then writes the length; it leaves the pointers of the
\* sector as they are.
CanAllocate(t) ==
  /\ At(t, "give") /\ Len(got[t]) <= 1
  /\ disk' = IF Creating(t) THEN SetWord(<<inode[t], 0>>, size[t]) ELSE disk
  /\ got' = [got EXCEPT ![t] = <<>>]
  /\ Goto(t, "install")
  /\ UNCHANGED <<free_map, files, dirs, op, inode, offset, size, i, end, sec, id,
                 owner, written, creates, removes>>

\* filesys_create_2 gives the sector of the inode back; inode_write_at goes on
\* to write within the length the file has.
CannotAllocate(t) ==
  /\ At(t, "give_fail") /\ Len(got[t]) <= 1
  /\ \/ /\ Creating(t)
        /\ free_map_release(inode[t])
        /\ owner' = [owner EXCEPT ![inode[t]] = 0]
        /\ Return(t)
     \/ /\ op[t] = "write"
        /\ got' = [got EXCEPT ![t] = <<>>]
        /\ Goto(t, "data")
        /\ UNCHANGED <<free_map, owner, op, inode, offset, size, i, end, sec, id>>
  /\ UNCHANGED <<disk, files, dirs, written, creates, removes>>

-----------------------------------------------------------------------------
(* install_sector                                                           *)

\* Its ASSERT (get_sector (&sec)) panics when the disk is full.
GetSectorFails(t) ==
  /\ Full
  /\ Goto(t, "alloc_failed")
  /\ UNCHANGED <<free_map, disk, owner, sec>>

install_sector(t) ==
  /\ At(t, "install") /\ i[t] < end[t]
  /\ \/ \E s \in Sector :
          /\ free_map_allocate(s)
          /\ disk' = [disk EXCEPT ![s] = Zero]
          /\ owner' = [owner EXCEPT ![s] = id[t]]
          /\ sec' = [sec EXCEPT ![t] = s]
          /\ Goto(t, "link")
     \/ GetSectorFails(t)
  /\ UNCHANGED <<files, dirs, op, inode, offset, size, got, i, end, id,
                 written, creates, removes>>

\* It allocates the index blocks that are missing.
InstallIndex(t) ==
  /\ At(t, "link") /\ IndexMissing(inode[t], i[t])
  /\ \/ \E s \in Sector :
          /\ free_map_allocate(s)
          /\ disk' = [SetWord(PtrAt(inode[t], i[t]), s) EXCEPT ![s] = Zero]
          /\ owner' = [owner EXCEPT ![s] = id[t]]
          /\ UNCHANGED <<pc, sec>>
     \/ GetSectorFails(t)
  /\ UNCHANGED <<files, dirs, op, inode, offset, size, got, i, end, id,
                 written, creates, removes>>

InstallLink(t) ==
  /\ At(t, "link") /\ ~IndexMissing(inode[t], i[t])
  /\ disk' = SetWord(PtrAt(inode[t], i[t]), sec[t])
  /\ i' = [i EXCEPT ![t] = @ + 1]
  /\ sec' = [sec EXCEPT ![t] = 0]
  /\ Goto(t, "install")
  /\ UNCHANGED <<free_map, files, dirs, op, inode, offset, size, got, end, id,
                 owner, written, creates, removes>>

\* Mutant: the loop stops one sector early.
Installed_early(t) ==
  /\ At(t, "install") /\ i[t] + 1 >= end[t]
  /\ \/ /\ Creating(t)
        /\ Goto(t, "add")
        /\ UNCHANGED disk
     \/ /\ op[t] = "write"
        /\ disk' = SetWord(<<inode[t], 0>>, offset[t] + size[t])
        /\ Goto(t, "data")
  /\ UNCHANGED <<free_map, files, dirs, locals, owner, written, creates, removes>>

\* inode_extend_to_bytes sets the length after the sectors are there.
Installed(t) ==
  /\ At(t, "install") /\ i[t] = end[t]
  /\ \/ /\ Creating(t)
        /\ Goto(t, "add")
        /\ UNCHANGED disk
     \/ /\ op[t] = "write"
        /\ disk' = SetWord(<<inode[t], 0>>, offset[t] + size[t])
        /\ Goto(t, "data")
  /\ UNCHANGED <<free_map, files, dirs, locals, owner, written, creates, removes>>

-----------------------------------------------------------------------------
(* The calls                                                                *)

\* Nobody has the inode_lock of the inode in s.  (A thread that still frees the
\* blocks of a removed inode has that one's lock.)
Unlocked(s) ==
  \A t \in Thread : pc[t] # "idle" /\ op[t] # "close" => inode[t] # s

\* filesys_create_2 and subdir_create take a sector for the inode; when there
\* is none they return false and change nothing.  A directory is created with
\* room for two entries, never empty.
filesys_create_2(t, n, kind) ==
  /\ At(t, "idle") /\ creates < MaxCreate
  /\ kind = "dir" => n > 0
  /\ \E s \in Sector :
       /\ free_map_allocate(s)
       /\ inode' = [inode EXCEPT ![t] = s]
       /\ owner' = [owner EXCEPT ![s] = creates + 1]
       /\ written' = {b \in written : b[1] # s}
  /\ creates' = creates + 1
  /\ id' = [id EXCEPT ![t] = creates + 1]
  /\ op' = [op EXCEPT ![t] = IF kind = "dir" THEN "mkdir" ELSE "create"]
  /\ size' = [size EXCEPT ![t] = n]
  /\ end' = [end EXCEPT ![t] = bytes_to_sectors(n)]
  /\ Goto(t, "can")
  /\ UNCHANGED <<disk, files, dirs, offset, got, i, sec, removes>>

\* dir_add succeeds, or it fails and the sector of the inode is given back; the
\* blocks stay allocated and are part of no file.
dir_add(t) ==
  /\ At(t, "add")
  /\ \/ /\ files' = files \cup {inode[t]}
        /\ dirs' = IF op[t] = "mkdir" THEN dirs \cup {inode[t]} ELSE dirs
        /\ UNCHANGED <<free_map, owner>>
     \/ /\ free_map_release(inode[t])
        /\ owner' = [s \in Sector |-> IF owner[s] = id[t] THEN 0 ELSE owner[s]]
        /\ UNCHANGED <<files, dirs>>
  /\ Return(t)
  /\ UNCHANGED <<disk, written, creates, removes>>

\* inode_extend_to_bytes decides how many sectors the inode needs.
inode_write_at(t, s, ofs, n) ==
  LET from == bytes_to_sector_index(length(s) - 1)
      to == bytes_to_sector_index(ofs + n - 1)
      extends == length(s) = 0 \/ from < to IN
  /\ At(t, "idle") /\ s \in files /\ Unlocked(s)
  /\ op' = [op EXCEPT ![t] = "write"]
  /\ inode' = [inode EXCEPT ![t] = s]
  /\ id' = [id EXCEPT ![t] = owner[s]]
  /\ offset' = [offset EXCEPT ![t] = ofs]
  /\ size' = [size EXCEPT ![t] = n]
  /\ i' = [i EXCEPT ![t] = IF ~extends \/ length(s) = 0 THEN 0 ELSE from + 1]
  /\ end' = [end EXCEPT ![t] = IF extends THEN to + 1 ELSE 0]
  /\ disk' = IF ~extends /\ length(s) < ofs + n THEN SetWord(<<s, 0>>, ofs + n) ELSE disk
  /\ Goto(t, IF extends THEN "can" ELSE "data")
  /\ UNCHANGED <<free_map, files, dirs, got, sec, owner, written, creates, removes>>

\* The blocks that the loop of inode_write_at writes.
Touched(t) ==
  LET last == Min({offset[t] + size[t], length(inode[t])}) IN
  IF offset[t] < last
  THEN bytes_to_sector_index(offset[t]) .. bytes_to_sector_index(last - 1)
  ELSE {}

\* Mutant: the loop does not advance to the next block.
WriteBlocks_stuck(t) ==
  LET first == byte_to_sector(inode[t], Min(Touched(t))) IN
  /\ At(t, "data") /\ Touched(t) # {}
  /\ disk' = [disk EXCEPT ![first] = [w \in Word |-> Data]]
  /\ written' = written \cup {<<inode[t], k>> : k \in Touched(t)}
  /\ Return(t)
  /\ UNCHANGED <<free_map, files, dirs, owner, creates, removes>>

\* The loop; byte_to_sector asserts that a block below the length has a sector.
WriteBlocks(t) ==
  LET sector(k) == byte_to_sector(inode[t], k)
      at == {sector(k) : k \in Touched(t)} IN
  /\ At(t, "data")
  /\ \/ /\ 0 \notin at
        /\ disk' = [s \in Sector |-> IF s \in at THEN [w \in Word |-> Data] ELSE disk[s]]
        /\ written' = written \cup {<<inode[t], k>> : k \in Touched(t)}
        /\ Return(t)
     \/ /\ 0 \in at
        /\ Goto(t, "map_failed")
        /\ UNCHANGED <<disk, locals, written>>
  /\ UNCHANGED <<free_map, files, dirs, owner, creates, removes>>

\* deny_write_cnt is positive: the inode has been extended all the same.
WriteDenied(t) ==
  /\ At(t, "data")
  /\ Return(t)
  /\ UNCHANGED <<free_map, disk, files, dirs, owner, written, creates, removes>>

\* filesys_remove of a file leaves the inode that get_inode_from_path opened
\* open, so inode_close never frees it.
RemoveFile(t, s) ==
  /\ At(t, "idle") /\ s \in files \ dirs /\ Unlocked(s) /\ removes < MaxRemove
  /\ removes' = removes + 1
  /\ files' = files \ {s}
  /\ UNCHANGED <<free_map, disk, dirs, pc, locals, owner, written, creates>>

\* filesys_remove of a directory that nobody has open: inode_close frees the
\* sector of the inode first.
RemoveDir(t, s) ==
  /\ At(t, "idle") /\ s \in dirs /\ Unlocked(s) /\ removes < MaxRemove
  /\ removes' = removes + 1
  /\ files' = files \ {s} /\ dirs' = dirs \ {s}
  /\ op' = [op EXCEPT ![t] = "close"]
  /\ inode' = [inode EXCEPT ![t] = s]
  /\ id' = [id EXCEPT ![t] = owner[s]]
  /\ \/ /\ s \in free_map
        /\ free_map_release(s)
        /\ owner' = [owner EXCEPT ![s] = 0]
        /\ Goto(t, "freeing")
     \/ /\ s \notin free_map
        /\ Goto(t, "release_failed")
        /\ UNCHANGED <<free_map, owner>>
  /\ UNCHANGED <<disk, offset, size, got, i, end, sec, written, creates>>

\* Mutant: a null pointer does not stop the loop.
inode_close_null(t) ==
  LET s == byte_to_sector(inode[t], i[t]) IN
  /\ At(t, "freeing") /\ i[t] < NumDirect + Indirect + Indirect * Indirect
  /\ s \in free_map
  /\ free_map_release(s)
  /\ owner' = [owner EXCEPT ![s] = 0]
  /\ i' = [i EXCEPT ![t] = @ + 1]
  /\ UNCHANGED <<disk, files, dirs, pc, op, inode, offset, size, got, end, sec, id,
                 written, creates, removes>>

\* Then it follows the pointers, reading them from the sector it has given
\* back, and stops at a null pointer: among the direct ones, in the single
\* indirect block, and for good in the double indirect one (clear_data).
inode_close(t) ==
  LET k == i[t]
      last == NumDirect + Indirect + Indirect * Indirect
      null == IndexMissing(inode[t], k) \/ byte_to_sector(inode[t], k) = 0
      s == byte_to_sector(inode[t], k) IN
  /\ At(t, "freeing") /\ k < last
  /\ \/ /\ null
        /\ i' = [i EXCEPT ![t] = CASE k < NumDirect -> NumDirect
                                  [] k >= NumDirect /\ k < NumDirect + Indirect ->
                                       NumDirect + Indirect
                                  [] OTHER -> last]
        /\ UNCHANGED <<free_map, owner, pc>>
     \/ /\ ~null /\ s \in free_map
        /\ free_map_release(s)
        /\ owner' = [owner EXCEPT ![s] = 0]
        /\ i' = [i EXCEPT ![t] = k + 1]
        /\ UNCHANGED pc
     \/ /\ ~null /\ s \notin free_map
        /\ Goto(t, "release_failed")
        /\ UNCHANGED <<free_map, owner, i>>
  /\ UNCHANGED <<disk, files, dirs, op, inode, offset, size, got, end, sec, id,
                 written, creates, removes>>

Closed(t) ==
  /\ At(t, "freeing") /\ i[t] = NumDirect + Indirect + Indirect * Indirect
  /\ Return(t)
  /\ UNCHANGED <<free_map, disk, files, dirs, owner, written, creates, removes>>

Call(t) ==
  \/ \E n \in Length, kind \in Kind : filesys_create_2(t, n, kind)
  \/ \E s \in files, ofs, n \in Length : inode_write_at(t, s, ofs, n)
  \/ \E s \in files : RemoveFile(t, s) \/ RemoveDir(t, s)

Step(t) ==
  \/ can_allocate(t) \/ GiveBack(t) \/ CanAllocate(t) \/ CannotAllocate(t)
  \/ install_sector(t) \/ InstallIndex(t) \/ InstallLink(t) \/ Installed(t)
  \/ dir_add(t) \/ WriteBlocks(t) \/ WriteDenied(t)
  \/ inode_close(t) \/ Closed(t)

Next == \E t \in Thread : Call(t) \/ Step(t)

Spec == Init /\ [][Next]_vars

-----------------------------------------------------------------------------
(* Properties                                                               *)

\* The blocks that a file has by its length.
Blocks(f) == 0 .. bytes_to_sectors(length(f)) - 1

\* Every byte below the length of a file has a sector, which install_sector
\* allocated for this file and which no other block of it has: the ASSERTs of
\* byte_to_sector hold, and two files never share a sector.
BlocksAreMine ==
  \A f \in files :
    /\ \A k \in Blocks(f) :
         /\ ~IndexMissing(f, k)
         /\ LET s == byte_to_sector(f, k) IN
            s \in free_map \ files /\ owner[s] = owner[f]
    /\ \A k, l \in Blocks(f) : byte_to_sector(f, k) = byte_to_sector(f, l) => k = l

\* A block that no program has written reads as zeros, however the sector was
\* used before (get_sector), and a written one keeps its data while other
\* files are created, grow and are removed.
Contents ==
  \A f \in files : \A k \in Blocks(f) :
    disk[byte_to_sector(f, k)] =
      IF <<f, k>> \in written THEN [w \in Word |-> Data] ELSE Zero

\* inode_close of a removed inode "frees its blocks" (inode.c:432), never a
\* sector of another file or of one that is being created: what it gives back
\* was allocated for this file, or is no file's.  It holds for the first removal
\* by one thread; a second one may meet old pointers, and another thread may
\* create a file in the sector that inode_close gives back first.
FreesOnlyItsBlocks ==
  [][\A t \in Thread :
       pc[t] = "freeing" /\ i'[t] # i[t] =>
         \A s \in free_map \ free_map' : s > 1 /\ owner[s] \in {0, id[t]}]_vars

\* "If INODE was also a removed inode, frees its blocks" (inode.c:432): when
\* inode_close is done, no block is left.
FreesItsBlocks ==
  [][\A t \in Thread : Closed(t) => \A s \in Sector : owner[s] # id[t]]_vars

\* A removed file that nobody is using keeps no sectors (inode.c:498).
RemovedIsFreed ==
  (\A t \in Thread : pc[t] = "idle") =>
    \A s \in Sector : owner[s] # 0 => \E f \in files : owner[f] = owner[s]

\* inode_create_wild "Returns false if memory or disk allocation fails"
\* (inode.c:320), and does not panic in install_sector.
AllocationReports == \A t \in Thread : pc[t] # "alloc_failed"

\* A create fails only when its blocks do not fit beside those of the files
\* that exist (filesys.c:45).
FailsOnlyWhenFull ==
  \A t \in Thread :
    pc[t] = "give_fail" /\ Creating(t) =>
      need(t) > Cardinality({s \in Sector \ {0, 1} : owner[s] = 0})
=============================================================================
