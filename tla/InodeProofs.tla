----------------------------- MODULE InodeProofs -----------------------------
(***************************************************************************)
(* Theorems about Inode, for any number of threads and sectors and any     *)
(* number of direct pointers, as long as no directory is removed: every    *)
(* block of a file has a sector of its own, and keeps what was written.    *)
(***************************************************************************)
EXTENDS InodeSteps

\* Leaves are for Zenon; the ones for an SMT solver say so.
USE ZenonT(60)

-----------------------------------------------------------------------------
(* Index blocks, and the writer                                             *)

\* inode_extend_to_bytes installs a missing index block.
LEMMA InstallPointer ==
  ASSUME NEW h, IInvAt(h), NEW t \in Thread, InstallIndex(t), i[t] < MaxBlocks
  PROVE  IInv'
<1> USE DEF IInvAt
<1>1. /\ pc[t] = "link" /\ IndexMissing(inode[t], i[t]) /\ CallOK(t)
      /\ UNCHANGED <<files, dirs, op, inode, offset, size, got, i, end, id,
                     written, creates, removes>>
  BY DEF InstallIndex, At, CallInv
<1>2. CASE GetSectorFails(t)
  BY <1>1, <1>2, AllocFails
<1>3. ASSUME NEW x \in Sector, free_map_allocate(x),
             disk' = [SetWord(PtrAt(inode[t], i[t]), x) EXCEPT ![x] = Zero],
             owner' = [owner EXCEPT ![x] = id[t]], UNCHANGED <<pc, sec>>
      PROVE  IInv'
  <2> HIDE <1>3
  <2>1. /\ x \notin free_map /\ free_map' = free_map \cup {x} /\ x # 0
        /\ x \in Rooted /\ x \notin Inodes /\ x \notin files
        /\ h[x] = <<x, "inode", 0>>
    BY <1>3, Allocated
  <2>2. PICK s, n : s = inode[t] /\ n = i[t]
    OBVIOUS
  <2>3. /\ s \in Sector /\ n \in Nat /\ s \in Inodes /\ s # x /\ s \in Rooted
        /\ h \in Homes /\ h[0] = <<0, "none", 0>> /\ IndexOK(s, h) /\ h[s] = <<s, "inode", 0>>
    BY <1>1, <2>1, <2>2, Types, RootedSectors DEF Layout, Homes, IndexOK
  <2>4. n < MaxBlocks /\ IndexMissing(s, n)
    BY <1>1, <2>2
  <2>5. PICK q \in Sector \X Role \X Nat, g \in Homes : IndexSet(s, n, x, q, h, g)
    <3>1. PICK p : p = PtrAt(s, n)
      OBVIOUS
    <3>2. p[1] \in Sector /\ p[2] \in Word /\ h[p[1]][1] = s /\ h[p[1]][2] \in IndexRole
      BY <2>3, <2>4, <3>1, PtrIsIndex
    <3>3. \/ p = <<s, Single>> /\ disk[s][Single] = 0
          \/ p = <<s, Double>> /\ disk[s][Double] = 0
          \/ \E d \in Word : /\ disk[s][Double] # 0 /\ disk[disk[s][Double]][d] = 0
                             /\ p = <<disk[s][Double], d>>
      BY <2>3, <2>4, <3>1, MissingAt
    <3>4. disk[p[1]][p[2]] = 0
      BY <3>3, SMTT(60)
    <3>5. p[1] # x
      BY <2>1, <2>3, <3>2, SMTT(60)
    <3>6. /\ disk'[p[1]][p[2]] = x /\ disk'[x] = Zero
          /\ \A w \in Word : w # p[2] => disk'[p[1]][w] = disk[p[1]][w]
          /\ \A y \in Sector : y # p[1] /\ y # x => disk'[y] = disk[y]
      <4>1. disk' = [SetWord(p, x) EXCEPT ![x] = Zero]
        BY <1>3, <2>2, <3>1
      <4>2. x \in Nat
        BY Constants
      <4>3. /\ SetWord(p, x) \in [Sector -> [Word -> Nat]]
            /\ SetWord(p, x)[p[1]][p[2]] = x
            /\ \A w \in Word : w # p[2] => SetWord(p, x)[p[1]][w] = disk[p[1]][w]
            /\ \A y \in Sector : y # p[1] => SetWord(p, x)[y] = disk[y]
        BY <3>2, <4>2, OneWordSet, SMTT(60)
      <4>4. disk'[x] = Zero /\ \A y \in Sector : y # x => disk'[y] = SetWord(p, x)[y]
        BY <4>1, <4>3
      <4> QED
        BY <3>2, <3>5, <4>3, <4>4
    <3>7. PICK q \in Sector \X Role \X Nat :
            \/ p = <<s, Single>> /\ disk[s][Single] = 0 /\ q = <<s, "single", 0>>
            \/ p = <<s, Double>> /\ disk[s][Double] = 0 /\ q = <<s, "double", 0>>
            \/ \E d \in Word : /\ disk[s][Double] # 0 /\ p = <<disk[s][Double], d>>
                               /\ q = <<s, "second", d>>
      <4>1. \A d \in Word : <<s, "second", d>> \in Sector \X Role \X Nat
        BY <2>3, WordsAreNat DEF Role
      <4>2. /\ <<s, "single", 0>> \in Sector \X Role \X Nat
            /\ <<s, "double", 0>> \in Sector \X Role \X Nat
        BY <2>3 DEF Role
      <4> QED
        BY <3>3, <4>1, <4>2
    <3>8. PICK g : g = [h EXCEPT ![x] = q]
      OBVIOUS
    <3>9. g \in Homes /\ g[x] = q /\ \A y \in Sector : y # x => g[y] = h[y]
      BY <2>3, <3>8 DEF Homes
    <3>10. IndexSet(s, n, x, q, h, g)
      BY <2>1, <2>3, <3>1, <3>2, <3>4, <3>5, <3>6, <3>7, <3>9 DEF IndexSet
    <3> QED
      BY <3>9, <3>10
  <2>6. /\ owner'[x] = id[t] /\ \A y \in Sector : y # x => owner'[y] = owner[y]
    BY <1>3 DEF TypeOK
  <2>7. IndexOK(s, g)' /\ length(s)' = length(s)
    BY <2>3, <2>5, IndexIsSet
  <2>8. /\ \A k \in Nat, b \in Sector : SectorOK(b, s, k, h) => SectorOK(b, s, k, g)'
        /\ \A k \in Nat : BlockOK(s, k, h) => BlockOK(s, k, g)'
    BY <1>1, <2>3, <2>5, <2>6, IndexKeepsBlocks
  <2>9. TypeOK' /\ Quiet(t)
    <3>1. disk' \in [Sector -> [Word -> Nat]]
      <4>1. SetWord(PtrAt(s, n), x) \in [Sector -> [Word -> Nat]]
        <5>1. x \in Nat
          BY Constants
        <5>2. PtrAt(s, n)[1] \in Sector /\ PtrAt(s, n)[2] \in Word
          BY <2>3, <2>4, PtrIsIndex
        <5> QED
          BY <5>1, <5>2, OneWordSet
      <4>2. Zero \in [Word -> Nat]
        BY Constants
      <4> QED
        BY <1>3, <2>2, <4>1, <4>2
    <3>2. owner' \in [Sector -> 0 .. MaxCreate]
      BY <1>3 DEF TypeOK
    <3>3. Quiet(t)
      BY <1>1, <1>3 DEF Quiet
    <3> QED
      BY <1>1, <1>3, <2>1, <3>1, <3>2, <3>3 DEF TypeOK
  <2>10. StepOn(t, {x, s}, h, g)
    <3>1. PICK p \in Sector : /\ h[p][1] = s /\ h[p][2] # "got"
                              /\ \A y \in Sector : y # p /\ y # x => disk'[y] = disk[y]
                              /\ \A y \in Sector : y # x => g[y] = h[y]
      BY <2>5 DEF IndexSet, IndexRole
    <3>2. \A y \in Sector : y # p /\ y # x => SameSector(y, h, g)
      BY <2>1, <2>6, <3>1 DEF SameSector
    <3>3. \A y \in Sector : \/ SameSector(y, h, g)
                            \/ h[y][1] \in {x, s} /\ h[y][2] # "got"
      BY <2>1, <3>1, <3>2, SMTT(60)
    <3>4. LeavesAlone(t, {x, s}, h, g)
      BY <1>1, <3>3, Elsewhere
    <3>5. \A u \in Thread \ {t} : pc[u] # "idle" => inode[u] \notin {x, s}
      BY <1>1, <2>1, <2>2, RootedSectors DEF CallInv
    <3> QED
      BY <1>1, <2>1, <2>2, <2>3, <2>9, <3>4, <3>5 DEF StepOn
  <2>11. Inodes' = Inodes /\ x \notin Inodes' /\ x \notin Rooted'
    <3>1. Inodes' = Inodes
      BY <1>1, <1>3 DEF Inodes
    <3> QED
      BY <2>1, <3>1 DEF Rooted
  <2>12. CallOK(t)'
    <3>1. owner'[s] = owner[s] /\ (s \in free_map => s \in free_map')
      BY <2>1, <2>3, <2>6
    <3> QED
      BY <1>1, <1>3, <2>2, <2>7, <3>1 DEF CallOK, Creates, Creating, Writes
  <2>13. \A k \in 0 .. n - 1 : BlockOK(s, k, h) /\ BlockOK(s, k, g)'
    <3>1. ThreadOK(t, h)
      BY DEF Layout
    <3>2. \A k \in 0 .. n - 1 : BlockOK(s, k, h)
      BY <1>1, <2>2, <3>1 DEF ThreadOK, Growing
    <3> QED
      BY <2>3, <2>8, <3>2, SMTT(60)
  <2>14. ThreadOK(t, g)'
    <3>1. PICK b \in Sector : b = sec[t] /\ SectorOK(b, s, n, h)
      <4>1. ThreadOK(t, h)
        BY DEF Layout
      <4> QED
        BY <1>1, <2>2, <4>1, Types DEF ThreadOK
    <3>2. SectorOK(b, s, n, g)'
      BY <2>3, <2>8, <3>1
    <3>3. GotOK(t, g)'
      BY <1>1, NothingGot DEF CallOK
    <3>4. inode'[t] = s /\ i'[t] = n /\ sec'[t] = b
      BY <1>1, <1>3, <2>2, <3>1
    <3> QED
      BY <2>13, <3>2, <3>3, <3>4 DEF ThreadOK
  <2>15. s \in files => Blocks(s)' = Blocks(s) /\ \A k \in Blocks(s) : k \in 0 .. n - 1
    <3>1. s \in files => bytes_to_sectors(length(s)) <= n
      BY <1>1, <2>2 DEF CallOK, Creates, Creating, Writes, Growing, TypeOK
    <3>2. bytes_to_sectors(length(s)) \in Nat
      <4>1. length(s) \in Nat
        BY <2>3, LengthIsNat
      <4> QED
        BY <4>1, BytesToSectors
    <3>3. Blocks(s)' = Blocks(s)
      BY <2>7 DEF Blocks, bytes_to_sectors
    <3> QED
      BY <2>3, <3>1, <3>2, <3>3, SMTT(60) DEF Blocks
  <2>16. CallInv' /\ \E home : Layout(home)'
    <3>1. g[0] = <<0, "none", 0>>
      BY <2>1, <2>3, <2>5 DEF IndexSet, FileInv, TypeOK
    <3>2. pc'[t] # "idle" => \A u \in Thread \ {t} : pc[u] # "idle" => inode[u] # inode'[t]
      BY <1>1 DEF CallInv
    <3>3. \A r \in {x, s} : r \in Rooted' => IndexOK(r, g)'
      BY <2>7, <2>11
    <3>4. \A r \in {x, s} : r \in files' => \A k \in Blocks(r)' : BlockOK(r, k, g)'
      BY <1>1, <2>1, <2>13, <2>15
    <3> QED
      <4>f. Fits(t, {x, s}, h, g)
        BY <2>5, <2>9, <2>10, <2>12, <2>14, <3>1, <3>2, <3>3, <3>4 DEF Fits
      <4> QED
        BY <4>f, Together
  <2>17. FileInv'
    <3>1. 0 \in free_map' /\ x \notin files'
      BY <1>1, <2>1 DEF FileInv
    <3>2. \A y \in Sector : owner'[y] <= creates'
      <4>1. id[t] = owner[s]
        BY <1>1, <2>2 DEF CallOK
      <4> QED
        BY <1>1, <2>3, <2>6, <4>1 DEF FileInv
    <3>3. "dir" \notin Kind => dirs' = {} /\ op'[t] # "mkdir"
      BY <1>1 DEF FileInv
    <3>4. owner'[s] # 0 /\ \A r \in Inodes' : owner'[r] = owner'[s] => r = s
      <4>1. \A r \in Inodes : r # x /\ r \in Sector
        BY <2>1, InUse
      <4> QED
        BY <2>3, <2>6, <2>11, <4>1 DEF FileInv
    <3>5. s \in files' => s \in free_map' /\ \A b \in written' : b[1] = s => b[2] \in Blocks(s)'
      BY <1>1, <2>1, <2>15 DEF FileInv
    <3> QED
      <4>f. FilesFit(t, {x, s}, h, g)
        BY <2>9, <2>10, <2>11, <3>1, <3>2, <3>3, <3>4, <3>5 DEF FilesFit
      <4> QED
        BY <4>f, FilesTogether
  <2> QED
    BY <2>9, <2>16, <2>17 DEF IInv
<1> QED
  BY <1>2, <1>3 DEF InstallIndex

\* install_sector sets the pointer to block n of inode s.
LEMMA PointerIsSet ==
  ASSUME TypeOK, NEW h, NEW s \in Sector, NEW n \in Nat, n < MaxBlocks, IndexOK(s, h),
         ~IndexMissing(s, n), NEW x \in Sector, SectorOK(x, s, n, h),
         disk' = SetWord(PtrAt(s, n), x), UNCHANGED <<free_map, owner, written>>
  PROVE  /\ IndexOK(s, h)' /\ length(s)' = length(s) /\ BlockOK(s, n, h)'
         /\ \A k \in Nat : k # n /\ BlockOK(s, k, h) => BlockOK(s, k, h)'
         /\ \E p \in Sector : /\ h[p][1] = s /\ h[p][2] # "got"
                              /\ \A y \in Sector : y # p => SameSector(y, h, h)
<1>1. PICK p, w : PtrAt(s, n) = <<p, w>>
  BY SMTT(60) DEF PtrAt
<1>2. p \in Sector /\ w \in Word /\ h[p][1] = s /\ h[p][2] \in IndexRole
  BY <1>1, PtrIsIndex, SMTT(60)
<1>3. /\ <<p, w>> # <<s, 0>> /\ <<p, w>> # <<s, Single>> /\ <<p, w>> # <<s, Double>>
      /\ disk[s][Double] # 0 => p # disk[s][Double]
      /\ \A k \in Nat : k < MaxBlocks /\ ~IndexMissing(s, k) /\ k # n => PtrAt(s, k) # <<p, w>>
  BY <1>1, PtrIsOwn, SMTT(60)
<1>4. /\ disk'[p][w] = x
      /\ \A v \in Word : v # w => disk'[p][v] = disk[p][v]
      /\ \A y \in Sector : y # p => disk'[y] = disk[y]
  <2>1. x \in Nat
    BY Constants
  <2>2. PICK at : at = <<p, w>>
    OBVIOUS
  <2>3. at[1] = p /\ at[2] = w /\ disk' = SetWord(at, x)
    BY <1>1, <2>2
  <2>4. at[1] \in Sector /\ at[2] \in Word
    BY <1>2, <2>3
  <2>5. /\ SetWord(at, x)[at[1]][at[2]] = x
        /\ \A v \in Word : v # at[2] => SetWord(at, x)[at[1]][v] = disk[at[1]][v]
        /\ \A y \in Sector : y # at[1] => SetWord(at, x)[y] = disk[y]
    BY <2>1, <2>4, OneWordSet, SMTT(60)
  <2> QED
    BY <2>3, <2>5
<1>5. \A v \in {0, Single, Double} : disk'[s][v] = disk[s][v]
  BY <1>3, <1>4, Constants
<1>6. disk[s][Double] # 0 => disk'[disk[s][Double]] = disk[disk[s][Double]]
  BY <1>3, <1>4, IndexSectors
<1>7. IndexOK(s, h)' /\ length(s)' = length(s)
  BY <1>5, <1>6 DEF IndexOK, Leads, length
<1>8. ASSUME NEW k \in Nat, NEW b \in Sector, SectorOK(b, s, k, h)
      PROVE  SectorOK(b, s, k, h)'
  <2>1. b # p
    BY <1>2, <1>8, SMTT(60) DEF SectorOK, IndexRole
  <2> QED
    BY <1>4, <1>8, <2>1 DEF SectorOK, Zero, DataBlock, Word
<1>9. ASSUME NEW k \in Nat, k < MaxBlocks, ~IndexMissing(s, k)
      PROVE  /\ PtrAt(s, k)' = PtrAt(s, k) /\ ~IndexMissing(s, k)'
             /\ PtrAt(s, k) # <<p, w>> => byte_to_sector(s, k)' = byte_to_sector(s, k)
  <2>1. OnlyWord(s, h, p, w)
    BY <1>2, <1>4 DEF OnlyWord
  <2>2. p = s => w \notin {Single, Double}
    BY <1>3
  <2> QED
    BY <1>3, <1>9, <2>1, <2>2, MapIsKept, SMTT(60)
<1>10. ASSUME NEW k \in Nat, k # n, BlockOK(s, k, h) PROVE BlockOK(s, k, h)'
  <2>1. ~IndexMissing(s, k)' /\ byte_to_sector(s, k)' = byte_to_sector(s, k)
    BY <1>3, <1>9, <1>10 DEF BlockOK
  <2>2. byte_to_sector(s, k) \in Sector
    BY <1>10, Types DEF BlockOK, SectorOK, TypeOK
  <2> QED
    BY <1>8, <1>10, <2>1, <2>2 DEF BlockOK
<1>11. BlockOK(s, n, h)'
  <2>1. ~IndexMissing(s, n)' /\ byte_to_sector(s, n)' = x
    BY <1>1, <1>4, <1>9, SMTT(60) DEF byte_to_sector
  <2>2. SectorOK(x, s, n, h)'
    BY <1>8
  <2> QED
    BY <2>1, <2>2 DEF BlockOK
<1>12. \A y \in Sector : y # p => SameSector(y, h, h)
  BY <1>4 DEF SameSector
<1> QED
  BY <1>2, <1>7, <1>10, <1>11, <1>12 DEF IndexRole

\* install_sector puts a block in the map.
LEMMA InstallBlock ==
  ASSUME NEW h, IInvAt(h), NEW t \in Thread, InstallLink(t), i[t] < MaxBlocks
  PROVE  IInv'
<1> USE DEF IInvAt
<1>0. disk' = SetWord(PtrAt(inode[t], i[t]), sec[t])
  BY DEF InstallLink
<1>1. /\ pc[t] = "link" /\ ~IndexMissing(inode[t], i[t]) /\ CallOK(t)
      /\ i' = [i EXCEPT ![t] = @ + 1] /\ sec' = [sec EXCEPT ![t] = 0]
      /\ pc' = [pc EXCEPT ![t] = "install"]
      /\ UNCHANGED <<free_map, files, dirs, op, inode, offset, size, got, end, id,
                     owner, written, creates, removes>>
  BY DEF InstallLink, At, Goto, CallInv
<1>2. PICK s, n, x : s = inode[t] /\ n = i[t] /\ x = sec[t]
  OBVIOUS
<1>3. /\ s \in Sector /\ n \in Nat /\ x \in Sector /\ s \in Inodes
      /\ IndexOK(s, h) /\ h[s] = <<s, "inode", 0>> /\ ThreadOK(t, h)
  BY <1>1, <1>2, Types, RootedSectors DEF Layout, IndexOK
<1>4. /\ n < MaxBlocks /\ ~IndexMissing(s, n) /\ SectorOK(x, s, n, h)
      /\ \A k \in 0 .. n - 1 : BlockOK(s, k, h)
  BY <1>1, <1>2, <1>3 DEF ThreadOK, Growing
<1>5. /\ IndexOK(s, h)' /\ length(s)' = length(s) /\ BlockOK(s, n, h)'
      /\ \A k \in Nat : k # n /\ BlockOK(s, k, h) => BlockOK(s, k, h)'
      /\ \E p \in Sector : /\ h[p][1] = s /\ h[p][2] # "got"
                           /\ \A y \in Sector : y # p => SameSector(y, h, h)
  BY <1>0, <1>1, <1>2, <1>3, <1>4, PointerIsSet
<1>6. pc'[t] = "install" /\ i'[t] = n + 1 /\ inode'[t] = s /\ Quiet(t)
  BY <1>1, <1>2 DEF TypeOK, Quiet
<1>7. TypeOK'
  <2>1. disk' \in [Sector -> [Word -> Nat]]
    <3>1. x \in Nat
      BY <1>3, Constants
    <3>2. PtrAt(s, n)[1] \in Sector /\ PtrAt(s, n)[2] \in Word
      BY <1>3, <1>4, PtrIsIndex
    <3> QED
      BY <1>0, <1>2, <3>1, <3>2, OneWordSet
  <2>2. i' \in [Thread -> Nat] /\ sec' \in [Thread -> Sector]
    BY <1>1, SMTT(60) DEF FileInv, TypeOK
  <2> QED
    BY <1>1, <2>1, <2>2 DEF TypeOK
<1>8. StepOn(t, {s}, h, h)
  <2>1. PICK p \in Sector : /\ h[p][1] = s /\ h[p][2] # "got"
                            /\ \A y \in Sector : y # p => SameSector(y, h, h)
    BY <1>5
  <2>2. LeavesAlone(t, {s}, h, h)
    BY <1>1, <2>1, Elsewhere
  <2> QED
    BY <1>1, <1>2, <1>3, <1>6, <2>2 DEF StepOn, CallInv
<1>9. CallOK(t)'
  <2>1. n < end[t] /\ end[t] \in Nat /\ n + 1 <= end[t]
    BY <1>1, <1>2, <1>3, Types, SMTT(60) DEF CallOK
  <2>2. bytes_to_sectors(length(s)) <= n => bytes_to_sectors(length(s)) <= n + 1
    <3>1. length(s) \in Nat
      BY <1>3, LengthIsNat
    <3> QED
      BY <1>3, <3>1, BytesToSectors, SMTT(60)
  <2> QED
    BY <1>1, <1>2, <1>5, <1>6, <2>1, <2>2 DEF CallOK, Creates, Creating, Writes, Growing
<1>10. \A k \in 0 .. n : BlockOK(s, k, h)'
  BY <1>3, <1>4, <1>5, SMTT(60)
<1>11. ThreadOK(t, h)'
  <2>1. GotOK(t, h)'
    BY <1>1, NothingGot DEF CallOK
  <2>2. \A k \in 0 .. i'[t] - 1 : k \in 0 .. n
    BY <1>3, <1>6, SMTT(60)
  <2> QED
    BY <1>6, <1>10, <2>1, <2>2 DEF ThreadOK
<1>12. s \in files => Blocks(s)' = Blocks(s) /\ \A k \in Blocks(s) : k \in 0 .. n
  <2>1. s \in files => bytes_to_sectors(length(s)) <= n
    BY <1>1, <1>2 DEF CallOK, Creates, Creating, Writes, Growing, TypeOK
  <2>2. bytes_to_sectors(length(s)) \in Nat
    <3>1. length(s) \in Nat
      BY <1>3, LengthIsNat
    <3> QED
      BY <3>1, BytesToSectors
  <2>3. Blocks(s)' = Blocks(s)
    BY <1>5 DEF Blocks, bytes_to_sectors
  <2> QED
    BY <1>3, <2>1, <2>2, <2>3, SMTT(60) DEF Blocks
<1>13. CallInv' /\ \E home : Layout(home)'
  <2>1. h \in Homes /\ h[0] = <<0, "none", 0>>
    BY DEF Layout, Homes
  <2>2. \A r \in {s} : r \in files' => \A k \in Blocks(r)' : BlockOK(r, k, h)'
    BY <1>1, <1>10, <1>12
  <2>3. \A u \in Thread \ {t} : pc[u] # "idle" => inode[u] # inode'[t]
    BY <1>1 DEF CallInv
  <2> QED
    <3>f. Fits(t, {s}, h, h)
      BY <1>5, <1>7, <1>8, <1>9, <1>11, <2>1, <2>2, <2>3 DEF Fits
    <3> QED
      BY <3>f, Together
<1>14. FileInv'
  <2>1. Inodes' \subseteq Inodes
    BY <1>3, <1>8, Inherit
  <2>2. s \in Inodes' => owner'[s] # 0 /\ \A r \in Inodes' : owner'[r] = owner'[s] => r = s
    BY <1>1, <1>3, <2>1 DEF FileInv
  <2>3. s \in files' => s \in free_map' /\ \A b \in written' : b[1] = s => b[2] \in Blocks(s)'
    BY <1>1, <1>12 DEF FileInv
  <2>4. "dir" \notin Kind => dirs' = {} /\ op'[t] # "mkdir"
    BY <1>1 DEF FileInv
  <2>5. 0 \in free_map' /\ \A y \in Sector : owner'[y] <= creates'
    BY <1>1 DEF FileInv
  <2> QED
    <3>f. FilesFit(t, {s}, h, h)
      BY <1>7, <1>8, <2>2, <2>3, <2>4, <2>5 DEF FilesFit
    <3> QED
      BY <3>f, FilesTogether
<1> QED
  BY <1>7, <1>13, <1>14 DEF IInv

\* An inode has a number of blocks.
LEMMA BlockCount ==
  ASSUME TypeOK, NEW s \in Sector
  PROVE  length(s) \in Nat /\ bytes_to_sectors(length(s)) \in Nat
<1>1. length(s) \in Nat
  BY Types, Constants, SMTT(60) DEF length, TypeOK
<1> QED
  BY <1>1, BytesToSectors

\* inode_extend_to_bytes has installed the last block.
LEMMA InstallEnds ==
  ASSUME NEW h, IInvAt(h), NEW t \in Thread, Installed(t)
  PROVE  IInv'
<1> USE DEF IInvAt
<1>1. /\ pc[t] = "install" /\ i[t] = end[t] /\ CallOK(t) /\ ThreadOK(t, h)
      /\ UNCHANGED <<free_map, files, dirs, op, inode, offset, size, got, i, end, sec, id,
                     owner, written, creates, removes>>
  BY DEF Installed, At, locals, CallInv, Layout
<1>2. CASE Creating(t) /\ Goto(t, "add") /\ UNCHANGED disk
  <2>1. pc'[t] = "add" /\ Quiet(t) /\ TypeOK'
    BY <1>1, <1>2 DEF TypeOK, Quiet, Goto
  <2>2. CallOK(t)'
    BY <1>1, <1>2, <2>1 DEF CallOK, Creates, Creating, Writes, Growing, length
  <2> QED
    BY <1>1, <1>2, <2>1, <2>2, LocalStep DEF Growing
<1>3. CASE /\ op[t] = "write" /\ disk' = SetWord(<<inode[t], 0>>, offset[t] + size[t])
           /\ Goto(t, "data")
  <2>1. PICK s, n : s = inode[t] /\ n = offset[t] + size[t]
    OBVIOUS
  <2>2. s \in Inodes /\ s \in Sector /\ n \in Nat /\ disk' = SetWord(<<s, 0>>, n)
    BY <1>1, <1>3, <2>1, RootedSectors, Types, SMTT(60)
  <2>3. pc'[t] = "data" /\ Quiet(t)
    BY <1>1, <1>3 DEF TypeOK, Quiet, Goto
  <2>4. TypeOK'
    <3>1. disk' \in [Sector -> [Word -> Nat]]
      <4>1. 0 \in Word
        BY Constants
      <4> QED
        BY <2>2, <4>1, OneWordSet, SMTT(60)
    <3> QED
      BY <1>1, <1>3, <3>1 DEF TypeOK, Goto
  <2>5. /\ s \in files /\ bytes_to_sectors(length(s)) <= bytes_to_sectors(n)
        /\ bytes_to_sectors(n) <= i[t] /\ got[t] = <<>>
        /\ \A k \in 0 .. i[t] - 1 : BlockOK(s, k, h)
    BY <1>1, <1>3, <2>1 DEF CallOK, Writes, Growing, ThreadOK
  <2>6. \A k \in 0 .. bytes_to_sectors(n) - 1 : BlockOK(s, k, h)
    <3>1. bytes_to_sectors(n) \in Nat /\ i[t] \in Nat
      BY <2>2, BytesToSectors, Types
    <3> QED
      BY <2>5, <3>1, SMTT(60)
  <2>7. CallOK(t)'
    BY <1>1, <1>3, <2>3 DEF CallOK, Creates, Creating, Writes, Growing
  <2>8. \A u \in Thread \ {t} : pc[u] # "idle" => inode[u] # s
    BY <1>1, <2>1 DEF CallInv
  <2> QED
    BY <1>1, <2>1, <2>2, <2>3, <2>4, <2>5, <2>6, <2>7, <2>8, LengthStep DEF Growing
<1> QED
  BY <1>2, <1>3 DEF Installed

\* inode_extend_to_bytes: the blocks that a file has and needs.
LEMMA Extent ==
  ASSUME NEW l \in Nat, NEW n \in Nat
  PROVE  LET from == bytes_to_sector_index(l - 1)
             to == bytes_to_sector_index(n - 1) IN
         /\ from \in Nat /\ to \in Nat
         /\ bytes_to_sectors(l) = IF l = 0 THEN 0 ELSE from + 1
         /\ bytes_to_sectors(n) <= to + 1 /\ bytes_to_sectors(n) \in Nat
         /\ from < to => bytes_to_sectors(n) = to + 1
         /\ l <= n => bytes_to_sectors(l) <= bytes_to_sectors(n)
<1>1. /\ l # 0 => bytes_to_sectors(l) = bytes_to_sector_index(l - 1) + 1
      /\ l = 0 => bytes_to_sectors(l) = 0 /\ bytes_to_sector_index(l - 1) = 0
      /\ bytes_to_sectors(l) \in Nat
  BY BytesToSectors
<1>2. /\ n # 0 => bytes_to_sectors(n) = bytes_to_sector_index(n - 1) + 1
      /\ n = 0 => bytes_to_sectors(n) = 0 /\ bytes_to_sector_index(n - 1) = 0
      /\ bytes_to_sectors(n) \in Nat
  BY BytesToSectors
<1>3. l <= n => bytes_to_sectors(l) <= bytes_to_sectors(n)
  BY BytesToSectors
<1>4. bytes_to_sector_index(l - 1) \in Nat /\ bytes_to_sector_index(n - 1) \in Nat
  <2>1. \A m \in Nat : m # 0 => bytes_to_sector_index(m - 1) \in Nat
    <3>1. \A m \in Nat : m # 0 => m - 1 \in Nat
      BY SMTT(60)
    <3> QED
      BY <3>1, BytesToSectors
  <2> QED
    BY <1>1, <1>2, <2>1
<1> QED
  BY <1>1, <1>2, <1>3, <1>4, SMTT(60)

\* inode_write_at, up to where it extends the file.
LEMMA Write ==
  ASSUME NEW h, IInvAt(h), NEW t \in Thread, NEW s \in files, NEW ofs \in Length,
         NEW n \in Length, inode_write_at(t, s, ofs, n)
  PROVE  IInv'
<1> USE DEF IInvAt
<1>0. PICK l, m, from, to : /\ l = length(s) /\ m = ofs + n
                            /\ from = bytes_to_sector_index(length(s) - 1)
                            /\ to = bytes_to_sector_index(ofs + n - 1)
  OBVIOUS
<1> DEFINE extends == l = 0 \/ from < to
<1>1. /\ pc[t] = "idle" /\ Unlocked(s) /\ CallOK(t)
      /\ op' = [op EXCEPT ![t] = "write"] /\ inode' = [inode EXCEPT ![t] = s]
      /\ id' = [id EXCEPT ![t] = owner[s]] /\ offset' = [offset EXCEPT ![t] = ofs]
      /\ size' = [size EXCEPT ![t] = n]
      /\ UNCHANGED <<free_map, files, dirs, got, sec, owner, written, creates, removes>>
  BY DEF inode_write_at, At, CallInv
<1>2. PICK w, b, e :
         /\ w \in {"can", "data"} /\ i' = [i EXCEPT ![t] = b] /\ end' = [end EXCEPT ![t] = e]
         /\ pc' = [pc EXCEPT ![t] = w]
         /\ extends => /\ b = (IF l = 0 THEN 0 ELSE from + 1) /\ e = to + 1 /\ w = "can"
                       /\ UNCHANGED disk
         /\ ~extends => /\ b = 0 /\ e = 0 /\ w = "data"
                        /\ disk' = IF l < m THEN SetWord(<<s, 0>>, m) ELSE disk
  <2>1. /\ extends => /\ i' = [i EXCEPT ![t] = IF l = 0 THEN 0 ELSE from + 1]
                      /\ end' = [end EXCEPT ![t] = to + 1] /\ UNCHANGED disk
                      /\ pc' = [pc EXCEPT ![t] = "can"]
        /\ ~extends => /\ i' = [i EXCEPT ![t] = 0] /\ end' = [end EXCEPT ![t] = 0]
                       /\ disk' = IF l < m THEN SetWord(<<s, 0>>, m) ELSE disk
                       /\ pc' = [pc EXCEPT ![t] = "data"]
    <3>1. /\ l = length(s) /\ m = ofs + n
          /\ from = bytes_to_sector_index(length(s) - 1)
          /\ to = bytes_to_sector_index(ofs + n - 1)
      BY <1>0
    <3> HIDE <1>0
    <3>2. l = 0 \/ from < to =>
              /\ i' = [i EXCEPT ![t] = IF l = 0 THEN 0 ELSE from + 1]
              /\ end' = [end EXCEPT ![t] = to + 1]
              /\ UNCHANGED disk
              /\ pc' = [pc EXCEPT ![t] = "can"]
      BY <3>1 DEF inode_write_at, Goto
    <3>3. ~ (l = 0 \/ from < to) =>
              /\ i' = [i EXCEPT ![t] = 0]
              /\ end' = [end EXCEPT ![t] = 0]
              /\ disk' = IF l < m THEN SetWord(<<s, 0>>, m) ELSE disk
              /\ pc' = [pc EXCEPT ![t] = "data"]
      BY <3>1 DEF inode_write_at, Goto
    <3> QED
      BY <3>2, <3>3
  <2> HIDE DEF extends
  <2>2. CASE extends
    BY <2>1, <2>2
  <2>3. CASE ~extends
    BY <2>1, <2>3
  <2> QED
    BY <2>2, <2>3
<1>3. /\ s \in Sector /\ s \in Inodes /\ s \in Rooted /\ s \in free_map
      /\ l \in Nat /\ m \in Nat /\ ofs \in Nat /\ n \in Nat
  BY <1>0, RootedSectors, BlockCount, InodeAssumption, SMTT(60) DEF FileInv
<1>4. /\ from \in Nat /\ to \in Nat
      /\ bytes_to_sectors(l) = IF l = 0 THEN 0 ELSE from + 1
      /\ bytes_to_sectors(m) <= to + 1 /\ bytes_to_sectors(m) \in Nat
      /\ from < to => bytes_to_sectors(m) = to + 1
      /\ l <= m => bytes_to_sectors(l) <= bytes_to_sectors(m)
  <2>1. from = bytes_to_sector_index(l - 1) /\ to = bytes_to_sector_index(m - 1)
    BY <1>0, <1>3, InodeAssumption, SMTT(60) DEF bytes_to_sector_index
  <2> QED
    BY <1>3, <2>1, Extent
<1>5. /\ pc'[t] = (IF extends THEN "can" ELSE "data") /\ op'[t] = "write"
      /\ inode'[t] = s /\ id'[t] = owner[s] /\ offset'[t] = ofs /\ size'[t] = n
      /\ i'[t] = (IF ~extends \/ l = 0 THEN 0 ELSE from + 1)
      /\ end'[t] = (IF extends THEN to + 1 ELSE 0) /\ got'[t] = <<>>
  <2>1. /\ pc'[t] = w /\ i'[t] = b /\ end'[t] = e /\ op'[t] = "write" /\ inode'[t] = s
        /\ id'[t] = owner[s] /\ offset'[t] = ofs /\ size'[t] = n /\ got'[t] = <<>>
    BY <1>1, <1>2 DEF TypeOK, CallOK
  <2> QED
    BY <1>2, <2>1
<1>6. Quiet(t)
  <2>1. pc' = [pc EXCEPT ![t] = w] /\ i' = [i EXCEPT ![t] = b] /\ end' = [end EXCEPT ![t] = e]
    BY <1>2
  <2> QED
    BY <1>1, <2>1 DEF TypeOK, Quiet
<1>7. TypeOK'
  <2>1. disk' \in [Sector -> [Word -> Nat]]
    <3>1. 0 \in Word
      BY Constants
    <3>2. SetWord(<<s, 0>>, m) \in [Sector -> [Word -> Nat]]
      BY <1>3, <3>1, OneWordSet, SMTT(60)
    <3>3. disk' = disk \/ disk' = SetWord(<<s, 0>>, m)
      BY <1>2
    <3> QED
      BY <3>2, <3>3, Types
  <2>2. /\ i' \in [Thread -> Nat] /\ end' \in [Thread -> Nat]
        /\ offset' \in [Thread -> Nat] /\ size' \in [Thread -> Nat]
    <3>1. b \in Nat /\ e \in Nat
      BY <1>2, <1>3, <1>4, SMTT(60)
    <3>2. i' = [i EXCEPT ![t] = b] /\ end' = [end EXCEPT ![t] = e]
      BY <1>2
    <3> QED
      BY <1>1, <1>3, <3>1, <3>2 DEF TypeOK
  <2>3. id' \in [Thread -> 0 .. MaxCreate] /\ inode' \in [Thread -> Sector]
    BY <1>1, <1>3 DEF TypeOK
  <2>4. /\ pc' \in [Thread -> {"idle", "can", "give", "give_fail", "install", "link",
                        "data", "add", "freeing", "alloc_failed", "release_failed",
                        "map_failed"}]
        /\ op' \in [Thread -> {"create", "mkdir", "write", "close"}]
    <3>1. pc' = [pc EXCEPT ![t] = w]
      BY <1>2
    <3>2. w \in {"can", "data"}
      BY <1>2
    <3> QED
      BY <1>1, <3>1, <3>2 DEF TypeOK
  <2> QED
    BY <1>1, <2>1, <2>2, <2>3, <2>4 DEF TypeOK
<1>8. \A u \in Thread : pc[u] # "idle" => inode[u] # s
  BY <1>1 DEF Unlocked, CallInv, CallOK
<1>9. \A k \in 0 .. bytes_to_sectors(l) - 1 : BlockOK(s, k, h)
  BY <1>0 DEF Layout, Blocks
<1>10. CASE extends
  <2>1. UNCHANGED disk
    BY <1>2, <1>10
  <2>2. StepOn(t, {}, h, h)
    BY <1>1, <1>3, <1>5, <1>6, <1>7, <2>1, Still
  <2>3. i'[t] = bytes_to_sectors(l) /\ end'[t] = to + 1
    BY <1>0, <1>4, <1>5, <1>10
  <2>4. bytes_to_sectors(l) <= bytes_to_sectors(m) /\ bytes_to_sectors(l) <= to + 1
    BY <1>0, <1>4, <1>10, SMTT(60)
  <2>5. CallOK(t)'
    <3>1. length(s)' = l
      BY <1>0, <2>1 DEF length
    <3>2. /\ pc'[t] = "can" /\ op'[t] = "write" /\ inode'[t] = s /\ id'[t] = owner'[s]
          /\ s \in free_map' /\ s \in files'
      BY <1>1, <1>3, <1>5, <1>10
    <3>3. /\ bytes_to_sectors(l) <= bytes_to_sectors(l) /\ offset'[t] + size'[t] = m
          /\ bytes_to_sectors(m) <= to + 1
      BY <1>0, <1>4, <1>5, SMTT(60)
    <3> QED
      BY <2>3, <2>4, <3>1, <3>2, <3>3 DEF CallOK, Creates, Creating, Writes, Growing
  <2>6. ThreadOK(t, h)'
    <3>1. \A k \in Nat : BlockOK(s, k, h) => BlockOK(s, k, h)'
      BY <1>1, <1>3, <2>1, StillInode
    <3>2. \A k \in 0 .. bytes_to_sectors(l) - 1 : BlockOK(s, k, h)'
      BY <1>4, <1>9, <3>1, SMTT(60)
    <3> QED
      BY <1>5, <1>10, <2>3, <3>2, NothingGot DEF ThreadOK
  <2>7. CallInv' /\ \E home : Layout(home)'
    <3>1. h \in Homes /\ h[0] = <<0, "none", 0>>
      BY DEF Layout, Homes
    <3> QED
      <4>f. Fits(t, {}, h, h)
        BY <1>5, <1>7, <1>8, <2>2, <2>5, <2>6, <3>1 DEF Fits
      <4> QED
        BY <4>f, Together
  <2>8. FileInv'
    <3>f. FilesFit(t, {}, h, h)
      BY <1>1, <1>5, <1>7, <2>2 DEF FilesFit, FileInv
    <3> QED
      BY <3>f, FilesTogether
  <2> QED
    BY <1>7, <2>7, <2>8 DEF IInv
<1>11. CASE ~extends
  <2>1. CallOK(t)'
    <3>1. /\ pc'[t] = "data" /\ op'[t] = "write" /\ inode'[t] = s /\ id'[t] = owner'[s]
          /\ s \in free_map' /\ s \in files'
      BY <1>1, <1>3, <1>5, <1>11
    <3> QED
      BY <1>5, <3>1 DEF CallOK, Creates, Creating, Writes, Growing
  <2>2. CASE l < m
    <3>1. disk' = SetWord(<<s, 0>>, m)
      BY <1>2, <1>11, <2>2
    <3>2. bytes_to_sectors(l) <= bytes_to_sectors(m) /\ bytes_to_sectors(m) <= bytes_to_sectors(l)
      BY <1>0, <1>3, <1>4, <1>11, <2>2, SMTT(60)
    <3>3. \A k \in 0 .. bytes_to_sectors(m) - 1 : BlockOK(s, k, h)
      BY <1>4, <1>9, <3>2, SMTT(60)
    <3> QED
      BY <1>0, <1>1, <1>3, <1>5, <1>6, <1>7, <1>8, <1>11, <2>1, <3>1, <3>2, <3>3, LengthStep
         DEF Growing
  <2>3. CASE ~ (l < m)
    <3>1. UNCHANGED disk
      BY <1>2, <2>3
    <3>2. StepOn(t, {}, h, h)
      BY <1>1, <1>3, <1>5, <1>6, <1>7, <3>1, Still
    <3>3. ThreadOK(t, h)'
      BY <1>5, <1>11, NothingGot DEF ThreadOK, Growing
    <3>4. CallInv' /\ \E home : Layout(home)'
      <4>1. h \in Homes /\ h[0] = <<0, "none", 0>>
        BY DEF Layout, Homes
      <4> QED
        <5>f. Fits(t, {}, h, h)
          BY <1>5, <1>7, <1>8, <2>1, <3>2, <3>3, <4>1 DEF Fits
        <5> QED
          BY <5>f, Together
    <3>5. FileInv'
      <4>f. FilesFit(t, {}, h, h)
        BY <1>1, <1>5, <1>7, <3>2 DEF FilesFit, FileInv
      <4> QED
        BY <4>f, FilesTogether
    <3> QED
      BY <1>7, <3>4, <3>5 DEF IInv
  <2> QED
    BY <2>2, <2>3
<1> QED
  BY <1>10, <1>11

\* The loop of inode_write_at stays below the length.
LEMMA TouchedBlocks ==
  ASSUME TypeOK, NEW t \in Thread
  PROVE  Touched(t) \subseteq Nat /\ Touched(t) \subseteq Blocks(inode[t])
<1>1. PICK o, e, l : o = offset[t] /\ e = offset[t] + size[t] /\ l = length(inode[t])
  OBVIOUS
<1>2. o \in Nat /\ e \in Nat /\ l \in Nat
  <2>1. inode[t] \in Sector /\ offset[t] \in Nat /\ size[t] \in Nat
    BY Types
  <2>2. length(inode[t]) \in Nat
    <3>1. disk \in [Sector -> [Word -> Nat]] /\ 0 \in Word
      BY Types, Constants
    <3> QED
      BY <2>1, <3>1 DEF length
  <2> QED
    BY <1>1, <2>1, <2>2, SMTT(60)
<1>3. PICK m : m = Min({e, l})
  OBVIOUS
<1>4. m \in Nat /\ m <= l
  <2>1. \E x \in {e, l} : \A y \in {e, l} : x <= y
    BY <1>2, SMTT(60)
  <2>2. m \in {e, l} /\ \A y \in {e, l} : m <= y
    BY <1>3, <2>1 DEF Min
  <2> QED
    BY <1>2, <2>2
<1>5. ASSUME NEW k \in Touched(t)
      PROVE  k \in Nat /\ k < bytes_to_sectors(l)
  <2>1. /\ o < m /\ k \in Int /\ bytes_to_sector_index(o) <= k
        /\ k <= bytes_to_sector_index(m - 1)
    BY <1>1, <1>3, <1>5, SMTT(60) DEF Touched, bytes_to_sector_index
  <2>2. /\ bytes_to_sector_index(o) \in Nat
        /\ bytes_to_sectors(m) = bytes_to_sector_index(m - 1) + 1
        /\ bytes_to_sectors(m) <= bytes_to_sectors(l)
        /\ bytes_to_sectors(m) \in Nat /\ bytes_to_sectors(l) \in Nat
    BY <1>2, <1>4, <2>1, BytesToSectors, SMTT(60)
  <2>3. m - 1 \in Nat
    BY <1>2, <1>4, <2>1, SMTT(60)
  <2>4. bytes_to_sector_index(m - 1) \in Nat
    BY <2>3, BytesToSectors
  <2> QED
    BY <2>1, <2>2, <2>4, SMTT(60)
<1>6. Blocks(inode[t]) = 0 .. bytes_to_sectors(l) - 1 /\ bytes_to_sectors(l) \in Nat
  BY <1>1, <1>2, BytesToSectors DEF Blocks, bytes_to_sectors
<1> QED
  BY <1>5, <1>6, SMTT(60)

\* The sectors that the loop writes are data blocks of the inode.
LEMMA Loop ==
  ASSUME NEW h, IInvAt(h), NEW t \in Thread, WriteBlocks(t)
  PROVE  IInv'
<1> USE DEF IInvAt
<1>1. /\ pc[t] = "data" /\ CallOK(t)
      /\ UNCHANGED <<free_map, files, dirs, owner, creates, removes>>
  BY DEF WriteBlocks, At, CallInv
<1>2. PICK s, T, at : /\ s = inode[t] /\ T = Touched(t)
                      /\ at = {byte_to_sector(inode[t], k) : k \in T}
  OBVIOUS
<1>3. s \in files /\ s \in Sector /\ s \in Inodes /\ s \in Rooted
  BY <1>1, <1>2, Types, RootedSectors DEF CallOK, Creates, Creating, Writes, TypeOK
<1>4. T \subseteq Nat /\ T \subseteq Blocks(s) /\ Blocks(s) \subseteq Nat
  <2>1. T \subseteq Nat /\ T \subseteq Blocks(inode[t])
    BY <1>2, TouchedBlocks
  <2> QED
    BY <1>2, <1>3, <2>1, BlockCount, SMTT(60) DEF Blocks, length
<1>5. at = {byte_to_sector(s, k) : k \in T}
  <2>1. s = inode[t]
    BY <1>2
  <2>2. \A k : PtrAt(inode[t], k) = PtrAt(s, k)
    BY <2>1 DEF PtrAt
  <2>3. \A k : byte_to_sector(inode[t], k) = byte_to_sector(s, k)
    BY <2>2 DEF byte_to_sector
  <2> QED
    BY <1>2, <2>3
<1>6. \A k \in Blocks(s) : BlockOK(s, k, h)
  BY <1>3 DEF Layout
<1>7. /\ 0 \notin at /\ at \subseteq Sector
      /\ \A k \in Blocks(s) : h[byte_to_sector(s, k)] = <<s, "data", k>>
      /\ \A x \in at : \E k \in T : h[x] = <<s, "data", k>>
  BY <1>4, <1>5, <1>6, Types DEF BlockOK, SectorOK
<1>8. /\ disk' = [x \in Sector |-> IF x \in at THEN DataBlock ELSE disk[x]]
      /\ written' = written \cup {<<s, k>> : k \in T} /\ Return(t)
  <2>1. at = {byte_to_sector(inode[t], k) : k \in Touched(t)}
    BY <1>2
  <2> QED
    BY <1>2, <1>7, <2>1, SMTT(60) DEF WriteBlocks, DataBlock
<1>9. /\ \A x \in at : disk'[x] = DataBlock
      /\ \A x \in Sector \ at : disk'[x] = disk[x]
      /\ \A k \in Nat : <<s, k>> \in written' <=> <<s, k>> \in written \/ k \in T
      /\ \A r, k : r # s => (<<r, k>> \in written' <=> <<r, k>> \in written)
  BY <1>7, <1>8
<1>10. TypeOK'
  <2>1. disk' \in [Sector -> [Word -> Nat]]
    BY <1>8, Constants, Types
  <2>2. written' \subseteq Sector \X Nat
    BY <1>3, <1>4, <1>8, Types, SMTT(60)
  <2>3. dirs' \subseteq files'
    BY <1>1 DEF TypeOK
  <2> QED
    BY <1>1, <1>8, <2>1, <2>2, <2>3, ReturnType, Types
<1>11. /\ Quiet(t) /\ pc'[t] = "idle" /\ op'[t] = "create"
       /\ CallOK(t)' /\ ThreadOK(t, h)'
  BY <1>8, Returned
<1>12. h \in Homes /\ h[0] = <<0, "none", 0>> /\ IndexOK(s, h) /\ h[s] = <<s, "inode", 0>>
  BY <1>3 DEF Layout, Homes, IndexOK
<1>13. StepOn(t, {s}, h, h)
  <2>1. \A x \in Sector : SameSector(x, h, h) \/ (h[x][1] \in {s} /\ h[x][2] # "got")
    <3>1. ASSUME NEW x \in Sector, x \in at PROVE h[x][1] = s /\ h[x][2] # "got"
      BY <1>7, <3>1, SMTT(60)
    <3>2. ASSUME NEW x \in Sector, x \notin at PROVE SameSector(x, h, h)
      BY <1>1, <1>9, <3>2 DEF SameSector
    <3> QED
      BY <3>1, <3>2
  <2>2. LeavesAlone(t, {s}, h, h)
    BY <1>9, <2>1, Elsewhere
  <2>3. \A u \in Thread \ {t} : pc[u] # "idle" => inode[u] # s
    BY <1>1, <1>2 DEF CallInv
  <2> QED
    BY <1>1, <1>11, <2>2, <2>3 DEF StepOn
<1>14. \A x \in Sector : h[x][1] = s /\ h[x][2] \in IndexRole => disk'[x] = disk[x]
  BY <1>7, <1>9, SMTT(60) DEF IndexRole
<1>15. IndexOK(s, h)'
  BY <1>1, <1>3, <1>12, <1>14, IndexIsKept, SMTT(60)
<1>16. Blocks(s)' = Blocks(s)
  <2>1. disk'[s] = disk[s]
    BY <1>3, <1>12, <1>14, SMTT(60) DEF IndexRole
  <2> QED
    BY <2>1 DEF Blocks, length
<1>17. \A k \in Blocks(s) : BlockOK(s, k, h)'
  <2> SUFFICES ASSUME NEW k \in Blocks(s) PROVE BlockOK(s, k, h)'
    OBVIOUS
  <2>1. BlockOK(s, k, h) /\ k \in Nat /\ k < MaxBlocks
    BY <1>4, <1>6 DEF BlockOK
  <2>2. /\ IndexMissing(s, k)' <=> IndexMissing(s, k)
        /\ byte_to_sector(s, k)' = byte_to_sector(s, k)
    BY <1>3, <1>12, <1>14, <2>1, PtrIsKept
  <2>3. PICK x : x = byte_to_sector(s, k)
    OBVIOUS
  <2>4. /\ x \in free_map /\ x # 0 /\ h[x] = <<s, "data", k>> /\ owner[x] = owner[s]
        /\ disk[x] = (IF <<s, k>> \in written THEN DataBlock ELSE Zero) /\ x \in Sector
    BY <2>1, <2>3, Types DEF BlockOK, SectorOK
  <2>5. x \in at <=> k \in T
    BY <1>5, <1>7, <2>3, <2>4, SMTT(60)
  <2>6. disk'[x] = IF <<s, k>> \in written' THEN DataBlock ELSE Zero
    BY <1>9, <2>1, <2>4, <2>5
  <2>7. SectorOK(x, s, k, h)'
    BY <1>1, <2>4, <2>6 DEF SectorOK
  <2>8. SectorOK(byte_to_sector(s, k), s, k, h)'
    BY <2>2, <2>3, <2>7 DEF SectorOK
  <2> QED
    BY <2>1, <2>2, <2>8 DEF BlockOK
<1>18. CallInv' /\ \E home : Layout(home)'
  <2>f. Fits(t, {s}, h, h)
    BY <1>10, <1>11, <1>12, <1>13, <1>15, <1>16, <1>17 DEF Fits
  <2> QED
    BY <2>f, Together
<1>19. FileInv'
  <2>1. 0 \in free_map' /\ \A x \in Sector : owner'[x] <= creates'
    BY <1>1 DEF FileInv
  <2>2. Inodes' \subseteq Inodes
    BY <1>1, <1>11, SMTT(60) DEF Inodes, Quiet
  <2>3. owner'[s] # 0 /\ \A r \in Inodes' : owner'[r] = owner'[s] => r = s
    BY <1>1, <1>3, <2>2 DEF FileInv
  <2>4. s \in free_map' /\ \A b \in written' : b[1] = s => b[2] \in Blocks(s)'
    BY <1>1, <1>3, <1>4, <1>8, <1>16, SMTT(60) DEF FileInv
  <2>5. "dir" \notin Kind => dirs' = {} /\ op'[t] # "mkdir"
    BY <1>1, <1>11 DEF FileInv
  <2> QED
    <3>f. FilesFit(t, {s}, h, h)
      BY <1>10, <1>13, <2>1, <2>3, <2>4, <2>5 DEF FilesFit
    <3> QED
      BY <3>f, FilesTogether
<1> QED
  BY <1>10, <1>18, <1>19 DEF IInv

-----------------------------------------------------------------------------
(* The invariant                                                            *)

\* No directory is removed, and the map of an inode reaches as many blocks as
\* the device has sectors, as install_sector ASSERTs (inode.c:170): an inode maps
\* 12 + 128 + 128 * 128 blocks, and the devices of the tests have 4096 sectors
\* (--filesys-size=2).
Scope == (MaxRemove = 0 \/ "dir" \notin Kind) /\ Sectors <= MaxBlocks

\* The formatted device satisfies the invariant.
LEMMA Initially == Init => IInv
<1> SUFFICES ASSUME Init PROVE IInv
  OBVIOUS
<1> DEFINE home == [x \in Sector |-> IF x = 0 THEN <<0, "none", 0>> ELSE <<x, "inode", 0>>]
<1>1. 0 \in Sector /\ 1 \in Sector /\ 0 \in 0 .. MaxCreate /\ 0 \in 0 .. MaxRemove
  BY InodeAssumption, SMTT(60) DEF Sector
<1>2. TypeOK
  <2>1. disk \in [Sector -> [Word -> Nat]]
    BY DEF Init
  <2>2. <<>> \in Seq(Sector)
    BY SMTT(60)
  <2> QED
    BY <1>1, <2>1, <2>2 DEF Init, TypeOK
<1>3. /\ \A t \in Thread : /\ pc[t] = "idle" /\ op[t] = "create" /\ got[t] = <<>>
                           /\ i[t] = 0
      /\ files = {} /\ Inodes = {} /\ Rooted = Sector \ {0, 1}
  BY DEF Init, Inodes, Rooted
<1>4. CallInv
  BY <1>3 DEF CallInv, CallOK, Creates, Writes, Growing
<1>5. FileInv
  <2>1. \A x \in Sector : owner[x] <= creates
    BY SMTT(60) DEF Init
  <2> QED
    BY <1>3, <2>1 DEF FileInv, Init
<1>6. Layout(home)
  <2>1. home \in [Sector -> Sector \X Role \X Nat] /\ home[0] = <<0, "none", 0>>
    BY <1>1 DEF Role
  <2>2. \A s \in Rooted : IndexOK(s, home)
    <3> SUFFICES ASSUME NEW s \in Rooted PROVE IndexOK(s, home)
      OBVIOUS
    <3>1. home[s] = <<s, "inode", 0>>
      BY <1>3
    <3>2. disk[s][Single] = 0 /\ disk[s][Double] = 0
      BY <1>3, Constants DEF Init
    <3> QED
      BY <3>1, <3>2 DEF IndexOK, Leads
  <2>3. \A t \in Thread : ThreadOK(t, home)
    BY <1>3, SMTT(60) DEF ThreadOK, GotOK, Growing
  <2> QED
    BY <1>3, <2>1, <2>2, <2>3 DEF Layout
<1> QED
  BY <1>2, <1>4, <1>5, <1>6 DEF IInv

\* Starting a call preserves it.
LEMMA Calls ==
  ASSUME NEW h, IInvAt(h), NEW t \in Thread, Call(t), Scope
  PROVE  IInv'
<1>1. ASSUME NEW s \in files PROVE ~ RemoveDir(t, s)
  <2>1. RemoveDir(t, s) => dirs # {} /\ removes < MaxRemove
    BY DEF RemoveDir
  <2>2. removes \in 0 .. MaxRemove
    BY DEF IInvAt, TypeOK
  <2> QED
    BY <2>1, <2>2, SMTT(60) DEF IInvAt, FileInv, Scope
<1>2. CASE \E n \in Length, kind \in Kind : filesys_create_2(t, n, kind)
  BY <1>2, Create
<1>3. CASE \E s \in files, ofs, n \in Length : inode_write_at(t, s, ofs, n)
  BY <1>3, Write
<1>4. CASE \E s \in files : RemoveFile(t, s)
  BY <1>4, Remove
<1> QED
  BY <1>1, <1>2, <1>3, <1>4 DEF Call

-----------------------------------------------------------------------------
(* Room for a block                                                         *)

INSTANCE FiniteSetTheorems

\* A file never has more blocks than an inode can map, on a device of at most
\* that many sectors: its blocks have sectors of their own.
LEMMA RoomForBlock ==
  ASSUME NEW h, IInvAt(h), NEW t \in Thread, pc[t] = "link", Sectors <= MaxBlocks
  PROVE  i[t] < MaxBlocks
<1> USE DEF IInvAt
<1>1. PICK s, n, x : s = inode[t] /\ n = i[t] /\ x = sec[t]
  OBVIOUS
<1>2. s \in Sector /\ n \in Nat /\ x \in Sector
  BY <1>1, Types
<1>3. ThreadOK(t, h)
  BY DEF Layout
<1>4. h[x] = <<s, "data", n>>
  BY <1>1, <1>3 DEF ThreadOK, SectorOK
<1> DEFINE f == [k \in 0 .. n |-> IF k < n THEN byte_to_sector(s, k) ELSE x]
<1>5. ASSUME NEW k \in 0 .. n PROVE f[k] \in Sector /\ h[f[k]] = <<s, "data", k>>
  <2>1. CASE k < n
    <3>1. BlockOK(s, k, h)
      BY <1>1, <1>2, <1>3, <2>1, SMTT(60) DEF ThreadOK, Growing
    <3>2. byte_to_sector(s, k) \in Sector /\ h[byte_to_sector(s, k)] = <<s, "data", k>>
      BY <3>1, Types DEF BlockOK, SectorOK
    <3> QED
      BY <2>1, <3>2
  <2>2. CASE k = n
    BY <1>2, <1>4, <2>2, SMTT(60)
  <2> QED
    BY <1>2, <2>1, <2>2, SMTT(60)
<1>6. f \in Injection(0 .. n, Sector)
  <2>1. f \in [0 .. n -> Sector]
    BY <1>5
  <2>2. ASSUME NEW k \in 0 .. n, NEW l \in 0 .. n, f[k] = f[l] PROVE k = l
    BY <1>5, <2>2, SMTT(60)
  <2> HIDE DEF f
  <2> QED
    BY <2>1, <2>2 DEF Injection, IsInjective
<1>7. Cardinality(0 .. n) = n + 1
  BY <1>2, FS_Interval, SMTT(60)
<1>8. IsFiniteSet(Sector) /\ Cardinality(Sector) = Sectors
  BY InodeAssumption, FS_Interval, SMTT(60) DEF Sector
<1> HIDE DEF f
<1>9. n + 1 <= Sectors
  BY <1>6, <1>7, <1>8, FS_Injection, SMTT(60)
<1> QED
  BY <1>1, <1>2, <1>9, InodeAssumption, Constants, SMTT(60)

\* A step of a call preserves it.
LEMMA Steps ==
  ASSUME NEW h, IInvAt(h), NEW t \in Thread, Step(t), Scope
  PROVE  IInv'
<1>1. ~ inode_close(t) /\ ~ Closed(t)
  BY DEF inode_close, Closed, At, IInvAt, CallInv, CallOK
<1>2. pc[t] = "link" => i[t] < MaxBlocks
  BY RoomForBlock DEF Scope
<1>3. CASE can_allocate(t)
  BY <1>3, Can
<1>4. CASE GiveBack(t)
  BY <1>4, Give
<1>5. CASE CanAllocate(t)
  BY <1>5, CanDone
<1>6. CASE CannotAllocate(t)
  BY <1>6, CannotDone
<1>7. CASE install_sector(t)
  BY <1>7, InstallData
<1>8. CASE InstallIndex(t)
  BY <1>2, <1>8, InstallPointer DEF InstallIndex, At
<1>9. CASE InstallLink(t)
  BY <1>2, <1>9, InstallBlock DEF InstallLink, At
<1>10. CASE Installed(t)
  BY <1>10, InstallEnds
<1>11. CASE dir_add(t)
  BY <1>11, Add
<1>12. CASE WriteBlocks(t)
  BY <1>12, Loop
<1>13. CASE WriteDenied(t)
  BY <1>13, Denied
<1> QED
  BY <1>1, <1>3, <1>4, <1>5, <1>6, <1>7, <1>8, <1>9, <1>10, <1>11, <1>12, <1>13 DEF Step

\* Every step preserves the invariant.
LEMMA Inductive == IInv /\ [Next]_vars /\ Scope => IInv'
<1> SUFFICES ASSUME IInv, [Next]_vars, Scope PROVE IInv'
  OBVIOUS
<1>1. PICK h : IInvAt(h)
  BY DEF IInv, IInvAt
<1>2. CASE UNCHANGED vars
  <2>1. TypeOK' /\ CallInv' /\ FileInv'
    <3>1. TypeOK'
      BY <1>1, <1>2 DEF vars, locals, TypeOK, IInvAt
    <3>2. CallInv'
      BY <1>1, <1>2 DEF vars, locals, CallInv, CallOK, Creates, Creating, Writes, length, IInvAt
    <3>3. FileInv'
      BY <1>1, <1>2, SMTT(60) DEF vars, locals, FileInv, Inodes, Blocks, length, IInvAt
    <3> QED
      BY <3>1, <3>2, <3>3
  <2>2. Layout(h)'
    <3>1. /\ UNCHANGED <<free_map, disk, owner, written>>
          /\ Rooted' = Rooted /\ files' = files
      BY <1>2 DEF vars, locals, Rooted, Inodes
    <3>2. \A s \in Rooted : /\ IndexOK(s, h)' /\ Blocks(s)' = Blocks(s)
                            /\ \A k \in Nat : BlockOK(s, k, h) => BlockOK(s, k, h)'
      BY <1>1, <3>1, StillInode
    <3>3. \A f \in files : \A k \in Blocks(f)' : BlockOK(f, k, h)'
      <4> SUFFICES ASSUME NEW f \in files, NEW k \in Blocks(f)' PROVE BlockOK(f, k, h)'
        OBVIOUS
      <4>1. f \in Rooted /\ f \in Sector
        BY <1>1, RootedSectors DEF IInvAt
      <4>2. k \in Blocks(f) /\ k \in Nat
        <5>1. k \in Blocks(f)
          BY <3>2, <4>1
        <5>2. bytes_to_sectors(length(f)) \in Nat
          BY <1>1, <4>1, BlockCount DEF IInvAt
        <5> QED
          BY <5>1, <5>2, SMTT(60) DEF Blocks
      <4> QED
        BY <1>1, <3>2, <4>1, <4>2 DEF IInvAt, Layout
    <3>4. ASSUME NEW t \in Thread PROVE ThreadOK(t, h)'
      <4>1. PICK s : s = inode[t]
        OBVIOUS
      <4>2. ThreadOK(t, h) /\ (pc[t] # "idle" => s \in Rooted) /\ i[t] \in Nat
        BY <1>1, <4>1, RootedSectors, Types DEF IInvAt, Layout
      <4>3. /\ pc'[t] = pc[t] /\ inode'[t] = s /\ i'[t] = i[t] /\ sec'[t] = sec[t]
            /\ got'[t] = got[t]
        BY <1>2, <4>1 DEF vars, locals
      <4>4. pc'[t] \in Growing => \A k \in 0 .. i'[t] - 1 : BlockOK(inode[t], k, h)'
        <5>1. pc[t] \in Growing => \A k \in 0 .. i[t] - 1 : BlockOK(s, k, h)
          BY <4>1, <4>2 DEF ThreadOK
        <5>2. pc[t] \in Growing => \A k \in 0 .. i[t] - 1 : BlockOK(s, k, h)'
          BY <3>2, <4>2, <5>1, SMTT(60) DEF Growing
        <5> QED
          BY <4>3, <5>2
      <4>5. pc'[t] = "link" => SectorOK(sec[t], inode[t], i[t], h)'
        BY <3>1, <4>1, <4>2, <4>3 DEF ThreadOK, SectorOK
      <4>6. GotOK(t, h)'
        BY <3>1, <4>1, <4>2, <4>3 DEF ThreadOK, GotOK
      <4> QED
        BY <4>4, <4>5, <4>6 DEF ThreadOK
    <3>5. h \in [Sector -> Sector \X Role \X Nat] /\ h[0] = <<0, "none", 0>>
      BY <1>1 DEF IInvAt, Layout
    <3> QED
      BY <3>1, <3>2, <3>3, <3>4, <3>5 DEF Layout
  <2> QED
    BY <2>1, <2>2 DEF IInv
<1>3. CASE Next
  BY <1>1, <1>3, Calls, Steps DEF Next
<1> QED
  BY <1>2, <1>3

\* The invariant holds throughout.
LEMMA Invariance == Scope => (Spec => []IInv)
<1> SUFFICES ASSUME Scope PROVE Spec => []IInv
  OBVIOUS
<1>1. Init => IInv
  BY Initially
<1>2. IInv /\ [Next]_vars => IInv'
  BY Inductive
<1> QED
  BY <1>1, <1>2, PTL DEF Spec

\* The invariant says that the blocks of a file are its own.
LEMMA BlocksOK == IInv => BlocksAreMine
<1> SUFFICES ASSUME IInv PROVE BlocksAreMine
  OBVIOUS
<1>1. PICK h : IInvAt(h)
  BY DEF IInv, IInvAt
<1> SUFFICES ASSUME NEW f \in files
    PROVE  /\ \A k \in Blocks(f) :
                /\ ~IndexMissing(f, k)
                /\ byte_to_sector(f, k) \in free_map \ files
                /\ owner[byte_to_sector(f, k)] = owner[f]
           /\ \A k, l \in Blocks(f) : byte_to_sector(f, k) = byte_to_sector(f, l) => k = l
  BY DEF BlocksAreMine
<1>2. \A k \in Blocks(f) : BlockOK(f, k, h)
  BY <1>1 DEF IInvAt, Layout
<1>3. \A r \in files : h[r] = <<r, "inode", 0>>
  BY <1>1, RootedSectors DEF IInvAt, Layout, IndexOK
<1>4. \A k \in Blocks(f) : /\ ~IndexMissing(f, k) /\ byte_to_sector(f, k) \in free_map
                           /\ owner[byte_to_sector(f, k)] = owner[f]
                           /\ h[byte_to_sector(f, k)] = <<f, "data", k>>
  BY <1>2 DEF BlockOK, SectorOK
<1> QED
  BY <1>3, <1>4, SMTT(60)

\* The invariant says that the blocks hold what was written.
LEMMA ContentsOK == IInv => Contents
<1> SUFFICES ASSUME IInv, NEW f \in files, NEW k \in Blocks(f)
    PROVE  disk[byte_to_sector(f, k)] =
             IF <<f, k>> \in written THEN [w \in Word |-> Data] ELSE Zero
  BY DEF Contents
<1>1. PICK h : IInvAt(h)
  BY DEF IInv, IInvAt
<1>2. BlockOK(f, k, h)
  BY <1>1 DEF IInvAt, Layout
<1> QED
  BY <1>2 DEF BlockOK, SectorOK, DataBlock

-----------------------------------------------------------------------------
(* Theorems                                                                 *)

\* Files may be created, extended, written and removed by any number of threads
\* at once: every block that a file has by its length is mapped to a sector that
\* install_sector allocated for this file alone (byte_to_sector), at every point
\* between two calls of the free map.
THEOREM BlocksArePrivate == Scope => (Spec => []BlocksAreMine)
<1> SUFFICES ASSUME Scope PROVE Spec => []BlocksAreMine
  OBVIOUS
<1>1. Spec => []IInv
  BY Invariance
<1>2. IInv => BlocksAreMine
  BY BlocksOK
<1> QED
  BY <1>1, <1>2, PTL

\* A block of a file holds what inode_write_at wrote to it, and zeros before,
\* whatever the sector held when get_sector allocated it and whatever other
\* threads do to other files.
THEOREM ContentsAreKept == Scope => (Spec => []Contents)
<1> SUFFICES ASSUME Scope PROVE Spec => []Contents
  OBVIOUS
<1>1. Spec => []IInv
  BY Invariance
<1>2. IInv => Contents
  BY ContentsOK
<1> QED
  BY <1>1, <1>2, PTL

\* What the code asserts about sectors: byte_to_sector has one for every byte that
\* inode_write_at writes, and free_map_release gets only sectors in use, the ones
\* that can_allocate has taken and the inode of a creation that may still fail.
SectorAsserts ==
  \A t \in Thread :
    /\ pc[t] # "map_failed"
    /\ pc[t] \in {"give_fail", "add"} => inode[t] \in free_map
    /\ \A j \in 1 .. Len(got[t]) : got[t][j] \in free_map

\* The ASSERTs of byte_to_sector and of free_map_release hold in every call,
\* whatever other threads allocate and release between its steps.
THEOREM AssertsHold == Scope => (Spec => []SectorAsserts)
<1> SUFFICES ASSUME Scope PROVE Spec => []SectorAsserts
  OBVIOUS
<1>1. Spec => []IInv
  BY Invariance
<1>2. IInv => SectorAsserts
  <2> SUFFICES ASSUME IInv PROVE SectorAsserts
    OBVIOUS
  <2>1. \A t \in Thread : CallOK(t)
    BY DEF IInv, CallInv
  <2>2. \A t \in Thread : \A j \in 1 .. Len(got[t]) : got[t][j] \in free_map
    BY DEF IInv, Layout, ThreadOK, GotOK
  <2> QED
    BY <2>1, <2>2 DEF SectorAsserts, CallOK
<1> QED
  BY <1>1, <1>2, PTL
=============================================================================
