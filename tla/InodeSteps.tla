----------------------------- MODULE InodeSteps -----------------------------
(***************************************************************************)
(* What the steps of Inode leave alone, for any number of threads and      *)
(* sectors and any number of direct pointers: the inductive invariant of   *)
(* InodeProofs, and the steps that create a file, take sectors and give    *)
(* them back, and put a block in the map.                                  *)
(***************************************************************************)
EXTENDS Inode, TLAPS

\* Leaves are for Zenon; the ones for an SMT solver say so.
USE ZenonT(60)

\* The blocks that an inode can have.
MaxBlocks == NumDirect + Indirect + Indirect * Indirect

DataBlock == [w \in Word |-> Data]

(* The inductive invariant                                                  *)

Creates(t) == pc[t] # "idle" /\ Creating(t)

Writes(t) == pc[t] # "idle" /\ op[t] = "write"

\* Where a thread has a number of blocks that is not yet the file's length.
Growing == {"can", "give", "give_fail", "install", "link", "add"}

\* The inodes of files, and of files that are being created.
Inodes == files \cup {inode[t] : t \in {u \in Thread : pc[u] # "idle"}}

\* The sectors that hold the pointers of an inode, now or when one is created
\* in them: a sector that is given back keeps what it holds.
Rooted == (Sector \ free_map) \cup Inodes

\* home[x] says which pointer leads to sector x: the inode, the kind of pointer
\* and its index.
Role == {"inode", "single", "double", "second", "data", "got", "none"}

IndexRole == {"inode", "single", "double", "second"}

\* A pointer at place h of the tree, if it is not null, leads to a sector in use
\* whose home it is.
Leads(x, home, h) == x # 0 => x \in free_map /\ home[x] = h

\* The index blocks of inode s.
IndexOK(s, home) ==
  /\ home[s] = <<s, "inode", 0>>
  /\ Leads(disk[s][Single], home, <<s, "single", 0>>)
  /\ Leads(disk[s][Double], home, <<s, "double", 0>>)
  /\ disk[s][Double] # 0 =>
       \A w \in Word : Leads(disk[disk[s][Double]][w], home, <<s, "second", w>>)

\* Sector x is block k of inode s.
SectorOK(x, s, k, home) ==
  /\ x \in free_map /\ x # 0 /\ home[x] = <<s, "data", k>>
  /\ owner[x] = owner[s]
  /\ disk[x] = IF <<s, k>> \in written THEN DataBlock ELSE Zero

BlockOK(s, k, home) ==
  /\ k < MaxBlocks /\ ~IndexMissing(s, k)
  /\ SectorOK(byte_to_sector(s, k), s, k, home)

\* The sectors of a thread in can_allocate.
GotOK(t, home) ==
  \A j \in 1 .. Len(got[t]) :
    /\ got[t][j] \in free_map
    /\ home[got[t][j]] = <<inode[t], "got", j>>
    /\ disk[got[t][j]] = Zero

\* The blocks that a thread has installed, or is about to.
ThreadOK(t, home) ==
  /\ pc[t] \in Growing => \A k \in 0 .. i[t] - 1 : BlockOK(inode[t], k, home)
  /\ pc[t] = "link" => SectorOK(sec[t], inode[t], i[t], home)
  /\ GotOK(t, home)

Layout(home) ==
  /\ home \in [Sector -> Sector \X Role \X Nat]
  /\ home[0] = <<0, "none", 0>>
  /\ \A s \in Rooted : IndexOK(s, home)
  /\ \A f \in files : \A k \in Blocks(f) : BlockOK(f, k, home)
  /\ \A t \in Thread : ThreadOK(t, home)

\* The call of thread t.  No directory is removed, so that it is no inode_close.
CallOK(t) ==
  /\ pc[t] \notin {"freeing", "release_failed", "map_failed"} /\ op[t] # "close"
  /\ pc[t] \notin {"can", "give", "give_fail"} => got[t] = <<>>
  /\ pc[t] = "idle" => i[t] = 0
  /\ pc[t] # "idle" => inode[t] \in free_map /\ owner[inode[t]] = id[t]
  /\ Creates(t) =>
       /\ pc[t] # "data" /\ inode[t] \notin files
       /\ \A b \in written : b[1] # inode[t]
       /\ end[t] = bytes_to_sectors(size[t])
       /\ pc[t] \in {"can", "give", "give_fail"} => i[t] = 0
       /\ pc[t] \in {"install", "link", "add"} => length(inode[t]) = size[t]
       /\ pc[t] = "add" => i[t] = end[t]
  /\ Writes(t) =>
       /\ pc[t] # "add" /\ inode[t] \in files
       /\ pc[t] \in Growing =>
            /\ bytes_to_sectors(length(inode[t])) <= i[t]
            /\ bytes_to_sectors(length(inode[t])) <= bytes_to_sectors(offset[t] + size[t])
            /\ bytes_to_sectors(offset[t] + size[t]) <= end[t]
  /\ pc[t] \in Growing => i[t] <= end[t]
  /\ pc[t] = "link" => i[t] < end[t]

\* Two calls never work on the same inode.
CallInv ==
  /\ \A t \in Thread : CallOK(t)
  /\ \A t, u \in Thread : pc[t] # "idle" /\ pc[u] # "idle" /\ inode[t] = inode[u] => t = u

\* The numbers of the files, and what has been written.
FileInv ==
  /\ 0 \in free_map /\ files \subseteq free_map
  /\ \A x \in Sector : owner[x] <= creates
  /\ \A s \in Inodes : owner[s] # 0
  /\ \A r, s \in Inodes : owner[r] = owner[s] => r = s
  /\ \A b \in written : b[1] \in files => b[2] \in Blocks(b[1])
  /\ "dir" \notin Kind => dirs = {} /\ \A t \in Thread : op[t] # "mkdir"

IInv == TypeOK /\ CallInv /\ FileInv /\ \E home : Layout(home)

-----------------------------------------------------------------------------
(* Numbers                                                                  *)

\* Division by a positive number.
LEMMA Division ==
  ASSUME NEW d \in Nat \ {0}, NEW m \in Nat, NEW n \in Nat
  PROVE  /\ n \div d \in Nat /\ n % d \in 0 .. d - 1
         /\ n < d * d => n \div d \in 0 .. d - 1
         /\ m \div d = n \div d /\ m % d = n % d => m = n
BY SMTT(60)

\* Where the words of an inode and of an index block are.
LEMMA Constants ==
  /\ Single \in Word /\ Double \in Word /\ Single # Double /\ 0 \in Word
  /\ Single \in Nat \ {0} /\ Double \in Nat \ {0} /\ NumDirect \in Nat
  /\ Indirect \in Nat \ {0} /\ Word = 0 .. Indirect - 1
  /\ Sector \subseteq Nat /\ MaxBlocks \in Nat
  /\ Zero \in [Word -> Nat] /\ DataBlock \in [Word -> Nat]
BY InodeAssumption, SMTT(60) DEF Single, Double, Word, Indirect, Sector, MaxBlocks, Zero, DataBlock

\* Words are numbered.
LEMMA WordsAreNat == Word \subseteq Nat
BY Constants, SMTT(60)

\* Blocks behind the double indirect pointer: the two words that lead to them.
LEMMA DoubleWords ==
  ASSUME NEW m \in Nat, NEW n \in Nat
  PROVE  /\ n % Indirect \in Word
         /\ n < Indirect * Indirect => n \div Indirect \in Word
         /\ m \div Indirect = n \div Indirect /\ m % Indirect = n % Indirect => m = n
BY Constants, Division

\* Bytes and sectors.
LEMMA BytesToSectors ==
  ASSUME NEW m \in Nat, NEW n \in Nat
  PROVE  /\ bytes_to_sectors(n) \in Nat /\ bytes_to_sector_index(n) \in Nat
         /\ m <= n => bytes_to_sectors(m) <= bytes_to_sectors(n)
         /\ n # 0 => bytes_to_sectors(n) = bytes_to_sector_index(n - 1) + 1
         /\ n = 0 => bytes_to_sectors(n) = 0 /\ bytes_to_sector_index(n - 1) = 0
<1> USE InodeAssumption DEF bytes_to_sectors, bytes_to_sector_index
<1>1. /\ (n + SectorSize - 1) \div SectorSize \in Nat /\ n \div SectorSize \in Nat
  BY SMTT(60)
<1>2. m <= n => (m + SectorSize - 1) \div SectorSize <= (n + SectorSize - 1) \div SectorSize
  BY SMTT(60)
<1>3. ((n - 1) + SectorSize) \div SectorSize = (n - 1) \div SectorSize + 1
  BY SMTT(60)
<1>4. n = 0 => (n + SectorSize - 1) \div SectorSize = 0
  BY SMTT(60)
<1>5. n + SectorSize - 1 = (n - 1) + SectorSize
  BY SMTT(60)
<1> QED
  BY <1>1, <1>2, <1>3, <1>4, <1>5, SMTT(60)

-----------------------------------------------------------------------------
(* What a step leaves alone                                                 *)

Homes == [Sector -> Sector \X Role \X Nat]

\* Sector x, with the pointer that leads to it, is as it was for inode s.
Kept(x, s, h, g) ==
  /\ g[x] = h[x] /\ disk'[x] = disk[x]
  /\ owner[x] = owner[s] => owner'[x] = owner'[s]
  /\ x \in free_map => x \in free_map'

\* All sectors of inode s are, but for those that can_allocate holds.
Apart(s, h, g) ==
  /\ \A x \in Sector : h[x][1] = s /\ h[x][2] # "got" => Kept(x, s, h, g)
  /\ \A k \in Nat : <<s, k>> \in written' <=> <<s, k>> \in written

\* Where the index pointers of an inode lead.
LEMMA IndexSectors ==
  ASSUME TypeOK, NEW h, NEW s \in Sector, IndexOK(s, h)
  PROVE  /\ h[s] = <<s, "inode", 0>>
         /\ disk[s][Single] # 0 =>
              /\ disk[s][Single] \in Sector /\ disk[s][Single] \in free_map
              /\ h[disk[s][Single]] = <<s, "single", 0>>
         /\ disk[s][Double] # 0 =>
              /\ disk[s][Double] \in Sector /\ disk[s][Double] \in free_map
              /\ h[disk[s][Double]] = <<s, "double", 0>>
         /\ disk[s][Double] # 0 => \A w \in Word :
              disk[disk[s][Double]][w] # 0 =>
                /\ disk[disk[s][Double]][w] \in Sector
                /\ disk[disk[s][Double]][w] \in free_map
                /\ h[disk[disk[s][Double]][w]] = <<s, "second", w>>
<1>1. free_map \subseteq Sector
  BY DEF TypeOK
<1> QED
  BY <1>1 DEF IndexOK, Leads

\* The pointer to block k is in a sector of the inode that is no data block.
LEMMA PtrIsIndex ==
  ASSUME TypeOK, NEW h, NEW s \in Sector, NEW k \in Nat, k < MaxBlocks, IndexOK(s, h)
  PROVE  /\ PtrAt(s, k)[1] \in Sector /\ PtrAt(s, k)[2] \in Word
         /\ h[PtrAt(s, k)[1]][1] = s /\ h[PtrAt(s, k)[1]][2] \in IndexRole
<1> DEFINE n == k - NumDirect - Indirect
           single == disk[s][Single]
           double == disk[s][Double]
           second == disk[double][n \div Indirect]
<1>a. h[s][1] = s /\ h[s][2] \in IndexRole
  BY SMTT(60) DEF IndexOK, IndexRole
<1>b. ASSUME single # 0
      PROVE  single \in Sector /\ h[single][1] = s /\ h[single][2] \in IndexRole
  BY <1>b, IndexSectors, SMTT(60) DEF IndexRole
<1>c. ASSUME double # 0
      PROVE  double \in Sector /\ h[double][1] = s /\ h[double][2] \in IndexRole
  BY <1>c, IndexSectors, SMTT(60) DEF IndexRole
<1>d. NumDirect \in Nat /\ Indirect \in Nat /\ Single \in Word /\ Double \in Word
  BY Constants
<1>1. CASE k < NumDirect
  <2>1. PtrAt(s, k) = <<s, k + 1>>
    BY <1>1, <1>d, SMTT(60) DEF PtrAt
  <2>2. k + 1 \in Word
    BY <1>1, <1>d, SMTT(60) DEF Word
  <2> QED
    BY <1>a, <2>1, <2>2, SMTT(60)
<1>2. CASE k >= NumDirect /\ n < 0
  <2>1. PtrAt(s, k) = IF single = 0 THEN <<s, Single>> ELSE <<single, k - NumDirect>>
    BY <1>2, <1>d, SMTT(60) DEF PtrAt
  <2>2. k - NumDirect \in Word
    BY <1>2, <1>d, SMTT(60) DEF Word, Indirect
  <2> QED
    BY <1>a, <1>b, <1>d, <2>1, <2>2, SMTT(60)
<1>3. CASE n >= 0
  <2>1. PtrAt(s, k) = IF double = 0 THEN <<s, Double>>
                      ELSE IF second = 0 THEN <<double, n \div Indirect>>
                      ELSE <<second, n % Indirect>>
    BY <1>3, <1>d, SMTT(60) DEF PtrAt
  <2>2. n \in Nat /\ n < Indirect * Indirect
    BY <1>3, <1>d, SMTT(60) DEF MaxBlocks
  <2>3. n \div Indirect \in Word /\ n % Indirect \in Word
    BY <2>2, DoubleWords
  <2>4. ASSUME double # 0, NEW w \in Word, disk[double][w] # 0
        PROVE  /\ disk[double][w] \in Sector /\ h[disk[double][w]][1] = s
               /\ h[disk[double][w]][2] \in IndexRole
    <3>1. /\ disk[double][w] \in Sector
          /\ h[disk[double][w]] = <<s, "second", w>>
      BY <2>4, IndexSectors, SMTT(60)
    <3> QED
      BY <3>1, SMTT(60) DEF IndexRole
  <2> HIDE DEF n
  <2>5. CASE double = 0
    BY <1>a, <1>d, <2>1, <2>5, SMTT(60)
  <2>6. CASE double # 0 /\ second = 0
    BY <1>c, <2>1, <2>3, <2>6, SMTT(60)
  <2>7. CASE double # 0 /\ second # 0
    BY <2>1, <2>3, <2>4, <2>7, SMTT(60)
  <2> QED
    BY <2>5, <2>6, <2>7
<1> QED
  BY <1>1, <1>2, <1>3, <1>d, SMTT(60)

\* Nothing on the way to a block of s has changed.
LEMMA PtrIsKept ==
  ASSUME TypeOK, NEW h, NEW g, NEW s \in Sector, NEW k \in Nat, k < MaxBlocks,
         IndexOK(s, h),
         \A x \in Sector : h[x][1] = s /\ h[x][2] \in IndexRole => disk'[x] = disk[x]
  PROVE  /\ PtrAt(s, k)' = PtrAt(s, k)
         /\ IndexMissing(s, k)' <=> IndexMissing(s, k)
         /\ byte_to_sector(s, k)' = byte_to_sector(s, k)
<1> DEFINE double == disk[s][Double]
<1>1. disk'[s] = disk[s]
  BY SMTT(60) DEF IndexOK, IndexRole
<1>2. double # 0 => disk'[double] = disk[double]
  <2>1. double # 0 => double \in Sector /\ h[double] = <<s, "double", 0>>
    BY IndexSectors
  <2> QED
    BY <2>1, SMTT(60) DEF IndexRole
<1>3. PtrAt(s, k)' = PtrAt(s, k)
  BY <1>1, <1>2 DEF PtrAt
<1>4. IndexMissing(s, k)' <=> IndexMissing(s, k)
  BY <1>1, <1>2 DEF IndexMissing
<1>5. disk'[PtrAt(s, k)[1]] = disk[PtrAt(s, k)[1]]
  BY PtrIsIndex, SMTT(60)
<1> QED
  BY <1>3, <1>4, <1>5 DEF byte_to_sector

\* The index of an inode, in a step that leaves its sectors alone.
LEMMA IndexIsKept ==
  ASSUME TypeOK, NEW h, NEW g, NEW s \in Sector, IndexOK(s, h),
         \A x \in Sector : h[x][1] = s /\ h[x][2] \in IndexRole =>
           g[x] = h[x] /\ disk'[x] = disk[x] /\ (x \in free_map /\ x # s => x \in free_map')
  PROVE  IndexOK(s, g)'
<1> DEFINE double == disk[s][Double]
<1>1. disk'[s] = disk[s] /\ g[s] = <<s, "inode", 0>>
  BY SMTT(60) DEF IndexOK, IndexRole
<1>2. /\ Leads(disk[s][Single], g, <<s, "single", 0>>)'
      /\ Leads(disk[s][Double], g, <<s, "double", 0>>)'
  <2>1. ASSUME NEW x \in free_map, NEW r \in {"single", "double"}, h[x] = <<s, r, 0>>
        PROVE  x \in free_map' /\ g[x] = <<s, r, 0>>
    <3>1. x \in Sector /\ x # s
      BY <2>1, SMTT(60) DEF IndexOK, TypeOK
    <3> QED
      BY <2>1, <3>1, SMTT(60) DEF IndexRole
  <2> QED
    BY <1>1, <2>1 DEF IndexOK, Leads
<1>3. ASSUME double # 0, NEW w \in Word
      PROVE  disk'[double][w] # 0 =>
               disk'[double][w] \in free_map' /\ g[disk'[double][w]] = <<s, "second", w>>
  <2>1. double \in Sector /\ h[double] = <<s, "double", 0>>
    BY <1>3 DEF IndexOK, Leads, TypeOK
  <2>2. disk'[double] = disk[double]
    BY <2>1, SMTT(60) DEF IndexRole
  <2>3. ASSUME disk[double][w] # 0
        PROVE  /\ disk[double][w] \in free_map /\ disk[double][w] \in Sector
               /\ h[disk[double][w]] = <<s, "second", w>>
    BY <1>3, <2>3 DEF IndexOK, Leads, TypeOK
  <2>4. ASSUME NEW x \in free_map, x \in Sector, h[x] = <<s, "second", w>>
        PROVE  x \in free_map' /\ g[x] = <<s, "second", w>>
    BY <2>4, SMTT(60) DEF IndexOK, IndexRole
  <2> QED
    BY <2>2, <2>3, <2>4
<1> QED
  BY <1>1, <1>2, <1>3 DEF IndexOK, Leads

\* The blocks of an inode, in a step that leaves its sectors alone.
LEMMA BlocksAreKept ==
  ASSUME TypeOK, NEW h \in Homes, NEW g, NEW s \in Sector, IndexOK(s, h), Apart(s, h, g)
  PROVE  /\ IndexOK(s, g)' /\ length(s)' = length(s)
         /\ \A k \in Nat, x \in Sector : SectorOK(x, s, k, h) => SectorOK(x, s, k, g)'
         /\ \A k \in Nat : BlockOK(s, k, h) => BlockOK(s, k, g)'
<1>1. IndexOK(s, g)'
  <2>1. \A x \in Sector : h[x][1] = s /\ h[x][2] \in IndexRole => h[x][2] # "got"
    BY DEF IndexRole
  <2>2. \A x \in Sector : h[x][1] = s /\ h[x][2] \in IndexRole =>
          g[x] = h[x] /\ disk'[x] = disk[x] /\ (x \in free_map => x \in free_map')
    BY <2>1 DEF Apart, Kept
  <2> QED
    BY <2>2, IndexIsKept, SMTT(60)
<1>2. length(s)' = length(s)
  BY SMTT(60) DEF length, IndexOK, Apart, Kept
<1>3. ASSUME NEW k \in Nat, NEW x \in Sector, SectorOK(x, s, k, h)
      PROVE  SectorOK(x, s, k, g)'
  <2>1. h[x][1] = s /\ h[x][2] # "got"
    BY <1>3, SMTT(60) DEF SectorOK
  <2>2. Kept(x, s, h, g)
    BY <2>1 DEF Apart
  <2> QED
    BY <1>3, <2>2 DEF SectorOK, Kept, Apart
<1>4. ASSUME NEW k \in Nat, BlockOK(s, k, h)
      PROVE  BlockOK(s, k, g)'
  <2>1. byte_to_sector(s, k) \in Sector
    BY <1>4 DEF BlockOK, SectorOK, TypeOK
  <2>2. \A x \in Sector : h[x][1] = s /\ h[x][2] \in IndexRole => disk'[x] = disk[x]
    BY DEF Apart, Kept, IndexRole
  <2>3. /\ IndexMissing(s, k)' <=> IndexMissing(s, k)
        /\ byte_to_sector(s, k)' = byte_to_sector(s, k)
    BY <1>4, <2>2, PtrIsKept DEF BlockOK
  <2> QED
    BY <1>3, <1>4, <2>1, <2>3 DEF BlockOK
<1> QED
  BY <1>1, <1>2, <1>3, <1>4

\* Only thread t takes the step.
Quiet(t) ==
  \A u \in Thread \ {t} :
    /\ pc'[u] = pc[u] /\ op'[u] = op[u] /\ inode'[u] = inode[u]
    /\ offset'[u] = offset[u] /\ size'[u] = size[u] /\ got'[u] = got[u]
    /\ i'[u] = i[u] /\ end'[u] = end[u] /\ sec'[u] = sec[u] /\ id'[u] = id[u]

\* The inodes outside S, and the sectors that other threads hold in
\* can_allocate, are left alone.
LeavesAlone(t, S, h, g) ==
  /\ \A s \in Rooted \ S : Apart(s, h, g)
  /\ \A s \in Inodes \ S : owner'[s] = owner[s]
  /\ \A u \in Thread \ {t} : \A j \in 1 .. Len(got[u]) :
       LET x == got[u][j] IN g[x] = h[x] /\ disk'[x] = disk[x] /\ x \in free_map'

\* A step of t on the inodes of S.
StepOn(t, S, h, g) ==
  /\ Quiet(t) /\ LeavesAlone(t, S, h, g)
  /\ files' \ S = files \ S
  /\ pc'[t] # "idle" => inode'[t] \in Inodes \cup S
  /\ \A x \in Sector : x \notin free_map' => x \notin free_map \/ x \in S
  /\ \A u \in Thread \ {t} : pc[u] # "idle" => inode[u] \notin S

SameSector(x, h, g) ==
  /\ g[x] = h[x] /\ disk'[x] = disk[x] /\ owner'[x] = owner[x]
  /\ x \in free_map => x \in free_map'

\* What the type invariant says, for one thread.
LEMMA Types ==
  ASSUME TypeOK, NEW t \in Thread
  PROVE  /\ inode[t] \in Sector /\ sec[t] \in Sector /\ got[t] \in Seq(Sector)
         /\ i[t] \in Nat /\ end[t] \in Nat /\ size[t] \in Nat /\ offset[t] \in Nat
         /\ free_map \subseteq Sector /\ written \subseteq Sector \X Nat
         /\ disk \in [Sector -> [Word -> Nat]] /\ owner \in [Sector -> 0 .. MaxCreate]
         /\ files \subseteq Sector /\ creates \in Nat /\ MaxCreate \in Nat
BY InodeAssumption, SMTT(60) DEF TypeOK

\* The length of an inode is a number.
LEMMA LengthIsNat ==
  ASSUME TypeOK, NEW s \in Sector
  PROVE  length(s) \in Nat
<1>1. disk \in [Sector -> [Word -> Nat]] /\ 0 \in Word
  BY Constants DEF TypeOK
<1> QED
  BY <1>1 DEF length

\* A thread that has no sector from can_allocate.
LEMMA NothingGot ==
  ASSUME NEW t, NEW g, got'[t] = <<>>
  PROVE  GotOK(t, g)'
<1>1. 1 .. Len(got'[t]) = {}
  BY SMTT(60)
<1> QED
  BY <1>1 DEF GotOK

\* Inodes are sectors, those of files and of calls among them.
LEMMA RootedSectors ==
  ASSUME TypeOK
  PROVE  /\ Rooted \subseteq Sector /\ files \subseteq Inodes /\ Inodes \subseteq Rooted
         /\ \A u \in Thread : pc[u] # "idle" => inode[u] \in Inodes
         /\ \A x \in Sector \ free_map : x \in Rooted
BY SMTT(60) DEF TypeOK, Rooted, Inodes

\* A step that changes only sectors of the inodes of S, and sectors that t has.
LEMMA Elsewhere ==
  ASSUME TypeOK, CallInv, NEW h, NEW g, Layout(h), NEW t \in Thread, NEW S,
         \A x \in Sector : \/ SameSector(x, h, g)
                           \/ h[x][1] \in S /\ h[x][2] # "got"
                           \/ pc[t] # "idle" /\ h[x][1] = inode[t] /\ h[x][2] = "got",
         \A s \in Sector \ S, k \in Nat : <<s, k>> \in written' <=> <<s, k>> \in written
  PROVE  LeavesAlone(t, S, h, g)
<1>1. ASSUME NEW s \in Rooted \ S
      PROVE  s \in Sector /\ h[s][1] = s /\ h[s][2] # "got" /\ SameSector(s, h, g)
  <2>1. s \in Sector /\ h[s] = <<s, "inode", 0>>
    BY RootedSectors DEF Layout, IndexOK
  <2> QED
    BY <2>1, SMTT(60)
<1>2. ASSUME NEW s \in Rooted \ S PROVE Apart(s, h, g)
  <2>1. ASSUME NEW x \in Sector, h[x][1] = s, h[x][2] # "got"
        PROVE  Kept(x, s, h, g)
    BY <1>1, <2>1 DEF SameSector, Kept
  <2> QED
    BY <1>1, <2>1 DEF Apart
<1>3. ASSUME NEW s \in Inodes \ S PROVE owner'[s] = owner[s]
  BY <1>1, RootedSectors DEF SameSector
<1>4. ASSUME NEW u \in Thread \ {t}, NEW j \in 1 .. Len(got[u])
      PROVE  LET x == got[u][j] IN g[x] = h[x] /\ disk'[x] = disk[x] /\ x \in free_map'
  <2> DEFINE x == got[u][j]
  <2>1. x \in free_map /\ x \in Sector /\ h[x] = <<inode[u], "got", j>>
    BY DEF Layout, ThreadOK, GotOK, TypeOK
  <2>2. pc[u] # "idle"
    <3>1. got[u] # <<>>
      BY SMTT(60)
    <3> QED
      BY <3>1 DEF CallInv, CallOK
  <2>3. pc[t] # "idle" => inode[u] # inode[t]
    BY <2>2 DEF CallInv
  <2>4. SameSector(x, h, g)
    BY <2>1, <2>3, SMTT(60)
  <2> QED
    BY <2>1, <2>4 DEF SameSector
<1> QED
  BY <1>2, <1>3, <1>4 DEF LeavesAlone

\* The same when only the sector of one inode changes.
LEMMA ElsewhereOne ==
  ASSUME TypeOK, CallInv, NEW h, NEW g, Layout(h), NEW t \in Thread, NEW x \in Sector,
         h[x] = <<x, "inode", 0>>, \A y \in Sector : y # x => SameSector(y, h, g),
         \A s \in Sector \ {x}, k \in Nat : <<s, k>> \in written' <=> <<s, k>> \in written
  PROVE  LeavesAlone(t, {x}, h, g)
<1>1. h[x][1] \in {x} /\ h[x][2] # "got"
  BY SMTT(60)
<1>2. \A y \in Sector : \/ SameSector(y, h, g)
                        \/ h[y][1] \in {x} /\ h[y][2] # "got"
                        \/ pc[t] # "idle" /\ h[y][1] = inode[t] /\ h[y][2] = "got"
  BY <1>1
<1> QED
  BY <1>2, Elsewhere

\* What such a step does not disturb.
LEMMA Inherit ==
  ASSUME TypeOK, NEW t \in Thread, NEW S, NEW h, NEW g, StepOn(t, S, h, g)
  PROVE  Inodes' \subseteq Inodes \cup S /\ Rooted' \subseteq Rooted \cup S
<1>1. files' \subseteq Inodes \cup S
  BY RootedSectors DEF StepOn
<1>2. ASSUME NEW u \in Thread, pc'[u] # "idle" PROVE inode'[u] \in Inodes \cup S
  BY <1>2, RootedSectors DEF StepOn, Quiet
<1>3. Inodes' \subseteq Inodes \cup S
  BY <1>1, <1>2 DEF Inodes
<1>4. \A x \in Sector \ free_map' : x \in Rooted \cup S
  BY RootedSectors DEF StepOn
<1> QED
  BY <1>3, <1>4, RootedSectors DEF Rooted

\* A step on the inodes of S leaves every other inode as it was.
LEMMA OtherInodes ==
  ASSUME TypeOK, NEW t \in Thread, NEW S, NEW h, NEW g, Layout(h), StepOn(t, S, h, g)
  PROVE  /\ \A s \in Rooted \ S :
              /\ IndexOK(s, g)' /\ length(s)' = length(s)
              /\ \A k \in Nat, x \in Sector : SectorOK(x, s, k, h) => SectorOK(x, s, k, g)'
              /\ \A k \in Nat : BlockOK(s, k, h) => BlockOK(s, k, g)'
         /\ \A f \in files' \ S : \A k \in Blocks(f)' : BlockOK(f, k, g)'
<1>1. ASSUME NEW s \in Rooted \ S
      PROVE  /\ IndexOK(s, g)' /\ length(s)' = length(s)
             /\ \A k \in Nat, x \in Sector : SectorOK(x, s, k, h) => SectorOK(x, s, k, g)'
             /\ \A k \in Nat : BlockOK(s, k, h) => BlockOK(s, k, g)'
  <2>1. s \in Sector /\ IndexOK(s, h) /\ h \in Homes /\ Apart(s, h, g)
    BY RootedSectors DEF Layout, Homes, StepOn, LeavesAlone
  <2> QED
    BY <2>1, BlocksAreKept
<1>2. ASSUME NEW f \in files' \ S, NEW k \in Blocks(f)' PROVE BlockOK(f, k, g)'
  <2>1. f \in files /\ f \in Rooted \ S
    BY RootedSectors DEF StepOn
  <2>2. length(f)' = length(f)
    BY <1>1, <2>1
  <2>3. k \in Blocks(f) /\ k \in Nat
    BY <2>2, SMTT(60) DEF Blocks, bytes_to_sectors
  <2>4. BlockOK(f, k, h)
    BY <2>1, <2>3 DEF Layout
  <2> QED
    BY <1>1, <2>1, <2>3, <2>4
<1> QED
  BY <1>1, <1>2

\* The inode of a call, when the step is not on it.
LEMMA CallsInode ==
  ASSUME TypeOK, TypeOK', NEW t \in Thread, NEW S, NEW h, NEW g, Layout(h),
         StepOn(t, S, h, g), NEW s \in Inodes \ S
  PROVE  /\ length(s)' = length(s) /\ owner'[s] = owner[s]
         /\ s \in files' <=> s \in files
         /\ s \in free_map => s \in free_map'
         /\ (\A b \in written : b[1] # s) => \A b \in written' : b[1] # s
         /\ \A k \in Nat, x \in Sector : SectorOK(x, s, k, h) => SectorOK(x, s, k, g)'
         /\ \A k \in Nat : BlockOK(s, k, h) => BlockOK(s, k, g)'
<1>1. s \in Sector /\ s \in Rooted \ S
  BY RootedSectors
<1>2. /\ length(s)' = length(s)
      /\ \A k \in Nat, x \in Sector : SectorOK(x, s, k, h) => SectorOK(x, s, k, g)'
      /\ \A k \in Nat : BlockOK(s, k, h) => BlockOK(s, k, g)'
  BY <1>1, OtherInodes
<1>3. s \in files' <=> s \in files
  BY DEF StepOn
<1>4. owner'[s] = owner[s]
  BY DEF StepOn, LeavesAlone
<1>5. s \in free_map => s \in free_map'
  BY <1>1 DEF StepOn
<1>6. (\A b \in written : b[1] # s) => \A b \in written' : b[1] # s
  <2>1. \A k \in Nat : <<s, k>> \in written' <=> <<s, k>> \in written
    BY <1>1 DEF StepOn, LeavesAlone, Apart
  <2>2. \A b \in written' : b[2] \in Nat /\ b = <<b[1], b[2]>>
    <3>1. written' \subseteq Sector \X Nat
      BY DEF TypeOK
    <3> QED
      BY <3>1, SMTT(60)
  <2> QED
    BY <2>1, <2>2
<1> QED
  BY <1>2, <1>3, <1>4, <1>5, <1>6

\* A step of thread t on the inodes of S leaves the other calls as they were.
LEMMA OtherThreads ==
  ASSUME TypeOK, TypeOK', CallInv, NEW t \in Thread, NEW S, NEW h, NEW g, Layout(h),
         StepOn(t, S, h, g), NEW u \in Thread \ {t}
  PROVE  CallOK(u)' /\ ThreadOK(u, g)'
<1>1. /\ pc'[u] = pc[u] /\ op'[u] = op[u] /\ inode'[u] = inode[u]
      /\ offset'[u] = offset[u] /\ size'[u] = size[u] /\ got'[u] = got[u]
      /\ i'[u] = i[u] /\ end'[u] = end[u] /\ sec'[u] = sec[u] /\ id'[u] = id[u]
  BY DEF StepOn, Quiet
<1>2. GotOK(u, g)'
  <2>1. ASSUME NEW j \in 1 .. Len(got[u]), NEW x, x = got[u][j]
        PROVE  x \in free_map' /\ g[x] = <<inode[u], "got", j>> /\ disk'[x] = Zero
    <3>1. h[x] = <<inode[u], "got", j>> /\ disk[x] = Zero
      BY <2>1 DEF Layout, ThreadOK, GotOK
    <3>2. g[x] = h[x] /\ disk'[x] = disk[x] /\ x \in free_map'
      BY <2>1 DEF StepOn, LeavesAlone
    <3> QED
      BY <3>1, <3>2
  <2>2. Zero' = Zero
    BY DEF Zero, Word
  <2> QED
    BY <1>1, <2>1, <2>2 DEF GotOK
<1>3. CASE pc[u] = "idle"
  BY <1>1, <1>2, <1>3 DEF CallInv, CallOK, Growing, Creates, Writes, ThreadOK
<1>4. CASE pc[u] # "idle"
  <2> SUFFICES ASSUME NEW s, s = inode[u]
               PROVE  /\ CallOK(u)'
                      /\ pc'[u] \in Growing => \A k \in 0 .. i'[u] - 1 : BlockOK(inode[u], k, g)'
                      /\ pc'[u] = "link" => SectorOK(sec[u], inode[u], i[u], g)'
    BY <1>2 DEF ThreadOK
  <2>0. s = inode'[u]
    BY <1>1
  <2>1. s \in Inodes \ S
    BY <1>4, RootedSectors DEF StepOn
  <2>2. /\ length(s)' = length(s) /\ owner'[s] = owner[s]
        /\ s \in files' <=> s \in files
        /\ s \in free_map => s \in free_map'
        /\ (\A b \in written : b[1] # s) => \A b \in written' : b[1] # s
        /\ \A k \in Nat, x \in Sector : SectorOK(x, s, k, h) => SectorOK(x, s, k, g)'
        /\ \A k \in Nat : BlockOK(s, k, h) => BlockOK(s, k, g)'
    BY <2>1, CallsInode, SMTT(60)
  <2>3. pc'[u] \in Growing => \A k \in 0 .. i'[u] - 1 : BlockOK(inode[u], k, g)'
    <3> SUFFICES ASSUME pc'[u] \in Growing, NEW k \in 0 .. i'[u] - 1
                 PROVE  BlockOK(inode[u], k, g)'
      OBVIOUS
    <3>1. BlockOK(s, k, h) /\ k \in Nat
      BY <1>1, Types, SMTT(60) DEF Layout, ThreadOK
    <3>2. BlockOK(s, k, g)'
      BY <2>2, <3>1
    <3> QED
      BY <2>0, <3>2
  <2>4. pc'[u] = "link" => SectorOK(sec[u], inode[u], i[u], g)'
    <3> SUFFICES ASSUME pc'[u] = "link"
                 PROVE  SectorOK(sec[u], inode[u], i[u], g)'
      OBVIOUS
    <3>1. SectorOK(sec[u], s, i[u], h)
      BY <1>1 DEF Layout, ThreadOK
    <3>2. \A k, x : k = i[u] /\ x = sec[u] => SectorOK(x, s, k, g)'
      BY <2>2, <3>1, Types
    <3> QED
      BY <1>1, <2>0, <3>2
  <2>5. CallOK(u)
    BY DEF CallInv
  <2>6. CallOK(u)'
    BY <1>1, <1>4, <2>2, <2>5 DEF CallOK, Creates, Creating, Writes
  <2> QED
    BY <2>3, <2>4, <2>6
<1> QED
  BY <1>3, <1>4

\* What a step has to show of thread t and the inodes in S.
Fits(t, S, h, g) ==
  /\ TypeOK' /\ StepOn(t, S, h, g)
  /\ g \in Homes /\ g[0] = <<0, "none", 0>>
  /\ \A s \in S : s \in Rooted' => IndexOK(s, g)'
  /\ \A s \in S : s \in files' => \A k \in Blocks(s)' : BlockOK(s, k, g)'
  /\ CallOK(t)' /\ ThreadOK(t, g)'
  /\ pc'[t] # "idle" => \A u \in Thread \ {t} : pc[u] # "idle" => inode[u] # inode'[t]

\* A step of t on the inodes of S, once t and the inodes of S are looked at.
LEMMA Together ==
  ASSUME TypeOK, CallInv, NEW t \in Thread, NEW S, NEW h, NEW g, Layout(h), Fits(t, S, h, g)
  PROVE  CallInv' /\ \E home : Layout(home)'
<1> USE DEF Fits
<1>1. \A u \in Thread : CallOK(u)' /\ ThreadOK(u, g)'
  BY OtherThreads
<1>2. \A s \in Rooted' : IndexOK(s, g)'
  BY OtherInodes, Inherit
<1>3. \A f \in files' : \A k \in Blocks(f)' : BlockOK(f, k, g)'
  BY OtherInodes
<1>4. CallInv'
  <2>1. \A u \in Thread \ {t} : inode'[u] = inode[u] /\ pc'[u] = pc[u]
    BY DEF StepOn, Quiet
  <2> QED
    BY <1>1, <2>1 DEF CallInv
<1>5. Layout(g)'
  BY <1>1, <1>2, <1>3 DEF Layout, Homes
<1> QED
  BY <1>4, <1>5

\* The same for FileInv.
FilesFit(t, S, h, g) ==
  /\ TypeOK' /\ StepOn(t, S, h, g)
  /\ 0 \in free_map' /\ \A x \in Sector : owner'[x] <= creates'
  /\ \A s \in S : s \in Inodes' =>
       owner'[s] # 0 /\ \A r \in Inodes' : owner'[r] = owner'[s] => r = s
  /\ \A s \in S : s \in files' =>
       s \in free_map' /\ \A b \in written' : b[1] = s => b[2] \in Blocks(s)'
  /\ "dir" \notin Kind => dirs' = {} /\ op'[t] # "mkdir"

\* What a step on the inodes of S must show, of files and owners.
LEMMA FilesTogether ==
  ASSUME TypeOK, FileInv, NEW t \in Thread, NEW S, NEW h, NEW g, Layout(h),
         FilesFit(t, S, h, g)
  PROVE  FileInv'
<1> USE DEF FilesFit
<1>1. ASSUME NEW s \in Inodes', s \notin S
      PROVE  s \in Inodes /\ owner'[s] = owner[s]
  BY <1>1, Inherit DEF StepOn, LeavesAlone
<1>2. \A s \in Inodes' : owner'[s] # 0
  BY <1>1 DEF FileInv
<1>3. \A r, s \in Inodes' : owner'[r] = owner'[s] => r = s
  BY <1>1 DEF FileInv
<1>4. files' \subseteq free_map'
  <2>1. ASSUME NEW f \in files', f \notin S PROVE f \in free_map'
    <3>1. f \in files /\ f \in free_map /\ f \in Sector
      BY <2>1 DEF StepOn, FileInv, TypeOK
    <3> QED
      BY <2>1, <3>1 DEF StepOn
  <2> QED
    BY <2>1
<1>5. ASSUME NEW b \in written', b[1] \in files', b[1] \notin S
      PROVE  b[2] \in Blocks(b[1])'
  <2>1. PICK f \in Sector, k \in Nat : b = <<f, k>>
    BY SMTT(60) DEF TypeOK
  <2>2. f \in files /\ f \in Rooted \ S
    BY <1>5, <2>1, RootedSectors DEF StepOn
  <2>3. <<f, k>> \in written
    BY <2>1, <2>2 DEF StepOn, LeavesAlone, Apart
  <2>4. k \in Blocks(f)
    BY <2>2, <2>3 DEF FileInv
  <2>5. length(f)' = length(f)
    BY <2>2, OtherInodes
  <2>6. k \in Blocks(f)'
    BY <2>4, <2>5 DEF Blocks, bytes_to_sectors
  <2> QED
    BY <2>1, <2>6
<1>6. \A b \in written' : b[1] \in files' => b[2] \in Blocks(b[1])'
  BY <1>5
<1>7. "dir" \notin Kind => dirs' = {} /\ \A u \in Thread : op'[u] # "mkdir"
  BY DEF StepOn, Quiet, FileInv
<1> QED
  BY <1>2, <1>3, <1>4, <1>6, <1>7 DEF FileInv

-----------------------------------------------------------------------------
(* The block map                                                            *)

\* Where the pointer to block k of inode s is: the home of its sector, and its
\* word there.
Place(s, k) ==
  LET n == k - NumDirect - Indirect IN
  CASE k < NumDirect -> <<<<s, "inode", 0>>, k + 1>>
    [] k >= NumDirect /\ n < 0 -> <<<<s, "single", 0>>, k - NumDirect>>
    [] OTHER -> <<<<s, "second", n \div Indirect>>, n % Indirect>>

\* The three kinds of place that the pointer to a block has.
LEMMA PlaceCases ==
  ASSUME NEW s, NEW k \in Nat
  PROVE  LET n == k - NumDirect - Indirect IN
         \/ k < NumDirect /\ Place(s, k) = <<<<s, "inode", 0>>, k + 1>>
         \/ /\ k >= NumDirect /\ n < 0
            /\ Place(s, k) = <<<<s, "single", 0>>, k - NumDirect>>
         \/ /\ n \in Nat
            /\ Place(s, k) = <<<<s, "second", n \div Indirect>>, n % Indirect>>
<1> DEFINE n == k - NumDirect - Indirect
<1>1. NumDirect \in Nat /\ Indirect \in Nat
  BY Constants
<1>2. CASE k < NumDirect
  BY <1>1, <1>2, SMTT(60) DEF Place
<1>3. CASE k >= NumDirect /\ n < 0
  BY <1>1, <1>3, SMTT(60) DEF Place
<1>4. CASE n >= 0
  BY <1>1, <1>4, SMTT(60) DEF Place
<1> QED
  BY <1>1, <1>2, <1>3, <1>4, SMTT(60)

\* The pointers to two blocks of an inode have different places.
LEMMA PlacesDiffer ==
  ASSUME NEW s, NEW k \in Nat, NEW l \in Nat, Place(s, k) = Place(s, l)
  PROVE  k = l
<1> DEFINE m == k - NumDirect - Indirect
           n == l - NumDirect - Indirect
<1>1. NumDirect \in Nat /\ Indirect \in Nat
  BY Constants
<1>2. ASSUME m \in Nat, n \in Nat, m \div Indirect = n \div Indirect,
             m % Indirect = n % Indirect
      PROVE  k = l
  <2>1. m = n
    <3> HIDE DEF m, n
    <3> QED
      BY <1>2, DoubleWords
  <2> QED
    BY <1>1, <2>1, SMTT(60)
<1>3. /\ \/ Place(s, k) = <<<<s, "inode", 0>>, k + 1>>
         \/ Place(s, k) = <<<<s, "single", 0>>, k - NumDirect>>
         \/ m \in Nat /\ Place(s, k) = <<<<s, "second", m \div Indirect>>, m % Indirect>>
      /\ \/ Place(s, l) = <<<<s, "inode", 0>>, l + 1>>
         \/ Place(s, l) = <<<<s, "single", 0>>, l - NumDirect>>
         \/ n \in Nat /\ Place(s, l) = <<<<s, "second", n \div Indirect>>, n % Indirect>>
  BY PlaceCases
<1> HIDE DEF m, n
<1>4. CASE Place(s, k) = <<<<s, "inode", 0>>, k + 1>>
  BY <1>3, <1>4, SMTT(60)
<1>5. CASE Place(s, k) = <<<<s, "single", 0>>, k - NumDirect>>
  BY <1>1, <1>3, <1>5, SMTT(60)
<1>6. CASE m \in Nat /\ Place(s, k) = <<<<s, "second", m \div Indirect>>, m % Indirect>>
  BY <1>2, <1>3, <1>6, SMTT(60)
<1> QED
  BY <1>3, <1>4, <1>5, <1>6

\* The pointer to a block, once the index blocks on the way are there.
LEMMA PtrPlace ==
  ASSUME TypeOK, NEW h, NEW s \in Sector, NEW k \in Nat, k < MaxBlocks, IndexOK(s, h),
         ~IndexMissing(s, k)
  PROVE  h[PtrAt(s, k)[1]] = Place(s, k)[1] /\ PtrAt(s, k)[2] = Place(s, k)[2]
<1> DEFINE n == k - NumDirect - Indirect
           single == disk[s][Single]
           double == disk[s][Double]
           second == disk[double][n \div Indirect]
<1>1. NumDirect \in Nat /\ Indirect \in Nat
  BY Constants
<1>2. CASE k < NumDirect
  <2>1. PtrAt(s, k) = <<s, k + 1>> /\ Place(s, k) = <<<<s, "inode", 0>>, k + 1>>
    BY <1>1, <1>2, SMTT(60) DEF PtrAt, Place
  <2> QED
    BY <2>1, IndexSectors, SMTT(60)
<1>3. CASE k >= NumDirect /\ n < 0
  <2>1. single # 0
    BY <1>3 DEF IndexMissing
  <2>2. /\ PtrAt(s, k) = <<single, k - NumDirect>>
        /\ Place(s, k) = <<<<s, "single", 0>>, k - NumDirect>>
    BY <1>1, <1>3, <2>1, SMTT(60) DEF PtrAt, Place
  <2> QED
    BY <2>1, <2>2, IndexSectors, SMTT(60)
<1>4. CASE n >= 0
  <2>1. double # 0 /\ second # 0
    BY <1>4 DEF IndexMissing
  <2>2. PtrAt(s, k) = <<second, n % Indirect>>
    BY <1>1, <1>4, <2>1, SMTT(60) DEF PtrAt
  <2>3. Place(s, k) = <<<<s, "second", n \div Indirect>>, n % Indirect>>
    BY <1>1, <1>4, SMTT(60) DEF Place
  <2>4. n \in Nat /\ n < Indirect * Indirect
    BY <1>1, <1>4, SMTT(60) DEF MaxBlocks
  <2>5. n \div Indirect \in Word
    BY <2>4, DoubleWords
  <2>6. \A w \in Word : disk[double][w] # 0 => h[disk[double][w]] = <<s, "second", w>>
    BY <2>1, IndexSectors, SMTT(60)
  <2> HIDE DEF n
  <2>7. h[second] = <<s, "second", n \div Indirect>>
    BY <2>1, <2>5, <2>6
  <2> HIDE DEF second
  <2> QED
    BY <2>2, <2>3, <2>7, SMTT(60)
<1> QED
  BY <1>1, <1>2, <1>3, <1>4, SMTT(60)

\* What the pointer to a block is not: the length, an index pointer that is
\* used, or the pointer to another block.
LEMMA PtrIsOwn ==
  ASSUME TypeOK, NEW h, NEW s \in Sector, NEW k \in Nat, k < MaxBlocks, IndexOK(s, h),
         ~IndexMissing(s, k)
  PROVE  /\ PtrAt(s, k) # <<s, 0>> /\ PtrAt(s, k) # <<s, Single>>
         /\ PtrAt(s, k) # <<s, Double>>
         /\ disk[s][Double] # 0 => PtrAt(s, k)[1] # disk[s][Double]
         /\ \A l \in Nat : l < MaxBlocks /\ ~IndexMissing(s, l) /\ l # k =>
              PtrAt(s, l) # PtrAt(s, k)
<1>1. h[PtrAt(s, k)[1]] = Place(s, k)[1] /\ PtrAt(s, k)[2] = Place(s, k)[2]
  BY PtrPlace
<1>2. h[s] = <<s, "inode", 0>>
      /\ (disk[s][Double] # 0 => h[disk[s][Double]] = <<s, "double", 0>>)
  BY IndexSectors
<1>3. /\ Place(s, k)[1] # <<s, "double", 0>>
      /\ Place(s, k)[1] = <<s, "inode", 0>> => Place(s, k)[2] \notin {0, Single, Double}
  <2>1. \/ Place(s, k) = <<<<s, "inode", 0>>, k + 1>> /\ k < NumDirect
        \/ Place(s, k)[1][2] \in {"single", "second"}
    BY PlaceCases, SMTT(60)
  <2>2. k < NumDirect => k + 1 \notin {0, Single, Double}
    BY Constants, SMTT(60) DEF Single, Double
  <2> QED
    BY <2>1, <2>2, SMTT(60)
<1>4. PtrAt(s, k) # <<s, 0>> /\ PtrAt(s, k) # <<s, Single>> /\ PtrAt(s, k) # <<s, Double>>
  BY <1>1, <1>2, <1>3, SMTT(60)
<1>5. disk[s][Double] # 0 => PtrAt(s, k)[1] # disk[s][Double]
  BY <1>1, <1>2, <1>3
<1>6. ASSUME NEW l \in Nat, l < MaxBlocks, ~IndexMissing(s, l), PtrAt(s, l) = PtrAt(s, k)
      PROVE  l = k
  <2>1. h[PtrAt(s, l)[1]] = Place(s, l)[1] /\ PtrAt(s, l)[2] = Place(s, l)[2]
    BY <1>6, PtrPlace
  <2>2. \A j \in Nat : Place(s, j) = <<Place(s, j)[1], Place(s, j)[2]>>
    BY PlaceCases, SMTT(60)
  <2>3. Place(s, l) = Place(s, k)
    BY <1>1, <1>6, <2>1, <2>2
  <2> QED
    BY <2>3, PlacesDiffer
<1> QED
  BY <1>4, <1>5, <1>6

\* Of the words that lead to the blocks of s, a step changes word w of sector p.
OnlyWord(s, h, p, w) ==
  \A y \in Sector, v \in Word :
    h[y][1] = s /\ h[y][2] \in IndexRole /\ ~ (y = p /\ v = w) => disk'[y][v] = disk[y][v]

\* The map of block k is as it was, unless that word is part of it.
LEMMA MapIsKept ==
  ASSUME TypeOK, NEW h, NEW s \in Sector, NEW k \in Nat, k < MaxBlocks, IndexOK(s, h),
         ~IndexMissing(s, k), NEW p, NEW w, OnlyWord(s, h, p, w),
         disk[p][w] = 0 \/ (p = s => w \notin {Single, Double}),
         disk[p][w] = 0 \/ (disk[s][Double] # 0 => p # disk[s][Double])
  PROVE  /\ PtrAt(s, k)' = PtrAt(s, k) /\ ~IndexMissing(s, k)'
         /\ PtrAt(s, k) # <<p, w>> => byte_to_sector(s, k)' = byte_to_sector(s, k)
<1> DEFINE n == k - NumDirect - Indirect
           double == disk[s][Double]
<1>1. NumDirect \in Nat /\ Indirect \in Nat /\ Single \in Word /\ Double \in Word
  BY Constants
<1>2. k >= NumDirect /\ n < 0 => disk[s][Single] # 0
  BY DEF IndexMissing
<1>3. k >= NumDirect /\ n < 0 => disk'[s][Single] = disk[s][Single]
  BY <1>1, <1>2, IndexSectors, SMTT(60) DEF OnlyWord, IndexRole
<1>4. n >= 0 => double # 0 /\ disk[double][n \div Indirect] # 0
  BY DEF IndexMissing
<1>5. n >= 0 => disk'[s][Double] = disk[s][Double]
  BY <1>1, <1>4, IndexSectors, SMTT(60) DEF OnlyWord, IndexRole
<1>6. n >= 0 => n \div Indirect \in Word
  <2>1. n >= 0 => n \in Nat /\ n < Indirect * Indirect
    BY <1>1, SMTT(60) DEF MaxBlocks
  <2> QED
    BY <2>1, DoubleWords
<1>7. n >= 0 => disk'[double][n \div Indirect] = disk[double][n \div Indirect]
  <2>1. n >= 0 => double \in Sector /\ h[double] = <<s, "double", 0>>
    BY <1>4, IndexSectors
  <2> HIDE DEF n, double
  <2> QED
    BY <1>4, <1>6, <2>1, SMTT(60) DEF OnlyWord, IndexRole, double
<1>8. PtrAt(s, k)' = PtrAt(s, k)
  BY <1>1, <1>3, <1>5, <1>7, SMTT(60) DEF PtrAt
<1>9. ~IndexMissing(s, k)'
  BY <1>1, <1>2, <1>3, <1>4, <1>5, <1>7 DEF IndexMissing
<1>10. ASSUME PtrAt(s, k) # <<p, w>>
       PROVE  byte_to_sector(s, k)' = byte_to_sector(s, k)
  <2>1. PtrAt(s, k) = <<PtrAt(s, k)[1], PtrAt(s, k)[2]>>
    BY SMTT(60) DEF PtrAt
  <2>2. disk'[PtrAt(s, k)[1]][PtrAt(s, k)[2]] = disk[PtrAt(s, k)[1]][PtrAt(s, k)[2]]
    BY <1>10, <2>1, PtrIsIndex, SMTT(60) DEF OnlyWord
  <2> QED
    BY <1>8, <2>2 DEF byte_to_sector
<1> QED
  BY <1>8, <1>9, <1>10

\* The sectors that the calls work on are in use.
LEMMA InUse ==
  ASSUME TypeOK, CallInv, FileInv
  PROVE  Inodes \subseteq free_map /\ \A s \in Inodes : s \in Sector
<1>1. \A t \in Thread : pc[t] # "idle" => inode[t] \in free_map
  BY DEF CallInv, CallOK
<1> QED
  BY <1>1, SMTT(60) DEF Inodes, FileInv, TypeOK

\* free_map_allocate takes a sector that is in no one's use.
LEMMA Allocated ==
  ASSUME TypeOK, CallInv, FileInv, NEW h, Layout(h), NEW x \in Sector, free_map_allocate(x)
  PROVE  /\ x \notin free_map /\ free_map' = free_map \cup {x} /\ x # 0
         /\ x \in Rooted /\ x \notin Inodes /\ x \notin files
         /\ h[x] = <<x, "inode", 0>> /\ IndexOK(x, h)
<1>1. x \in Sector \ free_map
  BY DEF free_map_allocate
<1>2. x \in Rooted /\ x \notin Inodes /\ x \notin files
  BY <1>1, RootedSectors, InUse
<1>3. IndexOK(x, h)
  BY <1>2 DEF Layout
<1>4. x # 0
  BY <1>1 DEF FileInv
<1> QED
  BY <1>1, <1>2, <1>3, <1>4 DEF free_map_allocate, IndexOK

\* The device with one word set.
LEMMA OneWordSet ==
  ASSUME TypeOK, NEW p, p[1] \in Sector, p[2] \in Word, NEW v \in Nat
  PROVE  /\ SetWord(p, v) \in [Sector -> [Word -> Nat]]
         /\ SetWord(p, v)[p[1]][p[2]] = v
         /\ \A w \in Word : w # p[2] => SetWord(p, v)[p[1]][w] = disk[p[1]][w]
         /\ \A y \in Sector : y # p[1] => SetWord(p, v)[y] = disk[y]
<1>1. disk \in [Sector -> [Word -> Nat]]
  BY DEF TypeOK
<1> QED
  BY <1>1 DEF SetWord

\* The length of an inode is set.
LEMMA SetLength ==
  ASSUME TypeOK, NEW h, NEW s \in Sector, IndexOK(s, h), NEW n \in Nat,
         disk' = SetWord(<<s, 0>>, n), UNCHANGED <<free_map, owner, written>>
  PROVE  /\ IndexOK(s, h)' /\ length(s)' = n
         /\ \A x \in Sector : x # s => SameSector(x, h, h)
         /\ \A k \in Nat : BlockOK(s, k, h) => BlockOK(s, k, h)'
         /\ \A k \in Nat, x \in Sector : SectorOK(x, s, k, h) => SectorOK(x, s, k, h)'
<1>1. Single \in Word /\ Double \in Word /\ 0 \in Word /\ Single # 0 /\ Double # 0
  BY Constants
<1>2. /\ disk'[s][0] = n
      /\ \A w \in Word : w # 0 => disk'[s][w] = disk[s][w]
      /\ \A y \in Sector : y # s => disk'[y] = disk[y]
  BY <1>1, OneWordSet, SMTT(60)
<1>3. \A x \in Sector : x # s => SameSector(x, h, h)
  BY <1>2 DEF SameSector
<1>4. h[s] = <<s, "inode", 0>>
      /\ (disk[s][Double] # 0 =>
            disk[s][Double] \in Sector /\ h[disk[s][Double]] = <<s, "double", 0>>)
  BY IndexSectors
<1>5. disk[s][Double] # 0 => disk'[disk[s][Double]] = disk[disk[s][Double]]
  BY <1>2, <1>4, SMTT(60)
<1>6. IndexOK(s, h)'
  BY <1>1, <1>2, <1>5 DEF IndexOK, Leads
<1>7. ASSUME NEW k \in Nat, NEW x \in Sector, SectorOK(x, s, k, h)
      PROVE  SectorOK(x, s, k, h)'
  <2>1. x # s
    BY <1>4, <1>7, SMTT(60) DEF SectorOK
  <2> QED
    BY <1>2, <1>7, <2>1 DEF SectorOK, DataBlock, Zero, Word
<1>8. ASSUME NEW k \in Nat, BlockOK(s, k, h) PROVE BlockOK(s, k, h)'
  <2>1. OnlyWord(s, h, s, 0)
    BY <1>2 DEF OnlyWord
  <2>2. disk[s][Double] # 0 => s # disk[s][Double]
    BY <1>4, SMTT(60)
  <2>3. PtrAt(s, k) # <<s, 0>>
    BY <1>8, PtrIsOwn DEF BlockOK
  <2>4. ~IndexMissing(s, k)' /\ byte_to_sector(s, k)' = byte_to_sector(s, k)
    BY <1>1, <1>8, <2>1, <2>2, <2>3, MapIsKept DEF BlockOK
  <2>5. byte_to_sector(s, k) \in Sector
    BY <1>8, Types DEF BlockOK, SectorOK, TypeOK
  <2> QED
    BY <1>7, <1>8, <2>4, <2>5 DEF BlockOK
<1> QED
  BY <1>2, <1>3, <1>6, <1>7, <1>8 DEF length

-----------------------------------------------------------------------------
(* The steps                                                                *)

IInvAt(h) == TypeOK /\ CallInv /\ FileInv /\ Layout(h)

\* filesys_create_2 takes a sector for the inode.
LEMMA Create ==
  ASSUME NEW h, IInvAt(h), NEW t \in Thread, NEW n \in Length, NEW kind \in Kind,
         filesys_create_2(t, n, kind)
  PROVE  IInv'
<1> USE DEF IInvAt
<1>1. PICK x \in Sector :
        /\ free_map_allocate(x)
        /\ inode' = [inode EXCEPT ![t] = x]
        /\ owner' = [owner EXCEPT ![x] = creates + 1]
        /\ written' = {b \in written : b[1] # x}
  BY DEF filesys_create_2
<1>2. /\ x \notin free_map /\ free_map' = free_map \cup {x} /\ x # 0
      /\ x \in Rooted /\ x \notin Inodes /\ x \notin files
      /\ h[x] = <<x, "inode", 0>> /\ IndexOK(x, h)
  BY <1>1, Allocated
<1>3. n \in Nat /\ bytes_to_sectors(n) \in Nat
  BY InodeAssumption, BytesToSectors
<1>4. /\ pc' = [pc EXCEPT ![t] = "can"] /\ pc[t] = "idle" /\ creates < MaxCreate
      /\ op' = [op EXCEPT ![t] = IF kind = "dir" THEN "mkdir" ELSE "create"]
      /\ size' = [size EXCEPT ![t] = n] /\ end' = [end EXCEPT ![t] = bytes_to_sectors(n)]
      /\ id' = [id EXCEPT ![t] = creates + 1] /\ creates' = creates + 1
      /\ UNCHANGED <<disk, files, dirs, offset, got, i, sec, removes>>
  BY DEF filesys_create_2, At, Goto
<1>5. TypeOK'
  <2>1. creates \in Nat /\ MaxCreate \in Nat
    BY Types
  <2>2. owner' \in [Sector -> 0 .. MaxCreate] /\ id' \in [Thread -> 0 .. MaxCreate]
    BY <1>1, <1>4, <2>1, SMTT(60) DEF TypeOK
  <2>3. written' \subseteq Sector \X Nat
    BY <1>1 DEF TypeOK
  <2>4. inode' \in [Thread -> Sector] /\ free_map' \subseteq Sector
    BY <1>1, <1>2 DEF TypeOK
  <2> QED
    BY <1>3, <1>4, <2>1, <2>2, <2>3, <2>4 DEF TypeOK
<1>6. /\ pc'[t] = "can" /\ op'[t] = (IF kind = "dir" THEN "mkdir" ELSE "create")
      /\ inode'[t] = x /\ owner'[x] = creates + 1 /\ id'[t] = creates + 1
      /\ size'[t] = n /\ end'[t] = bytes_to_sectors(n) /\ i'[t] = 0 /\ got'[t] = <<>>
  BY <1>1, <1>4 DEF TypeOK, CallInv, CallOK
<1>7. Quiet(t)
  BY <1>1, <1>4 DEF TypeOK, Quiet
<1>8. StepOn(t, {x}, h, h)
  <2>1. ASSUME NEW y \in Sector, y # x PROVE SameSector(y, h, h)
    BY <1>1, <1>2, <1>4, <2>1, Types DEF SameSector
  <2>2. \A s \in Sector \ {x}, k \in Nat : <<s, k>> \in written' <=> <<s, k>> \in written
    BY <1>1
  <2>3. LeavesAlone(t, {x}, h, h)
    BY <1>2, <2>1, <2>2, ElsewhereOne
  <2> QED
    BY <1>2, <1>4, <1>6, <1>7, <2>3, RootedSectors DEF StepOn
<1>9. IndexOK(x, h)'
  <2>1. \A y \in Sector : disk'[y] = disk[y] /\ (y \in free_map => y \in free_map')
    BY <1>2, <1>4
  <2> QED
    BY <1>2, <2>1, IndexIsKept
<1>10. CallOK(t)' /\ ThreadOK(t, h)'
  BY <1>1, <1>2, <1>3, <1>4, <1>6, SMTT(60)
     DEF CallOK, Creates, Creating, Writes, Growing, ThreadOK, GotOK
<1>11. CallInv' /\ \E home : Layout(home)'
  <2>1. h \in Homes /\ h[0] = <<0, "none", 0>>
    BY DEF Layout, Homes
  <2>2. \A u \in Thread : pc[u] # "idle" => inode[u] # x
    BY <1>2, RootedSectors
  <2> QED
    <3>f. Fits(t, {x}, h, h)
      BY <1>2, <1>4, <1>5, <1>6, <1>8, <1>9, <1>10, <2>1, <2>2 DEF Fits
    <3> QED
      BY <3>f, Together
<1>12. FileInv'
  <2>1. ASSUME NEW y \in Sector PROVE owner'[y] <= creates'
    <3>1. owner[y] <= creates /\ owner[y] \in Nat /\ creates \in Nat
      BY Types, SMTT(60) DEF FileInv
    <3> QED
      BY <1>1, <1>4, <3>1, Types, SMTT(60)
  <2>2. Inodes' \subseteq Inodes \cup {x}
    BY <1>8, Inherit
  <2>3. ASSUME NEW r \in Inodes' \ {x} PROVE owner'[r] # owner'[x]
    <3>1. r \in Inodes /\ owner'[r] = owner[r]
      BY <1>8, <2>2 DEF StepOn, LeavesAlone
    <3>2. r \in Sector /\ owner[r] <= creates
      BY <3>1, InUse DEF FileInv
    <3> QED
      BY <1>6, <3>1, <3>2, Types, SMTT(60)
  <2>4. owner'[x] # 0
    BY <1>6, Types, SMTT(60)
  <2>5. "dir" \notin Kind => dirs' = {} /\ op'[t] # "mkdir"
    BY <1>4, <1>6, SMTT(60) DEF FileInv
  <2>6. 0 \in free_map' /\ x \notin files'
    BY <1>2, <1>4 DEF FileInv
  <2> QED
    <3>f. FilesFit(t, {x}, h, h)
      BY <1>5, <1>8, <2>1, <2>3, <2>4, <2>5, <2>6 DEF FilesFit
    <3> QED
      BY <3>f, FilesTogether
<1> QED
  BY <1>5, <1>11, <1>12 DEF IInv

\* can_allocate takes one more sector.
Takes(t, x) ==
  /\ free_map_allocate(x) /\ disk' = [disk EXCEPT ![x] = Zero]
  /\ got' = [got EXCEPT ![t] = Append(@, x)] /\ UNCHANGED pc

\* can_allocate takes one more sector.
LEMMA CanTake ==
  ASSUME NEW h, IInvAt(h), NEW t \in Thread, can_allocate(t), NEW x \in Sector, Takes(t, x)
  PROVE  IInv'
<1> USE DEF IInvAt
<1>0. PICK m, g : m = Len(got[t]) + 1 /\ g = [h EXCEPT ![x] = <<inode[t], "got", m>>]
  OBVIOUS
<1>a. /\ disk' = [disk EXCEPT ![x] = Zero] /\ got' = [got EXCEPT ![t] = Append(@, x)]
      /\ UNCHANGED pc
  BY DEF Takes
<1>1. /\ x \notin free_map /\ free_map' = free_map \cup {x} /\ x # 0
      /\ x \in Rooted /\ x \notin Inodes /\ x \notin files
      /\ h[x] = <<x, "inode", 0>>
  BY Allocated DEF Takes
<1>2. pc[t] = "can"
      /\ UNCHANGED <<files, dirs, op, inode, offset, size, i, end, sec, id,
                     owner, written, creates, removes>>
  BY DEF can_allocate, At
<1>3. TypeOK'
  <2>1. disk' \in [Sector -> [Word -> Nat]]
    BY <1>a, Constants, Types
  <2>2. got' \in [Thread -> Seq(Sector)]
    BY <1>a, SMTT(60) DEF TypeOK
  <2> QED
    BY <1>a, <1>1, <1>2, <2>1, <2>2 DEF TypeOK
<1>4. /\ h \in Homes /\ g \in Homes /\ g[x] = <<inode[t], "got", m>>
      /\ \A y \in Sector : y # x => g[y] = h[y]
  <2>1. h \in Homes
    BY DEF Layout, Homes
  <2>2. inode[t] \in Sector /\ "got" \in Role /\ m \in Nat
    BY <1>0, Types, SMTT(60) DEF Role
  <2> QED
    BY <1>0, <2>1, <2>2 DEF Homes
<1>5. StepOn(t, {x}, h, g)
  <2>1. ASSUME NEW y \in Sector, y # x PROVE SameSector(y, h, g)
    BY <1>a, <1>1, <1>2, <1>4, <2>1, Types DEF SameSector
  <2>2. LeavesAlone(t, {x}, h, g)
    <3>1. \A y \in Sector : \/ SameSector(y, h, g)
                            \/ h[y][1] \in {x} /\ h[y][2] # "got"
      BY <1>1, <2>1, SMTT(60)
    <3>2. \A s \in Sector \ {x}, k \in Nat : <<s, k>> \in written' <=> <<s, k>> \in written
      BY <1>2
    <3> QED
      BY <3>1, <3>2, Elsewhere
  <2>3. Quiet(t)
    BY <1>a, <1>2 DEF Quiet, TypeOK
  <2> QED
    BY <1>a, <1>1, <1>2, <2>2, <2>3, RootedSectors DEF StepOn
<1>6. x \notin Inodes' /\ x \notin Rooted'
  <2>1. Inodes' = Inodes
    BY <1>a, <1>2 DEF Inodes
  <2> QED
    BY <1>1, <2>1 DEF Rooted
<1>7. ThreadOK(t, g)' /\ CallOK(t)'
  <2> SUFFICES ASSUME NEW s, s = inode[t] PROVE ThreadOK(t, g)' /\ CallOK(t)'
    OBVIOUS
  <2>1. s \in Inodes \ {x}
    BY <1>1, <1>2, RootedSectors
  <2>2. /\ length(s)' = length(s) /\ owner'[s] = owner[s]
        /\ s \in files' <=> s \in files
        /\ s \in free_map => s \in free_map'
        /\ (\A b \in written : b[1] # s) => \A b \in written' : b[1] # s
        /\ \A k \in Nat : BlockOK(s, k, h) => BlockOK(s, k, g)'
    BY <1>3, <1>5, <2>1, CallsInode, SMTT(60)
  <2>3. CallOK(t)'
    BY <1>a, <1>2, <2>2 DEF CallInv, CallOK, Creates, Creating, Writes
  <2>4. ThreadOK(t, g)'
    <3>1. got'[t] = Append(got[t], x) /\ got[t] \in Seq(Sector)
      BY <1>a, Types DEF TypeOK
    <3>2. GotOK(t, g)'
      <4>1. ASSUME NEW j \in 1 .. Len(got[t])
            PROVE  /\ got[t][j] \in free_map' /\ g[got[t][j]] = <<inode[t], "got", j>>
                   /\ disk'[got[t][j]] = Zero
        <5>1. /\ got[t][j] \in free_map /\ h[got[t][j]] = <<inode[t], "got", j>>
              /\ disk[got[t][j]] = Zero /\ got[t][j] \in Sector
          BY Types DEF Layout, ThreadOK, GotOK
        <5> QED
          BY <1>a, <1>1, <1>4, <5>1, Types
      <4>2. x \in free_map' /\ g[x] = <<inode[t], "got", m>> /\ disk'[x] = Zero
        BY <1>a, <1>1, <1>4, Types
      <4>3. ASSUME NEW j \in 1 .. Len(got'[t])
            PROVE  \/ j \in 1 .. Len(got[t]) /\ got'[t][j] = got[t][j]
                   \/ j = m /\ got'[t][j] = x
        BY <1>0, <3>1, SMTT(60)
      <4> QED
        BY <1>2, <4>1, <4>2, <4>3 DEF GotOK, Zero, Word
    <3>3. ASSUME NEW k \in 0 .. i[t] - 1 PROVE BlockOK(s, k, g)'
      <4>1. BlockOK(s, k, h)
        <5>1. ThreadOK(t, h)
          BY DEF Layout
        <5> QED
          BY <1>2, <5>1 DEF ThreadOK, Growing
      <4> QED
        BY <2>2, <4>1, SMTT(60)
    <3> QED
      BY <1>a, <1>2, <3>2, <3>3 DEF ThreadOK
  <2> QED
    BY <2>3, <2>4
<1>8. CallInv' /\ \E home : Layout(home)'
  <2>1. g[0] = <<0, "none", 0>>
    BY <1>1, <1>4 DEF Layout, FileInv, TypeOK
  <2>2. \A u \in Thread \ {t} : pc[u] # "idle" => inode[u] # inode'[t]
    BY <1>2 DEF CallInv
  <2>3. /\ \A s \in {x} : s \in Rooted' => IndexOK(s, g)'
        /\ \A s \in {x} : s \in files' => \A k \in Blocks(s)' : BlockOK(s, k, g)'
    BY <1>1, <1>2, <1>6
  <2> QED
    <3>f. Fits(t, {x}, h, g)
      BY <1>3, <1>4, <1>5, <1>7, <2>1, <2>2, <2>3 DEF Fits
    <3> QED
      BY <3>f, Together
<1>9. FileInv'
  <2>1. 0 \in free_map' /\ x \notin files'
    BY <1>1, <1>2 DEF FileInv
  <2>2. \A y \in Sector : owner'[y] <= creates'
    BY <1>2 DEF FileInv
  <2>3. "dir" \notin Kind => dirs' = {} /\ op'[t] # "mkdir"
    BY <1>2 DEF FileInv
  <2> QED
    <3>f. FilesFit(t, {x}, h, g)
      BY <1>3, <1>5, <1>6, <2>1, <2>2, <2>3 DEF FilesFit
    <3> QED
      BY <3>f, FilesTogether
<1> QED
  BY <1>3, <1>8, <1>9 DEF IInv

\* A step that changes neither the disk nor the free map.
LEMMA Still ==
  ASSUME NEW h, IInvAt(h), TypeOK', NEW t \in Thread, NEW S, Quiet(t),
         UNCHANGED <<free_map, disk, owner, written>>, files' \ S = files \ S,
         pc'[t] # "idle" => inode'[t] \in Inodes,
         \A u \in Thread \ {t} : pc[u] # "idle" => inode[u] \notin S
  PROVE  StepOn(t, S, h, h)
<1>1. \A x \in Sector : SameSector(x, h, h)
  BY DEF SameSector
<1>2. LeavesAlone(t, S, h, h)
  BY <1>1, Elsewhere DEF IInvAt
<1> QED
  BY <1>2 DEF StepOn

\* A step within a call that changes neither.
LEMMA LocalStep ==
  ASSUME NEW h, IInvAt(h), TypeOK', NEW t \in Thread, Quiet(t), CallOK(t)',
         UNCHANGED <<free_map, disk, files, dirs, owner, written, creates>>,
         UNCHANGED <<op, inode, i, sec>>, pc[t] # "idle", pc'[t] # "idle",
         pc'[t] \in Growing => pc[t] \in Growing, pc'[t] = "link" => pc[t] = "link",
         got'[t] = got[t] \/ got'[t] = <<>>
  PROVE  IInv'
<1> USE DEF IInvAt
<1>1. inode[t] \in Inodes
  BY RootedSectors
<1>2. StepOn(t, {}, h, h)
  BY <1>1, Still
<1>3. ThreadOK(t, h)'
  <2>1. ThreadOK(t, h)
    BY DEF Layout
  <2>2. PICK s : s = inode[t]
    OBVIOUS
  <2>3. /\ \A k \in Nat, x \in Sector : SectorOK(x, s, k, h) => SectorOK(x, s, k, h)'
        /\ \A k \in Nat : BlockOK(s, k, h) => BlockOK(s, k, h)'
    BY <1>1, <1>2, <2>2, CallsInode, SMTT(60)
  <2>4. i[t] \in Nat /\ sec[t] \in Sector
    BY Types
  <2>5. GotOK(t, h)'
    <3>1. CASE got'[t] = <<>>
      BY <3>1, SMTT(60) DEF GotOK
    <3>2. CASE got'[t] = got[t]
      <4>1. GotOK(t, h) /\ Zero' = Zero
        BY <2>1 DEF ThreadOK, Zero, Word
      <4> QED
        BY <3>2, <4>1 DEF GotOK
    <3> QED
      BY <3>1, <3>2
  <2>6. pc'[t] \in Growing => \A k \in 0 .. i'[t] - 1 : BlockOK(inode[t], k, h)'
    BY <2>1, <2>2, <2>3, <2>4, SMTT(60) DEF ThreadOK
  <2>7. pc'[t] = "link" => SectorOK(sec[t], inode[t], i[t], h)'
    <3>1. \A x, k : x = sec[t] /\ k = i[t] /\ SectorOK(x, s, k, h) => SectorOK(x, s, k, h)'
      BY <2>3, <2>4
    <3> QED
      BY <2>1, <2>2, <3>1 DEF ThreadOK
  <2> QED
    BY <2>5, <2>6, <2>7 DEF ThreadOK
<1>4. CallInv' /\ \E home : Layout(home)'
  <2>1. h \in Homes /\ h[0] = <<0, "none", 0>>
    BY DEF Layout, Homes
  <2>2. \A u \in Thread \ {t} : pc[u] # "idle" => inode[u] # inode'[t]
    BY DEF CallInv
  <2> QED
    <3>f. Fits(t, {}, h, h)
      BY <1>2, <1>3, <2>1, <2>2 DEF Fits
    <3> QED
      BY <3>f, Together
<1>5. FileInv'
  <2>f. FilesFit(t, {}, h, h)
    BY <1>2 DEF FilesFit, FileInv
  <2> QED
    BY <2>f, FilesTogether
<1> QED
  BY <1>4, <1>5 DEF IInv

\* A call that has returned.
LEMMA Returned ==
  ASSUME TypeOK, NEW t \in Thread, Return(t), NEW g
  PROVE  /\ Quiet(t) /\ pc'[t] = "idle" /\ op'[t] = "create"
         /\ CallOK(t)' /\ ThreadOK(t, g)'
<1>1. /\ pc'[t] = "idle" /\ op'[t] = "create" /\ got'[t] = <<>> /\ i'[t] = 0
  BY DEF TypeOK, Return, Goto
<1>2. Quiet(t)
  BY DEF TypeOK, Return, Goto, Quiet
<1>3. CallOK(t)'
  BY <1>1 DEF CallOK, Creates, Writes, Growing
<1>4. ThreadOK(t, g)'
  BY <1>1, SMTT(60) DEF ThreadOK, GotOK, Growing
<1> QED
  BY <1>1, <1>2, <1>3, <1>4

\* The types when a call returns.
LEMMA ReturnType ==
  ASSUME TypeOK, NEW t \in Thread, Return(t), UNCHANGED <<creates, removes>>,
         free_map' \subseteq Sector, files' \subseteq Sector, dirs' \subseteq files',
         disk' \in [Sector -> [Word -> Nat]], owner' \in [Sector -> 0 .. MaxCreate],
         written' \subseteq Sector \X Nat
  PROVE  TypeOK'
<1>1. 0 \in Sector /\ 0 \in 0 .. MaxCreate /\ <<>> \in Seq(Sector)
  BY InodeAssumption, SMTT(60) DEF Sector
<1> QED
  BY <1>1 DEF TypeOK, Return, Goto

\* can_allocate, whether or not there is one more sector.
LEMMA Can ==
  ASSUME NEW h, IInvAt(h), NEW t \in Thread, can_allocate(t)
  PROVE  IInv'
<1>1. CASE \E x \in Sector : Takes(t, x)
  BY <1>1, CanTake
<1>2. CASE /\ pc' = [pc EXCEPT ![t] = "give"] \/ pc' = [pc EXCEPT ![t] = "give_fail"]
           /\ UNCHANGED <<free_map, disk, got>>
  <2>1. pc[t] = "can"
        /\ UNCHANGED <<files, dirs, op, inode, offset, size, i, end, sec, id,
                       owner, written, creates, removes>>
    BY DEF can_allocate, At
  <2>2. pc'[t] \in {"give", "give_fail"} /\ Quiet(t) /\ TypeOK'
    BY <1>2, <2>1 DEF IInvAt, TypeOK, Quiet
  <2>3. CallOK(t)'
    BY <1>2, <2>1, <2>2
       DEF IInvAt, CallInv, CallOK, Creates, Creating, Writes, Growing, length
  <2> QED
    BY <1>2, <2>1, <2>2, <2>3, LocalStep DEF Growing
<1> QED
  BY <1>1, <1>2 DEF can_allocate, Takes, Goto

\* The first elements of a sequence.
LEMMA Prefixes ==
  ASSUME NEW S, NEW q \in Seq(S), NEW n \in 0 .. Len(q)
  PROVE  /\ SubSeq(q, 1, n) \in Seq(S) /\ Len(SubSeq(q, 1, n)) = n
         /\ \A j \in 1 .. n : SubSeq(q, 1, n)[j] = q[j]
BY SMTT(60)

\* can_allocate gives the last sector back.
LEMMA Give ==
  ASSUME NEW h, IInvAt(h), NEW t \in Thread, GiveBack(t)
  PROVE  IInv'
<1> USE DEF IInvAt
<1>0. PICK m, x, g : /\ m = Len(got[t]) /\ x = got[t][m]
                     /\ g = [h EXCEPT ![x] = <<x, "inode", 0>>]
  OBVIOUS
<1>1. /\ pc[t] \in {"give", "give_fail"} /\ m > 1 /\ free_map' = free_map \ {x}
      /\ got' = [got EXCEPT ![t] = SubSeq(@, 1, m - 1)]
      /\ UNCHANGED <<disk, files, dirs, pc, op, inode, offset, size, i, end, sec, id,
                     owner, written, creates, removes>>
  BY <1>0 DEF GiveBack, At, free_map_release
<1>2. got[t] \in Seq(Sector) /\ m \in Nat /\ m \in 1 .. Len(got[t]) /\ x \in Sector
  BY <1>0, <1>1, Types, SMTT(60)
<1>3. ThreadOK(t, h) /\ h \in Homes /\ h[0] = <<0, "none", 0>>
  BY DEF Layout, Homes
<1>4. x \in free_map /\ h[x] = <<inode[t], "got", m>> /\ disk[x] = Zero
  BY <1>0, <1>2, <1>3 DEF ThreadOK, GotOK
<1>5. /\ g \in Homes /\ g[x] = <<x, "inode", 0>> /\ x # 0
      /\ \A y \in Sector : y # x => g[y] = h[y]
  BY <1>0, <1>2, <1>3, <1>4, SMTT(60) DEF Homes, Role
<1>6. /\ got'[t] \in Seq(Sector) /\ Len(got'[t]) = m - 1
      /\ \A j \in 1 .. m - 1 : got'[t][j] = got[t][j]
  <2>1. got'[t] = SubSeq(got[t], 1, m - 1)
    BY <1>1 DEF TypeOK
  <2>2. m - 1 \in 0 .. Len(got[t])
    BY <1>1, <1>2, SMTT(60)
  <2> QED
    BY <1>2, <2>1, <2>2, Prefixes, SMTT(60)
<1>7. TypeOK'
  <2>1. got' \in [Thread -> Seq(Sector)]
    BY <1>1, <1>6 DEF TypeOK
  <2> QED
    BY <1>1, <2>1 DEF TypeOK
<1>8. Inodes' = Inodes /\ x \notin Inodes /\ x \notin files /\ inode[t] \in Inodes
  <2>1. Inodes' = Inodes
    BY <1>1 DEF Inodes
  <2>2. \A s \in Inodes : h[s] = <<s, "inode", 0>>
    BY RootedSectors DEF Layout, IndexOK
  <2> QED
    BY <1>1, <1>4, <2>1, <2>2, RootedSectors, SMTT(60)
<1>9. StepOn(t, {x}, h, g)
  <2>1. ASSUME NEW y \in Sector, y # x PROVE SameSector(y, h, g)
    BY <1>1, <1>5, <2>1 DEF SameSector
  <2>2. LeavesAlone(t, {x}, h, g)
    <3>1. \A y \in Sector :
            \/ SameSector(y, h, g)
            \/ pc[t] # "idle" /\ h[y][1] = inode[t] /\ h[y][2] = "got"
      BY <1>1, <1>4, <2>1, SMTT(60)
    <3>2. \A s \in Sector \ {x}, k \in Nat : <<s, k>> \in written' <=> <<s, k>> \in written
      BY <1>1
    <3> QED
      BY <3>1, <3>2, Elsewhere
  <2>3. Quiet(t)
    BY <1>1 DEF Quiet, TypeOK
  <2> QED
    BY <1>1, <1>8, <2>2, <2>3, RootedSectors DEF StepOn
<1>10. IndexOK(x, g)'
  <2>1. disk'[x][Single] = 0 /\ disk'[x][Double] = 0
    BY <1>1, <1>4, Constants DEF Zero
  <2> QED
    BY <1>5, <2>1 DEF IndexOK, Leads
<1>11. ThreadOK(t, g)' /\ CallOK(t)'
  <2>1. PICK s : s = inode[t]
    OBVIOUS
  <2>2. s \in Inodes \ {x}
    BY <1>8, <2>1
  <2>3. /\ length(s)' = length(s) /\ owner'[s] = owner[s]
        /\ s \in files' <=> s \in files
        /\ s \in free_map => s \in free_map'
        /\ (\A b \in written : b[1] # s) => \A b \in written' : b[1] # s
        /\ \A k \in Nat : BlockOK(s, k, h) => BlockOK(s, k, g)'
    BY <1>7, <1>9, <2>2, CallsInode
  <2>4. CallOK(t)'
    BY <1>1, <2>1, <2>3 DEF CallInv, CallOK, Creates, Creating, Writes
  <2>5. GotOK(t, g)'
    <3>1. ASSUME NEW j \in 1 .. Len(got'[t])
          PROVE  j \in 1 .. Len(got[t]) /\ j # m /\ got'[t][j] = got[t][j]
      BY <1>2, <1>6, SMTT(60)
    <3>2. ASSUME NEW j \in 1 .. Len(got[t]), j # m
          PROVE  /\ got[t][j] \in free_map' /\ g[got[t][j]] = <<inode[t], "got", j>>
                 /\ disk'[got[t][j]] = Zero
      <4>1. /\ got[t][j] \in free_map /\ h[got[t][j]] = <<inode[t], "got", j>>
            /\ disk[got[t][j]] = Zero /\ got[t][j] \in Sector
        <5>1. GotOK(t, h)
          BY <1>3 DEF ThreadOK
        <5> QED
          BY <5>1, Types DEF GotOK
      <4>2. got[t][j] # x
        BY <1>4, <3>2, <4>1, SMTT(60)
      <4> QED
        BY <1>1, <1>5, <4>1, <4>2
    <3> QED
      BY <1>1, <3>1, <3>2 DEF GotOK, Zero, Word
  <2>6. ThreadOK(t, g)'
    <3>1. ASSUME NEW k \in 0 .. i[t] - 1 PROVE BlockOK(s, k, g)'
      <4>1. BlockOK(s, k, h)
        BY <1>1, <1>3, <2>1 DEF ThreadOK, Growing
      <4>2. i[t] \in Nat
        BY Types
      <4>3. k \in Nat
        BY <4>2, SMTT(60)
      <4> QED
        BY <2>3, <4>1, <4>3
    <3> QED
      BY <1>1, <2>1, <2>5, <3>1 DEF ThreadOK
  <2> QED
    BY <2>4, <2>6
<1>12. CallInv' /\ \E home : Layout(home)'
  <2>1. g[0] = <<0, "none", 0>>
    BY <1>3, <1>5 DEF TypeOK, FileInv
  <2>2. \A u \in Thread \ {t} : pc[u] # "idle" => inode[u] # inode'[t]
    BY <1>1 DEF CallInv
  <2>3. /\ \A s \in {x} : s \in Rooted' => IndexOK(s, g)'
        /\ \A s \in {x} : s \in files' => \A k \in Blocks(s)' : BlockOK(s, k, g)'
    BY <1>1, <1>8, <1>10
  <2> QED
    <3>f. Fits(t, {x}, h, g)
      BY <1>5, <1>7, <1>9, <1>11, <2>1, <2>2, <2>3 DEF Fits
    <3> QED
      BY <3>f, Together
<1>13. FileInv'
  <2>1. 0 \in free_map' /\ x \notin files' /\ x \notin Inodes'
    BY <1>1, <1>5, <1>8 DEF FileInv
  <2>2. \A y \in Sector : owner'[y] <= creates'
    BY <1>1 DEF FileInv
  <2>3. "dir" \notin Kind => dirs' = {} /\ op'[t] # "mkdir"
    BY <1>1 DEF FileInv
  <2> QED
    <3>f. FilesFit(t, {x}, h, g)
      BY <1>7, <1>9, <2>1, <2>2, <2>3 DEF FilesFit
    <3> QED
      BY <3>f, FilesTogether
<1> QED
  BY <1>7, <1>12, <1>13 DEF IInv

\* A step that sets the length of the inode that t works on.
LEMMA LengthStep ==
  ASSUME NEW h, IInvAt(h), TypeOK', NEW t \in Thread, Quiet(t), CallOK(t)',
         NEW s \in Inodes, NEW n \in Nat, disk' = SetWord(<<s, 0>>, n),
         UNCHANGED <<free_map, files, dirs, owner, written, creates>>,
         inode'[t] = s, op'[t] = op[t] \/ op'[t] = "write",
         pc'[t] \notin {"idle", "link"}, got'[t] = <<>>,
         \A u \in Thread \ {t} : pc[u] # "idle" => inode[u] # s,
         pc'[t] \in Growing => \A k \in 0 .. i'[t] - 1 : BlockOK(s, k, h),
         s \in files => /\ bytes_to_sectors(length(s)) <= bytes_to_sectors(n)
                        /\ \A k \in 0 .. bytes_to_sectors(n) - 1 : BlockOK(s, k, h)
  PROVE  IInv'
<1> USE DEF IInvAt
<1>1. s \in Sector /\ IndexOK(s, h) /\ h[s] = <<s, "inode", 0>>
  BY RootedSectors DEF Layout, IndexOK
<1>2. /\ IndexOK(s, h)' /\ length(s)' = n
      /\ \A x \in Sector : x # s => SameSector(x, h, h)
      /\ \A k \in Nat : BlockOK(s, k, h) => BlockOK(s, k, h)'
  BY <1>1, SetLength
<1>3. StepOn(t, {s}, h, h)
  <2>1. LeavesAlone(t, {s}, h, h)
    BY <1>1, <1>2, ElsewhereOne
  <2> QED
    BY <2>1 DEF StepOn
<1>4. ThreadOK(t, h)'
  <2>1. i'[t] \in Nat
    BY DEF TypeOK
  <2>2. pc'[t] \in Growing => \A k \in 0 .. i'[t] - 1 : BlockOK(s, k, h)'
    BY <1>2, <2>1, SMTT(60)
  <2> QED
    BY <2>2, NothingGot DEF ThreadOK
<1>5. bytes_to_sectors(n) \in Nat /\ bytes_to_sectors(length(s)) \in Nat
      /\ Blocks(s)' = 0 .. bytes_to_sectors(n) - 1
  <2>1. length(s) \in Nat
    BY <1>1, LengthIsNat
  <2> QED
    BY <1>2, <2>1, BytesToSectors DEF Blocks, bytes_to_sectors
<1>6. CallInv' /\ \E home : Layout(home)'
  <2>1. h \in Homes /\ h[0] = <<0, "none", 0>>
    BY DEF Layout, Homes
  <2>2. \A r \in {s} : r \in files' => \A k \in Blocks(r)' : BlockOK(r, k, h)'
    BY <1>2, <1>5, SMTT(60)
  <2> QED
    <3>f. Fits(t, {s}, h, h)
      BY <1>2, <1>3, <1>4, <2>1, <2>2 DEF Fits
    <3> QED
      BY <3>f, Together
<1>7. FileInv'
  <2>1. Inodes' \subseteq Inodes /\ owner' = owner
    BY <1>3, Inherit, SMTT(60)
  <2>2. ASSUME s \in files, NEW b \in written, b[1] = s PROVE b[2] \in Blocks(s)'
    <3>1. b[2] \in Blocks(s)
      BY <2>2 DEF FileInv
    <3>2. b[2] \in 0 .. bytes_to_sectors(length(s)) - 1
      BY <3>1 DEF Blocks
    <3>3. b[2] \in 0 .. bytes_to_sectors(n) - 1
      BY <1>5, <2>2, <3>2, SMTT(60)
    <3> QED
      BY <1>5, <3>3
  <2>3. s \in Inodes' => owner'[s] # 0 /\ \A r \in Inodes' : owner'[r] = owner'[s] => r = s
    BY <2>1 DEF FileInv
  <2>4. s \in files' => s \in free_map' /\ \A b \in written' : b[1] = s => b[2] \in Blocks(s)'
    BY <2>2 DEF FileInv
  <2>5. "dir" \notin Kind => dirs' = {} /\ op'[t] # "mkdir"
    BY DEF FileInv
  <2>6. 0 \in free_map' /\ \A y \in Sector : owner'[y] <= creates'
    BY DEF FileInv
  <2> QED
    <3>f. FilesFit(t, {s}, h, h)
      BY <1>3, <2>3, <2>4, <2>5, <2>6 DEF FilesFit
    <3> QED
      BY <3>f, FilesTogether
<1> QED
  BY <1>6, <1>7 DEF IInv

\* can_allocate has given back its sectors, and the blocks can be had.
LEMMA CanDone ==
  ASSUME NEW h, IInvAt(h), NEW t \in Thread, CanAllocate(t)
  PROVE  IInv'
<1> USE DEF IInvAt
<1>1. /\ pc[t] = "give" /\ pc' = [pc EXCEPT ![t] = "install"]
      /\ got' = [got EXCEPT ![t] = <<>>]
      /\ disk' = IF Creating(t) THEN SetWord(<<inode[t], 0>>, size[t]) ELSE disk
      /\ UNCHANGED <<free_map, files, dirs, op, inode, offset, size, i, end, sec, id,
                     owner, written, creates, removes>>
  BY DEF CanAllocate, At, Goto
<1>2. PICK s, n : s = inode[t] /\ n = size[t]
  OBVIOUS
<1>3. s \in Inodes /\ s \in Sector /\ n \in Nat /\ CallOK(t)
  BY <1>1, <1>2, RootedSectors, Types DEF CallInv
<1>4. pc'[t] = "install" /\ got'[t] = <<>> /\ Quiet(t)
  BY <1>1 DEF TypeOK, Quiet
<1>5. TypeOK'
  <2>1. disk' \in [Sector -> [Word -> Nat]]
    BY <1>1, <1>2, <1>3, OneWordSet, Constants, Types
  <2>2. got' \in [Thread -> Seq(Sector)]
    BY <1>1, SMTT(60) DEF TypeOK
  <2> QED
    BY <1>1, <2>1, <2>2 DEF TypeOK
<1>6. CASE Creating(t)
  <2>1. Creates(t) /\ i[t] = 0 /\ s \notin files
    BY <1>1, <1>2, <1>3, <1>6 DEF CallOK, Creates
  <2>2. disk' = SetWord(<<s, 0>>, n)
    BY <1>1, <1>2, <1>6
  <2>3. length(s)' = n
    <3>1. 0 \in Word
      BY Constants
    <3> QED
      BY <1>3, <2>2, <3>1, OneWordSet, SMTT(60) DEF length
  <2>4. CallOK(t)'
    BY <1>1, <1>2, <1>3, <1>4, <2>1, <2>3, Types
       DEF CallOK, Creates, Creating, Writes, Growing
  <2>5. \A u \in Thread \ {t} : pc[u] # "idle" => inode[u] # s
    BY <1>1, <1>2 DEF CallInv
  <2> QED
    BY <1>1, <1>2, <1>3, <1>4, <1>5, <2>1, <2>2, <2>4, <2>5, LengthStep, SMTT(60)
<1>7. CASE ~Creating(t)
  <2>1. CallOK(t)'
    BY <1>1, <1>3, <1>4, <1>7 DEF CallOK, Creates, Creating, Writes, Growing, length
  <2> QED
    BY <1>1, <1>4, <1>5, <1>7, <2>1, LocalStep DEF Growing
<1> QED
  BY <1>6, <1>7

\* can_allocate has given back its sectors, and the call fails.
LEMMA CannotDone ==
  ASSUME NEW h, IInvAt(h), NEW t \in Thread, CannotAllocate(t)
  PROVE  IInv'
<1> USE DEF IInvAt
<1>1. /\ pc[t] = "give_fail" /\ CallOK(t)
      /\ UNCHANGED <<disk, files, dirs, written, creates, removes>>
  BY DEF CannotAllocate, At, CallInv
<1>2. CASE /\ Creating(t) /\ free_map_release(inode[t])
           /\ owner' = [owner EXCEPT ![inode[t]] = 0] /\ Return(t)
  <2>1. PICK s : s = inode[t]
    OBVIOUS
  <2>2. /\ s \in Inodes /\ s \in Sector /\ s \notin files /\ s \in Rooted
        /\ IndexOK(s, h) /\ h[s] = <<s, "inode", 0>>
    <3>1. s \in Inodes /\ s \notin files
      BY <1>1, <1>2, <2>1, RootedSectors DEF CallOK, Creates
    <3> QED
      BY <3>1, RootedSectors DEF Layout, IndexOK
  <2>3. free_map' = free_map \ {s} /\ owner' = [owner EXCEPT ![s] = 0]
    BY <1>2, <2>1 DEF free_map_release
  <2>4. TypeOK'
    <3>0. 0 \in 0 .. MaxCreate
      BY InodeAssumption, SMTT(60)
    <3>1. /\ owner' \in [Sector -> 0 .. MaxCreate] /\ free_map' \subseteq Sector
          /\ disk' \in [Sector -> [Word -> Nat]] /\ written' \subseteq Sector \X Nat
      BY <1>1, <2>3, <3>0 DEF TypeOK
    <3>2. files' \subseteq Sector /\ dirs' \subseteq files'
      BY <1>1 DEF TypeOK
    <3> QED
      BY <1>1, <1>2, <3>1, <3>2, ReturnType
  <2>5. /\ Quiet(t) /\ pc'[t] = "idle" /\ op'[t] = "create"
        /\ CallOK(t)' /\ ThreadOK(t, h)'
    BY <1>2, Returned
  <2>6. \A u \in Thread \ {t} : pc[u] # "idle" => inode[u] # s
    BY <1>1, <2>1 DEF CallInv
  <2>7. StepOn(t, {s}, h, h)
    <3>1. \A x \in Sector : x # s => SameSector(x, h, h)
      BY <1>1, <2>3, Types DEF SameSector
    <3>2. LeavesAlone(t, {s}, h, h)
      BY <1>1, <2>2, <3>1, ElsewhereOne
    <3> QED
      BY <1>1, <2>3, <2>5, <2>6, <3>2 DEF StepOn
  <2>8. IndexOK(s, h)'
    <3>1. \A y \in Sector : disk'[y] = disk[y] /\ (y \in free_map /\ y # s => y \in free_map')
      BY <1>1, <2>3
    <3> QED
      BY <2>2, <3>1, IndexIsKept, SMTT(60)
  <2>9. CallInv' /\ \E home : Layout(home)'
    <3>1. h \in Homes /\ h[0] = <<0, "none", 0>>
      BY DEF Layout, Homes
    <3> QED
      <4>f. Fits(t, {s}, h, h)
        BY <1>1, <2>2, <2>4, <2>5, <2>7, <2>8, <3>1 DEF Fits
      <4> QED
        BY <4>f, Together
  <2>10. FileInv'
    <3>1. \A u \in Thread : pc'[u] # "idle" => inode'[u] # s
      BY <2>5, <2>6 DEF Quiet
    <3>2. s \notin Inodes' /\ s \notin files'
      BY <1>1, <2>2, <3>1 DEF Inodes
    <3>3. 0 \in free_map'
      BY <2>2, <2>3, SMTT(60) DEF FileInv, Layout
    <3>4. ASSUME NEW y \in Sector PROVE owner'[y] <= creates'
      <4>1. owner[y] <= creates /\ creates \in Nat
        BY Types DEF FileInv
      <4> QED
        BY <1>1, <2>3, <4>1, Types, SMTT(60)
    <3>5. "dir" \notin Kind => dirs' = {} /\ op'[t] # "mkdir"
      BY <1>1, <2>5 DEF FileInv
    <3> QED
      <4>f. FilesFit(t, {s}, h, h)
        BY <2>4, <2>7, <3>2, <3>3, <3>4, <3>5 DEF FilesFit
      <4> QED
        BY <4>f, FilesTogether
  <2> QED
    BY <2>4, <2>9, <2>10 DEF IInv
<1>3. CASE /\ op[t] = "write" /\ got' = [got EXCEPT ![t] = <<>>] /\ Goto(t, "data")
           /\ UNCHANGED <<free_map, owner, op, inode, offset, size, i, end, sec, id>>
  <2>1. pc'[t] = "data" /\ got'[t] = <<>> /\ Quiet(t)
    BY <1>3 DEF TypeOK, Quiet, Goto
  <2>2. TypeOK'
    <3>1. got' \in [Thread -> Seq(Sector)]
      BY <1>3, SMTT(60) DEF TypeOK
    <3> QED
      BY <1>1, <1>3, <3>1 DEF TypeOK, Goto
  <2>3. CallOK(t)'
    BY <1>1, <1>3, <2>1 DEF CallOK, Creates, Creating, Writes, Growing, length
  <2> QED
    BY <1>1, <1>3, <2>1, <2>2, <2>3, LocalStep DEF Growing
<1> QED
  BY <1>2, <1>3 DEF CannotAllocate

\* The disk is full in install_sector.
LEMMA AllocFails ==
  ASSUME NEW h, IInvAt(h), NEW t \in Thread, pc[t] \in {"install", "link"},
         GetSectorFails(t),
         UNCHANGED <<files, dirs, op, inode, offset, size, got, i, end, id,
                     written, creates, removes>>
  PROVE  IInv'
<1>1. pc' = [pc EXCEPT ![t] = "alloc_failed"] /\ UNCHANGED <<free_map, disk, owner, sec>>
  BY DEF GetSectorFails, Goto
<1>2. pc'[t] = "alloc_failed" /\ Quiet(t) /\ TypeOK'
  BY <1>1 DEF IInvAt, TypeOK, Quiet
<1>3. CallOK(t)'
  BY <1>1, <1>2 DEF IInvAt, CallInv, CallOK, Creates, Creating, Writes, Growing, length
<1> QED
  BY <1>1, <1>2, <1>3, LocalStep DEF Growing

\* install_sector allocates the data sector.
LEMMA InstallData ==
  ASSUME NEW h, IInvAt(h), NEW t \in Thread, install_sector(t)
  PROVE  IInv'
<1> USE DEF IInvAt
<1>1. /\ pc[t] = "install" /\ i[t] < end[t] /\ CallOK(t)
      /\ UNCHANGED <<files, dirs, op, inode, offset, size, got, i, end, id,
                     written, creates, removes>>
  BY DEF install_sector, At, CallInv
<1>2. CASE GetSectorFails(t)
  BY <1>1, <1>2, AllocFails
<1>3. ASSUME NEW x \in Sector, free_map_allocate(x), disk' = [disk EXCEPT ![x] = Zero],
             owner' = [owner EXCEPT ![x] = id[t]], sec' = [sec EXCEPT ![t] = x],
             Goto(t, "link")
      PROVE  IInv'
  <2> HIDE <1>3
  <2>1. /\ x \notin free_map /\ free_map' = free_map \cup {x} /\ x # 0
        /\ x \in Rooted /\ x \notin Inodes /\ x \notin files
        /\ h[x] = <<x, "inode", 0>>
    BY <1>3, Allocated
  <2>2. PICK s, n, g : s = inode[t] /\ n = i[t] /\ g = [h EXCEPT ![x] = <<s, "data", n>>]
    OBVIOUS
  <2>3. /\ s \in Sector /\ n \in Nat /\ s \in Inodes /\ s # x
        /\ h \in Homes /\ h[0] = <<0, "none", 0>>
    BY <1>1, <2>1, <2>2, Types, RootedSectors DEF Layout, Homes
  <2>4. /\ g \in Homes /\ g[x] = <<s, "data", n>>
        /\ \A y \in Sector : y # x => g[y] = h[y]
    BY <2>2, <2>3 DEF Homes, Role
  <2>5. /\ disk'[x] = Zero /\ owner'[x] = id[t] /\ sec'[t] = x /\ pc'[t] = "link"
        /\ \A y \in Sector : y # x => disk'[y] = disk[y] /\ owner'[y] = owner[y]
    BY <1>3 DEF TypeOK, Goto
  <2>6. TypeOK' /\ Quiet(t)
    <3>1. disk' \in [Sector -> [Word -> Nat]]
      BY <1>3, Constants, Types
    <3>2. owner' \in [Sector -> 0 .. MaxCreate]
      BY <1>3 DEF TypeOK
    <3>3. sec' \in [Thread -> Sector] /\ free_map' \subseteq Sector
      BY <1>3, <2>1 DEF TypeOK
    <3>4. Quiet(t)
      BY <1>1, <1>3 DEF TypeOK, Quiet, Goto
    <3> QED
      BY <1>1, <1>3, <3>1, <3>2, <3>3, <3>4 DEF TypeOK, Goto
  <2>7. StepOn(t, {x}, h, g)
    <3>1. \A y \in Sector : y # x => SameSector(y, h, g)
      BY <2>1, <2>4, <2>5 DEF SameSector
    <3>2. LeavesAlone(t, {x}, h, g)
      BY <1>1, <2>1, <3>1, ElsewhereOne
    <3> QED
      BY <1>1, <2>1, <2>2, <2>3, <2>6, <3>2, RootedSectors DEF StepOn
  <2>8. x \notin Inodes' /\ x \notin Rooted'
    <3>1. Inodes' \subseteq Inodes
      <4>1. \A u \in Thread : pc'[u] # "idle" => inode'[u] \in Inodes
        BY <1>1, <2>2, <2>3, <2>6, RootedSectors DEF Quiet
      <4> QED
        BY <1>1, <4>1, RootedSectors DEF Inodes
    <3> QED
      BY <2>1, <3>1 DEF Rooted
  <2>9. /\ length(s)' = length(s) /\ owner'[s] = owner[s]
        /\ s \in free_map => s \in free_map'
        /\ \A k \in Nat : BlockOK(s, k, h) => BlockOK(s, k, g)'
    BY <2>3, <2>6, <2>7, CallsInode, SMTT(60)
  <2>10. <<s, n>> \notin written
    <3>1. CASE Creates(t)
      BY <1>1, <2>2, <3>1 DEF CallOK
    <3>2. CASE Writes(t)
      <4>1. /\ s \in files /\ bytes_to_sectors(length(s)) <= n
        BY <1>1, <2>2, <3>2 DEF CallOK, Growing
      <4>2. <<s, n>> \in written => n \in 0 .. bytes_to_sectors(length(s)) - 1
        BY <4>1 DEF FileInv, Blocks
      <4>3. bytes_to_sectors(length(s)) \in Nat
        <5>1. length(s) \in Nat
          BY <2>3, LengthIsNat
        <5> QED
          BY <5>1, BytesToSectors
      <4> QED
        BY <2>3, <4>1, <4>2, <4>3, SMTT(60)
    <3> QED
      BY <1>1, <3>1, <3>2 DEF TypeOK, CallOK, Creates, Creating, Writes
  <2>11. CallOK(t)'
    BY <1>1, <2>2, <2>5, <2>9 DEF CallOK, Creates, Creating, Writes, Growing
  <2>12. ThreadOK(t, g)'
    <3>1. SectorOK(x, s, n, g)'
      <4>1. owner'[x] = owner'[s]
        BY <1>1, <2>2, <2>5, <2>9 DEF CallOK
      <4> QED
        BY <1>1, <2>1, <2>4, <2>5, <2>10, <4>1 DEF SectorOK, Zero, Word
    <3>2. ASSUME NEW k \in 0 .. n - 1 PROVE BlockOK(s, k, g)'
      <4>1. ThreadOK(t, h)
        BY DEF Layout
      <4>2. BlockOK(s, k, h)
        BY <1>1, <2>2, <4>1 DEF ThreadOK, Growing
      <4> QED
        BY <2>3, <2>9, <4>2, SMTT(60)
    <3>3. GotOK(t, g)'
      BY <1>1, NothingGot DEF CallOK
    <3>4. inode'[t] = s /\ i'[t] = n
      BY <1>1, <2>2
    <3> QED
      BY <2>5, <3>1, <3>2, <3>3, <3>4 DEF ThreadOK
  <2>13. CallInv' /\ \E home : Layout(home)'
    <3>1. g[0] = <<0, "none", 0>>
      BY <2>1, <2>3, <2>4 DEF FileInv, TypeOK
    <3>2. \A u \in Thread \ {t} : pc[u] # "idle" => inode[u] # inode'[t]
      BY <1>1 DEF CallInv
    <3>3. /\ \A r \in {x} : r \in Rooted' => IndexOK(r, g)'
          /\ \A r \in {x} : r \in files' => \A k \in Blocks(r)' : BlockOK(r, k, g)'
      BY <1>1, <2>1, <2>8
    <3> QED
      <4>f. Fits(t, {x}, h, g)
        BY <2>4, <2>6, <2>7, <2>11, <2>12, <3>1, <3>2, <3>3 DEF Fits
      <4> QED
        BY <4>f, Together
  <2>14. FileInv'
    <3>1. 0 \in free_map' /\ x \notin files'
      BY <1>1, <2>1 DEF FileInv
    <3>2. \A y \in Sector : owner'[y] <= creates'
      BY <1>1, <2>2, <2>3, <2>5 DEF FileInv, CallOK
    <3>3. "dir" \notin Kind => dirs' = {} /\ op'[t] # "mkdir"
      BY <1>1 DEF FileInv
    <3> QED
      <4>f. FilesFit(t, {x}, h, g)
        BY <2>6, <2>7, <2>8, <3>1, <3>2, <3>3 DEF FilesFit
      <4> QED
        BY <4>f, FilesTogether
  <2> QED
    BY <2>6, <2>13, <2>14 DEF IInv
<1> QED
  BY <1>2, <1>3 DEF install_sector

-----------------------------------------------------------------------------
(* Index blocks, the end of a creation, and remove                          *)

\* The null pointer that is in the way to a block.
LEMMA MissingAt ==
  ASSUME TypeOK, NEW h, NEW s \in Sector, NEW k \in Nat, k < MaxBlocks, IndexOK(s, h),
         IndexMissing(s, k)
  PROVE  \/ PtrAt(s, k) = <<s, Single>> /\ disk[s][Single] = 0
         \/ PtrAt(s, k) = <<s, Double>> /\ disk[s][Double] = 0
         \/ \E d \in Word : /\ disk[s][Double] # 0 /\ disk[disk[s][Double]][d] = 0
                            /\ PtrAt(s, k) = <<disk[s][Double], d>>
<1> DEFINE n == k - NumDirect - Indirect
           double == disk[s][Double]
<1>1. NumDirect \in Nat /\ Indirect \in Nat
  BY Constants
<1>2. CASE k >= NumDirect /\ n < 0 /\ disk[s][Single] = 0
  BY <1>1, <1>2, SMTT(60) DEF PtrAt
<1>3. CASE n >= 0 /\ double = 0
  BY <1>1, <1>3, SMTT(60) DEF PtrAt
<1>4. CASE n >= 0 /\ double # 0 /\ disk[double][n \div Indirect] = 0
  <2>1. n \in Nat /\ n < Indirect * Indirect
    BY <1>1, <1>4, SMTT(60) DEF MaxBlocks
  <2>2. n \div Indirect \in Word
    BY <2>1, DoubleWords
  <2>3. PtrAt(s, k) = <<double, n \div Indirect>>
    BY <1>1, <1>4, SMTT(60) DEF PtrAt
  <2> HIDE DEF n
  <2> QED
    BY <1>4, <2>2, <2>3
<1> QED
  BY <1>2, <1>3, <1>4 DEF IndexMissing

\* install_sector sets an index pointer that was null to a new index block x,
\* whose home is q.
IndexSet(s, n, x, q, h, g) ==
  LET p == PtrAt(s, n) IN
  /\ p[1] \in Sector /\ p[2] \in Word /\ h[p[1]][1] = s /\ h[p[1]][2] \in IndexRole
  /\ disk[p[1]][p[2]] = 0 /\ p[1] # x
  /\ disk'[p[1]][p[2]] = x /\ disk'[x] = Zero
  /\ \A w \in Word : w # p[2] => disk'[p[1]][w] = disk[p[1]][w]
  /\ \A y \in Sector : y # p[1] /\ y # x => disk'[y] = disk[y]
  /\ x \notin free_map /\ free_map' = free_map \cup {x} /\ x # 0
  /\ h[x] = <<x, "inode", 0>> /\ x # s /\ g[x] = q
  /\ \A y \in Sector : y # x => g[y] = h[y]
  /\ \/ p = <<s, Single>> /\ disk[s][Single] = 0 /\ q = <<s, "single", 0>>
     \/ p = <<s, Double>> /\ disk[s][Double] = 0 /\ q = <<s, "double", 0>>
     \/ \E d \in Word : /\ disk[s][Double] # 0 /\ p = <<disk[s][Double], d>>
                        /\ q = <<s, "second", d>>

\* The index is sound with the new index block.
LEMMA IndexIsSet ==
  ASSUME TypeOK, NEW h, NEW g, NEW s \in Sector, NEW n, NEW x \in Sector, NEW q,
         IndexOK(s, h), IndexSet(s, n, x, q, h, g)
  PROVE  IndexOK(s, g)' /\ length(s)' = length(s)
<1> DEFINE p == PtrAt(s, n)
           double == disk[s][Double]
<1>1. /\ p[1] \in Sector /\ p[2] \in Word /\ p[1] # x
      /\ disk'[p[1]][p[2]] = x /\ disk'[x] = Zero
      /\ \A w \in Word : w # p[2] => disk'[p[1]][w] = disk[p[1]][w]
      /\ \A y \in Sector : y # p[1] /\ y # x => disk'[y] = disk[y]
      /\ x \notin free_map /\ free_map' = free_map \cup {x} /\ x # 0 /\ x # s /\ g[x] = q
      /\ \A y \in Sector : y # x => g[y] = h[y]
  BY DEF IndexSet
<1>2. \/ p = <<s, Single>> /\ disk[s][Single] = 0 /\ q = <<s, "single", 0>>
      \/ p = <<s, Double>> /\ disk[s][Double] = 0 /\ q = <<s, "double", 0>>
      \/ \E d \in Word : /\ double # 0 /\ p = <<double, d>> /\ q = <<s, "second", d>>
  BY DEF IndexSet
<1>3. /\ Single \in Word /\ Double \in Word /\ 0 \in Word
      /\ Single # Double /\ Single # 0 /\ Double # 0
  BY Constants
<1>4. /\ h[s] = <<s, "inode", 0>> /\ g[s] = <<s, "inode", 0>>
      /\ disk[s][Single] # 0 => Leads(disk[s][Single], h, <<s, "single", 0>>)
      /\ double # 0 => /\ double \in Sector /\ double \in free_map /\ double # s
                       /\ h[double] = <<s, "double", 0>>
  <2>1. /\ h[s] = <<s, "inode", 0>>
        /\ disk[s][Single] # 0 => Leads(disk[s][Single], h, <<s, "single", 0>>)
    BY DEF IndexOK
  <2>2. double # 0 => double \in Sector /\ double \in free_map /\ h[double] = <<s, "double", 0>>
    BY IndexSectors
  <2>3. g[s] = h[s]
    BY <1>1
  <2> HIDE DEF double
  <2>4. double # 0 => double # s
    BY <2>1, <2>2, SMTT(60)
  <2> QED
    BY <2>1, <2>2, <2>3, <2>4
<1>5. ASSUME NEW v \in free_map PROVE v \in free_map' /\ g[v] = h[v] /\ v # x
  BY <1>1, Types DEF TypeOK
<1>5a. double # 0 => \A w \in Word : disk[double][w] # 0 =>
        disk[double][w] \in free_map /\ h[disk[double][w]] = <<s, "second", w>>
  BY DEF IndexOK, Leads
<1> HIDE DEF p, double
<1>6. CASE p = <<s, Single>> /\ q = <<s, "single", 0>>
  <2>1. /\ disk'[s][Single] = x /\ disk'[s][Double] = double /\ disk'[s][0] = disk[s][0]
    BY <1>1, <1>3, <1>6 DEF double
  <2>2. double # 0 => disk'[double] = disk[double] /\ g[double] = <<s, "double", 0>>
    <3>1. p[1] = s
      BY <1>6
    <3> QED
      BY <1>1, <1>4, <1>5, <3>1
  <2>3. double # 0 => \A w \in Word : disk'[double][w] # 0 =>
          disk'[double][w] \in free_map' /\ g[disk'[double][w]] = <<s, "second", w>>
    BY <1>5, <1>5a, <2>2
  <2> QED
    BY <1>1, <1>4, <1>5, <1>6, <2>1, <2>2, <2>3 DEF IndexOK, Leads, length
<1>7. CASE p = <<s, Double>> /\ q = <<s, "double", 0>>
  <2>1. /\ disk'[s][Single] = disk[s][Single] /\ disk'[s][Double] = x
        /\ disk'[s][0] = disk[s][0]
    BY <1>1, <1>3, <1>7
  <2>2. \A w \in Word : disk'[x][w] = 0
    BY <1>1 DEF Zero
  <2> QED
    BY <1>1, <1>4, <1>5, <1>7, <2>1, <2>2, SMTT(60) DEF IndexOK, Leads, length
<1>8. CASE double # 0 /\ \E d \in Word : p = <<double, d>> /\ q = <<s, "second", d>>
  <2>1. PICK d \in Word : p = <<double, d>> /\ q = <<s, "second", d>>
    BY <1>8
  <2>2. disk'[s] = disk[s]
    <3>1. p[1] = double
      BY <2>1
    <3> QED
      BY <1>1, <1>4, <1>8, <3>1
  <2>3. g[double] = <<s, "double", 0>> /\ double \in free_map'
    BY <1>4, <1>5, <1>8
  <2>4. ASSUME NEW w \in Word, disk'[double][w] # 0
        PROVE  disk'[double][w] \in free_map' /\ g[disk'[double][w]] = <<s, "second", w>>
    <3>1. CASE w = d
      BY <1>1, <2>1, <3>1
    <3>2. CASE w # d
      <4>1. disk'[double][w] = disk[double][w]
        BY <1>1, <2>1, <3>2
      <4>2. disk[double][w] \in free_map /\ h[disk[double][w]] = <<s, "second", w>>
        BY <1>8, <1>5a, <2>4, <4>1
      <4> QED
        BY <1>5, <4>1, <4>2
    <3> QED
      BY <3>1, <3>2
  <2> QED
    BY <1>4, <1>5, <1>8, <2>2, <2>3, <2>4 DEF IndexOK, Leads, length, double
<1> QED
  BY <1>2, <1>6, <1>7, <1>8

\* The blocks that the inode has are where they were.
LEMMA IndexKeepsBlocks ==
  ASSUME TypeOK, NEW h, NEW g, NEW s \in Sector, NEW n, NEW x \in Sector, NEW q,
         IndexOK(s, h), IndexSet(s, n, x, q, h, g), UNCHANGED written,
         \A y \in Sector : y # x => owner'[y] = owner[y]
  PROVE  /\ \A k \in Nat, b \in Sector : SectorOK(b, s, k, h) => SectorOK(b, s, k, g)'
         /\ \A k \in Nat : BlockOK(s, k, h) => BlockOK(s, k, g)'
<1>1. PICK p, w : p = PtrAt(s, n)[1] /\ w = PtrAt(s, n)[2]
  OBVIOUS
<1>2. /\ p \in Sector /\ w \in Word /\ h[p][1] = s /\ h[p][2] \in IndexRole
      /\ disk[p][w] = 0 /\ x \notin free_map /\ free_map' = free_map \cup {x}
      /\ \A v \in Word : v # w => disk'[p][v] = disk[p][v]
      /\ \A y \in Sector : y # p /\ y # x => disk'[y] = disk[y]
      /\ \A y \in Sector : y # x => g[y] = h[y]
      /\ h[x] = <<x, "inode", 0>> /\ x # s
  BY <1>1 DEF IndexSet
<1>3. ASSUME NEW k \in Nat, NEW b \in Sector, SectorOK(b, s, k, h)
      PROVE  SectorOK(b, s, k, g)'
  <2>1. b # x /\ b # p
    BY <1>2, <1>3, SMTT(60) DEF SectorOK, IndexRole
  <2>2. disk'[b] = disk[b] /\ g[b] = h[b] /\ owner'[b] = owner[b] /\ owner'[s] = owner[s]
        /\ b \in free_map'
    BY <1>2, <1>3, <2>1 DEF SectorOK
  <2> QED
    BY <1>3, <2>2 DEF SectorOK, Zero, DataBlock, Word
<1>4. ASSUME NEW k \in Nat, BlockOK(s, k, h) PROVE BlockOK(s, k, g)'
  <2>1. OnlyWord(s, h, p, w)
    <3>1. h[x][1] # s
      <4>1. h[x] = <<x, "inode", 0>> /\ x # s
        BY <1>2
      <4> QED
        BY <4>1, SMTT(60)
    <3> QED
      BY <1>2, <3>1 DEF OnlyWord
  <2>2. PtrAt(s, k) # <<p, w>>
    <3>1. disk[PtrAt(s, k)[1]][PtrAt(s, k)[2]] # 0
      BY <1>4 DEF BlockOK, SectorOK, byte_to_sector
    <3>2. <<p, w>>[1] = p /\ <<p, w>>[2] = w
      BY SMTT(60)
    <3> QED
      BY <1>2, <3>1, <3>2
  <2>3. ~IndexMissing(s, k)' /\ byte_to_sector(s, k)' = byte_to_sector(s, k)
    <3>1. k < MaxBlocks /\ ~IndexMissing(s, k)
      BY <1>4 DEF BlockOK
    <3>2. disk[p][w] = 0
      BY <1>2
    <3> QED
      BY <2>1, <2>2, <3>1, <3>2, MapIsKept
  <2>4. byte_to_sector(s, k) \in Sector
    BY <1>4, Types DEF BlockOK, SectorOK, TypeOK
  <2> QED
    BY <1>3, <1>4, <2>3, <2>4 DEF BlockOK
<1> QED
  BY <1>3, <1>4

\* An inode keeps its blocks where no sector changes.
LEMMA StillInode ==
  ASSUME NEW h, IInvAt(h), UNCHANGED <<free_map, disk, owner, written>>, NEW s \in Rooted
  PROVE  /\ IndexOK(s, h)' /\ Blocks(s)' = Blocks(s)
         /\ \A k \in Nat : BlockOK(s, k, h) => BlockOK(s, k, h)'
<1>1. s \in Sector /\ IndexOK(s, h) /\ h \in Homes
  BY RootedSectors DEF IInvAt, Layout, Homes
<1>2. Apart(s, h, h)
  BY DEF Apart, Kept
<1>3. /\ IndexOK(s, h)' /\ length(s)' = length(s)
      /\ \A k \in Nat : BlockOK(s, k, h) => BlockOK(s, k, h)'
  BY <1>1, <1>2, BlocksAreKept DEF IInvAt
<1> QED
  BY <1>3 DEF Blocks, bytes_to_sectors

\* dir_add names the new inode.
LEMMA AddDone ==
  ASSUME NEW h, IInvAt(h), NEW t \in Thread, pc[t] = "add", Return(t),
         files' = files \cup {inode[t]}, dirs' = dirs \/ dirs' = dirs \cup {inode[t]},
         op[t] # "mkdir" => dirs' = dirs,
         UNCHANGED <<free_map, disk, owner, written, creates, removes>>
  PROVE  IInv'
<1> USE DEF IInvAt
<1>1. PICK s : s = inode[t]
  OBVIOUS
<1>2. s \in Inodes /\ s \in Rooted /\ s \in Sector /\ CallOK(t) /\ ThreadOK(t, h)
  BY <1>1, RootedSectors DEF CallInv, Layout
<1>3. /\ Quiet(t) /\ pc'[t] = "idle" /\ op'[t] = "create"
      /\ CallOK(t)' /\ ThreadOK(t, h)'
  BY Returned
<1>4. TypeOK'
  <2>1. files' \subseteq Sector /\ dirs' \subseteq files'
    BY <1>1, <1>2 DEF TypeOK
  <2>2. /\ free_map' \subseteq Sector /\ written' \subseteq Sector \X Nat
        /\ disk' \in [Sector -> [Word -> Nat]] /\ owner' \in [Sector -> 0 .. MaxCreate]
    BY DEF TypeOK
  <2> QED
    BY <2>1, <2>2, ReturnType
<1>5. \A u \in Thread \ {t} : pc[u] # "idle" => inode[u] # s
  BY <1>1 DEF CallInv
<1>6. StepOn(t, {s}, h, h)
  <2>1. files' \ {s} = files \ {s}
    BY <1>1
  <2> QED
    BY <1>3, <1>4, <1>5, <2>1, Still
<1>7. /\ s \in free_map /\ \A b \in written : b[1] # s
      /\ \A k \in Blocks(s) : BlockOK(s, k, h) /\ k \in Nat
  <2>1. Creates(t) /\ s \in free_map /\ \A b \in written : b[1] # s
    BY <1>1, <1>2 DEF TypeOK, CallOK, Creates, Creating, Writes
  <2>2. bytes_to_sectors(length(s)) = i[t]
    BY <1>1, <1>2, <2>1 DEF CallOK
  <2>3. \A k \in 0 .. i[t] - 1 : BlockOK(s, k, h)
    BY <1>1, <1>2 DEF ThreadOK, Growing
  <2>4. i[t] \in Nat
    BY Types
  <2> QED
    BY <2>1, <2>2, <2>3, <2>4, SMTT(60) DEF Blocks
<1>8. /\ IndexOK(s, h)' /\ Blocks(s)' = Blocks(s)
      /\ \A k \in Nat : BlockOK(s, k, h) => BlockOK(s, k, h)'
  BY <1>2, StillInode
<1>9. CallInv' /\ \E home : Layout(home)'
  <2>1. h \in Homes /\ h[0] = <<0, "none", 0>>
    BY DEF Layout, Homes
  <2>2. \A r \in {s} : r \in files' => \A k \in Blocks(r)' : BlockOK(r, k, h)'
    BY <1>7, <1>8
  <2> QED
    <3>f. Fits(t, {s}, h, h)
      BY <1>3, <1>4, <1>6, <1>8, <2>1, <2>2 DEF Fits
    <3> QED
      BY <3>f, Together
<1>10. FileInv'
  <2>1. Inodes' \subseteq Inodes
    BY <1>2, <1>6, Inherit, SMTT(60)
  <2>2. owner'[s] # 0 /\ \A r \in Inodes' : owner'[r] = owner'[s] => r = s
    BY <1>2, <2>1 DEF FileInv
  <2>3. s \in free_map' /\ \A b \in written' : b[1] = s => b[2] \in Blocks(s)'
    BY <1>7
  <2>4. "dir" \notin Kind => dirs' = {} /\ op'[t] # "mkdir"
    BY <1>3 DEF FileInv
  <2>5. 0 \in free_map' /\ \A y \in Sector : owner'[y] <= creates'
    BY DEF FileInv
  <2> QED
    <3>f. FilesFit(t, {s}, h, h)
      BY <1>4, <1>6, <2>2, <2>3, <2>4, <2>5 DEF FilesFit
    <3> QED
      BY <3>f, FilesTogether
<1> QED
  BY <1>4, <1>9, <1>10 DEF IInv

\* dir_add fails: the sector of the inode is given back, and the blocks are part
\* of no file.
LEMMA AddFails ==
  ASSUME NEW h, IInvAt(h), NEW t \in Thread, pc[t] = "add", Return(t),
         free_map_release(inode[t]),
         owner' = [s \in Sector |-> IF owner[s] = id[t] THEN 0 ELSE owner[s]],
         UNCHANGED <<disk, files, dirs, written, creates, removes>>
  PROVE  IInv'
<1> USE DEF IInvAt
<1>1. PICK s : s = inode[t]
  OBVIOUS
<1>2. s \in Inodes /\ s \in Rooted /\ s \in Sector /\ CallOK(t)
      /\ IndexOK(s, h) /\ h[s] = <<s, "inode", 0>>
  BY <1>1, RootedSectors DEF CallInv, Layout, IndexOK
<1>3. free_map' = free_map \ {s} /\ owner[s] = id[t] /\ s \notin files
  BY <1>1, <1>2 DEF free_map_release, TypeOK, CallOK, Creates, Creating, Writes
<1>4. \A y \in Sector : owner'[y] = IF owner[y] = owner[s] THEN 0 ELSE owner[y]
  BY <1>3
<1>5. TypeOK'
  <2>1. owner' \in [Sector -> 0 .. MaxCreate]
    <3>1. 0 \in 0 .. MaxCreate
      BY InodeAssumption, SMTT(60)
    <3> QED
      BY <3>1 DEF TypeOK
  <2>2. /\ free_map' \subseteq Sector /\ written' \subseteq Sector \X Nat
        /\ disk' \in [Sector -> [Word -> Nat]]
        /\ files' \subseteq Sector /\ dirs' \subseteq files'
    BY <1>3 DEF TypeOK
  <2> QED
    BY <2>1, <2>2, ReturnType
<1>6. /\ Quiet(t) /\ pc'[t] = "idle" /\ op'[t] = "create"
      /\ CallOK(t)' /\ ThreadOK(t, h)'
  BY Returned
<1>7. \A u \in Thread \ {t} : pc[u] # "idle" => inode[u] # s
  BY <1>1 DEF CallInv
<1>8. LeavesAlone(t, {s}, h, h)
  <2>1. ASSUME NEW r \in Rooted \ {s} PROVE Apart(r, h, h)
    <3>1. ASSUME NEW x \in Sector, h[x][1] = r PROVE Kept(x, r, h, h)
      <4>1. x # s /\ r \in Sector
        BY <1>2, <3>1, RootedSectors, SMTT(60)
      <4> QED
        BY <1>3, <1>4, <4>1 DEF Kept
    <3> QED
      BY <3>1 DEF Apart
  <2>2. ASSUME NEW r \in Inodes \ {s} PROVE owner'[r] = owner[r]
    <3>1. owner[r] # owner[s] /\ r \in Sector
      BY <1>2, RootedSectors DEF FileInv
    <3> QED
      BY <1>4, <3>1
  <2>3. ASSUME NEW u \in Thread \ {t}, NEW j \in 1 .. Len(got[u])
        PROVE  got[u][j] \in free_map'
    <3>1. got[u][j] \in free_map /\ h[got[u][j]] = <<inode[u], "got", j>>
      BY DEF Layout, ThreadOK, GotOK
    <3> QED
      BY <1>2, <1>3, <3>1, SMTT(60)
  <2> QED
    BY <2>1, <2>2, <2>3 DEF LeavesAlone
<1>9. StepOn(t, {s}, h, h)
  BY <1>3, <1>6, <1>7, <1>8 DEF StepOn
<1>10. IndexOK(s, h)'
  <2>1. \A y \in Sector : disk'[y] = disk[y] /\ (y \in free_map /\ y # s => y \in free_map')
    BY <1>3
  <2> QED
    BY <1>2, <2>1, IndexIsKept, SMTT(60)
<1>11. CallInv' /\ \E home : Layout(home)'
  <2>1. h \in Homes /\ h[0] = <<0, "none", 0>>
    BY DEF Layout, Homes
  <2> QED
    <3>f. Fits(t, {s}, h, h)
      BY <1>3, <1>5, <1>6, <1>9, <1>10, <2>1 DEF Fits
    <3> QED
      BY <3>f, Together
<1>12. FileInv'
  <2>1. \A u \in Thread : pc'[u] # "idle" => inode'[u] # s
    BY <1>6, <1>7 DEF Quiet
  <2>2. s \notin Inodes' /\ s \notin files'
    BY <1>3, <2>1 DEF Inodes
  <2>3. 0 \in free_map'
    <3>1. h[0] = <<0, "none", 0>> /\ 0 \in free_map
      BY DEF FileInv, Layout
    <3>2. <<0, "none", 0>> # <<s, "inode", 0>>
      BY SMTT(60)
    <3>3. s # 0
      BY <1>2, <3>1, <3>2
    <3> QED
      BY <1>3, <3>1, <3>3
  <2>4. ASSUME NEW y \in Sector PROVE owner'[y] <= creates'
    <3>1. owner[y] <= creates /\ creates \in Nat
      BY Types DEF FileInv
    <3>2. \A n \in Nat : 0 <= n
      BY SMTT(60)
    <3> QED
      BY <1>4, <3>1, <3>2
  <2>5. "dir" \notin Kind => dirs' = {} /\ op'[t] # "mkdir"
    BY <1>6 DEF FileInv
  <2> QED
    <3>f. FilesFit(t, {s}, h, h)
      BY <1>5, <1>9, <2>2, <2>3, <2>4, <2>5 DEF FilesFit
    <3> QED
      BY <3>f, FilesTogether
<1> QED
  BY <1>5, <1>11, <1>12 DEF IInv

\* dir_add, whether or not the name is added.
LEMMA Add ==
  ASSUME NEW h, IInvAt(h), NEW t \in Thread, dir_add(t)
  PROVE  IInv'
<1>1. pc[t] = "add" /\ Return(t) /\ UNCHANGED <<disk, written, creates, removes>>
  BY DEF dir_add, At
<1>2. CASE /\ files' = files \cup {inode[t]}
           /\ dirs' = IF op[t] = "mkdir" THEN dirs \cup {inode[t]} ELSE dirs
           /\ UNCHANGED <<free_map, owner>>
  BY <1>1, <1>2, AddDone
<1>3. CASE /\ free_map_release(inode[t])
           /\ owner' = [s \in Sector |-> IF owner[s] = id[t] THEN 0 ELSE owner[s]]
           /\ UNCHANGED <<files, dirs>>
  BY <1>1, <1>3, AddFails
<1> QED
  BY <1>2, <1>3 DEF dir_add

\* inode_write_at returns without writing.
LEMMA Denied ==
  ASSUME NEW h, IInvAt(h), NEW t \in Thread, WriteDenied(t)
  PROVE  IInv'
<1> USE DEF IInvAt
<1>1. Return(t) /\ UNCHANGED <<free_map, disk, files, dirs, owner, written, creates, removes>>
  BY DEF WriteDenied
<1>2. /\ Quiet(t) /\ pc'[t] = "idle" /\ op'[t] = "create"
      /\ CallOK(t)' /\ ThreadOK(t, h)'
  BY <1>1, Returned
<1>3. TypeOK'
  BY <1>1, ReturnType DEF TypeOK
<1>4. StepOn(t, {}, h, h)
  BY <1>1, <1>2, <1>3, Still
<1>5. CallInv' /\ \E home : Layout(home)'
  <2>1. h \in Homes /\ h[0] = <<0, "none", 0>>
    BY DEF Layout, Homes
  <2> QED
    <3>f. Fits(t, {}, h, h)
      BY <1>2, <1>3, <1>4, <2>1 DEF Fits
    <3> QED
      BY <3>f, Together
<1>6. FileInv'
  <2>f. FilesFit(t, {}, h, h)
    BY <1>1, <1>2, <1>3, <1>4 DEF FilesFit, FileInv
  <2> QED
    BY <2>f, FilesTogether
<1> QED
  BY <1>3, <1>5, <1>6 DEF IInv

\* filesys_remove of a file.
LEMMA Remove ==
  ASSUME NEW h, IInvAt(h), NEW t \in Thread, NEW s \in files, RemoveFile(t, s)
  PROVE  IInv'
<1> USE DEF IInvAt
<1>1. /\ pc[t] = "idle" /\ Unlocked(s) /\ removes < MaxRemove /\ removes' = removes + 1
      /\ files' = files \ {s} /\ s \notin dirs
      /\ UNCHANGED <<free_map, disk, dirs, pc, op, inode, offset, size, got, i, end, sec, id,
                     owner, written, creates>>
  BY DEF RemoveFile, At, locals
<1>2. TypeOK' /\ Quiet(t)
  <2>1. removes' \in 0 .. MaxRemove
    BY <1>1, InodeAssumption, SMTT(60) DEF TypeOK
  <2>2. files' \subseteq Sector /\ dirs' \subseteq files'
    BY <1>1 DEF TypeOK
  <2>3. Quiet(t)
    BY <1>1 DEF Quiet
  <2> QED
    BY <1>1, <2>1, <2>2, <2>3 DEF TypeOK
<1>3. \A u \in Thread : pc[u] # "idle" => inode[u] # s
  BY <1>1 DEF Unlocked, CallInv, CallOK
<1>4. StepOn(t, {s}, h, h)
  <2>1. files' \ {s} = files \ {s}
    BY <1>1
  <2> QED
    BY <1>1, <1>2, <1>3, <2>1, Still
<1>5. CallOK(t)' /\ ThreadOK(t, h)'
  <2>1. /\ pc'[t] = "idle" /\ got'[t] = <<>> /\ i'[t] = 0 /\ op'[t] # "close"
        /\ UNCHANGED <<pc, op, inode, offset, size, got, i, end, sec, id>>
    BY <1>1 DEF CallInv, CallOK
  <2>2. CallOK(t)'
    BY <1>1, <2>1 DEF CallInv, CallOK, Creates, Writes, Growing
  <2> QED
    BY <2>1, <2>2, NothingGot DEF ThreadOK, Creates, Writes, Growing
<1>6. s \notin Inodes' /\ s \notin files' /\ s \notin Rooted'
  <2>1. s \notin Inodes'
    BY <1>1, <1>3 DEF Inodes
  <2>2. s \in free_map'
    BY <1>1 DEF FileInv
  <2> QED
    BY <1>1, <2>1, <2>2 DEF Rooted
<1>7. CallInv' /\ \E home : Layout(home)'
  <2>1. h \in Homes /\ h[0] = <<0, "none", 0>>
    BY DEF Layout, Homes
  <2>2. pc'[t] = "idle"
    BY <1>1
  <2> QED
    <3>f. Fits(t, {s}, h, h)
      BY <1>2, <1>4, <1>5, <1>6, <2>1, <2>2 DEF Fits
    <3> QED
      BY <3>f, Together
<1>8. FileInv'
  <2>1. "dir" \notin Kind => dirs' = {} /\ op'[t] # "mkdir"
    BY <1>1 DEF FileInv
  <2>2. 0 \in free_map' /\ \A y \in Sector : owner'[y] <= creates'
    BY <1>1 DEF FileInv
  <2> QED
    <3>f. FilesFit(t, {s}, h, h)
      BY <1>2, <1>4, <1>6, <2>1, <2>2 DEF FilesFit
    <3> QED
      BY <3>f, FilesTogether
<1> QED
  BY <1>2, <1>7, <1>8 DEF IInv

=============================================================================
