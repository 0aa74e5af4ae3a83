-------------------------- MODULE BufferCacheProofs --------------------------
(***************************************************************************)
(* Theorems about BufferCache, for every number of threads, of sectors and *)
(* of entries: no sector is cached twice, no entry is freed while a thread *)
(* uses it, an entry to evict always exists, a flush is complete, and the  *)
(* cache implements SectorStore.  They rest on one inductive invariant,    *)
(* which every action keeps.                                               *)
(***************************************************************************)
EXTENDS BufferCache, FiniteSetTheorems, TLAPS

\* Leaves are for Zenon; the ones for an SMT solver say so.
USE ZenonT(60)

(* The inductive invariant                                                  *)

\* Where a thread has buffer_cache_lock.
Holding ==
  {"entry", "nb_try", "fill", "evict", "install", "flushing", "relock_failed"}

\* Where a thread has no call to serve, or has served it.
Free == {"idle", "up", "broadcast", "flush", "flushing"}

LockInv ==
  \A t \in Thread : pc[t] \in Holding <=> buffer_cache_lock = t

RequestInv ==
  \A t \in Thread : IF pc[t] \in Free THEN request[t] = NULL
                    ELSE request[t] \in Request

\* The entry that a thread has found.
FoundInv ==
  \A t \in Thread : pc[t] \in {"entry", "try", "copy"} =>
    /\ offset[t] \in Slot
    /\ buffer_cache[offset[t]] # NULL
    /\ buffer_cache[offset[t]].buffered_sector = request[t].sector
    /\ pc[t] # "entry" => buffer_cache[offset[t]].sector_lock = t

\* Only a thread that has found an entry has locked it.
OwnerInv ==
  \A i \in Slot : buffer_cache[i] # NULL =>
    LET t == buffer_cache[i].sector_lock IN
    t # NULL => /\ pc[t] \in {"try", "copy", "presence_failed"}
                /\ offset[t] = i

\* The sector that a thread loads is in no entry, and what the thread has read
\* of it is still what the disk holds.
LoadInv ==
  \A t \in Thread :
    /\ pc[t] \in {"nb_try", "fill", "evict", "install"} =>
         \A i \in Slot : buffer_cache[i] # NULL =>
           buffer_cache[i].buffered_sector # request[t].sector
    /\ pc[t] \in {"evict", "install"} => cur[t] = disk[request[t].sector]
    /\ pc[t] = "install" => offset[t] \in Slot /\ buffer_cache[offset[t]] = NULL

OnceInv ==
  \A i, j \in Slot :
    /\ buffer_cache[i] # NULL
    /\ buffer_cache[j] # NULL
    /\ buffer_cache[i].buffered_sector = buffer_cache[j].buffered_sector
    => i = j

\* A clean entry holds what the disk holds.
CleanInv ==
  \A i \in Slot : buffer_cache[i] # NULL =>
    buffer_cache[i].dirty_bit = 1
      \/ buffer_cache[i].buffer = disk[buffer_cache[i].buffered_sector]

FlushInv ==
  \A t \in Thread : pc[t] = "flushing" =>
    \A i \in Slot : i < offset[t] => buffer_cache[i] = NULL

\* active_sema counts the threads that are not active.
SemaInv == IsFiniteSet(Active) /\ Cardinality(Active) + active_sema = Slots

IInv == TypeOK /\ LockInv /\ RequestInv /\ FoundInv /\ OwnerInv /\ LoadInv
          /\ OnceInv /\ CleanInv /\ FlushInv /\ SemaInv

-----------------------------------------------------------------------------
(* Every action keeps the invariant                                         *)

\* A step that changes the entry of slot k, and not its sector.
LEMMA TouchSlot ==
  ASSUME TypeOK, NEW k \in Slot, buffer_cache[k] # NULL, NEW e \in Entry,
         e.buffered_sector = buffer_cache[k].buffered_sector,
         buffer_cache' = [buffer_cache EXCEPT ![k] = e]
  PROVE  /\ buffer_cache' \in [Slot -> Entry \cup {NULL}]
         /\ buffer_cache'[k] = e
         /\ \A i \in Slot : i # k => buffer_cache'[i] = buffer_cache[i]
         /\ \A i \in Slot : /\ buffer_cache'[i] = NULL <=> buffer_cache[i] = NULL
                            /\ buffer_cache[i] # NULL =>
                                 buffer_cache'[i].buffered_sector = buffer_cache[i].buffered_sector
<1> USE BufferCacheAssumption DEF TypeOK
<1>1. buffer_cache' \in [Slot -> Entry \cup {NULL}]
  OBVIOUS
<1>2. buffer_cache'[k] = e /\ \A i \in Slot : i # k => buffer_cache'[i] = buffer_cache[i]
  OBVIOUS
<1> QED
  BY <1>1, <1>2

\* Changing an entry and not its sector leaves every sector cached once.
LEMMA TouchOnce ==
  ASSUME OnceInv,
         \A i \in Slot : /\ buffer_cache'[i] = NULL <=> buffer_cache[i] = NULL
                         /\ buffer_cache[i] # NULL =>
                              buffer_cache'[i].buffered_sector = buffer_cache[i].buffered_sector
  PROVE  OnceInv'
BY DEF OnceInv

\* A step that frees the entry of slot k.
LEMMA FreeSlot ==
  ASSUME TypeOK, NEW k \in Slot, buffer_cache' = [buffer_cache EXCEPT ![k] = NULL]
  PROVE  /\ buffer_cache' \in [Slot -> Entry \cup {NULL}]
         /\ buffer_cache'[k] = NULL
         /\ \A i \in Slot : i # k => buffer_cache'[i] = buffer_cache[i]
         /\ OnceInv => OnceInv'
BY DEF TypeOK, OnceInv

\* sema_try_down of active_sema makes a thread active.
LEMMA OneMore ==
  ASSUME SemaInv, TypeOK, NEW t \in Thread, t \notin Active,
         Active' = Active \cup {t}, active_sema' = active_sema - 1
  PROVE  SemaInv'
<1>1. IsFiniteSet(Active') /\ Cardinality(Active') = Cardinality(Active) + 1
  BY FS_AddElement DEF SemaInv
<1>2. Cardinality(Active) \in Nat
  BY FS_CardinalityType DEF SemaInv
<1> QED
  BY <1>1, <1>2, BufferCacheAssumption, SMTT(60) DEF SemaInv, TypeOK

\* sema_up ends it.
LEMMA OneLess ==
  ASSUME SemaInv, TypeOK, NEW t \in Thread, t \in Active,
         Active' = Active \ {t}, active_sema' = active_sema + 1
  PROVE  SemaInv'
<1>1. IsFiniteSet(Active') /\ Cardinality(Active') = Cardinality(Active) - 1
  BY FS_RemoveElement DEF SemaInv
<1>2. Cardinality(Active) \in Nat
  BY FS_CardinalityType DEF SemaInv
<1> QED
  BY <1>1, <1>2, BufferCacheAssumption, SMTT(60) DEF SemaInv, TypeOK

\* A thread gives up the entry that it has found and locked, and may have
\* written to it.
LEMMA LeaveEntry ==
  ASSUME IInv, NEW t \in Thread, pc[t] \in {"try", "copy"}, NEW n \in Entry,
         buffer_cache' = [buffer_cache EXCEPT ![offset[t]] = n],
         n.sector_lock = NULL, n.buffered_sector = request[t].sector,
         \/ n.dirty_bit = 1
         \/ /\ n.dirty_bit = buffer_cache[offset[t]].dirty_bit
            /\ n.buffer = buffer_cache[offset[t]].buffer,
         NEW p \in {"wait", "up"}, pc' = [pc EXCEPT ![t] = p],
         IF p = "up" THEN request'[t] = NULL ELSE request'[t] \in Request,
         \A u \in Thread : u # t => /\ request'[u] = request[u]
                                    /\ offset'[u] = offset[u]
                                    /\ cur'[u] = cur[u],
         UNCHANGED <<disk, buffer_cache_lock>>
  PROVE  /\ buffer_cache' \in [Slot -> Entry \cup {NULL}]
         /\ LockInv' /\ RequestInv' /\ FoundInv' /\ OwnerInv' /\ LoadInv'
         /\ OnceInv' /\ CleanInv' /\ FlushInv'
<1> USE BufferCacheAssumption DEF IInv
<1> DEFINE k == offset[t]
<1>1. /\ k \in Slot /\ buffer_cache[k] # NULL
      /\ buffer_cache[k].buffered_sector = request[t].sector
      /\ buffer_cache[k].sector_lock = t
  BY DEF FoundInv
<1>2. /\ buffer_cache' \in [Slot -> Entry \cup {NULL}]
      /\ buffer_cache'[k] = n
      /\ \A i \in Slot : i # k => buffer_cache'[i] = buffer_cache[i]
      /\ \A i \in Slot : /\ buffer_cache'[i] = NULL <=> buffer_cache[i] = NULL
                         /\ buffer_cache[i] # NULL =>
                              buffer_cache'[i].buffered_sector = buffer_cache[i].buffered_sector
  <2>1. buffer_cache' = [buffer_cache EXCEPT ![k] = n]
    OBVIOUS
  <2>2. TypeOK /\ n.buffered_sector = buffer_cache[k].buffered_sector
    BY <1>1
  <2> HIDE DEF k, IInv
  <2> QED
    BY <1>1, <2>1, <2>2, TouchSlot
<1>3. /\ pc'[t] = p /\ pc \in [Thread -> Pc]
      /\ \A u \in Thread : u # t => pc'[u] = pc[u]
  BY DEF TypeOK
<1> HIDE DEF k
<1>4. LockInv' /\ RequestInv'
  BY <1>3 DEF LockInv, Holding, RequestInv, Free
<1>5. FoundInv'
  <2> SUFFICES ASSUME NEW u \in Thread, pc'[u] \in {"entry", "try", "copy"}
               PROVE  /\ offset'[u] \in Slot
                      /\ buffer_cache'[offset'[u]] # NULL
                      /\ buffer_cache'[offset'[u]].buffered_sector = request'[u].sector
                      /\ pc'[u] # "entry" => buffer_cache'[offset'[u]].sector_lock = u
    BY DEF FoundInv
  <2>1. u # t /\ pc'[u] = pc[u] /\ offset'[u] = offset[u] /\ request'[u] = request[u]
    BY <1>3
  <2>2. /\ offset[u] \in Slot
        /\ buffer_cache[offset[u]] # NULL
        /\ buffer_cache[offset[u]].buffered_sector = request[u].sector
        /\ pc[u] # "entry" => buffer_cache[offset[u]].sector_lock = u
    BY <2>1 DEF FoundInv
  <2>3. CASE offset[u] = k
    BY <2>1, <2>2, <2>3, <1>1, <1>2
  <2>4. CASE offset[u] # k
    BY <2>1, <2>2, <2>4, <1>2
  <2> QED
    BY <2>3, <2>4
<1>6. OwnerInv'
  <2> SUFFICES ASSUME NEW i \in Slot, buffer_cache'[i] # NULL,
                      buffer_cache'[i].sector_lock # NULL
               PROVE  LET u == buffer_cache'[i].sector_lock IN
                      /\ pc'[u] \in {"try", "copy", "presence_failed"}
                      /\ offset'[u] = i
    BY DEF OwnerInv
  <2>1. i # k /\ buffer_cache'[i] = buffer_cache[i]
    BY <1>2
  <2>2. /\ buffer_cache[i].sector_lock \in Thread
        /\ pc[buffer_cache[i].sector_lock] \in {"try", "copy", "presence_failed"}
        /\ offset[buffer_cache[i].sector_lock] = i
    BY <2>1, <1>2, SMTT(60) DEF OwnerInv, Entry
  <2>3. buffer_cache[i].sector_lock # t
    BY <2>1, <2>2 DEF k
  <2> QED
    BY <2>1, <2>2, <2>3, <1>3, SMTT(60)
<1>7. LoadInv'
  <2> SUFFICES ASSUME NEW u \in Thread, pc'[u] \in {"nb_try", "fill", "evict", "install"}
               PROVE  /\ \A i \in Slot : buffer_cache'[i] # NULL =>
                           buffer_cache'[i].buffered_sector # request'[u].sector
                      /\ pc'[u] \in {"evict", "install"} => cur'[u] = disk[request'[u].sector]
                      /\ pc'[u] = "install" => offset'[u] \in Slot /\ buffer_cache'[offset'[u]] = NULL
    BY DEF LoadInv
  <2>1. /\ pc'[u] = pc[u] /\ offset'[u] = offset[u] /\ request'[u] = request[u]
        /\ cur'[u] = cur[u]
    BY <1>3
  <2> QED
    BY <2>1, <1>2, SMTT(60) DEF LoadInv
<1>8. OnceInv'
  BY <1>2, TouchOnce
<1>9. CleanInv'
  BY <1>1, <1>2, SMTT(60) DEF CleanInv, k
<1>10. FlushInv'
  BY <1>2, <1>3 DEF FlushInv
<1> QED
  BY <1>2, <1>4, <1>5, <1>6, <1>7, <1>8, <1>9, <1>10

\* buffer_evict by the owner of buffer_cache_lock, on an entry that is not
\* locked: no thread has found the entry, what it held is on the disk, and
\* nothing else there changes.
LEMMA EvictEntry ==
  ASSUME IInv, NEW t \in Thread, pc[t] \in {"evict", "flushing"},
         NEW k \in Slot, buffer_cache[k] # NULL,
         buffer_cache[k].sector_lock = NULL, buffer_evict(k)
  PROVE  /\ buffer_cache' \in [Slot -> Entry \cup {NULL}]
         /\ disk' \in [Sector -> Data]
         /\ buffer_cache'[k] = NULL
         /\ \A i \in Slot : i # k => buffer_cache'[i] = buffer_cache[i]
         /\ \A s \in Sector : s # buffer_cache[k].buffered_sector => disk'[s] = disk[s]
         /\ disk'[buffer_cache[k].buffered_sector] = buffer_cache[k].buffer
         /\ \A u \in Thread : pc[u] \in {"entry", "try", "copy"} => offset[u] # k
         /\ OnceInv' /\ CleanInv'
<1> USE BufferCacheAssumption DEF IInv
<1>1. /\ buffer_cache[k].buffered_sector \in Sector
      /\ buffer_cache[k].buffer \in Data
      /\ buffer_cache[k].dirty_bit \in {0, 1}
  BY DEF TypeOK, Entry
<1>2. /\ buffer_cache' \in [Slot -> Entry \cup {NULL}]
      /\ buffer_cache'[k] = NULL
      /\ \A i \in Slot : i # k => buffer_cache'[i] = buffer_cache[i]
      /\ OnceInv'
  BY FreeSlot DEF buffer_evict
<1>3. /\ disk' \in [Sector -> Data]
      /\ \A s \in Sector : s # buffer_cache[k].buffered_sector => disk'[s] = disk[s]
      /\ disk'[buffer_cache[k].buffered_sector] = buffer_cache[k].buffer
  BY <1>1 DEF buffer_evict, TypeOK, CleanInv
<1>4. \A u \in Thread : pc[u] \in {"entry", "try", "copy"} => offset[u] # k
  BY SMTT(60) DEF FoundInv, LockInv, Holding
<1>5. CleanInv'
  <2> SUFFICES ASSUME NEW i \in Slot, buffer_cache'[i] # NULL
               PROVE  \/ buffer_cache'[i].dirty_bit = 1
                      \/ buffer_cache'[i].buffer = disk'[buffer_cache'[i].buffered_sector]
    BY DEF CleanInv
  <2>1. i # k /\ buffer_cache'[i] = buffer_cache[i]
    BY <1>2
  <2>2. /\ buffer_cache[i].buffered_sector \in Sector
        /\ buffer_cache[i].buffered_sector # buffer_cache[k].buffered_sector
    BY <2>1 DEF OnceInv, TypeOK, Entry
  <2> QED
    BY <2>1, <2>2, <1>3 DEF CleanInv
<1> QED
  BY <1>2, <1>3, <1>4, <1>5

\* A call of read_buffered or write_buffered by an idle thread.
LEMMA CallKeeps ==
  ASSUME IInv, NEW t \in Thread, Call(t)
  PROVE  IInv'
<1> USE BufferCacheAssumption DEF IInv, TypeOK, Call, At, Goto
<1>1. LockInv'
  BY DEF LockInv, Holding
<1>2. RequestInv'
  BY DEF RequestInv, Free
<1>3. FoundInv'
  BY DEF FoundInv
<1>4. OwnerInv'
  BY SMTT(60) DEF OwnerInv, Entry, Slot
<1>5. LoadInv'
  BY SMTT(60) DEF LoadInv
<1>6. OnceInv' /\ CleanInv'
  BY DEF OnceInv, CleanInv
<1>7. FlushInv'
  BY DEF FlushInv
<1>8. SemaInv'
  <2>1. Active' = Active
    BY DEF Active
  <2> QED
    BY <2>1 DEF SemaInv
<1>9. TypeOK'
  BY SMTT(60) DEF Pc
<1> QED
  BY <1>1, <1>2, <1>3, <1>4, <1>5, <1>6, <1>7, <1>8, <1>9

\* The search of acquire_buffer_entry_lock: what it finds is in the cache.
LEMMA acquire_buffer_entry_lockKeeps ==
  ASSUME IInv, NEW t \in Thread, acquire_buffer_entry_lock(t)
  PROVE  IInv'
<1> USE BufferCacheAssumption DEF IInv, TypeOK, acquire_buffer_entry_lock, At, Goto, Acquire, Cached
<1>1. LockInv'
  BY SMTT(60) DEF LockInv, Holding
<1>2. RequestInv'
  BY SMTT(60) DEF RequestInv, Free
<1>3. FoundInv'
  BY SMTT(60) DEF FoundInv
<1>4. OwnerInv'
  <2>1. /\ pc[t] = "acquire" /\ UNCHANGED buffer_cache
        /\ \A u \in Thread : u # t => pc'[u] = pc[u] /\ offset'[u] = offset[u]
    OBVIOUS
  <2> QED
    BY <2>1, SMTT(60) DEF OwnerInv, Entry
<1>5. LoadInv'
  BY SMTT(60) DEF LoadInv
<1>6. OnceInv' /\ CleanInv'
  BY DEF OnceInv, CleanInv
<1>7. FlushInv'
  BY DEF FlushInv
<1>8. SemaInv'
  <2>1. Active' = Active
    BY DEF Active
  <2> QED
    BY <2>1 DEF SemaInv
<1>9. TypeOK'
  <2>1. pc' \in [Thread -> Pc] /\ buffer_cache_lock' \in Thread \cup {NULL}
    BY DEF Pc
  <2>2. offset' \in [Thread -> 0 .. Slots]
    <3>1. offset' = offset \/ \E i \in Slot : offset' = [offset EXCEPT ![t] = i]
      OBVIOUS
    <3>2. \A i \in Slot : i \in 0 .. Slots
      BY SMTT(60) DEF Slot
    <3> QED
      BY <3>1, <3>2
  <2> QED
    BY <2>1, <2>2
<1> QED
  BY <1>1, <1>2, <1>3, <1>4, <1>5, <1>6, <1>7, <1>8, <1>9

\* The lock of the entry: it was free, so no other thread uses the entry.
LEMMA LockEntryKeeps ==
  ASSUME IInv, NEW t \in Thread, LockEntry(t)
  PROVE  IInv'
<1> DEFINE k == offset[t]
           e == buffer_cache[k]
           n == [e EXCEPT !.sector_lock = t, !.use_bit = 1]
<1> USE BufferCacheAssumption
<1>1. /\ k \in Slot /\ e \in Entry /\ e # NULL /\ e.sector_lock = NULL
      /\ e.buffered_sector = request[t].sector
  BY DEF IInv, TypeOK, FoundInv, LockEntry, At
<1>2. buffer_cache' = [buffer_cache EXCEPT ![k] = n]
  BY <1>1 DEF IInv, TypeOK, LockEntry
<1>3. /\ n \in Entry /\ n.sector_lock = t
      /\ n.buffered_sector = e.buffered_sector /\ n.buffer = e.buffer
      /\ n.dirty_bit = e.dirty_bit
  BY <1>1 DEF Entry
<1>4. /\ buffer_cache' \in [Slot -> Entry \cup {NULL}]
      /\ buffer_cache'[k] = n
      /\ \A i \in Slot : i # k => buffer_cache'[i] = buffer_cache[i]
      /\ \A i \in Slot : /\ buffer_cache'[i] = NULL <=> buffer_cache[i] = NULL
                         /\ buffer_cache[i] # NULL =>
                              buffer_cache'[i].buffered_sector = buffer_cache[i].buffered_sector
  <2> HIDE DEF e, n, k
  <2> QED
    BY <1>1, <1>2, <1>3, TouchSlot DEF IInv, e
<1>5. /\ pc[t] = "entry" /\ pc \in [Thread -> Pc]
      /\ \E p \in {"try", "presence_failed"} : pc' = [pc EXCEPT ![t] = p]
      /\ buffer_cache_lock' = NULL
      /\ UNCHANGED <<disk, clock_hand, active_sema, request, offset, cur, again, buffer>>
  BY DEF IInv, TypeOK, LockEntry, At, Goto, Release
<1> HIDE DEF n, e, k
<1> USE DEF IInv
<1>6. LockInv'
  BY <1>5 DEF LockInv, Holding
<1>7. RequestInv'
  BY <1>5 DEF RequestInv, Free
<1>8. FoundInv'
  <2> SUFFICES ASSUME NEW u \in Thread, pc'[u] \in {"entry", "try", "copy"}
               PROVE  /\ offset[u] \in Slot
                      /\ buffer_cache'[offset[u]] # NULL
                      /\ buffer_cache'[offset[u]].buffered_sector = request[u].sector
                      /\ pc'[u] # "entry" => buffer_cache'[offset[u]].sector_lock = u
    BY <1>5 DEF FoundInv
  <2>1. CASE u = t
    BY <2>1, <1>1, <1>3, <1>4, <1>5 DEF k, e
  <2>2. CASE u # t
    <3>1. pc'[u] = pc[u] /\ pc[u] # "entry"
      BY <2>2, <1>5 DEF LockInv, Holding
    <3>2. /\ offset[u] \in Slot
          /\ buffer_cache[offset[u]] # NULL
          /\ buffer_cache[offset[u]].buffered_sector = request[u].sector
          /\ buffer_cache[offset[u]].sector_lock = u
      BY <3>1 DEF FoundInv
    <3>3. offset[u] # k
      BY <3>2, <1>1 DEF e
    <3> QED
      BY <3>1, <3>2, <3>3, <1>4
  <2> QED
    BY <2>1, <2>2
<1>9. OwnerInv'
  <2> SUFFICES ASSUME NEW i \in Slot, buffer_cache'[i] # NULL,
                      buffer_cache'[i].sector_lock # NULL
               PROVE  LET u == buffer_cache'[i].sector_lock IN
                      /\ pc'[u] \in {"try", "copy", "presence_failed"}
                      /\ offset[u] = i
    BY <1>5 DEF OwnerInv
  <2>1. CASE i = k
    BY <2>1, <1>3, <1>4, <1>5, SMTT(60) DEF k
  <2>2. CASE i # k
    <3>1. buffer_cache'[i] = buffer_cache[i]
      BY <2>2, <1>4
    <3> QED
      BY <3>1, <1>4, <1>5, SMTT(60) DEF OwnerInv, Entry
  <2> QED
    BY <2>1, <2>2
<1>10. LoadInv'
  BY <1>4, <1>5, SMTT(60) DEF LoadInv
<1>11. OnceInv'
  BY <1>4, TouchOnce
<1>12. CleanInv'
  BY <1>3, <1>4, <1>5, SMTT(60) DEF CleanInv, e
<1>13. FlushInv'
  BY <1>4, <1>5 DEF FlushInv
<1>14. SemaInv'
  <2>1. Active' = Active
    BY <1>5 DEF Active
  <2> QED
    BY <2>1, <1>5 DEF SemaInv
<1>15. TypeOK'
  BY <1>4, <1>5, SMTT(60) DEF TypeOK, Pc
<1> QED
  BY <1>6, <1>7, <1>8, <1>9, <1>10, <1>11, <1>12, <1>13, <1>14, <1>15

\* sema_try_down makes the thread active, or it gives the entry up.
LEMMA TryDownKeeps ==
  ASSUME IInv, NEW t \in Thread, TryDown(t)
  PROVE  IInv'
<1> USE BufferCacheAssumption
<1>1. CASE active_sema > 0
  <2> USE <1>1 DEF IInv, TypeOK, TryDown, At, Goto
  <2>1. LockInv' /\ RequestInv'
    BY SMTT(60) DEF LockInv, Holding, RequestInv, Free
  <2>2. FoundInv'
    BY SMTT(60) DEF FoundInv
  <2>3. OwnerInv'
    BY SMTT(60) DEF OwnerInv, Entry
  <2>4. LoadInv'
    BY SMTT(60) DEF LoadInv
  <2>5. OnceInv' /\ CleanInv'
    BY SMTT(60) DEF OnceInv, CleanInv
  <2>6. FlushInv'
    BY SMTT(60) DEF FlushInv
  <2>7. SemaInv'
    <3>1. t \notin Active /\ Active' = Active \cup {t} /\ active_sema' = active_sema - 1
      BY SMTT(60) DEF Active
    <3> QED
      BY <3>1, OneMore
  <2>8. TypeOK'
    <3>1. active_sema' \in 0 .. Slots
      BY SMTT(60)
    <3> QED
      BY <3>1, SMTT(60) DEF Pc
  <2> QED
    BY <2>1, <2>2, <2>3, <2>4, <2>5, <2>6, <2>7, <2>8
<1>2. CASE active_sema = 0
  <2> DEFINE e == buffer_cache[offset[t]]
             n == [e EXCEPT !.sector_lock = NULL]
  <2>1. /\ pc[t] = "try" /\ offset[t] \in Slot /\ e \in Entry
        /\ e.buffered_sector = request[t].sector /\ request[t] \in Request
    BY DEF IInv, TypeOK, FoundInv, RequestInv, Free, TryDown, At
  <2>2. /\ n \in Entry /\ n.sector_lock = NULL
        /\ n.buffered_sector = e.buffered_sector /\ n.buffer = e.buffer
        /\ n.dirty_bit = e.dirty_bit
    BY <2>1 DEF Entry
  <2>3. buffer_cache' = [buffer_cache EXCEPT ![offset[t]] = n]
    BY <1>2, <2>1, SMTT(60) DEF IInv, TypeOK, TryDown
  <2>4. /\ pc' = [pc EXCEPT ![t] = "wait"]
        /\ UNCHANGED <<disk, clock_hand, buffer_cache_lock, active_sema, request,
                       offset, cur, again, buffer>>
    BY <1>2, SMTT(60) DEF TryDown, Goto
  <2>5. /\ buffer_cache' \in [Slot -> Entry \cup {NULL}]
        /\ LockInv' /\ RequestInv' /\ FoundInv' /\ OwnerInv' /\ LoadInv'
        /\ OnceInv' /\ CleanInv' /\ FlushInv'
    <3> HIDE DEF n
    <3> QED
      BY <2>1, <2>2, <2>3, <2>4, LeaveEntry
  <2>6. SemaInv'
    <3>1. Active' = Active
      BY <2>1, <2>4 DEF IInv, TypeOK, Active
    <3> QED
      BY <3>1, <2>4 DEF IInv, SemaInv
  <2>7. TypeOK'
    BY <2>4, <2>5 DEF IInv, TypeOK, Pc
  <2> QED
    BY <2>5, <2>6, <2>7 DEF IInv
<1> QED
  BY <1>1, <1>2 DEF TryDown

\* A copy to or from a cached entry leaves it dirty or as it was.
LEMMA CopyKeeps ==
  ASSUME IInv, NEW t \in Thread, Copy(t)
  PROVE  IInv'
<1> USE BufferCacheAssumption
<1> DEFINE e == buffer_cache[offset[t]]
           r == request[t]
           n == IF r.op = "read" THEN [e EXCEPT !.sector_lock = NULL]
                ELSE [e EXCEPT !.buffer = bounded_write(@, r), !.dirty_bit = 1, !.sector_lock = NULL]
<1>1. /\ pc[t] = "copy" /\ offset[t] \in Slot /\ e \in Entry
      /\ e.buffered_sector = r.sector /\ r \in Request
  BY DEF IInv, TypeOK, FoundInv, RequestInv, Free, Copy, At
<1>2. /\ r.op \in {"read", "write"} /\ r.part \in Part
      /\ r.op = "write" => bounded_write(e.buffer, r) \in Data
  BY <1>1 DEF Request, Entry, Data, bounded_write
<1>3. /\ n \in Entry /\ n.sector_lock = NULL
      /\ n.buffered_sector = e.buffered_sector
      /\ n.dirty_bit = 1 \/ (n.dirty_bit = e.dirty_bit /\ n.buffer = e.buffer)
  <2>1. CASE r.op = "read"
    BY <1>1, <2>1 DEF Entry
  <2>2. CASE r.op = "write"
    BY <1>1, <1>2, <2>2 DEF Entry
  <2> QED
    BY <1>2, <2>1, <2>2
<1>4. buffer_cache' = [buffer_cache EXCEPT ![offset[t]] = n]
  BY <1>1, <1>2 DEF IInv, TypeOK, Copy
<1>5. buffer' \in [Thread -> Value]
  BY <1>1, <1>2, SMTT(60) DEF IInv, TypeOK, Copy, Entry, Data
<1>6. /\ pc' = [pc EXCEPT ![t] = "up"]
      /\ request' = [request EXCEPT ![t] = NULL]
      /\ offset' = [offset EXCEPT ![t] = 0]
      /\ cur' = [cur EXCEPT ![t] = NULL]
      /\ again' = [again EXCEPT ![t] = FALSE]
      /\ UNCHANGED <<disk, clock_hand, buffer_cache_lock, active_sema>>
  BY DEF Copy, Goto, Served
<1>7. /\ request'[t] = NULL
      /\ \A u \in Thread : u # t => /\ request'[u] = request[u]
                                    /\ offset'[u] = offset[u]
                                    /\ cur'[u] = cur[u]
  BY <1>6 DEF IInv, TypeOK
<1>8. /\ buffer_cache' \in [Slot -> Entry \cup {NULL}]
      /\ LockInv' /\ RequestInv' /\ FoundInv' /\ OwnerInv' /\ LoadInv'
      /\ OnceInv' /\ CleanInv' /\ FlushInv'
  <2> HIDE DEF n
  <2> QED
    BY <1>1, <1>3, <1>4, <1>6, <1>7, LeaveEntry
<1>9. SemaInv'
  <2>1. Active' = Active
    BY <1>1, <1>6 DEF IInv, TypeOK, Active
  <2> QED
    BY <2>1, <1>6 DEF IInv, SemaInv
<1>10. TypeOK'
  BY <1>5, <1>6, <1>8, SMTT(60) DEF IInv, TypeOK, Pc
<1> QED
  BY <1>8, <1>9, <1>10 DEF IInv

\* sema_up: the thread is no longer active.
LEMMA SemaUpKeeps ==
  ASSUME IInv, NEW t \in Thread, SemaUp(t)
  PROVE  IInv'
<1> USE BufferCacheAssumption DEF IInv, TypeOK, SemaUp, At, Goto
<1>1. LockInv'
  BY DEF LockInv, Holding
<1>2. RequestInv'
  BY DEF RequestInv, Free
<1>3. FoundInv'
  BY DEF FoundInv
<1>4. OwnerInv'
  <2>1. pc[t] = "up" /\ \A u \in Thread : u # t => pc'[u] = pc[u]
    OBVIOUS
  <2> QED
    BY <2>1, SMTT(60) DEF OwnerInv, Entry
<1>5. LoadInv'
  BY DEF LoadInv
<1>6. OnceInv' /\ CleanInv'
  BY DEF OnceInv, CleanInv
<1>7. FlushInv'
  BY DEF FlushInv
<1>8. SemaInv'
  <2>1. t \in Active /\ Active' = Active \ {t}
    BY DEF Active
  <2> QED
    BY <2>1, OneLess
<1>9. TypeOK'
  <2>1. active_sema' \in 0 .. Slots
    <3>1. IsFiniteSet(Active') /\ Cardinality(Active') + active_sema' = Slots
      BY <1>8 DEF SemaInv
    <3>2. Cardinality(Active') \in Nat
      BY <3>1, FS_CardinalityType
    <3> QED
      BY <3>1, <3>2, SMTT(60)
  <2> QED
    BY <2>1 DEF Pc
<1> QED
  BY <1>1, <1>2, <1>3, <1>4, <1>5, <1>6, <1>7, <1>8, <1>9

\* cond_broadcast moves the sleepers, which hold nothing.
LEMMA BroadcastKeeps ==
  ASSUME IInv, NEW t \in Thread, Broadcast(t)
  PROVE  IInv'
<1> USE BufferCacheAssumption DEF IInv, TypeOK, Broadcast, At
<1>1. LockInv'
  BY DEF LockInv, Holding
<1>2. RequestInv'
  BY DEF RequestInv, Free
<1>3. FoundInv'
  BY DEF FoundInv
<1>4. OwnerInv'
  BY SMTT(60) DEF OwnerInv, Entry, Slot
<1>5. LoadInv'
  BY DEF LoadInv
<1>6. OnceInv' /\ CleanInv'
  BY DEF OnceInv, CleanInv
<1>7. FlushInv'
  BY DEF FlushInv
<1>8. SemaInv'
  <2>1. Active' = Active
    BY DEF Active
  <2> QED
    BY <2>1 DEF SemaInv
<1>9. TypeOK'
  BY DEF Pc
<1> QED
  BY <1>1, <1>2, <1>3, <1>4, <1>5, <1>6, <1>7, <1>8, <1>9

\* cond_wait: the thread has given up what it held before.
LEMMA CondWaitKeeps ==
  ASSUME IInv, NEW t \in Thread, CondWait(t)
  PROVE  IInv'
<1> USE BufferCacheAssumption DEF IInv, TypeOK, CondWait, At, Goto
<1>1. LockInv'
  BY SMTT(60) DEF LockInv, Holding
<1>2. RequestInv'
  BY DEF RequestInv, Free
<1>3. FoundInv'
  BY SMTT(60) DEF FoundInv
<1>4. OwnerInv'
  <2>1. /\ pc[t] \in {"wait", "nb_wait"} /\ UNCHANGED <<buffer_cache, offset>>
        /\ \A u \in Thread : u # t => pc'[u] = pc[u]
    OBVIOUS
  <2> QED
    BY <2>1, SMTT(60) DEF OwnerInv, Entry
<1>5. LoadInv'
  BY SMTT(60) DEF LoadInv
<1>6. OnceInv' /\ CleanInv'
  BY DEF OnceInv, CleanInv
<1>7. FlushInv'
  BY DEF FlushInv
<1>8. SemaInv'
  <2>1. Active' = Active
    BY DEF Active
  <2> QED
    BY <2>1 DEF SemaInv
<1>9. TypeOK'
  BY DEF Pc
<1> QED
  BY <1>1, <1>2, <1>3, <1>4, <1>5, <1>6, <1>7, <1>8, <1>9

\* check_sector_cached under buffer_cache_lock: the sector is in no entry.
LEMMA NotBufferedKeeps ==
  ASSUME IInv, NEW t \in Thread, NotBuffered(t)
  PROVE  IInv'
<1> USE BufferCacheAssumption DEF IInv, TypeOK, NotBuffered, At, Goto, Acquire, Cached
<1>1. LockInv'
  BY SMTT(60) DEF LockInv, Holding
<1>2. RequestInv'
  BY SMTT(60) DEF RequestInv, Free
<1>3. FoundInv'
  BY SMTT(60) DEF FoundInv
<1>4. OwnerInv'
  <2>1. /\ pc[t] \in {"not_buffered", "nb_again"}
        /\ \A u \in Thread : u # t => pc'[u] = pc[u]
        /\ UNCHANGED <<buffer_cache, offset>>
    OBVIOUS
  <2> QED
    BY <2>1, SMTT(60) DEF OwnerInv, Entry
<1>5. LoadInv'
  BY SMTT(60) DEF LoadInv
<1>6. OnceInv' /\ CleanInv'
  BY DEF OnceInv, CleanInv
<1>7. FlushInv'
  BY DEF FlushInv
<1>8. SemaInv'
  <2>1. Active' = Active
    BY DEF Active
  <2> QED
    BY <2>1 DEF SemaInv
<1>9. TypeOK'
  BY DEF Pc
<1> QED
  BY <1>1, <1>2, <1>3, <1>4, <1>5, <1>6, <1>7, <1>8, <1>9

\* sema_try_down before a load makes the thread active, or it waits.
LEMMA NbTryDownKeeps ==
  ASSUME IInv, NEW t \in Thread, NbTryDown(t)
  PROVE  IInv'
<1> USE BufferCacheAssumption DEF IInv, TypeOK, NbTryDown, At, Goto, Release
<1>1. LockInv'
  BY SMTT(60) DEF LockInv, Holding
<1>2. RequestInv'
  BY DEF RequestInv, Free
<1>3. FoundInv'
  BY DEF FoundInv
<1>4. OwnerInv'
  <2>1. /\ pc[t] = "nb_try" /\ UNCHANGED <<buffer_cache, offset>>
        /\ \A u \in Thread : u # t => pc'[u] = pc[u]
    OBVIOUS
  <2> QED
    BY <2>1, SMTT(60) DEF OwnerInv, Entry
<1>5. LoadInv'
  BY SMTT(60) DEF LoadInv
<1>6. OnceInv' /\ CleanInv'
  BY DEF OnceInv, CleanInv
<1>7. FlushInv'
  BY DEF FlushInv
<1>8. SemaInv'
  <2>1. CASE active_sema > 0
    <3>1. t \notin Active /\ Active' = Active \cup {t} /\ active_sema' = active_sema - 1
      BY <2>1, SMTT(60) DEF Active
    <3> QED
      BY <3>1, OneMore
  <2>2. CASE active_sema = 0
    <3>1. Active' = Active /\ active_sema' = active_sema
      BY <2>2, SMTT(60) DEF Active
    <3> QED
      BY <3>1 DEF SemaInv
  <2> QED
    BY <2>1, <2>2
<1>9. TypeOK'
  <2>1. active_sema' \in 0 .. Slots
    BY SMTT(60)
  <2> QED
    BY <2>1 DEF Pc
<1> QED
  BY <1>1, <1>2, <1>3, <1>4, <1>5, <1>6, <1>7, <1>8, <1>9

\* block_read: the new entry holds what the disk holds.
LEMMA FillKeeps ==
  ASSUME IInv, NEW t \in Thread, Fill(t)
  PROVE  IInv'
<1> USE BufferCacheAssumption DEF IInv, TypeOK, Fill, At, Goto
<1>1. LockInv'
  BY DEF LockInv, Holding
<1>2. RequestInv'
  BY DEF RequestInv, Free
<1>3. FoundInv'
  BY DEF FoundInv
<1>4. OwnerInv'
  BY SMTT(60) DEF OwnerInv, Entry, Slot
<1>5. LoadInv'
  BY DEF LoadInv
<1>6. OnceInv' /\ CleanInv'
  BY DEF OnceInv, CleanInv
<1>7. FlushInv'
  BY DEF FlushInv
<1>8. SemaInv'
  <2>1. Active' = Active
    BY DEF Active
  <2> QED
    BY <2>1 DEF SemaInv
<1>9. TypeOK'
  <2>1. request[t].sector \in Sector
    BY DEF RequestInv, Free, Request
  <2> QED
    BY <2>1, <1>8 DEF Pc, Data
<1> QED
  BY <1>1, <1>2, <1>3, <1>4, <1>5, <1>6, <1>7, <1>8, <1>9

\* One turn of the clock: it clears a use bit, passes a locked entry, or
\* empties a slot that no thread has found.
LEMMA clock_algorithm_evictKeeps ==
  ASSUME IInv, NEW t \in Thread, clock_algorithm_evict(t)
  PROVE  IInv'
<1> USE BufferCacheAssumption
<1> DEFINE k == clock_hand
<1>1. /\ pc[t] = "evict" /\ k \in Slot
      /\ clock_hand' \in Slot
      /\ UNCHANGED <<buffer_cache_lock, active_sema, request, cur, again, buffer>>
  <2>1. Slots \in Nat /\ Slots > 0 /\ clock_hand \in Nat
    BY SMTT(60) DEF IInv, TypeOK, Slot
  <2>2. (clock_hand + 1) % Slots \in 0 .. Slots - 1
    BY <2>1, SMTT(60)
  <2> QED
    BY <2>2 DEF IInv, TypeOK, Slot, clock_algorithm_evict, At
<1>2. CASE /\ buffer_cache[k] # NULL
           /\ buffer_cache[k].sector_lock = NULL
           /\ buffer_cache[k].use_bit = 1
  <2> DEFINE e == buffer_cache[k]
             n == [e EXCEPT !.use_bit = 0]
  <2>1. /\ e \in Entry /\ buffer_cache' = [buffer_cache EXCEPT ![k] = n]
        /\ UNCHANGED <<disk, offset, pc>>
    BY <1>1, <1>2, SMTT(60) DEF IInv, TypeOK, clock_algorithm_evict
  <2>2. /\ n \in Entry /\ n.sector_lock = e.sector_lock
        /\ n.buffered_sector = e.buffered_sector /\ n.buffer = e.buffer
        /\ n.dirty_bit = e.dirty_bit
    BY <2>1 DEF Entry
  <2>3. /\ buffer_cache' \in [Slot -> Entry \cup {NULL}]
        /\ buffer_cache'[k] = n
        /\ \A i \in Slot : i # k => buffer_cache'[i] = buffer_cache[i]
        /\ \A i \in Slot : /\ buffer_cache'[i] = NULL <=> buffer_cache[i] = NULL
                           /\ buffer_cache[i] # NULL =>
                                buffer_cache'[i].buffered_sector = buffer_cache[i].buffered_sector
    <3> HIDE DEF n, k
    <3> QED
      BY <1>1, <1>2, <2>1, <2>2, TouchSlot DEF IInv
  <2> HIDE DEF n
  <2>4. \A i \in Slot : buffer_cache[i] # NULL =>
          /\ buffer_cache'[i].sector_lock = buffer_cache[i].sector_lock
          /\ buffer_cache'[i].dirty_bit = buffer_cache[i].dirty_bit
          /\ buffer_cache'[i].buffer = buffer_cache[i].buffer
    BY <2>2, <2>3
  <2> USE DEF IInv
  <2>5. LockInv' /\ RequestInv'
    BY <1>1, <2>1 DEF LockInv, RequestInv
  <2>6. FoundInv'
    BY <1>1, <2>1, <2>3, <2>4, SMTT(60) DEF FoundInv
  <2>7. OwnerInv'
    BY <1>1, <2>1, <2>3, <2>4, SMTT(60) DEF OwnerInv
  <2>8. LoadInv'
    BY <1>1, <2>1, <2>3, SMTT(60) DEF LoadInv
  <2>9. OnceInv' /\ CleanInv'
    BY <2>1, <2>3, <2>4, TouchOnce, SMTT(60) DEF CleanInv
  <2>10. FlushInv'
    BY <2>1, <2>3 DEF FlushInv
  <2>11. SemaInv' /\ TypeOK'
    BY <1>1, <2>1, <2>3 DEF SemaInv, Active, TypeOK
  <2> QED
    BY <2>5, <2>6, <2>7, <2>8, <2>9, <2>10, <2>11
<1>3. CASE buffer_cache[k] # NULL /\ buffer_cache[k].sector_lock # NULL
  <2>1. UNCHANGED <<disk, buffer_cache, offset, pc>>
    BY <1>3 DEF clock_algorithm_evict
  <2>2. LockInv' /\ RequestInv' /\ FoundInv' /\ OwnerInv' /\ LoadInv'
    BY <1>1, <2>1, SMTT(60) DEF IInv, LockInv, RequestInv, FoundInv, OwnerInv, LoadInv
  <2>3. OnceInv' /\ CleanInv' /\ FlushInv' /\ SemaInv' /\ TypeOK'
    BY <1>1, <2>1 DEF IInv, OnceInv, CleanInv, FlushInv, SemaInv, Active, TypeOK
  <2> QED
    BY <2>2, <2>3 DEF IInv
<1>4. CASE \/ buffer_cache[k] = NULL
           \/ /\ buffer_cache[k] # NULL
              /\ buffer_cache[k].sector_lock = NULL
              /\ buffer_cache[k].use_bit = 0
  <2>1. /\ offset' = [offset EXCEPT ![t] = k]
        /\ pc' = [pc EXCEPT ![t] = "install"]
    BY <1>4, SMTT(60) DEF clock_algorithm_evict, Goto
  <2>2. /\ buffer_cache' \in [Slot -> Entry \cup {NULL}]
        /\ disk' \in [Sector -> Data]
        /\ buffer_cache'[k] = NULL
        /\ \A i \in Slot : i # k => buffer_cache'[i] = buffer_cache[i]
        /\ disk'[request[t].sector] = disk[request[t].sector]
        /\ \A u \in Thread : pc[u] \in {"entry", "try", "copy"} => offset[u] # k
        /\ OnceInv' /\ CleanInv'
    <3>1. CASE buffer_cache[k] = NULL
      <4>1. UNCHANGED <<disk, buffer_cache>>
        BY <3>1 DEF clock_algorithm_evict
      <4> QED
        BY <3>1, <4>1 DEF IInv, TypeOK, FoundInv, OnceInv, CleanInv
    <3>2. CASE buffer_cache[k] # NULL
      <4>1. buffer_evict(k) /\ buffer_cache[k].sector_lock = NULL
        BY <1>4, <3>2, SMTT(60) DEF clock_algorithm_evict
      <4>2. /\ request[t].sector \in Sector
            /\ request[t].sector # buffer_cache[k].buffered_sector
        BY <1>1, <3>2 DEF IInv, LoadInv, RequestInv, Free, Request
      <4> HIDE DEF k
      <4> QED
        BY <1>1, <3>2, <4>1, <4>2, EvictEntry
    <3> QED
      BY <3>1, <3>2
  <2>3. /\ pc'[t] = "install" /\ offset'[t] = k
        /\ \A u \in Thread : u # t => pc'[u] = pc[u] /\ offset'[u] = offset[u]
    BY <2>1 DEF IInv, TypeOK
  <2>4. \A u \in Thread : u # t => pc[u] \notin Holding
    BY <1>1 DEF IInv, LockInv, Holding
  <2> HIDE DEF k
  <2> USE DEF IInv
  <2>5. LockInv' /\ RequestInv'
    BY <1>1, <2>3 DEF LockInv, Holding, RequestInv, Free
  <2>6. FoundInv'
    BY <1>1, <2>2, <2>3, SMTT(60) DEF FoundInv
  <2>7. OwnerInv'
    <3> SUFFICES ASSUME NEW i \in Slot, buffer_cache'[i] # NULL,
                        buffer_cache'[i].sector_lock # NULL
                 PROVE  LET u == buffer_cache'[i].sector_lock IN
                        /\ pc'[u] \in {"try", "copy", "presence_failed"}
                        /\ offset'[u] = i
      BY DEF OwnerInv
    <3>1. buffer_cache'[i] = buffer_cache[i] /\ buffer_cache'[i].sector_lock \in Thread
      BY <2>2 DEF Entry
    <3> QED
      BY <3>1, <1>1, <2>3, SMTT(60) DEF OwnerInv
  <2>8. LoadInv'
    BY <1>1, <2>2, <2>3, <2>4, SMTT(60) DEF LoadInv, Holding
  <2>9. FlushInv'
    BY <2>3, <2>4 DEF FlushInv, Holding
  <2>10. SemaInv'
    <3>1. Active' = Active
      BY <1>1, <2>3 DEF Active
    <3> QED
      BY <3>1, <1>1 DEF SemaInv
  <2>11. TypeOK'
    BY <1>1, <2>1, <2>2, SMTT(60) DEF TypeOK, Pc, Slot
  <2> QED
    BY <2>2, <2>5, <2>6, <2>7, <2>8, <2>9, <2>10, <2>11
<1> QED
  BY <1>2, <1>3, <1>4 DEF clock_algorithm_evict

\* The new entry becomes visible; its sector was in no other.
LEMMA InstallKeeps ==
  ASSUME IInv, NEW t \in Thread, Install(t)
  PROVE  IInv'
<1> USE BufferCacheAssumption
<1> DEFINE k == offset[t]
           r == request[t]
           n == [buffered_sector |-> r.sector,
                 buffer |-> IF r.op = "write" THEN bounded_write(cur[t], r) ELSE cur[t],
                 use_bit |-> 1, dirty_bit |-> IF r.op = "write" THEN 1 ELSE 0,
                 sector_lock |-> NULL]
<1>1. /\ pc[t] = "install" /\ k \in Slot /\ buffer_cache[k] = NULL
      /\ r \in Request /\ cur[t] = disk[r.sector]
      /\ \A i \in Slot : buffer_cache[i] # NULL => buffer_cache[i].buffered_sector # r.sector
  BY DEF IInv, LoadInv, RequestInv, Free, Install, At
<1>2. /\ r.sector \in Sector /\ r.part \in Part /\ cur[t] \in Data
      /\ r.op = "write" => bounded_write(cur[t], r) \in Data
  BY <1>1 DEF IInv, TypeOK, Request, Data, bounded_write
<1>3. /\ n \in Entry /\ n.buffered_sector = r.sector /\ n.sector_lock = NULL
      /\ n.dirty_bit = 1 \/ n.buffer = disk[r.sector]
  BY <1>1, <1>2 DEF Entry
<1>4. /\ buffer_cache' = [buffer_cache EXCEPT ![k] = n]
      /\ pc' = [pc EXCEPT ![t] = "up"]
      /\ request' = [request EXCEPT ![t] = NULL]
      /\ offset' = [offset EXCEPT ![t] = 0]
      /\ cur' = [cur EXCEPT ![t] = NULL]
      /\ again' = [again EXCEPT ![t] = FALSE]
      /\ buffer_cache_lock' = NULL
      /\ UNCHANGED <<disk, clock_hand, active_sema>>
  BY DEF Install, Goto, Served, Release
<1>5. buffer' \in [Thread -> Value]
  BY <1>2 DEF IInv, TypeOK, Data, Install
<1> HIDE DEF n
<1>6. /\ buffer_cache' \in [Slot -> Entry \cup {NULL}]
      /\ buffer_cache'[k] = n
      /\ \A i \in Slot : i # k => buffer_cache'[i] = buffer_cache[i]
  BY <1>1, <1>3, <1>4 DEF IInv, TypeOK
<1>7. /\ pc'[t] = "up" /\ request'[t] = NULL
      /\ \A u \in Thread : u # t => /\ pc'[u] = pc[u] /\ request'[u] = request[u]
                                    /\ offset'[u] = offset[u] /\ cur'[u] = cur[u]
  BY <1>4 DEF IInv, TypeOK
<1>8. \A u \in Thread : u # t => pc[u] \notin Holding
  BY <1>1 DEF IInv, LockInv, Holding
<1> HIDE DEF k
<1> USE DEF IInv
<1>9. LockInv' /\ RequestInv'
  BY <1>1, <1>4, <1>7, SMTT(60) DEF LockInv, Holding, RequestInv, Free
<1>10. FoundInv'
  BY <1>1, <1>6, <1>7, SMTT(60) DEF FoundInv
<1>11. OwnerInv'
  <2> SUFFICES ASSUME NEW i \in Slot, buffer_cache'[i] # NULL,
                      buffer_cache'[i].sector_lock # NULL
               PROVE  LET u == buffer_cache'[i].sector_lock IN
                      /\ pc'[u] \in {"try", "copy", "presence_failed"}
                      /\ offset'[u] = i
    BY DEF OwnerInv
  <2>1. buffer_cache'[i] = buffer_cache[i] /\ buffer_cache'[i].sector_lock \in Thread
    BY <1>3, <1>6 DEF Entry
  <2> QED
    BY <2>1, <1>1, <1>7, SMTT(60) DEF OwnerInv
<1>12. LoadInv'
  BY <1>7, <1>8 DEF LoadInv, Holding
<1>13. OnceInv'
  BY <1>1, <1>3, <1>6, SMTT(60) DEF OnceInv
<1>14. CleanInv'
  BY <1>3, <1>4, <1>6 DEF CleanInv
<1>15. FlushInv'
  BY <1>7, <1>8 DEF FlushInv, Holding
<1>16. SemaInv'
  <2>1. Active' = Active
    BY <1>1, <1>7 DEF Active
  <2> QED
    BY <2>1, <1>4 DEF SemaInv
<1>17. TypeOK'
  <2>1. /\ pc' \in [Thread -> Pc]
        /\ request' \in [Thread -> Request \cup {NULL}]
        /\ offset' \in [Thread -> 0 .. Slots]
        /\ cur' \in [Thread -> Data \cup {NULL}]
        /\ again' \in [Thread -> BOOLEAN]
    BY <1>4, SMTT(60) DEF TypeOK, Pc
  <2> QED
    BY <2>1, <1>4, <1>5, <1>6 DEF TypeOK
<1> QED
  BY <1>9, <1>10, <1>11, <1>12, <1>13, <1>14, <1>15, <1>16, <1>17

\* A call of flush_buffer_cache by an idle thread.
LEMMA flush_buffer_cacheKeeps ==
  ASSUME IInv, NEW t \in Thread, flush_buffer_cache(t)
  PROVE  IInv'
<1> USE BufferCacheAssumption DEF IInv, TypeOK, flush_buffer_cache, At, Goto
<1>1. LockInv'
  BY DEF LockInv, Holding
<1>2. RequestInv'
  BY DEF RequestInv, Free
<1>3. FoundInv'
  BY DEF FoundInv
<1>4. OwnerInv'
  BY SMTT(60) DEF OwnerInv, Entry, Slot
<1>5. LoadInv'
  BY DEF LoadInv
<1>6. OnceInv' /\ CleanInv'
  BY DEF OnceInv, CleanInv
<1>7. FlushInv'
  BY DEF FlushInv
<1>8. SemaInv'
  <2>1. Active' = Active
    BY DEF Active
  <2> QED
    BY <2>1 DEF SemaInv
<1>9. TypeOK'
  BY DEF Pc
<1> QED
  BY <1>1, <1>2, <1>3, <1>4, <1>5, <1>6, <1>7, <1>8, <1>9

\* The flush takes buffer_cache_lock and starts at the first entry.
LEMMA FlushLockKeeps ==
  ASSUME IInv, NEW t \in Thread, FlushLock(t)
  PROVE  IInv'
<1> USE BufferCacheAssumption DEF IInv, TypeOK, FlushLock, At, Goto, Acquire
<1>1. LockInv'
  BY DEF LockInv, Holding
<1>2. RequestInv'
  BY DEF RequestInv, Free
<1>3. FoundInv'
  BY DEF FoundInv
<1>4. OwnerInv'
  BY SMTT(60) DEF OwnerInv, Entry, Slot
<1>5. LoadInv'
  BY DEF LoadInv
<1>6. OnceInv' /\ CleanInv'
  BY DEF OnceInv, CleanInv
<1>7. FlushInv'
  BY SMTT(60) DEF FlushInv, Slot
<1>8. SemaInv'
  <2>1. Active' = Active
    BY DEF Active
  <2> QED
    BY <2>1 DEF SemaInv
<1>9. TypeOK'
  BY SMTT(60) DEF Pc
<1> QED
  BY <1>1, <1>2, <1>3, <1>4, <1>5, <1>6, <1>7, <1>8, <1>9

\* One turn of the loop of the flush: one more entry is empty.
LEMMA FlushSlotKeeps ==
  ASSUME IInv, NEW t \in Thread, FlushSlot(t)
  PROVE  IInv'
<1> USE BufferCacheAssumption
<1> DEFINE k == offset[t]
<1>1. /\ pc[t] = "flushing" /\ k \in Slot
      /\ offset' = [offset EXCEPT ![t] = k + 1]
      /\ UNCHANGED <<clock_hand, buffer_cache_lock, active_sema, pc, request, cur, again, buffer>>
  BY SMTT(60) DEF IInv, TypeOK, Slot, FlushSlot, At
<1>2. /\ buffer_cache' \in [Slot -> Entry \cup {NULL}]
      /\ disk' \in [Sector -> Data]
      /\ buffer_cache'[k] = NULL
      /\ \A i \in Slot : i # k => buffer_cache'[i] = buffer_cache[i]
      /\ \A u \in Thread : pc[u] \in {"entry", "try", "copy"} => offset[u] # k
      /\ OnceInv' /\ CleanInv'
  <2>1. CASE buffer_cache[k] = NULL
    <3>1. UNCHANGED <<disk, buffer_cache>>
      BY <2>1 DEF FlushSlot
    <3> QED
      BY <2>1, <3>1 DEF IInv, TypeOK, FoundInv, OnceInv, CleanInv
  <2>2. CASE buffer_cache[k] # NULL
    <3>1. buffer_evict(k) /\ buffer_cache[k].sector_lock = NULL
      BY <2>2 DEF FlushSlot
    <3> HIDE DEF k
    <3> QED
      BY <1>1, <2>2, <3>1, EvictEntry
  <2> QED
    BY <2>1, <2>2
<1>3. /\ offset'[t] = k + 1
      /\ \A u \in Thread : u # t => offset'[u] = offset[u]
  BY <1>1 DEF IInv, TypeOK
<1>4. \A u \in Thread : u # t => pc[u] \notin Holding
  BY <1>1 DEF IInv, LockInv, Holding
<1> USE DEF IInv
<1>5. LockInv' /\ RequestInv'
  BY <1>1 DEF LockInv, RequestInv
<1>6. FoundInv'
  BY <1>1, <1>2, <1>3, SMTT(60) DEF FoundInv
<1>7. OwnerInv'
  <2> SUFFICES ASSUME NEW i \in Slot, buffer_cache'[i] # NULL,
                      buffer_cache'[i].sector_lock # NULL
               PROVE  LET u == buffer_cache'[i].sector_lock IN
                      /\ pc'[u] \in {"try", "copy", "presence_failed"}
                      /\ offset'[u] = i
    BY DEF OwnerInv
  <2>1. buffer_cache'[i] = buffer_cache[i] /\ buffer_cache'[i].sector_lock \in Thread
    BY <1>2 DEF Entry
  <2> QED
    BY <2>1, <1>1, <1>3 DEF OwnerInv
<1>8. LoadInv'
  BY <1>1, <1>4 DEF LoadInv, Holding
<1>9. FlushInv'
  <2> SUFFICES ASSUME NEW i \in Slot, i < k + 1
               PROVE  buffer_cache'[i] = NULL
    BY <1>1, <1>3, <1>4 DEF FlushInv, Holding
  <2>1. CASE i = k
    BY <2>1, <1>2
  <2>2. CASE i < k
    BY <2>2, <1>1, <1>2 DEF FlushInv
  <2> QED
    BY <1>1, <2>1, <2>2, SMTT(60) DEF Slot
<1>10. SemaInv'
  BY <1>1 DEF SemaInv, Active
<1>11. TypeOK'
  <2>1. k + 1 \in 0 .. Slots
    BY <1>1, SMTT(60) DEF Slot
  <2> QED
    BY <1>1, <1>2, <2>1 DEF TypeOK
<1> QED
  BY <1>2, <1>5, <1>6, <1>7, <1>8, <1>9, <1>10, <1>11

\* The flush gives buffer_cache_lock up.
LEMMA FlushEndKeeps ==
  ASSUME IInv, NEW t \in Thread, FlushEnd(t)
  PROVE  IInv'
<1> USE BufferCacheAssumption DEF IInv, TypeOK, FlushEnd, At, Goto, Release
<1>1. LockInv'
  BY DEF LockInv, Holding
<1>2. RequestInv'
  BY DEF RequestInv, Free
<1>3. FoundInv'
  BY DEF FoundInv
<1>4. OwnerInv'
  BY SMTT(60) DEF OwnerInv, Entry, Slot
<1>5. LoadInv'
  BY DEF LoadInv
<1>6. OnceInv' /\ CleanInv'
  BY DEF OnceInv, CleanInv
<1>7. FlushInv'
  BY DEF FlushInv
<1>8. SemaInv'
  <2>1. Active' = Active
    BY DEF Active
  <2> QED
    BY <2>1 DEF SemaInv
<1>9. TypeOK'
  BY SMTT(60) DEF Pc
<1> QED
  BY <1>1, <1>2, <1>3, <1>4, <1>5, <1>6, <1>7, <1>8, <1>9


\* A step that changes nothing keeps the invariant.
LEMMA StutterKeeps ==
  ASSUME IInv, UNCHANGED vars
  PROVE  IInv'
<1> USE DEF vars
<1>1. TypeOK' /\ LockInv' /\ RequestInv' /\ FoundInv' /\ OwnerInv'
  BY DEF IInv, TypeOK, LockInv, RequestInv, FoundInv, OwnerInv
<1>2. LoadInv' /\ OnceInv' /\ CleanInv' /\ FlushInv' /\ SemaInv'
  BY DEF IInv, LoadInv, OnceInv, CleanInv, FlushInv, SemaInv, Active
<1> QED
  BY <1>1, <1>2 DEF IInv

\* init_buffer_cache establishes the invariant.
LEMMA InitEstablishes == Init => IInv
<1> SUFFICES ASSUME Init PROVE IInv
  OBVIOUS
<1> USE BufferCacheAssumption DEF Init
<1>1. TypeOK
  BY SMTT(60) DEF TypeOK, Pc, Slot
<1>2. LockInv /\ RequestInv /\ FoundInv /\ LoadInv /\ FlushInv
  BY DEF LockInv, Holding, RequestInv, Free, FoundInv, LoadInv, FlushInv
<1>3. OwnerInv /\ OnceInv /\ CleanInv
  BY DEF OwnerInv, OnceInv, CleanInv
<1>4. SemaInv
  <2>1. Active = {}
    BY DEF Active
  <2> QED
    BY <2>1, FS_EmptySet, SMTT(60) DEF SemaInv
<1> QED
  BY <1>1, <1>2, <1>3, <1>4 DEF IInv

\* Every step keeps the invariant.
LEMMA NextKeeps == IInv /\ [Next]_vars => IInv'
<1> SUFFICES ASSUME IInv, [Next]_vars PROVE IInv'
  OBVIOUS
<1>1. CASE Next
  <2>1. PICK t \in Thread : Call(t) \/ flush_buffer_cache(t) \/ Step(t)
    BY <1>1 DEF Next
  <2>2. CASE Call(t) \/ flush_buffer_cache(t)
    BY <2>2, CallKeeps, flush_buffer_cacheKeeps
  <2>3. CASE \/ acquire_buffer_entry_lock(t) \/ LockEntry(t) \/ TryDown(t) \/ Copy(t)
             \/ SemaUp(t) \/ Broadcast(t) \/ CondWait(t)
    BY <2>3, acquire_buffer_entry_lockKeeps, LockEntryKeeps, TryDownKeeps, CopyKeeps,
       SemaUpKeeps, BroadcastKeeps, CondWaitKeeps
  <2>4. CASE \/ NotBuffered(t) \/ NbTryDown(t) \/ Fill(t)
             \/ clock_algorithm_evict(t) \/ Install(t)
    BY <2>4, NotBufferedKeeps, NbTryDownKeeps, FillKeeps, clock_algorithm_evictKeeps, InstallKeeps
  <2>5. CASE FlushLock(t) \/ FlushSlot(t) \/ FlushEnd(t)
    BY <2>5, FlushLockKeeps, FlushSlotKeeps, FlushEndKeeps
  <2> QED
    BY <2>1, <2>2, <2>3, <2>4, <2>5 DEF Step
<1>2. CASE UNCHANGED vars
  BY <1>2, StutterKeeps
<1> QED
  BY <1>1, <1>2

\* The inductive invariant holds in every reachable state.
LEMMA Invariance == Spec => []IInv
  BY InitEstablishes, NextKeeps, PTL DEF Spec

-----------------------------------------------------------------------------
(* What the invariant shows                                                 *)

\* Two threads that miss the same sector at the same time do not load it
\* twice: read_not_buffered and write_not_buffered look for it once more after
\* they have taken buffer_cache_lock back.
THEOREM SectorsAreCachedOnce == Spec => []CachedOnce
<1>1. IInv => CachedOnce
  <2> SUFFICES ASSUME IInv, NEW s \in Sector PROVE Cardinality(Cached(s)) <= 1
    BY DEF CachedOnce
  <2>1. CASE Cached(s) = {}
    BY <2>1, FS_EmptySet, SMTT(60)
  <2>2. CASE Cached(s) # {}
    <3>1. PICK i \in Cached(s) : TRUE
      BY <2>2
    <3>2. Cached(s) = {i}
      BY <3>1 DEF IInv, OnceInv, Cached
    <3>3. Cardinality({i}) = 1
      BY FS_Singleton
    <3> QED
      BY <3>2, <3>3, SMTT(60)
  <2> QED
    BY <2>1, <2>2
<1> QED
  BY <1>1, Invariance, PTL

\* An entry that a thread has found in acquire_buffer_entry_lock is not freed
\* by clock_algorithm_evict or flush_buffer_cache before the thread has done
\* with it, and no other thread has its lock.
THEOREM EntriesInUseStay == Spec => []NoUseAfterFree
<1>1. IInv => NoUseAfterFree
  BY DEF IInv, FoundInv, NoUseAfterFree
<1> QED
  BY <1>1, Invariance, PTL

\* The loop of clock_algorithm_evict has something to find: the entries that
\* the other active threads have locked are fewer than all.
THEOREM AnEntryIsFree == Spec => []VictimExists
<1>1. IInv => VictimExists
  <2> SUFFICES ASSUME IInv, NEW t \in Thread, pc[t] \in {"fill", "evict"},
                      \A i \in Slot : /\ buffer_cache[i] # NULL
                                      /\ buffer_cache[i].sector_lock \in Active
               PROVE  FALSE
    BY DEF VictimExists
  <2> DEFINE owner == [i \in Slot |-> buffer_cache[i].sector_lock]
  <2>1. t \in Active
    BY DEF Active
  <2>2. \A i \in Slot : owner[i] \in Active \ {t} /\ offset[owner[i]] = i
    <3> SUFFICES ASSUME NEW i \in Slot
                 PROVE  owner[i] \in Active \ {t} /\ offset[owner[i]] = i
      OBVIOUS
    <3>1. owner[i] \in Thread /\ owner[i] # NULL
      BY BufferCacheAssumption DEF Active
    <3>2. pc[owner[i]] \in {"try", "copy", "presence_failed"} /\ offset[owner[i]] = i
      BY <3>1 DEF IInv, OwnerInv
    <3> QED
      BY <3>2
  <2>3. owner \in Injection(Slot, Active \ {t})
    <3>1. owner \in [Slot -> Active \ {t}]
      BY <2>2
    <3>2. \A i, j \in Slot : owner[i] = owner[j] => i = j
      BY <2>2
    <3> QED
      BY <3>1, <3>2 DEF Injection, IsInjective
  <2>4. /\ IsFiniteSet(Active \ {t})
        /\ Cardinality(Active \ {t}) = Cardinality(Active) - 1
    BY <2>1, FS_RemoveElement DEF IInv, SemaInv
  <2>5. Cardinality(Slot) <= Cardinality(Active \ {t})
    BY <2>3, <2>4, FS_Injection
  <2>6. Cardinality(Slot) = Slots
    <3>1. Cardinality(0 .. Slots - 1) = Slots - 1 - 0 + 1
      BY FS_Interval, BufferCacheAssumption, SMTT(60)
    <3> QED
      BY <3>1, BufferCacheAssumption, SMTT(60) DEF Slot
  <2>7. Cardinality(Active) \in Nat
    BY FS_CardinalityType DEF IInv, SemaInv
  <2> QED
    BY <2>4, <2>5, <2>6, <2>7, BufferCacheAssumption, SMTT(60) DEF IInv, SemaInv, TypeOK
<1> QED
  BY <1>1, Invariance, PTL

\* When flush_buffer_cache has passed the last entry, every entry is gone and
\* the disk holds what the file system has written.
THEOREM FlushesAreComplete == Spec => []FlushComplete
<1>1. IInv => FlushComplete
  <2> SUFFICES ASSUME IInv, NEW t \in Thread, pc[t] = "flushing", offset[t] = Slots
               PROVE  (\A i \in Slot : buffer_cache[i] = NULL) /\ disk = Contents
    BY DEF FlushComplete
  <2>1. \A i \in Slot : buffer_cache[i] = NULL
    BY BufferCacheAssumption, SMTT(60) DEF IInv, FlushInv, Slot
  <2>2. \A s \in Sector : Cached(s) = {}
    BY <2>1 DEF Cached
  <2>3. Contents = [s \in Sector |-> disk[s]]
    BY <2>2 DEF Contents
  <2> QED
    BY <2>1, <2>3 DEF IInv, TypeOK
<1> QED
  BY <1>1, Invariance, PTL

-----------------------------------------------------------------------------
(* The cache implements SectorStore                                         *)

\* What the file system sees of a sector: the entry that caches it or, when
\* there is none, the disk.
Seen ==
  \A s \in Sector :
    /\ (\A i \in Slot : buffer_cache[i] # NULL => buffer_cache[i].buffered_sector # s)
         => Contents[s] = disk[s]
    /\ \A i \in Slot : buffer_cache[i] # NULL /\ buffer_cache[i].buffered_sector = s
         => Contents[s] = buffer_cache[i].buffer

\* No sector is in two entries, so Contents has one entry to choose from.
LEMMA SeenNow == OnceInv => Seen
<1> SUFFICES ASSUME OnceInv, NEW s \in Sector
             PROVE  /\ (\A i \in Slot : buffer_cache[i] # NULL => buffer_cache[i].buffered_sector # s)
                         => Contents[s] = disk[s]
                    /\ \A i \in Slot : buffer_cache[i] # NULL /\ buffer_cache[i].buffered_sector = s
                         => Contents[s] = buffer_cache[i].buffer
  BY DEF Seen
<1>1. Cached(s) = {} => Contents[s] = disk[s]
  BY DEF Contents
<1>2. ASSUME NEW i \in Slot, buffer_cache[i] # NULL, buffer_cache[i].buffered_sector = s
      PROVE  Contents[s] = buffer_cache[i].buffer
  <2>1. i \in Cached(s)
    BY <1>2 DEF Cached
  <2>2. (CHOOSE j \in Cached(s) : TRUE) \in Cached(s)
    BY <2>1
  <2>3. \A j \in Cached(s) : j = i
    BY <1>2 DEF OnceInv, Cached
  <2>4. Contents[s] = buffer_cache[CHOOSE j \in Cached(s) : TRUE].buffer
    BY <2>1 DEF Contents
  <2> QED
    BY <2>2, <2>3, <2>4
<1> QED
  BY <1>1, <1>2 DEF Cached

\* The same after a step.
LEMMA SeenNext == OnceInv' => Seen'
  BY SeenNow, PTL

\* Contents is a function on the sectors.
LEMMA ContentsMap ==
  /\ Contents = [s \in Sector |-> Contents[s]]
  /\ Contents' = [s \in Sector |-> Contents'[s]]
  BY SMTT(60) DEF Contents

\* Changing the locks and bits of entries changes nothing that is seen.
LEMMA TouchSeen ==
  ASSUME OnceInv, OnceInv', UNCHANGED disk,
         \A i \in Slot : /\ buffer_cache'[i] = NULL <=> buffer_cache[i] = NULL
                         /\ buffer_cache[i] # NULL =>
                              /\ buffer_cache'[i].buffered_sector = buffer_cache[i].buffered_sector
                              /\ buffer_cache'[i].buffer = buffer_cache[i].buffer
  PROVE  Contents' = Contents
<1>1. Seen /\ Seen'
  BY SeenNow, SeenNext
<1>2. ASSUME NEW s \in Sector PROVE Contents'[s] = Contents[s]
  <2>1. CASE \A i \in Slot : buffer_cache[i] # NULL => buffer_cache[i].buffered_sector # s
    BY <1>1, <2>1 DEF Seen
  <2>2. CASE \E i \in Slot : buffer_cache[i] # NULL /\ buffer_cache[i].buffered_sector = s
    BY <1>1, <2>2, SMTT(60) DEF Seen
  <2> QED
    BY <2>1, <2>2
<1> QED
  BY <1>2, ContentsMap

\* Nor does evicting an entry.
LEMMA EvictSeen ==
  ASSUME IInv, OnceInv', NEW k \in Slot, buffer_cache[k] # NULL,
         buffer_cache'[k] = NULL,
         \A i \in Slot : i # k => buffer_cache'[i] = buffer_cache[i],
         \A s \in Sector : s # buffer_cache[k].buffered_sector => disk'[s] = disk[s],
         disk'[buffer_cache[k].buffered_sector] = buffer_cache[k].buffer
  PROVE  Contents' = Contents
<1>1. Seen /\ Seen'
  BY SeenNow, SeenNext DEF IInv
<1>2. ASSUME NEW s \in Sector PROVE Contents'[s] = Contents[s]
  <2>1. CASE s = buffer_cache[k].buffered_sector
    <3>1. \A i \in Slot : buffer_cache'[i] # NULL => buffer_cache'[i].buffered_sector # s
      BY <2>1 DEF IInv, OnceInv
    <3> QED
      BY <1>1, <2>1, <3>1 DEF Seen
  <2>2. CASE s # buffer_cache[k].buffered_sector
    <3>1. CASE \A i \in Slot : buffer_cache[i] # NULL => buffer_cache[i].buffered_sector # s
      BY <1>1, <2>2, <3>1, SMTT(60) DEF Seen
    <3>2. CASE \E i \in Slot : buffer_cache[i] # NULL /\ buffer_cache[i].buffered_sector = s
      BY <1>1, <2>2, <3>2, SMTT(60) DEF Seen
    <3> QED
      BY <3>1, <3>2
  <2> QED
    BY <2>1, <2>2
<1> QED
  BY <1>2, ContentsMap

\* An entry that holds data d for sector s, new or changed, makes d the contents of
\* s, and of no other sector.
LEMMA PutSeen ==
  ASSUME IInv, OnceInv', UNCHANGED disk, NEW k \in Slot, NEW s \in Sector, NEW d,
         buffer_cache'[k] # NULL, buffer_cache'[k].buffered_sector = s,
         buffer_cache'[k].buffer = d,
         \A i \in Slot : i # k => buffer_cache'[i] = buffer_cache[i],
         buffer_cache[k] # NULL => buffer_cache[k].buffered_sector = s
  PROVE  Contents' = [Contents EXCEPT ![s] = d]
<1>1. Seen /\ Seen'
  BY SeenNow, SeenNext DEF IInv
<1>2. Contents'[s] = d
  BY <1>1 DEF Seen
<1>3. ASSUME NEW x \in Sector, x # s PROVE Contents'[x] = Contents[x]
  <2>1. CASE \A i \in Slot : buffer_cache[i] # NULL => buffer_cache[i].buffered_sector # x
    BY <1>1, <1>3, <2>1, SMTT(60) DEF Seen
  <2>2. CASE \E i \in Slot : buffer_cache[i] # NULL /\ buffer_cache[i].buffered_sector = x
    BY <1>1, <1>3, <2>2, SMTT(60) DEF Seen
  <2> QED
    BY <2>1, <2>2
<1> QED
  BY <1>2, <1>3, ContentsMap

\* A read that takes its part from what is seen.
LEMMA ReadRefines ==
  ASSUME NEW t \in Thread, request[t] \in Request, request[t].op = "read",
         buffer' = [buffer EXCEPT ![t] = Contents[request[t].sector][request[t].part]],
         request' = [request EXCEPT ![t] = NULL], Contents' = Contents
  PROVE  Store!SNext
<1>1. request[t] \in [op : {"read"}, sector : Sector, part : Part]
  BY DEF Request
<1>2. Store!ReadSector(t)
  BY <1>1 DEF Store!ReadSector
<1> QED
  BY <1>2 DEF Store!SNext

\* A write that changes its part of what is seen.
LEMMA WriteRefines ==
  ASSUME NEW t \in Thread, request[t] \in Request, request[t].op = "write",
         NEW d, d = Contents[request[t].sector],
         Contents' = [Contents EXCEPT ![request[t].sector] = bounded_write(d, request[t])],
         request' = [request EXCEPT ![t] = NULL], UNCHANGED buffer
  PROVE  Store!SNext
<1>1. request[t] \in [op : {"write"}, sector : Sector, part : Part, data : Value]
  BY DEF Request
<1>2. Contents' = [Contents EXCEPT ![request[t].sector][request[t].part] = request[t].data]
  BY <1>1, ContentsMap DEF bounded_write
<1>3. Store!WriteSector(t)
  BY <1>1, <1>2 DEF Store!WriteSector
<1> QED
  BY <1>3 DEF Store!SNext

\* A call is submitted.
LEMMA CallRefines ==
  ASSUME IInv, NEW t \in Thread, Call(t)
  PROVE  Store!SNext
<1>1. request[t] = NULL
  BY DEF IInv, RequestInv, Free, Call, At
<1>2. Contents' = Contents
  BY SMTT(60) DEF Call, Contents, Cached
<1>3. Store!Submit(t)
  BY <1>1, <1>2 DEF Call, Request, Store!Submit, Store!Request
<1> QED
  BY <1>3 DEF Store!SNext

\* Locking an entry changes nothing that the file system sees.
LEMMA LockEntryRefines ==
  ASSUME IInv, IInv', NEW t \in Thread, LockEntry(t)
  PROVE  UNCHANGED Store!svars
<1> DEFINE k == offset[t]
           e == buffer_cache[k]
           n == [e EXCEPT !.sector_lock = t, !.use_bit = 1]
<1>1. k \in Slot /\ e \in Entry /\ e # NULL
  BY SMTT(60) DEF IInv, TypeOK, FoundInv, LockEntry, At
<1>2. buffer_cache' = [buffer_cache EXCEPT ![k] = n]
  BY <1>1 DEF IInv, TypeOK, LockEntry
<1>3. n \in Entry /\ n.buffered_sector = e.buffered_sector /\ n.buffer = e.buffer
  BY <1>1 DEF Entry
<1>4. n # NULL
  BY <1>3, BufferCacheAssumption
<1>5. UNCHANGED <<disk, request, buffer>>
  BY DEF LockEntry
<1> HIDE DEF n
<1>6. Contents' = Contents
  BY <1>1, <1>2, <1>3, <1>4, <1>5, TouchSeen DEF IInv, TypeOK
<1> QED
  BY <1>5, <1>6 DEF Store!svars

\* Nor does giving it up.
LEMMA TryDownRefines ==
  ASSUME IInv, IInv', NEW t \in Thread, TryDown(t)
  PROVE  UNCHANGED Store!svars
<1> DEFINE k == offset[t]
           e == buffer_cache[k]
           n == [e EXCEPT !.sector_lock = NULL]
<1>1. k \in Slot /\ e \in Entry /\ e # NULL
  BY SMTT(60) DEF IInv, TypeOK, FoundInv, TryDown, At
<1>2. buffer_cache' = buffer_cache \/ buffer_cache' = [buffer_cache EXCEPT ![k] = n]
  BY <1>1 DEF IInv, TypeOK, TryDown
<1>3. n \in Entry /\ n.buffered_sector = e.buffered_sector /\ n.buffer = e.buffer
  BY <1>1 DEF Entry
<1>4. n # NULL
  BY <1>3, BufferCacheAssumption
<1>5. UNCHANGED <<disk, request, buffer>>
  BY DEF TryDown
<1> HIDE DEF n
<1>6. Contents' = Contents
  BY <1>1, <1>2, <1>3, <1>4, <1>5, TouchSeen DEF IInv, TypeOK
<1> QED
  BY <1>5, <1>6 DEF Store!svars

\* A copy to or from a cached entry serves the request.
LEMMA CopyRefines ==
  ASSUME IInv, IInv', NEW t \in Thread, Copy(t)
  PROVE  Store!SNext
<1> DEFINE k == offset[t]
           e == buffer_cache[k]
           r == request[t]
<1>1. /\ k \in Slot /\ e \in Entry /\ e # NULL /\ r \in Request
      /\ e.buffered_sector = r.sector
  BY SMTT(60) DEF IInv, TypeOK, FoundInv, RequestInv, Free, Copy, At
<1>2. r.op \in {"read", "write"} /\ r.sector \in Sector
  BY <1>1 DEF Request
<1>3. Contents[r.sector] = e.buffer
  BY <1>1, <1>2, SeenNow DEF IInv, Seen
<1>4. request' = [request EXCEPT ![t] = NULL] /\ UNCHANGED disk
  BY DEF Copy, Served
<1>5. CASE r.op = "read"
  <2> DEFINE n == [e EXCEPT !.sector_lock = NULL]
  <2>1. /\ buffer_cache' = [buffer_cache EXCEPT ![k] = n]
        /\ buffer' = [buffer EXCEPT ![t] = e.buffer[r.part]]
    BY <1>1, <1>5 DEF IInv, TypeOK, Copy
  <2>2. n \in Entry /\ n.buffered_sector = e.buffered_sector /\ n.buffer = e.buffer
    BY <1>1, BufferCacheAssumption DEF Entry
  <2>3. n # NULL
    BY <2>2, BufferCacheAssumption
  <2> HIDE DEF n
  <2>4. Contents' = Contents
    BY <1>1, <1>4, <2>1, <2>2, <2>3, TouchSeen DEF IInv, TypeOK
  <2> QED
    BY <1>1, <1>3, <1>4, <1>5, <2>1, <2>4, ReadRefines
<1>6. CASE r.op = "write"
  <2> DEFINE n == [e EXCEPT !.buffer = bounded_write(@, r), !.dirty_bit = 1, !.sector_lock = NULL]
  <2>1. buffer_cache' = [buffer_cache EXCEPT ![k] = n] /\ UNCHANGED buffer
    BY <1>1, <1>6 DEF Copy
  <2>2. n \in Entry
    <3>1. bounded_write(e.buffer, r) \in Data
      BY <1>1, <1>6 DEF bounded_write, Entry, Data, Request
    <3> QED
      BY <1>1, <3>1 DEF Entry
  <2>3. /\ n.buffered_sector = r.sector /\ n.buffer = bounded_write(e.buffer, r)
    BY <1>1 DEF Entry
  <2>4. n # NULL
    BY <2>2, BufferCacheAssumption
  <2> HIDE DEF n
  <2>5. buffer_cache'[k] = n /\ \A i \in Slot : i # k => buffer_cache'[i] = buffer_cache[i]
    BY <1>1, <2>1 DEF IInv, TypeOK
  <2>6. Contents' = [Contents EXCEPT ![r.sector] = bounded_write(e.buffer, r)]
    <3> HIDE DEF k, r
    <3> QED
      BY <1>1, <1>2, <1>4, <2>3, <2>4, <2>5, PutSeen, SMTT(60) DEF IInv
  <2> QED
    BY <1>1, <1>3, <1>4, <1>6, <2>1, <2>6, WriteRefines
<1> QED
  BY <1>2, <1>5, <1>6

\* A turn of the clock changes nothing that the file system sees.
LEMMA EvictRefines ==
  ASSUME IInv, IInv', NEW t \in Thread, clock_algorithm_evict(t)
  PROVE  UNCHANGED Store!svars
<1> DEFINE k == clock_hand
           e == buffer_cache[k]
           n == [e EXCEPT !.use_bit = 0]
<1>1. pc[t] = "evict" /\ k \in Slot /\ UNCHANGED <<request, buffer>>
  BY DEF IInv, TypeOK, clock_algorithm_evict, At
<1>2. CASE buffer_cache' = buffer_cache /\ UNCHANGED disk
  BY <1>1, <1>2, SMTT(60) DEF Contents, Cached, Store!svars
<1>3. CASE e # NULL /\ e.use_bit = 1 /\ buffer_cache' = [buffer_cache EXCEPT ![k].use_bit = 0] /\ UNCHANGED disk
  <2>1. e \in Entry /\ buffer_cache' = [buffer_cache EXCEPT ![k] = n]
    BY <1>1, <1>3 DEF IInv, TypeOK
  <2>2. n \in Entry /\ n.buffered_sector = e.buffered_sector /\ n.buffer = e.buffer
    BY <2>1 DEF Entry
  <2>3. n # NULL
    BY <2>2, BufferCacheAssumption
  <2> HIDE DEF n
  <2>4. Contents' = Contents
    BY <1>1, <1>3, <2>1, <2>2, <2>3, TouchSeen DEF IInv, TypeOK
  <2> QED
    BY <1>1, <2>4 DEF Store!svars
<1>4. CASE e # NULL /\ e.sector_lock = NULL /\ buffer_evict(k)
  <2> HIDE DEF k
  <2>1. Contents' = Contents
    BY <1>1, <1>4, EvictEntry, EvictSeen DEF k
  <2> QED
    BY <1>1, <2>1 DEF Store!svars
<1> QED
  BY <1>2, <1>3, <1>4 DEF clock_algorithm_evict

\* Nor does a turn of the loop of flush_buffer_cache.
LEMMA FlushSlotRefines ==
  ASSUME IInv, IInv', NEW t \in Thread, FlushSlot(t)
  PROVE  UNCHANGED Store!svars
<1> DEFINE k == offset[t]
<1>1. pc[t] = "flushing" /\ k \in Slot /\ UNCHANGED <<request, buffer>>
  BY BufferCacheAssumption, SMTT(60) DEF IInv, TypeOK, Slot, FlushSlot, At
<1>2. CASE UNCHANGED <<disk, buffer_cache>>
  BY <1>1, <1>2, SMTT(60) DEF Contents, Cached, Store!svars
<1>3. CASE buffer_cache[k] # NULL /\ buffer_cache[k].sector_lock = NULL /\ buffer_evict(k)
  <2> HIDE DEF k
  <2>1. Contents' = Contents
    BY <1>1, <1>3, EvictEntry, EvictSeen
  <2> QED
    BY <1>1, <2>1 DEF Store!svars
<1> QED
  BY <1>2, <1>3 DEF FlushSlot

\* A copy to or from a loaded entry serves the request.
LEMMA InstallRefines ==
  ASSUME IInv, IInv', NEW t \in Thread, Install(t)
  PROVE  Store!SNext
<1> DEFINE k == offset[t]
           r == request[t]
           d == IF r.op = "write" THEN bounded_write(cur[t], r) ELSE cur[t]
           n == [buffered_sector |-> r.sector, buffer |-> d,
                 use_bit |-> 1, dirty_bit |-> IF r.op = "write" THEN 1 ELSE 0,
                 sector_lock |-> NULL]
<1>1. /\ k \in Slot /\ buffer_cache[k] = NULL /\ r \in Request
      /\ cur[t] = disk[r.sector]
      /\ \A i \in Slot : buffer_cache[i] # NULL => buffer_cache[i].buffered_sector # r.sector
  BY DEF IInv, LoadInv, RequestInv, Free, Install, At
<1>2. /\ r.op \in {"read", "write"} /\ r.sector \in Sector /\ d \in Data
  BY <1>1 DEF IInv, TypeOK, Request, Data, bounded_write
<1>3. Contents[r.sector] = cur[t]
  BY <1>1, <1>2, SeenNow DEF IInv, Seen
<1>4. /\ buffer_cache' = [buffer_cache EXCEPT ![k] = n]
      /\ buffer' = IF r.op = "read" THEN [buffer EXCEPT ![t] = cur[t][r.part]] ELSE buffer
      /\ request' = [request EXCEPT ![t] = NULL] /\ UNCHANGED disk
  BY DEF Install, Served
<1>5. n \in Entry /\ n.buffered_sector = r.sector /\ n.buffer = d
  BY <1>2 DEF Entry
<1>6. n # NULL
  BY <1>5, BufferCacheAssumption
<1> HIDE DEF n
<1>7. buffer_cache'[k] = n /\ \A i \in Slot : i # k => buffer_cache'[i] = buffer_cache[i]
  BY <1>1, <1>4 DEF IInv, TypeOK
<1>8. Contents' = [Contents EXCEPT ![r.sector] = d]
  <2> HIDE DEF k, r, d
  <2> QED
    BY <1>1, <1>2, <1>4, <1>5, <1>6, <1>7, PutSeen, SMTT(60) DEF IInv
<1>9. CASE r.op = "read"
  <2>1. Contents' = Contents
    BY <1>2, <1>3, <1>8, <1>9, ContentsMap
  <2> QED
    BY <1>1, <1>3, <1>4, <1>9, <2>1, ReadRefines
<1>10. CASE r.op = "write"
  BY <1>1, <1>3, <1>4, <1>8, <1>10, WriteRefines
<1> QED
  BY <1>2, <1>9, <1>10

\* Every step of the cache is a step of the store or is not seen.
LEMMA NextRefines ==
  ASSUME IInv, IInv', [Next]_vars
  PROVE  [Store!SNext]_(Store!svars)
<1>1. ASSUME UNCHANGED <<disk, buffer_cache, request, buffer>>
      PROVE  UNCHANGED Store!svars
  BY <1>1, SMTT(60) DEF Contents, Cached, Store!svars
<1>2. CASE Next
  <2>1. PICK t \in Thread : Call(t) \/ flush_buffer_cache(t) \/ Step(t)
    BY <1>2 DEF Next
  <2>2. CASE Call(t) \/ Copy(t) \/ Install(t)
    BY <2>2, CallRefines, CopyRefines, InstallRefines
  <2>3. CASE LockEntry(t) \/ TryDown(t) \/ clock_algorithm_evict(t) \/ FlushSlot(t)
    BY <2>3, LockEntryRefines, TryDownRefines, EvictRefines, FlushSlotRefines
  <2>4. CASE \/ flush_buffer_cache(t) \/ acquire_buffer_entry_lock(t) \/ SemaUp(t)
             \/ Broadcast(t) \/ CondWait(t) \/ NotBuffered(t) \/ NbTryDown(t)
             \/ Fill(t) \/ FlushLock(t) \/ FlushEnd(t)
    BY <2>4, <1>1 DEF flush_buffer_cache, acquire_buffer_entry_lock, SemaUp, Broadcast,
       CondWait, NotBuffered, NbTryDown, Fill, FlushLock, FlushEnd
  <2> QED
    BY <2>1, <2>2, <2>3, <2>4 DEF Step
<1>3. CASE UNCHANGED vars
  BY <1>1, <1>3 DEF vars
<1> QED
  BY <1>2, <1>3

\* The cache is coherent: to the callers of read_buffered and write_buffered
\* the device is an array of sectors whose parts are read and written in one
\* step each, whatever is loaded, evicted and flushed in between.
THEOREM CacheIsCoherent == Spec => ImplementsStore
<1>1. Init => Store!SInit
  <2> SUFFICES ASSUME Init PROVE Store!SInit
    OBVIOUS
  <2>1. \A s \in Sector : Cached(s) = {}
    BY DEF Init, Cached
  <2>2. Contents = disk
    BY <2>1 DEF Init, Contents
  <2> QED
    BY <2>2 DEF Init, Data, Store!SInit
<1>2. IInv /\ IInv' /\ [Next]_vars => [Store!SNext]_(Store!svars)
  BY NextRefines
<1> QED
  BY <1>1, <1>2, Invariance, PTL DEF Spec, ImplementsStore, Store!SSpec
=============================================================================
