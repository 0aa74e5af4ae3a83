----------------------------- MODULE BufferCache -----------------------------
(***************************************************************************)
(* The buffer cache of devices/block.c: buffer_cache, its lock, one lock   *)
(* for each entry, the semaphore that counts the entries not in use, and   *)
(* the condition variable on which a thread waits for one.                 *)
(*                                                                         *)
(* Locks are what Threads shows them to be: a lock has at most one owner,  *)
(* and a cond_wait releases its lock and sleeps in one step.  An action is *)
(* what a thread does between two points at which another thread can see   *)
(* or change the state it works on.  A failed ASSERT halts the kernel.     *)
(***************************************************************************)
EXTENDS Integers, FiniteSets

CONSTANTS Thread, Sector, Value, NULL,
          Part,   \* the pieces of a sector that a request reads or writes
          Slots   \* entries of buffer_cache (64)

Slot == 0 .. Slots - 1

VARIABLES
  disk,               \* the sectors of the block device
  buffer_cache,       \* buffer_cache[i]: an entry or NULL
  clock_hand,
  buffer_cache_lock,  \* its owner or NULL
  active_sema,        \* its value
  pc,                 \* where each thread is
  request,            \* the arguments of its call until it is served, or NULL
  offset,             \* the local variable offset
  cur,                \* cur->buffer, until cur is in buffer_cache
  again,              \* acquire_buffer_entry_lock was called after a wait
  buffer              \* the caller's buffer, after a read

vars == <<disk, buffer_cache, clock_hand, buffer_cache_lock, active_sema, pc,
          request, offset, cur, again, buffer>>

Request == [op : {"read"}, sector : Sector, part : Part]
           \cup [op : {"write"}, sector : Sector, part : Part, data : Value]

Data == [Part -> Value]

Entry == [buffered_sector : Sector, buffer : Data, use_bit : {0, 1},
          dirty_bit : {0, 1}, sector_lock : Thread \cup {NULL}]

\* NULL is none of the things that it may stand in for.
ASSUME BufferCacheAssumption ==
  /\ Slots \in Nat \ {0}
  /\ NULL \notin Thread \cup Request \cup Data \cup Entry

Pc == {"idle", "acquire", "entry", "try", "copy", "wait", "asleep",
       "not_buffered", "nb_try", "nb_wait", "nb_asleep", "nb_again", "fill",
       "evict", "install", "up", "broadcast", "flush", "flushing",
       "presence_failed", "relock_failed"}

TypeOK ==
  /\ disk \in [Sector -> Data]
  /\ buffer_cache \in [Slot -> Entry \cup {NULL}]
  /\ clock_hand \in Slot
  /\ buffer_cache_lock \in Thread \cup {NULL}
  /\ active_sema \in 0 .. Slots
  /\ pc \in [Thread -> Pc]
  /\ request \in [Thread -> Request \cup {NULL}]
  /\ offset \in [Thread -> 0 .. Slots]
  /\ cur \in [Thread -> Data \cup {NULL}]
  /\ again \in [Thread -> BOOLEAN]
  /\ buffer \in [Thread -> Value]

\* init_buffer_cache
Init ==
  /\ disk \in [Sector -> Data]
  /\ buffer_cache = [i \in Slot |-> NULL]
  /\ clock_hand = 0
  /\ buffer_cache_lock = NULL
  /\ active_sema = Slots
  /\ pc = [t \in Thread |-> "idle"]
  /\ request = [t \in Thread |-> NULL]
  /\ offset = [t \in Thread |-> 0]
  /\ cur = [t \in Thread |-> NULL]
  /\ again = [t \in Thread |-> FALSE]
  /\ buffer \in [Thread -> Value]

-----------------------------------------------------------------------------
Halted == \E t \in Thread : pc[t] \in {"presence_failed", "relock_failed"}

At(t, p) == ~Halted /\ pc[t] = p

Goto(t, p) == pc' = [pc EXCEPT ![t] = p]

Acquire(t) == buffer_cache_lock = NULL /\ buffer_cache_lock' = t

Release(t) == buffer_cache_lock' = NULL

\* The offsets at which sector s is cached.
Cached(s) ==
  {i \in Slot : buffer_cache[i] # NULL /\ buffer_cache[i].buffered_sector = s}

\* The data with the request's part overwritten: bounded_write.
bounded_write(data, r) == [data EXCEPT ![r.part] = r.data]

\* The request is served: the arguments and locals of the call are dead.
Served(t) ==
  /\ request' = [request EXCEPT ![t] = NULL]
  /\ offset' = [offset EXCEPT ![t] = 0]
  /\ cur' = [cur EXCEPT ![t] = NULL]
  /\ again' = [again EXCEPT ![t] = FALSE]

\* A file system operation calls read_buffered or write_buffered.
Call(t) ==
  /\ At(t, "idle")
  /\ Goto(t, "acquire")
  /\ \E r \in Request : request' = [request EXCEPT ![t] = r]
  /\ UNCHANGED <<disk, buffer_cache, clock_hand, buffer_cache_lock,
                 active_sema, offset, cur, again, buffer>>

\* acquire_buffer_entry_lock up to the lock of the entry.  The thread keeps
\* buffer_cache_lock while it waits for that one.
acquire_buffer_entry_lock(t) ==
  /\ At(t, "acquire")
  /\ buffer_cache_lock = NULL
  /\ \/ /\ Cached(request[t].sector) = {}
        /\ Goto(t, "not_buffered")
        /\ UNCHANGED <<buffer_cache_lock, offset>>
     \/ \E i \in Cached(request[t].sector) :
          /\ \A j \in Cached(request[t].sector) : i <= j
          /\ offset' = [offset EXCEPT ![t] = i]
          /\ Acquire(t)
          /\ Goto(t, "entry")
  /\ UNCHANGED <<disk, buffer_cache, clock_hand, active_sema, request, cur,
                 again, buffer>>

\* The rest of it.  After a wait the caller goes on to check_buffer_presence,
\* whose ASSERT wants buffer_cache_lock held.
LockEntry(t) ==
  /\ At(t, "entry")
  /\ buffer_cache[offset[t]].sector_lock = NULL
  /\ buffer_cache' = [buffer_cache EXCEPT ![offset[t]].sector_lock = t,
                                          ![offset[t]].use_bit = 1]
  /\ Release(t)
  /\ Goto(t, IF again[t] THEN "presence_failed" ELSE "try")
  /\ UNCHANGED <<disk, clock_hand, active_sema, request, offset, cur, again,
                 buffer>>

\* sema_try_down and, when it fails, the release of the entry: interrupts are
\* off.
TryDown(t) ==
  /\ At(t, "try")
  /\ \/ /\ active_sema > 0
        /\ active_sema' = active_sema - 1
        /\ Goto(t, "copy")
        /\ UNCHANGED buffer_cache
     \/ /\ active_sema = 0
        /\ buffer_cache' = [buffer_cache EXCEPT ![offset[t]].sector_lock = NULL]
        /\ Goto(t, "wait")
        /\ UNCHANGED active_sema
  /\ UNCHANGED <<disk, clock_hand, buffer_cache_lock, request, offset, cur,
                 again, buffer>>

\* bounded_read or bounded_write on the cached entry, and its release.
Copy(t) ==
  LET e == buffer_cache[offset[t]]
      r == request[t] IN
  /\ At(t, "copy")
  /\ \/ /\ r.op = "read"
        /\ buffer' = [buffer EXCEPT ![t] = e.buffer[r.part]]
        /\ buffer_cache' = [buffer_cache EXCEPT ![offset[t]].sector_lock = NULL]
     \/ /\ r.op = "write"
        /\ buffer_cache' = [buffer_cache EXCEPT ![offset[t]] =
             [e EXCEPT !.buffer = bounded_write(@, r), !.dirty_bit = 1,
                       !.sector_lock = NULL]]
        /\ UNCHANGED buffer
  /\ Served(t)
  /\ Goto(t, "up")
  /\ UNCHANGED <<disk, clock_hand, buffer_cache_lock, active_sema>>

SemaUp(t) ==
  /\ At(t, "up")
  /\ active_sema' = active_sema + 1
  /\ Goto(t, "broadcast")
  /\ UNCHANGED <<disk, buffer_cache, clock_hand, buffer_cache_lock, request,
                 offset, cur, again, buffer>>

\* cond_broadcast: the threads on inactive_entry go on.
Broadcast(t) ==
  /\ At(t, "broadcast")
  /\ pc' = [u \in Thread |->
              IF u = t THEN "idle"
              ELSE IF pc[u] = "asleep" THEN "acquire"
              ELSE IF pc[u] = "nb_asleep" THEN "nb_again" ELSE pc[u]]
  /\ again' = [u \in Thread |-> again[u] \/ pc[u] = "asleep"]
  /\ UNCHANGED <<disk, buffer_cache, clock_hand, buffer_cache_lock,
                 active_sema, request, offset, cur, buffer>>

\* cond_wait on inactive_entry: the test that failed is some steps back.
CondWait(t) ==
  /\ \/ At(t, "wait") /\ Goto(t, "asleep")
     \/ At(t, "nb_wait") /\ Goto(t, "nb_asleep")
  /\ UNCHANGED <<disk, buffer_cache, clock_hand, buffer_cache_lock,
                 active_sema, request, offset, cur, again, buffer>>

-----------------------------------------------------------------------------
(* read_not_buffered and write_not_buffered                                 *)

\* Mutant: check_sector_cached is not called.
NotBuffered_unchecked(t) ==
  /\ At(t, "not_buffered") \/ At(t, "nb_again")
  /\ Acquire(t)
  /\ Goto(t, "nb_try")
  /\ UNCHANGED <<disk, buffer_cache, clock_hand, active_sema, request, offset,
                 cur, again, buffer>>

\* The sector may have been loaded since acquire_buffer_entry_lock looked.
\* After a wait the code calls read_buffered with buffer_cache_lock held, and
\* its lock_acquire fails an ASSERT.
NotBuffered(t) ==
  /\ At(t, "not_buffered") \/ At(t, "nb_again")
  /\ buffer_cache_lock = NULL
  /\ \/ /\ Cached(request[t].sector) = {}
        /\ Acquire(t)
        /\ Goto(t, "nb_try")
        /\ UNCHANGED again
     \/ /\ Cached(request[t].sector) # {}
        /\ pc[t] = "not_buffered"
        /\ Goto(t, "acquire")
        /\ again' = [again EXCEPT ![t] = FALSE]
        /\ UNCHANGED buffer_cache_lock
     \/ /\ Cached(request[t].sector) # {}
        /\ pc[t] = "nb_again"
        /\ Acquire(t)
        /\ Goto(t, "relock_failed")
        /\ UNCHANGED again
  /\ UNCHANGED <<disk, buffer_cache, clock_hand, active_sema, request, offset,
                 cur, buffer>>

\* Mutant: a load is not counted in active_sema.
NbTryDown_uncounted(t) ==
  /\ At(t, "nb_try")
  /\ Goto(t, "fill")
  /\ UNCHANGED <<disk, buffer_cache, clock_hand, buffer_cache_lock,
                 active_sema, request, offset, cur, again, buffer>>

NbTryDown(t) ==
  /\ At(t, "nb_try")
  /\ \/ /\ active_sema > 0
        /\ active_sema' = active_sema - 1
        /\ Goto(t, "fill")
        /\ UNCHANGED buffer_cache_lock
     \/ /\ active_sema = 0
        /\ Release(t)
        /\ Goto(t, "nb_wait")
        /\ UNCHANGED active_sema
  /\ UNCHANGED <<disk, buffer_cache, clock_hand, request, offset, cur, again,
                 buffer>>

\* block_read into the new entry.
Fill(t) ==
  /\ At(t, "fill")
  /\ cur' = [cur EXCEPT ![t] = disk[request[t].sector]]
  /\ Goto(t, "evict")
  /\ UNCHANGED <<disk, buffer_cache, clock_hand, buffer_cache_lock,
                 active_sema, request, offset, again, buffer>>

\* Mutant: a dirty entry is not written back.
buffer_evict_dropping(i) ==
  /\ buffer_cache' = [buffer_cache EXCEPT ![i] = NULL]
  /\ UNCHANGED disk

\* buffer_evict(i): the entry's lock is free, and so it stays while the caller
\* has buffer_cache_lock.
buffer_evict(i) ==
  /\ disk' = IF buffer_cache[i].dirty_bit = 1
             THEN [disk EXCEPT ![buffer_cache[i].buffered_sector] =
                                 buffer_cache[i].buffer]
             ELSE disk
  /\ buffer_cache' = [buffer_cache EXCEPT ![i] = NULL]

\* Mutant: the lock of the entry is not tried.
clock_algorithm_evict_unlocked(t) ==
  LET i == clock_hand IN
  /\ At(t, "evict")
  /\ clock_hand' = (clock_hand + 1) % Slots
  /\ offset' = [offset EXCEPT ![t] = i]
  /\ Goto(t, "install")
  /\ \/ buffer_cache[i] = NULL /\ UNCHANGED <<disk, buffer_cache>>
     \/ buffer_cache[i] # NULL /\ buffer_evict(i)
  /\ UNCHANGED <<buffer_cache_lock, active_sema, request, cur, again, buffer>>

\* Mutant: the use bit is not cleared.
clock_algorithm_evict_spinning(t) ==
  LET i == clock_hand IN
  /\ At(t, "evict")
  /\ clock_hand' = (clock_hand + 1) % Slots
  /\ \/ /\ buffer_cache[i] = NULL
        /\ offset' = [offset EXCEPT ![t] = i]
        /\ Goto(t, "install")
        /\ UNCHANGED buffer_cache
     \/ /\ buffer_cache[i] # NULL
        /\ UNCHANGED <<buffer_cache, offset, pc>>
  /\ UNCHANGED <<disk, buffer_cache_lock, active_sema, request, cur, again, buffer>>

\* One turn of the loop of clock_algorithm_evict.
clock_algorithm_evict(t) ==
  LET i == clock_hand IN
  /\ At(t, "evict")
  /\ clock_hand' = (clock_hand + 1) % Slots
  /\ \/ /\ buffer_cache[i] = NULL
        /\ offset' = [offset EXCEPT ![t] = i]
        /\ Goto(t, "install")
        /\ UNCHANGED <<disk, buffer_cache>>
     \/ /\ buffer_cache[i] # NULL
        /\ buffer_cache[i].sector_lock = NULL
        /\ buffer_cache[i].use_bit = 1
        /\ buffer_cache' = [buffer_cache EXCEPT ![i].use_bit = 0]
        /\ UNCHANGED <<disk, offset, pc>>
     \/ /\ buffer_cache[i] # NULL
        /\ buffer_cache[i].sector_lock = NULL
        /\ buffer_cache[i].use_bit = 0
        /\ buffer_evict(i)
        /\ offset' = [offset EXCEPT ![t] = i]
        /\ Goto(t, "install")
     \/ /\ buffer_cache[i] # NULL
        /\ buffer_cache[i].sector_lock # NULL
        /\ UNCHANGED <<disk, buffer_cache, offset, pc>>
  /\ UNCHANGED <<buffer_cache_lock, active_sema, request, cur, again, buffer>>

\* bounded_read or bounded_write on the new entry, which becomes visible.
Install(t) ==
  LET r == request[t] IN
  /\ At(t, "install")
  /\ buffer_cache' = [buffer_cache EXCEPT ![offset[t]] =
       [buffered_sector |-> r.sector,
        buffer |-> IF r.op = "write" THEN bounded_write(cur[t], r) ELSE cur[t],
        use_bit |-> 1,
        dirty_bit |-> IF r.op = "write" THEN 1 ELSE 0,
        sector_lock |-> NULL]]
  /\ buffer' = IF r.op = "read" THEN [buffer EXCEPT ![t] = cur[t][r.part]]
               ELSE buffer
  /\ Served(t)
  /\ Release(t)
  /\ Goto(t, "up")
  /\ UNCHANGED <<disk, clock_hand, active_sema>>

-----------------------------------------------------------------------------
(* flush_buffer_cache, called by filesys_done and by a system call          *)

flush_buffer_cache(t) ==
  /\ At(t, "idle")
  /\ Goto(t, "flush")
  /\ UNCHANGED <<disk, buffer_cache, clock_hand, buffer_cache_lock,
                 active_sema, request, offset, cur, again, buffer>>

FlushLock(t) ==
  /\ At(t, "flush")
  /\ Acquire(t)
  /\ offset' = [offset EXCEPT ![t] = 0]
  /\ Goto(t, "flushing")
  /\ UNCHANGED <<disk, buffer_cache, clock_hand, active_sema, request, cur,
                 again, buffer>>

\* Mutant: an entry in use is skipped.
FlushSlot_skipping(t) ==
  LET i == offset[t] IN
  /\ At(t, "flushing")
  /\ i < Slots
  /\ \/ /\ buffer_cache[i] # NULL => buffer_cache[i].sector_lock # NULL
        /\ UNCHANGED <<disk, buffer_cache>>
     \/ /\ buffer_cache[i] # NULL
        /\ buffer_cache[i].sector_lock = NULL
        /\ buffer_evict(i)
  /\ offset' = [offset EXCEPT ![t] = i + 1]
  /\ UNCHANGED <<clock_hand, buffer_cache_lock, active_sema, pc, request, cur,
                 again, buffer>>

\* One turn of its loop: an entry in use is waited for.
FlushSlot(t) ==
  LET i == offset[t] IN
  /\ At(t, "flushing")
  /\ i < Slots
  /\ \/ /\ buffer_cache[i] = NULL
        /\ UNCHANGED <<disk, buffer_cache>>
     \/ /\ buffer_cache[i] # NULL
        /\ buffer_cache[i].sector_lock = NULL
        /\ buffer_evict(i)
  /\ offset' = [offset EXCEPT ![t] = i + 1]
  /\ UNCHANGED <<clock_hand, buffer_cache_lock, active_sema, pc, request, cur,
                 again, buffer>>

FlushEnd(t) ==
  /\ At(t, "flushing")
  /\ offset[t] = Slots
  /\ offset' = [offset EXCEPT ![t] = 0]
  /\ Release(t)
  /\ Goto(t, "idle")
  /\ UNCHANGED <<disk, buffer_cache, clock_hand, active_sema, request, cur,
                 again, buffer>>

-----------------------------------------------------------------------------
Step(t) ==
  \/ acquire_buffer_entry_lock(t) \/ LockEntry(t) \/ TryDown(t) \/ Copy(t)
  \/ SemaUp(t) \/ Broadcast(t) \/ CondWait(t)
  \/ NotBuffered(t) \/ NbTryDown(t) \/ Fill(t)
  \/ clock_algorithm_evict(t) \/ Install(t)
  \/ FlushLock(t) \/ FlushSlot(t) \/ FlushEnd(t)

Next ==
  \E t \in Thread : Call(t) \/ flush_buffer_cache(t) \/ Step(t)

Spec == Init /\ [][Next]_vars

\* A thread that can go on does (the scheduler is round robin).
FairSpec == Spec /\ \A t \in Thread : WF_vars(Step(t))
-----------------------------------------------------------------------------
(* Properties                                                               *)

\* The threads that have taken a unit of active_sema.
Active == {t \in Thread : pc[t] \in {"copy", "fill", "evict", "install", "up"}}

\* A sector is in at most one entry, although acquire_buffer_entry_lock gives
\* up buffer_cache_lock between finding that it is in none and loading it: two
\* copies would drift apart.
CachedOnce == \A s \in Sector : Cardinality(Cached(s)) <= 1

\* A thread that copies to or from an entry owns the lock of an entry that is
\* still in the cache and still holds its sector: neither clock_algorithm_evict
\* nor flush_buffer_cache frees an entry under a thread that found it.
NoUseAfterFree ==
  \A t \in Thread : pc[t] \in {"try", "copy"} =>
    /\ buffer_cache[offset[t]] # NULL
    /\ buffer_cache[offset[t]].buffered_sector = request[t].sector
    /\ buffer_cache[offset[t]].sector_lock = t

\* The comment on clock_algorithm_evict: "The caller needs to make sure that
\* there is at least 1 empty or inactive buffer entry".  active_sema does that:
\* the entries that active threads have locked never fill the cache.
VictimExists ==
  \A t \in Thread : pc[t] \in {"fill", "evict"} =>
    \E i \in Slot : \/ buffer_cache[i] = NULL
                    \/ buffer_cache[i].sector_lock \notin Active

\* The contents of the device as the file system sees them.
Contents ==
  [s \in Sector |->
     IF Cached(s) = {} THEN disk[s]
     ELSE buffer_cache[CHOOSE i \in Cached(s) : TRUE].buffer]

Store == INSTANCE SectorStore WITH mem <- Contents

\* The cache is coherent: whatever is loaded, evicted and flushed meanwhile,
\* every read returns the last write to that part of the sector, and a write
\* changes nothing else.
ImplementsStore == Store!SSpec

\* When flush_buffer_cache ends nothing is left in the cache and the disk holds
\* what the file system has written, although threads that had found their
\* entries before went on writing to them.
FlushComplete ==
  \A t \in Thread : pc[t] = "flushing" /\ offset[t] = Slots =>
    /\ \A i \in Slot : buffer_cache[i] = NULL
    /\ disk = Contents

\* Whoever has buffer_cache_lock gives it up: the loop of
\* clock_algorithm_evict finds a victim, and the owners of the entries that
\* acquire_buffer_entry_lock and flush_buffer_cache wait for never need
\* buffer_cache_lock to go on.
CacheLockReleased ==
  \A t \in Thread : buffer_cache_lock = t ~> (buffer_cache_lock # t \/ Halted)

\* The ASSERT of check_buffer_presence holds where it is called.
PresenceAssert == \A t \in Thread : pc[t] # "presence_failed"

\* The ASSERT of lock_acquire, that the caller does not have the lock, holds
\* for buffer_cache_lock.
RelockAssert == \A t \in Thread : pc[t] # "relock_failed"

\* "Signal all waiters that there is at least an inactive entry": a thread
\* does not sleep on inactive_entry while every entry is inactive and nobody
\* is about to signal.
WaiterIsSignalled ==
  (\E t \in Thread : pc[t] \in {"asleep", "nb_asleep"}) =>
    \E u \in Thread : u \in Active \/ pc[u] = "broadcast"
=============================================================================
