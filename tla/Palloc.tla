------------------------------- MODULE Palloc -------------------------------
(***************************************************************************)
(* The page allocator, threads/palloc.c.  Pages are numbered from 1: those *)
(* of the kernel pool, then those of the user pool.  used is the set of    *)
(* pages whose bits are set in the used_maps; the bits are read and        *)
(* written one at a time, with a lock where a page is taken and without    *)
(* where it is given back.                                                 *)
(*                                                                         *)
(* A caller of an allocator goes through the labels loc[t].pc of its       *)
(* functions, and back to the label loc[t].k.                              *)
(***************************************************************************)
EXTENDS Integers, Sequences, FiniteSets, TLC

CONSTANTS Thread,
          KernelPages, UserPages   \* sizes of the pools

ASSUME PallocAssumption == {KernelPages, UserPages} \subseteq Nat \ {0}

VARIABLES loc,         \* loc[t]: where thread t is, and its local variables
          running,     \* the thread that has the CPU
          used,
          pool_lock,   \* pool_lock[p]: the holder of the pool's lock, or NoThread
          mem,         \* mem[p]: what page p holds, as far as the kernel reads it
          ok           \* FALSE once an ASSERT has failed

palloc_vars == <<used, pool_lock, mem, ok>>

NoThread == "none"

NullPage == 0

Page == 1 .. KernelPages + UserPages

Pool == {"kernel", "user"}

base(pool) == IF pool = "kernel" THEN 1 ELSE KernelPages + 1

PageCnt(pool) == IF pool = "kernel" THEN KernelPages ELSE UserPages

page_from_pool(pool, p) == p \in base(pool) .. base(pool) + PageCnt(pool) - 1

\* Contents that nobody may rely on: what palloc_free_multiple's memset leaves.
Junk == [kind |-> "junk"]

Data == [kind |-> "data"]

Idle == [pc |-> "idle"]

\* Where a thread goes on at label k.
To(k) == [pc |-> k]

\* Thread t is at label l.
At(t, l) == running = t /\ ok /\ loc[t].pc = l

\* Thread t goes on with the locals in r; at some labels it has no others.
Go(t, r) ==
  loc' = [loc EXCEPT ![t] = IF r.pc \in {"idle", "user", "exit"} THEN To(r.pc) ELSE r @@ @]

\* The calls palloc_get_multiple (the page is in local page when it returns)
\* and palloc_free_multiple.
palloc_get_multiple(pool, cnt, k) ==
  [pc |-> IF cnt = 0 THEN k ELSE "get_lock",
   pool |-> pool, cnt |-> cnt, page |-> NullPage, k |-> k]

palloc_free_multiple(page, cnt, k) ==
  [pc |-> "free_fill", page |-> page, cnt |-> cnt, k |-> k]

palloc_get_page(pool, k) == palloc_get_multiple(pool, 1, k)

palloc_free_page(page, k) == palloc_free_multiple(page, 1, k)

PallocInit ==
  /\ used = {}
  /\ pool_lock = [p \in Pool |-> NoThread]
  /\ mem = [p \in Page |-> Junk]
  /\ ok = TRUE

-----------------------------------------------------------------------------
GetLock(t) ==
  /\ At(t, "get_lock") /\ pool_lock[loc[t].pool] = NoThread
  /\ pool_lock' = [pool_lock EXCEPT ![loc[t].pool] = t]
  /\ Go(t, [pc |-> "get_scan", i |-> 0, j |-> 0])
  /\ UNCHANGED <<used, mem, ok>>

\* bitmap_scan tests bit i + j: is the group of cnt bits from i on free?
GetScan(t) ==
  LET r == loc[t]
      p == base(r.pool) + r.i + r.j
  IN  /\ At(t, "get_scan")
      /\ Go(t, IF r.i > PageCnt(r.pool) - r.cnt THEN To("get_unlock")
               ELSE IF p \in used THEN [pc |-> "get_scan", i |-> r.i + 1, j |-> 0]
               ELSE IF r.j + 1 < r.cnt THEN [pc |-> "get_scan", j |-> r.j + 1]
               ELSE [pc |-> "get_flip", j |-> 0, page |-> p - r.j])
      /\ UNCHANGED palloc_vars

GetFlip(t) ==
  LET r == loc[t]
  IN  /\ At(t, "get_flip")
      /\ used' = used \cup {r.page + r.j}
      /\ Go(t, [pc |-> IF r.j + 1 < r.cnt THEN "get_flip" ELSE "get_unlock", j |-> r.j + 1])
      /\ UNCHANGED <<pool_lock, mem, ok>>

GetUnlock(t) ==
  /\ At(t, "get_unlock")
  /\ pool_lock' = [pool_lock EXCEPT ![loc[t].pool] = NoThread]
  /\ Go(t, [pc |-> loc[t].k, i |-> 0, j |-> 0])
  /\ UNCHANGED <<used, mem, ok>>

\* memset, and the ASSERTs.
FreeFill(t) ==
  LET r     == loc[t]
      pages == r.page .. r.page + r.cnt - 1
  IN  /\ At(t, "free_fill")
      /\ mem' = [p \in Page |-> IF p \in pages THEN Junk ELSE mem[p]]
      /\ ok' = (pages \subseteq used
                /\ \E pool \in Pool : page_from_pool(pool, r.page))
      /\ Go(t, [pc |-> "free_clear", i |-> 0])
      /\ UNCHANGED <<used, pool_lock>>

FreeClear(t) ==
  LET r == loc[t]
  IN  /\ At(t, "free_clear")
      /\ used' = used \ {r.page + r.i}
      /\ Go(t, IF r.i + 1 < r.cnt THEN [pc |-> "free_clear", i |-> r.i + 1]
               ELSE [pc |-> r.k, i |-> 0])
      /\ UNCHANGED <<pool_lock, mem, ok>>

PallocStep(t) ==
  GetLock(t) \/ GetScan(t) \/ GetFlip(t) \/ GetUnlock(t) \/ FreeFill(t) \/ FreeClear(t)

=============================================================================
