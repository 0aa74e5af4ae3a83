------------------------------- MODULE Malloc -------------------------------
(***************************************************************************)
(* The block allocator, threads/malloc.c, on the page allocator of Palloc. *)
(* A block is its address; a descriptor is its block size.  The page of an *)
(* arena holds the struct arena: its descriptor, BigBlock for a big block, *)
(* and free_cnt.  The magic number is good exactly while mem has an arena. *)
(***************************************************************************)
EXTENDS Palloc, Loader, FiniteSetsExt

CONSTANTS ArenaSize,   \* sizeof (struct arena)
          MinBlock,    \* the smallest block (16)
          SizeBits     \* bits of a size_t (32)

ASSUME MallocAssumption ==
  {ArenaSize, MinBlock, SizeBits} \subseteq Nat \ {0} /\ ArenaSize < PGSIZE

VARIABLES free_list,   \* free_list[d]: the free blocks of descriptor d, in order
          desc_lock,   \* desc_lock[d]: the holder of its lock, or NoThread
          live         \* live[t]: the blocks that t has, and the bytes it asked for

malloc_vars == <<free_list, desc_lock, live>>

SizeT(x) == x % 2 ^ SizeBits

\* malloc_init
descs == {d \in {MinBlock * 2 ^ i : i \in 0 .. 9} : d < PGSIZE \div 2}

blocks_per_arena(d) == (PGSIZE - ArenaSize) \div d

BigBlock == 0

NullBlock == 0

Arena(desc, free_cnt) == [kind |-> "arena", desc |-> desc, free_cnt |-> free_cnt]

arena_to_block(a, d, idx) == a * PGSIZE + ArenaSize + idx * d

ArenaBlocks(a, d) == [i \in 1 .. blocks_per_arena(d) |-> arena_to_block(a, d, i - 1)]

\* The page of the arena, and the ASSERTs of block_to_arena.
block_to_arena(b) == pg_no(b)

IsBlock(b) ==
  LET a == mem[block_to_arena(b)]
  IN  /\ a.kind = "arena"
      /\ IF a.desc = BigBlock THEN pg_ofs(b) = ArenaSize
         ELSE (pg_ofs(b) - ArenaSize) % a.desc = 0

block_size(b) ==
  LET a == mem[block_to_arena(b)]
  IN  IF a.desc # BigBlock THEN a.desc ELSE PGSIZE * a.free_cnt - pg_ofs(b)

MallocInit ==
  /\ free_list = [d \in descs |-> <<>>]
  /\ desc_lock = [d \in descs |-> NoThread]
  /\ live = [t \in Thread |-> {}]

-----------------------------------------------------------------------------
\* malloc(size) for a caller that needs want bytes and gives block old back if
\* it gets them.
malloc(t, size, want, old) ==
  LET d        == {x \in descs : x >= size}
      page_cnt == SizeT(SizeT(size + ArenaSize) + PGSIZE - 1) \div PGSIZE
  IN  /\ At(t, "idle") /\ size # 0
      /\ Go(t, [want |-> want, old |-> old] @@
               IF d = {} THEN palloc_get_multiple("kernel", page_cnt, "big")
               ELSE [pc |-> "malloc_lock", d |-> Min(d)])
      /\ UNCHANGED <<palloc_vars, malloc_vars>>

\* Block b is the caller's.  realloc has copied the old block, and frees it.
Allocated(t, b) ==
  LET old == loc[t].old
  IN  /\ live' = [live EXCEPT ![t] = {x \in @ : x.addr # old}
                                     \cup {[addr |-> b, want |-> loc[t].want]}]
      /\ Go(t, IF old = NullBlock THEN Idle ELSE [pc |-> "free", b |-> old])

MallocBig(t) ==
  LET a == loc[t].page
  IN  /\ At(t, "big")
      /\ IF a = NullPage THEN Go(t, Idle) /\ UNCHANGED <<mem, live>>
         ELSE /\ mem' = [mem EXCEPT ![a] = Arena(BigBlock, loc[t].cnt)]
              /\ Allocated(t, a * PGSIZE + ArenaSize)
      /\ UNCHANGED <<used, pool_lock, ok, free_list, desc_lock>>

MallocLock(t) ==
  LET d == loc[t].d
  IN  /\ At(t, "malloc_lock") /\ desc_lock[d] = NoThread
      /\ desc_lock' = [desc_lock EXCEPT ![d] = t]
      /\ Go(t, IF free_list[d] = <<>> THEN palloc_get_page("kernel", "arena")
               ELSE To("pop"))
      /\ UNCHANGED <<palloc_vars, free_list, live>>

\* A new arena, or no page for one.
MallocArena(t) ==
  LET d == loc[t].d
      a == loc[t].page
  IN  /\ At(t, "arena")
      /\ IF a = NullPage
         THEN /\ desc_lock' = [desc_lock EXCEPT ![d] = NoThread]
              /\ Go(t, Idle)
              /\ UNCHANGED <<mem, free_list>>
         ELSE /\ mem' = [mem EXCEPT ![a] = Arena(d, blocks_per_arena(d))]
              /\ free_list' = [free_list EXCEPT ![d] = @ \o ArenaBlocks(a, d)]
              /\ Go(t, To("pop"))
              /\ UNCHANGED desc_lock
      /\ UNCHANGED <<used, pool_lock, ok, live>>

MallocPop(t) ==
  LET d == loc[t].d
      b == Head(free_list[d])
  IN  /\ At(t, "pop")
      /\ ok' = IsBlock(b)
      /\ free_list' = [free_list EXCEPT ![d] = Tail(@)]
      /\ mem' = [mem EXCEPT ![block_to_arena(b)] =
                   IF @.kind = "arena" THEN [@ EXCEPT !.free_cnt = @ - 1] ELSE @]
      /\ Go(t, [pc |-> "malloc_unlock", b |-> b])
      /\ UNCHANGED <<used, pool_lock, desc_lock, live>>

MallocUnlock(t) ==
  /\ At(t, "malloc_unlock")
  /\ desc_lock' = [desc_lock EXCEPT ![loc[t].d] = NoThread]
  /\ Allocated(t, loc[t].b)
  /\ UNCHANGED <<palloc_vars, free_list>>

\* The callers' other ways in.
calloc(t, a, b) ==
  LET size == SizeT(a * b)
  IN  size >= a /\ size >= b /\ malloc(t, size, a * b, NullBlock)

realloc(t, old, new_size) == malloc(t, new_size, new_size, old)

-----------------------------------------------------------------------------
\* free(x.addr), also as realloc(x.addr, 0)
free(t, x) ==
  /\ At(t, "idle")
  /\ live' = [live EXCEPT ![t] = @ \ {x}]
  /\ Go(t, [pc |-> "free", b |-> x.addr])
  /\ UNCHANGED <<palloc_vars, free_list, desc_lock>>

FreeBlock(t) ==
  LET b == loc[t].b
      a == block_to_arena(b)
  IN  /\ At(t, "free")
      /\ ok' = IsBlock(b)
      /\ Go(t, IF ~IsBlock(b) THEN To("free")
               ELSE IF mem[a].desc = BigBlock
               THEN palloc_free_multiple(a, mem[a].free_cnt, "idle")
               ELSE [pc |-> "free_lock", d |-> mem[a].desc])
      /\ UNCHANGED <<used, pool_lock, mem, malloc_vars>>

FreeLock(t) ==
  LET d == loc[t].d
  IN  /\ At(t, "free_lock") /\ desc_lock[d] = NoThread
      /\ desc_lock' = [desc_lock EXCEPT ![d] = t]
      /\ Go(t, To("push"))
      /\ UNCHANGED <<palloc_vars, free_list, live>>

\* Mutant: the blocks of an arena that is given back stay on the free list.
FreePush_keeping(t) ==
  LET d   == loc[t].d
      b   == loc[t].b
      a   == block_to_arena(b)
      cnt == mem[a].free_cnt + 1
  IN  /\ At(t, "push")
      /\ mem' = [mem EXCEPT ![a].free_cnt = cnt]
      /\ free_list' = [free_list EXCEPT ![d] = <<b>> \o @]
      /\ Go(t, IF cnt >= blocks_per_arena(d) THEN palloc_free_page(a, "free_unlock")
               ELSE To("free_unlock"))
      /\ UNCHANGED <<used, pool_lock, ok, desc_lock, live>>

\* An arena without blocks in use is taken apart, and its page given back.
FreePush(t) ==
  LET d     == loc[t].d
      b     == loc[t].b
      a     == block_to_arena(b)
      cnt   == mem[a].free_cnt + 1
      list  == <<b>> \o free_list[d]
      whole == cnt >= blocks_per_arena(d)
  IN  /\ At(t, "push")
      /\ mem' = [mem EXCEPT ![a].free_cnt = cnt]
      /\ ok' = (whole => cnt = blocks_per_arena(d))
      /\ free_list' = [free_list EXCEPT ![d] =
                         IF whole THEN SelectSeq(list, LAMBDA x : block_to_arena(x) # a)
                         ELSE list]
      /\ Go(t, IF whole THEN palloc_free_page(a, "free_unlock") ELSE To("free_unlock"))
      /\ UNCHANGED <<used, pool_lock, desc_lock, live>>

FreeUnlock(t) ==
  /\ At(t, "free_unlock")
  /\ desc_lock' = [desc_lock EXCEPT ![loc[t].d] = NoThread]
  /\ Go(t, Idle)
  /\ UNCHANGED <<palloc_vars, free_list, live>>

MallocStep(t) ==
  \/ MallocBig(t) \/ MallocLock(t) \/ MallocArena(t) \/ MallocPop(t) \/ MallocUnlock(t)
  \/ FreeBlock(t) \/ FreeLock(t) \/ FreePush(t) \/ FreeUnlock(t)

=============================================================================
