------------------------------- MODULE Memory -------------------------------
(***************************************************************************)
(* Who allocates memory: kernel threads that call malloc and free, and     *)
(* processes that load() of userprog/process.c builds an address space for *)
(* and process_exit() takes it down, with the page directories of          *)
(* userprog/pagedir.c.  Any allocation and any read of the executable may  *)
(* fail.  One thread runs at a time; the timer may switch to another one   *)
(* before any step.                                                        *)
(***************************************************************************)
EXTENDS Malloc

CONSTANTS Kernel, Process,   \* the threads that call malloc, and that load programs
          Size,              \* sizes asked of malloc and realloc
          Array,             \* pairs of sizes asked of calloc
          MaxLive,           \* bound of the blocks that a thread holds
          Program,           \* executables: sequences of program headers
          FileLength,        \* bytes of an executable
          PtEntries          \* entries of a page table (1024)

ASSUME MemoryAssumption ==
  /\ Kernel \cup Process = Thread
  /\ Size \subseteq Nat /\ Array \subseteq Nat \X Nat
  /\ {MaxLive, FileLength} \subseteq Nat /\ PtEntries \in Nat \ {0}

VARIABLES pagedir,   \* pagedir[t]: the page directory of process t, or NullPage
          cr3        \* the active page directory; NullPage for init_page_dir

vars == <<loc, running, used, pool_lock, mem, ok, free_list, desc_lock, live, pagedir, cr3>>

StackPage == pg_no(PHYS_BASE) - 1

PdEntries == StackPage \div PtEntries + 1

pd_no(upage) == upage \div PtEntries

pt_no(upage) == upage % PtEntries

\* What pages of page directories and page tables hold.
Directory == [kind |-> "directory", pt |-> [i \in 0 .. PdEntries - 1 |-> NullPage]]

Table == [kind |-> "table", page |-> [i \in 0 .. PtEntries - 1 |-> NullPage]]

\* lookup_page: the page table for upage, and the page it maps.
lookup_pt(pd, upage) == mem[pd].pt[pd_no(upage)]

pagedir_get_page(pd, upage) ==
  IF lookup_pt(pd, upage) = NullPage THEN NullPage
  ELSE mem[lookup_pt(pd, upage)].page[pt_no(upage)]

Init ==
  /\ PallocInit /\ MallocInit
  /\ loc = [t \in Thread |-> Idle]
  /\ running \in Thread
  /\ pagedir = [t \in Thread |-> NullPage]
  /\ cr3 = NullPage

\* schedule: the next thread's process_activate loads its page directory.
Switch(t) ==
  /\ running # t
  /\ running' = t
  /\ cr3' = pagedir[t]
  /\ UNCHANGED <<loc, palloc_vars, malloc_vars, pagedir>>

-----------------------------------------------------------------------------
\* load(): the page directory, then the program headers.
LoadStart(t) ==
  /\ At(t, "idle")
  /\ \E segs \in Program :
       Go(t, [segs |-> segs] @@ palloc_get_page("kernel", "directory"))
  /\ UNCHANGED <<palloc_vars, malloc_vars, pagedir, cr3>>

LoadDirectory(t) ==
  LET pd == loc[t].page
  IN  /\ At(t, "directory")
      /\ IF pd = NullPage THEN Go(t, To("exit")) /\ UNCHANGED <<mem, pagedir, cr3>>
         ELSE /\ mem' = [mem EXCEPT ![pd] = Directory]
              /\ pagedir' = [pagedir EXCEPT ![t] = pd]
              /\ cr3' = pd
              /\ \E opened \in BOOLEAN : Go(t, To(IF opened THEN "segment" ELSE "exit"))
      /\ UNCHANGED <<used, pool_lock, ok, malloc_vars>>

\* The next program header, or setup_stack.  PT_LOAD is loaded, PT_INTERP
\* stands for the types that are refused, and the others are skipped.
LoadSegment(t) ==
  LET segs == loc[t].segs
      ph   == Head(segs)
      refused == \/ ph.type = "PT_INTERP"
                 \/ ph.type = "PT_LOAD" /\ ~validate_segment(ph, FileLength)
  IN  /\ At(t, "segment")
      /\ \E read \in BOOLEAN :
           Go(t, IF segs = <<>> THEN palloc_get_page("user", "stack")
                 ELSE IF ~read \/ refused THEN To("exit")
                 ELSE IF ph.type # "PT_LOAD" THEN [pc |-> "segment", segs |-> Tail(segs)]
                 ELSE [pc |-> "page", segs |-> Tail(segs), pages |-> load_segment(ph)])
      /\ UNCHANGED <<palloc_vars, malloc_vars, pagedir, cr3>>

LoadPage(t) ==
  /\ At(t, "page")
  /\ Go(t, IF loc[t].pages = <<>> THEN To("segment") ELSE palloc_get_page("user", "read"))
  /\ UNCHANGED <<palloc_vars, malloc_vars, pagedir, cr3>>

\* file_read and memset fill the page; a short read gives it back.
LoadRead(t) ==
  LET kpage == loc[t].page
  IN  /\ At(t, "read")
      /\ IF kpage = NullPage THEN Go(t, To("exit")) /\ UNCHANGED mem
         ELSE \E read \in BOOLEAN :
                /\ mem' = [mem EXCEPT ![kpage] = Data]
                /\ Go(t, IF read THEN [pc |-> "install", kpage |-> kpage, then |-> "page"]
                         ELSE palloc_free_page(kpage, "exit"))
      /\ UNCHANGED <<used, pool_lock, ok, malloc_vars, pagedir, cr3>>

LoadStack(t) ==
  LET kpage == loc[t].page
  IN  /\ At(t, "stack")
      /\ IF kpage = NullPage THEN Go(t, To("exit")) /\ UNCHANGED mem
         ELSE /\ mem' = [mem EXCEPT ![kpage] = Data]
              /\ Go(t, [pc |-> "install", kpage |-> kpage, then |-> "user",
                        pages |-> <<[upage |-> StackPage]>>])
      /\ UNCHANGED <<used, pool_lock, ok, malloc_vars, pagedir, cr3>>

\* install_page: an upage that is mapped fails; pagedir_set_page needs a table.
InstallPage(t) ==
  LET pd    == pagedir[t]
      upage == loc[t].pages[1].upage
  IN  /\ At(t, "install")
      /\ Go(t, IF pagedir_get_page(pd, upage) # NullPage
               THEN palloc_free_page(loc[t].kpage, "exit")
               ELSE IF lookup_pt(pd, upage) = NullPage
               THEN palloc_get_page("kernel", "table")
               ELSE To("set"))
      /\ UNCHANGED <<palloc_vars, malloc_vars, pagedir, cr3>>

\* Mutant: without a page table, the page is not given back.
NewTable_leaking(t) ==
  LET pt    == loc[t].page
      upage == loc[t].pages[1].upage
  IN  /\ At(t, "table")
      /\ IF pt = NullPage THEN Go(t, To("exit")) /\ UNCHANGED mem
         ELSE /\ mem' = [mem EXCEPT ![pt] = Table, ![pagedir[t]].pt[pd_no(upage)] = pt]
              /\ Go(t, To("set"))
      /\ UNCHANGED <<used, pool_lock, ok, malloc_vars, pagedir, cr3>>

NewTable(t) ==
  LET pt    == loc[t].page
      upage == loc[t].pages[1].upage
  IN  /\ At(t, "table")
      /\ IF pt = NullPage THEN Go(t, palloc_free_page(loc[t].kpage, "exit")) /\ UNCHANGED mem
         ELSE /\ mem' = [mem EXCEPT ![pt] = Table, ![pagedir[t]].pt[pd_no(upage)] = pt]
              /\ Go(t, To("set"))
      /\ UNCHANGED <<used, pool_lock, ok, malloc_vars, pagedir, cr3>>

SetPage(t) ==
  LET upage == loc[t].pages[1].upage
      pt    == lookup_pt(pagedir[t], upage)
  IN  /\ At(t, "set")
      /\ ok' = (pagedir_get_page(pagedir[t], upage) = NullPage)
      /\ mem' = [mem EXCEPT ![pt].page[pt_no(upage)] = loc[t].kpage]
      /\ Go(t, IF loc[t].then = "user" THEN To("user")
               ELSE [pc |-> "page", pages |-> Tail(loc[t].pages)])
      /\ UNCHANGED <<used, pool_lock, malloc_vars, pagedir, cr3>>

-----------------------------------------------------------------------------
\* process_exit, after a failed load or from user code.
ExitStart(t) ==
  LET pd == pagedir[t]
  IN  /\ At(t, "user") \/ At(t, "exit")
      /\ pagedir' = [pagedir EXCEPT ![t] = NullPage]
      /\ Go(t, IF pd = NullPage THEN Idle ELSE [pc |-> "activate", pd |-> pd])
      /\ UNCHANGED <<palloc_vars, malloc_vars, cr3>>

\* Mutant: the process's page directory stays active while it is destroyed.
ExitActivate_skipping(t) ==
  /\ At(t, "activate")
  /\ Go(t, [pc |-> "destroy", pde |-> 0, pte |-> 0])
  /\ UNCHANGED <<palloc_vars, malloc_vars, pagedir, cr3>>

ExitActivate(t) ==
  /\ At(t, "activate")
  /\ cr3' = NullPage
  /\ Go(t, [pc |-> "destroy", pde |-> 0, pte |-> 0])
  /\ UNCHANGED <<palloc_vars, malloc_vars, pagedir>>

\* pagedir_destroy, up to the next page that it frees.
DestroyPage(t) ==
  LET r  == loc[t]
      pt == mem[r.pd].pt[r.pde]
      present == {i \in r.pte .. PtEntries - 1 : mem[pt].page[i] # NullPage}
  IN  /\ At(t, "destroy")
      /\ Go(t, IF r.pde = PdEntries THEN palloc_free_page(r.pd, "idle")
               ELSE IF pt = NullPage THEN [pc |-> "destroy", pde |-> r.pde + 1, pte |-> 0]
               ELSE IF present # {}
               THEN [pte |-> Min(present) + 1]
                    @@ palloc_free_page(mem[pt].page[Min(present)], "destroy")
               ELSE [pde |-> r.pde + 1, pte |-> 0] @@ palloc_free_page(pt, "destroy"))
      /\ UNCHANGED <<palloc_vars, malloc_vars, pagedir, cr3>>

ProcessStep(t) ==
  \/ LoadStart(t) \/ LoadDirectory(t) \/ LoadSegment(t) \/ LoadPage(t) \/ LoadRead(t)
  \/ LoadStack(t) \/ InstallPage(t) \/ NewTable(t) \/ SetPage(t)
  \/ ExitStart(t) \/ ExitActivate(t) \/ DestroyPage(t)

\* A kernel thread makes a call.
KernelCall(t) ==
  \/ \E size \in Size :
       \/ Cardinality(live[t]) < MaxLive /\ malloc(t, size, size, NullBlock)
       \/ \E x \in live[t] : realloc(t, x.addr, size)
  \/ \E x \in Array : Cardinality(live[t]) < MaxLive /\ calloc(t, x[1], x[2])
  \/ \E x \in live[t] : free(t, x)

Next ==
  \/ \E t \in Thread : Switch(t)
  \/ \E t \in Thread : PallocStep(t) /\ UNCHANGED <<running, malloc_vars, pagedir, cr3>>
  \/ \E t \in Kernel : (KernelCall(t) \/ MallocStep(t)) /\ UNCHANGED <<running, pagedir, cr3>>
  \/ \E t \in Process : ProcessStep(t) /\ UNCHANGED running

Spec == Init /\ [][Next]_vars

-----------------------------------------------------------------------------
Blocks == UNION {live[t] : t \in Thread}

\* The bytes of a block, and of the header of a page that has one.
Extent(b) == b .. b + block_size(b) - 1

Header(p) == IF mem[p].kind = "arena" THEN p * PGSIZE .. p * PGSIZE + ArenaSize - 1 ELSE {}

\* No ASSERT of the allocators fails.  Every block that a caller holds is in an
\* arena, has at least the bytes that were asked for, and shares no byte with
\* another caller's block, with the header of an arena or with a free block.
\* While nobody is changing a descriptor, free_cnt counts the free blocks of
\* each of its arenas, and every arena has a block in use.
HeapIsSound ==
  LET Free(d) == {free_list[d][i] : i \in 1 .. Len(free_list[d])}
  IN  /\ ok
      /\ \A x \in Blocks :
           /\ IsBlock(x.addr) /\ block_size(x.addr) >= x.want
           /\ {pg_no(a) : a \in Extent(x.addr)} \subseteq used
           /\ \A y \in Blocks : x = y \/ Extent(x.addr) \cap Extent(y.addr) = {}
           /\ \A p \in Page : Extent(x.addr) \cap Header(p) = {}
           /\ \A d \in descs : x.addr \notin Free(d)
      /\ \A d \in descs : desc_lock[d] = NoThread =>
           /\ Cardinality(Free(d)) = Len(free_list[d])
           /\ \A b \in Free(d) : IsBlock(b) /\ mem[block_to_arena(b)].desc = d
           /\ \A p \in Page : mem[p].kind = "arena" /\ mem[p].desc = d =>
                /\ mem[p].free_cnt = Cardinality({b \in Free(d) : block_to_arena(b) = p})
                /\ mem[p].free_cnt < blocks_per_arena(d)

\* A page directory, and the pages that it refers to.
Tree(pd) ==
  LET tables == IF mem[pd].kind # "directory" THEN {}
                ELSE {mem[pd].pt[i] : i \in 0 .. PdEntries - 1} \ {NullPage}
  IN  {pd} \cup tables
      \cup UNION {{mem[pt].page[i] : i \in 0 .. PtEntries - 1} \ {NullPage} : pt \in tables}

PagesOf(x) == pg_no(x.addr) .. pg_no(x.addr + block_size(x.addr) - 1)

\* When no thread is in an allocator or in load() or process_exit(), every page
\* in use belongs to exactly one block's arena or one process's page directory:
\* whichever allocations and reads failed before, no page was lost.
NoPageLost ==
  (\A t \in Thread : loc[t].pc \in {"idle", "user"}) =>
    LET owners == {PagesOf(x) : x \in Blocks}
                  \cup {Tree(pagedir[t]) : t \in {u \in Process : pagedir[u] # NullPage}}
    IN  /\ used = UNION owners
        /\ \A A, B \in owners : A = B \/ A \cap B = {} \/ mem[Min(A)].kind = "arena"
        /\ Cardinality({t \in Process : pagedir[t] # NullPage})
             = Cardinality({pagedir[t] : t \in Process} \ {NullPage})

\* The page directory that the CPU walks is never a page that was given back,
\* and neither are the page tables and the pages that it leads to, although the
\* timer may switch away from and back to a process that is exiting.
ActiveDirectoryLives ==
  cr3 # NullPage =>
    /\ mem[cr3].kind = "directory"
    /\ \A i \in 0 .. PdEntries - 1 :
         mem[cr3].pt[i] # NullPage => mem[mem[cr3].pt[i]].kind = "table"
    /\ Tree(cr3) \subseteq used

=============================================================================
