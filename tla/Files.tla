-------------------------------- MODULE Files --------------------------------
(***************************************************************************)
(* Processes and the files and directories they have open: the descriptor  *)
(* table (userprog/syscall.c), struct file (filesys/file.c), struct dir    *)
(* and the walk along a path (filesys/directory.c), and the inodes in      *)
(* memory, with their counts of openers and of files that deny writes      *)
(* (filesys/inode.c).                                                      *)
(*                                                                         *)
(* A path is the sequence of its parts.  A file holds bytes, a directory   *)
(* maps names to inode sectors; how they are laid out in blocks is Inode's *)
(* and Directory's subject, and so is what their locks do.  Here a call is *)
(* one step, but for three that change shared state twice without one lock *)
(* around it: they stop in between, where other processes' calls come in   *)
(* when Preempt says so.  The code takes no lock that would prevent any of *)
(* the three; a window that Preempt leaves out is an abstraction.          *)
(***************************************************************************)
EXTENDS Integers, SequencesExt, FiniteSetsExt, Functions, TLC

CONSTANTS Process, NULL,
          Sectors,       \* inode sectors of the file system
          MaxFd,         \* the last file descriptor
          Path,          \* the paths programs use: [abs, parts]
          Zero, Elf,     \* a byte of a fresh block, and one that starts a program
          Byte,          \* the bytes programs write
          Size, Position, \* initial sizes of files; where programs seek to
          MaxLength,     \* bytes in a file
          MaxCreate,     \* files and directories created in a behaviour
          MaxLost,       \* once so many references to inodes are lost, no call loses more
          NameDots,      \* whether programs create and remove "." and ".."
          Preempt        \* which of the calls in two steps others interrupt

ASSUME FilesAssumption ==
  /\ Sectors \in Nat \ {0, 1} /\ MaxFd \in Nat /\ MaxLength \in Nat \ {0}
  /\ MaxCreate \in Nat /\ MaxLost \in Nat
  /\ NameDots \in BOOLEAN /\ Preempt \subseteq {"open", "close", "rmdir"}
  /\ Size \cup Position \subseteq 0 .. MaxLength
  /\ \A path \in Path : path.abs \/ path.parts # <<>>

ROOT_DIR_SECTOR == 1
Sector == 1 .. Sectors
Addr == 1 .. Sectors      \* addresses of struct inode: one for each sector is enough

VARIABLES
  fs,        \* [disk, free, inode, open_inodes]: see below
  proc,      \* the running processes: descriptors, executable, cwd
  pend,      \* the process is between the two halves of a call
  lost,      \* references to a struct inode that no one will close
  created,   \* inodes created so far; each has its number
  panicked   \* an ASSERT has failed

vars == <<fs, proc, pend, lost, created, panicked>>

Dot == "."
DotDot == ".."
LongName == "long"        \* a part of more than NAME_MAX characters

\* What a sector holds, on disk: a file or a directory, or NULL before it is used.
\* fs.free is the free map; a freed sector keeps what it holds until it is used
\* again.
File(bytes, n) == [is_dir |-> FALSE, data |-> bytes, id |-> n]
Dir(names, n) == [is_dir |-> TRUE, entries |-> names, id |-> n]

\* The file system is formatted and holds one program.
Init ==
  /\ fs = [disk |-> [s \in Sector |->
                       CASE s = ROOT_DIR_SECTOR -> Dir([n \in {"prog"} |-> 2], 0)
                         [] s = 2 -> File(<<Elf>>, 1)
                         [] OTHER -> NULL],
           free |-> Sector \ {ROOT_DIR_SECTOR, 2},
           inode |-> [a \in Addr |-> NULL],
           open_inodes |-> {}]
  /\ proc = [p \in Process |-> NULL]
  /\ pend = [p \in Process |-> NULL]
  /\ lost = [a \in Addr |-> 0]
  /\ created = 1
  /\ panicked = FALSE

-----------------------------------------------------------------------------
(* Inodes in memory.  An operator maps the file system to the file system   *)
(* after the call.                                                          *)

NewInode(s) == [sector |-> s, open_cnt |-> 1, removed |-> FALSE, deny_write_cnt |-> 0]

Cached(f, s) == {a \in f.open_inodes : f.inode[a].sector = s}

\* malloc: any address will do, and the sector's number is taken when it is free.
Fresh(f, s) == IF f.inode[s] = NULL THEN s ELSE CHOOSE a \in Addr : f.inode[a] = NULL

\* The struct inode that inode_open returns, and the file system after it.
Opened(f, s) == IF Cached(f, s) # {} THEN CHOOSE a \in Cached(f, s) : TRUE ELSE Fresh(f, s)

inode_open(f, s) ==
  LET a == Opened(f, s) IN
  IF Cached(f, s) # {} THEN [f EXCEPT !.inode[a].open_cnt = @ + 1]
  ELSE [f EXCEPT !.inode[a] = NewInode(s), !.open_inodes = @ \cup {a}]

\* Mutant: the blocks of a removed inode are freed by any close.
inode_close_any(f, a) ==
  LET n == f.inode[a]
      g == [f EXCEPT !.free = IF n.removed THEN @ \cup {n.sector} ELSE @] IN
  IF n.open_cnt > 1 THEN [g EXCEPT !.inode[a].open_cnt = @ - 1]
  ELSE [g EXCEPT !.inode[a] = NULL, !.open_inodes = @ \ {a}]

\* The last close frees the inode, and the blocks of a removed one.
FreeInode(f, a) ==
  LET n == f.inode[a] IN
  [f EXCEPT !.inode[a] = NULL, !.open_inodes = @ \ {a},
            !.free = IF n.removed THEN @ \cup {n.sector} ELSE @]

inode_close(f, a) ==
  IF f.inode[a].open_cnt > 1 THEN [f EXCEPT !.inode[a].open_cnt = @ - 1]
  ELSE FreeInode(f, a)

inode_remove(f, a) == [f EXCEPT !.inode[a].removed = TRUE]

inode_deny_write(f, a) == [f EXCEPT !.inode[a].deny_write_cnt = @ + 1]

inode_allow_write(f, a) == [f EXCEPT !.inode[a].deny_write_cnt = @ - 1]

to_be_removed(f, s) == \E a \in Cached(f, s) : f.inode[a].removed

-----------------------------------------------------------------------------
(* struct file and struct dir: a handle is one or the other.                *)

Handle(f, a, pos, deny) ==
  [inode |-> a, pos |-> pos, deny_write |-> deny,
   id |-> IF f.inode[a].sector \in f.free THEN NULL   \* a history variable:
          ELSE f.disk[f.inode[a].sector].id]          \* what was opened

\* Mutant: closing a file leaves its denial behind.
file_close_denying(f, h) == inode_close(f, h.inode)

file_allow_write(f, h) == IF h.deny_write THEN inode_allow_write(f, h.inode) ELSE f

file_close(f, h) == inode_close(file_allow_write(f, h), h.inode)

\* The node that a handle refers to.
SectorOf(h) == fs.inode[h.inode].sector
NodeOf(h) == fs.disk[SectorOf(h)]

-----------------------------------------------------------------------------
(* Paths                                                                    *)

\* lookup_unsynched: a file is read as if it were a directory, and none of its
\* bytes make an entry.
lookup(f, s, n) ==
  IF f.disk[s].is_dir /\ n \in DOMAIN f.disk[s].entries THEN f.disk[s].entries[n] ELSE NULL

\* One turn of the loop of get_inode_from_path.  The inode that was looked up in
\* a removed directory stays open.  dir_lookup_unsynched asserts that ".." is
\* there.
Walk(f, w, part) ==
  LET next == lookup(f, w.sector, part)
      failed == [w EXCEPT !.sector = NULL] IN
  CASE w.sector = NULL \/ part = LongName -> failed
    [] OTHER -> CASE next = NULL -> [failed EXCEPT !.panic = part = DotDot]
                  [] to_be_removed(f, w.sector) -> [failed EXCEPT !.leak = next]
                  [] OTHER -> [w EXCEPT !.sector = next]

\* The loop of get_inode_from_path, from the root or the working directory.
Walked(f, cwd, path) ==
  LET start == IF path.abs THEN ROOT_DIR_SECTOR ELSE f.inode[cwd.inode].sector
      Turn[k \in 0 .. Len(path.parts)] ==
        IF k = 0 THEN [sector |-> start, leak |-> NULL, panic |-> FALSE]
        ELSE Walk(f, Turn[k - 1], path.parts[k])
  IN  Turn[Len(path.parts)]


\* The sector of the inode that the path names, or NULL.
get_inode_from_path(f, cwd, path) ==
  LET w == Walked(f, cwd, path) IN
  IF w.sector # NULL /\ to_be_removed(f, w.sector) THEN [w EXCEPT !.sector = NULL] ELSE w

\* The walk w to an inode goes on to a directory: it asserts that it is one.
get_dir_from_path(f, w) ==
  [w EXCEPT !.panic = @ \/ (w.sector # NULL /\ ~f.disk[w.sector].is_dir)]

get_subdir_from_path(f, cwd, path) ==
  get_dir_from_path(f, get_inode_from_path(f, cwd, [path EXCEPT !.parts = Front(@)]))

get_last_part(path) == Last(path.parts)

is_empty(f, s) == DOMAIN f.disk[s].entries \subseteq {Dot, DotDot}

-----------------------------------------------------------------------------
(* The calls.  One that changes nothing is a stuttering step.  A call gets   *)
(* the walks that it makes along its path as w, there and parent.           *)

Quiet == \A p \in Process : pend[p] = NULL

\* p runs: the others are in no call, or in a window that Preempt opens.
Running(p) ==
  ~panicked /\ \A q \in Process \ {p} : pend[q] # NULL => pend[q].call \in Preempt

Calling(p) == Running(p) /\ proc[p] # NULL /\ pend[p] = NULL

Within(p, call) == Running(p) /\ pend[p] # NULL /\ pend[p].call = call

Panic == panicked' = TRUE /\ UNCHANGED <<fs, proc, pend, lost, created>>

Lost == MapThenSumSet(LAMBDA a : lost[a], Addr)

\* A call opens the inodes in the sectors ss, and no one closes them.
Lose(f, ss) ==
  /\ Lost < MaxLost
  /\ fs' = FoldLeft(inode_open, f, ss)
  /\ lost' = [a \in Addr |->
                lost[a] + Cardinality({k \in DOMAIN ss : a \in Cached(fs', ss[k])})]
  /\ UNCHANGED <<pend, created, panicked>>

Leak(w) == IF w.leak = NULL THEN <<>> ELSE <<w.leak>>

\* The walk ends with a failed ASSERT, or without an inode.
WalkFails(w) ==
  \/ w.panic /\ Panic
  \/ ~w.panic /\ w.leak # NULL /\ Lose(fs, Leak(w)) /\ UNCHANGED proc

FreeSectors == fs.free

\* The last part of a path that create, mkdir and remove get is a name.  (They
\* read an uninitialized one when the path has no parts.)  The code does not
\* keep programs from the names "." and ".."; NameDots = FALSE does.
Names(path) == path.parts # <<>> /\ (~NameDots => Last(path.parts) \notin {Dot, DotDot})

\* dir_add of a new inode.
Add(d, part, s, node) ==
  /\ created < MaxCreate
  /\ fs' = [fs EXCEPT !.disk[d].entries = @ @@ (part :> s), !.disk[s] = node,
                      !.free = @ \ {s}]
  /\ created' = created + 1
  /\ UNCHANGED <<proc, pend, lost, panicked>>

\* The directory stays open when the last part is too long or the name is taken.
create(p, path, n, w) ==
  LET part == get_last_part(path)
      taken == lookup(fs, w.sector, part) # NULL IN
  /\ Names(path)
  /\ \/ WalkFails(w)
     \/ /\ ~w.panic /\ w.sector # NULL
        /\ part # LongName => taken /\ FreeSectors # {}
        /\ Lose(fs, <<w.sector>>) /\ UNCHANGED proc
     \/ /\ ~w.panic /\ w.sector # NULL
        /\ part # LongName /\ ~taken /\ FreeSectors # {}
        /\ Add(w.sector, part, Min(FreeSectors),
               File([k \in 1 .. n |-> Zero], created + 1))

\* mkdir and subdir_create, which does not close the parent when it fails.
mkdir(p, path, there, w) ==
  LET s == Min(FreeSectors)
      part == get_last_part(path)
      taken == lookup(fs, w.sector, part) # NULL
      leaks == Leak(there) \o Leak(w) IN
  /\ Names(path) /\ part # LongName /\ there.sector = NULL
  /\ \/ Panic /\ (~there.panic => w.panic)
     \/ /\ ~there.panic /\ ~w.panic /\ w.sector = NULL
        /\ leaks # <<>>
        /\ Lose(fs, leaks) /\ UNCHANGED proc
     \/ /\ ~there.panic /\ ~w.panic /\ w.sector # NULL
        /\ FreeSectors # {} => taken
        /\ Lose(fs, <<w.sector>>) /\ UNCHANGED proc
     \/ /\ ~there.panic /\ ~w.panic /\ w.sector # NULL
        /\ FreeSectors # {} /\ ~taken
        /\ Add(w.sector, part, s, Dir(Dot :> s @@ DotDot :> w.sector, created + 1))

Descriptors == 2 .. MaxFd
FreeFds(p) == {k \in Descriptors : proc[p].fd[k] = NULL}

\* The rest of open: the lowest free descriptor; without one the file stays open.
Assign(p, f, a) ==
  /\ fs' = f
  /\ \/ /\ FreeFds(p) # {}
        /\ proc' = [proc EXCEPT ![p].fd[Min(FreeFds(p))] = Handle(f, a, 0, FALSE)]
        /\ UNCHANGED lost
     \/ /\ FreeFds(p) = {}
        /\ lost' = [lost EXCEPT ![a] = @ + 1]
        /\ UNCHANGED proc
  /\ UNCHANGED <<created, panicked>>

\* What the sector field of a new inode can hold; no one looks unless open is interrupted.
Garbage == IF "open" \in Preempt THEN Sector \cup {0} ELSE {0}

\* inode_open puts a new inode in the list and gives up open_lock before it sets
\* the inode's fields: until then they are what malloc found.
open(p, path, w) ==
  LET a == Opened(fs, w.sector) IN
  /\ \/ WalkFails(w)
     \/ /\ ~w.panic /\ w.sector # NULL
        /\ FreeFds(p) = {} => Lost < MaxLost
        /\ \/ /\ Cached(fs, w.sector) # {}
              /\ Assign(p, inode_open(fs, w.sector), a)
              /\ UNCHANGED pend
           \/ /\ Cached(fs, w.sector) = {}
              /\ \E junk \in Garbage :
                   fs' = [fs EXCEPT !.open_inodes = @ \cup {a}, !.inode[a] = NewInode(junk)]
              /\ pend' = [pend EXCEPT ![p] = [call |-> "open", inode |-> a, sector |-> w.sector]]
              /\ UNCHANGED <<proc, lost, created, panicked>>

OpenInit(p) ==
  /\ Within(p, "open")
  /\ Assign(p, [fs EXCEPT !.inode[pend[p].inode] = NewInode(pend[p].sector)], pend[p].inode)
  /\ pend' = [pend EXCEPT ![p] = NULL]

\* file_close or dir_close; the last close has counted down and goes on to free
\* the inode, without open_lock.
close(p, k) ==
  LET h == proc[p].fd[k]
      last == fs.inode[h.inode].open_cnt = 1 IN
  /\ h # NULL
  /\ fs' = IF last THEN [fs EXCEPT !.inode[h.inode].open_cnt = 0] ELSE file_close(fs, h)
  /\ proc' = [proc EXCEPT ![p].fd[k] = NULL]
  /\ pend' = IF last THEN [pend EXCEPT ![p] = [call |-> "close", inode |-> h.inode]] ELSE pend
  /\ UNCHANGED <<lost, created, panicked>>

CloseFree(p) ==
  /\ Within(p, "close")
  /\ fs' = FreeInode(fs, pend[p].inode)
  /\ pend' = [pend EXCEPT ![p] = NULL]
  /\ UNCHANGED <<proc, lost, created, panicked>>

\* dir_remove: the entry goes, and the inode when it is closed for the last time.
dir_remove(f, d, part) ==
  LET s == lookup(f, d, part)
      g == inode_open(f, s)
      a == Opened(f, s) IN
  inode_close([inode_remove(g, a) EXCEPT
                 !.disk[d].entries = [n \in DOMAIN @ \ {part} |-> @[n]]], a)

\* filesys_remove of a file: the inode that the path led to stays open.
RemoveFile(p, path, w, parent) ==
  LET d == parent.sector
      f == inode_open(fs, w.sector) IN
  /\ Names(path)
  /\ \/ WalkFails(w)
     \/ /\ ~w.panic /\ w.sector # NULL /\ ~fs.disk[w.sector].is_dir
        /\ Lost < MaxLost
        /\ fs' = dir_remove(f, d, get_last_part(path))
        /\ lost' = [lost EXCEPT ![Opened(fs, w.sector)] = @ + 1]
        /\ UNCHANGED <<proc, pend, created, panicked>>

\* filesys_remove of a directory: is_empty, and then dir_remove.
RemoveDir(p, path, w, parent) ==
  LET d == parent.sector IN
  /\ Names(path)
  /\ ~w.panic /\ w.sector # NULL /\ fs.disk[w.sector].is_dir /\ is_empty(fs, w.sector)
  /\ fs' = inode_open(fs, d)
  /\ pend' = [pend EXCEPT ![p] = [call |-> "rmdir", inode |-> Opened(fs, d),
                                  sector |-> d, part |-> get_last_part(path)]]
  /\ UNCHANGED <<proc, lost, created, panicked>>

RemoveEmpty(p) ==
  LET d == pend[p].sector
      part == pend[p].part IN
  /\ Within(p, "rmdir")
  /\ fs' = inode_close(IF lookup(fs, d, part) = NULL THEN fs ELSE dir_remove(fs, d, part),
                       pend[p].inode)
  /\ pend' = [pend EXCEPT ![p] = NULL]
  /\ UNCHANGED <<proc, lost, created, panicked>>

chdir(p, there) ==
  LET w == get_dir_from_path(fs, there)
      f == inode_open(fs, w.sector) IN
  /\ \/ WalkFails(w)
     \/ /\ ~w.panic /\ w.sector # NULL
        /\ fs' = inode_close(f, proc[p].cwd.inode)
        /\ proc' = [proc EXCEPT ![p].cwd = Handle(f, Opened(fs, w.sector), 0, FALSE)]
        /\ UNCHANGED <<pend, lost, created, panicked>>

-----------------------------------------------------------------------------
(* Calls on a descriptor                                                    *)

is_valid_fd(p, k) == proc[p].fd[k] # NULL

\* file_read
read(p, k, n) ==
  LET h == proc[p].fd[k]
      left == Len(NodeOf(h).data) - h.pos IN
  /\ is_valid_fd(p, k) /\ ~NodeOf(h).is_dir
  /\ proc' = [proc EXCEPT ![p].fd[k].pos = @ + Min({n, Max({left, 0})})]
  /\ UNCHANGED <<fs, pend, lost, created, panicked>>

\* file_seek; filesize and tell change nothing.
seek(p, k, pos) ==
  /\ is_valid_fd(p, k) /\ ~NodeOf(proc[p].fd[k]).is_dir
  /\ proc' = [proc EXCEPT ![p].fd[k].pos = pos]
  /\ UNCHANGED <<fs, pend, lost, created, panicked>>

\* filesize, read, seek and tell do not expect a directory; write does.
OnDirectory(p, k) ==
  /\ is_valid_fd(p, k) /\ NodeOf(proc[p].fd[k]).is_dir
  /\ Panic

\* The bytes after inode_extend_to_bytes.
Extended(bytes, n) == [k \in 1 .. Max({Len(bytes), n}) |->
                         IF k <= Len(bytes) THEN bytes[k] ELSE Zero]

\* Mutant: a denied write is done.
inode_write_at_allowed(f, a, b, pos) ==
  LET s == f.inode[a].sector IN
  [f EXCEPT !.disk[s].data = [Extended(@, pos + 1) EXCEPT ![pos + 1] = b]]

\* inode_write_at of a byte: it extends the file before it looks at
\* deny_write_cnt.
inode_write_at(f, a, b, pos) ==
  LET s == f.inode[a].sector
      long == Extended(f.disk[s].data, pos + 1) IN
  [f EXCEPT !.disk[s].data = IF f.inode[a].deny_write_cnt > 0 THEN long
                             ELSE [long EXCEPT ![pos + 1] = b]]

\* file_write
write(p, k, b) ==
  LET h == proc[p].fd[k] IN
  /\ is_valid_fd(p, k) /\ ~NodeOf(h).is_dir /\ h.pos < MaxLength
  /\ fs' = inode_write_at(fs, h.inode, b, h.pos)
  /\ proc' = IF fs.inode[h.inode].deny_write_cnt > 0 THEN proc
             ELSE [proc EXCEPT ![p].fd[k].pos = @ + 1]
  /\ UNCHANGED <<pend, lost, created, panicked>>

-----------------------------------------------------------------------------
(* Processes begin and end                                                  *)

\* The kernel or a process starts p: load opens the file, reads its header and
\* denies writes to it, and start_process opens the root directory.  A file
\* that is no program is closed again.
exec(p, name) ==
  LET s == lookup(fs, ROOT_DIR_SECTOR, name)
      f == inode_deny_write(inode_open(fs, s), Opened(fs, s))
      g == inode_open(f, ROOT_DIR_SECTOR) IN
  /\ Running(p) /\ proc[p] = NULL
  /\ ~fs.disk[s].is_dir /\ fs.disk[s].data # <<>> /\ fs.disk[s].data[1] = Elf
  /\ fs' = g
  /\ proc' = [proc EXCEPT ![p] =
                [exe |-> Handle(f, Opened(fs, s), 0, TRUE),
                 cwd |-> Handle(g, Opened(f, ROOT_DIR_SECTOR), 0, FALSE),
                 fd |-> [k \in Descriptors |-> NULL],
                 image |-> fs.disk[s].data]]
  /\ UNCHANGED <<pend, lost, created, panicked>>

\* process_exit
exit(p) ==
  LET open_files == SelectSeq([k \in 1 .. MaxFd - 1 |-> proc[p].fd[k + 1]],
                              LAMBDA h : h # NULL) IN
  /\ Calling(p)
  /\ fs' = FoldLeft(file_close, fs, <<proc[p].exe>> \o open_files \o <<proc[p].cwd>>)
  /\ proc' = [proc EXCEPT ![p] = NULL]
  /\ UNCHANGED <<pend, lost, created, panicked>>

PathCall(p, path) ==
  LET there == get_inode_from_path(fs, proc[p].cwd, path)
      parent == get_subdir_from_path(fs, proc[p].cwd, path) IN
  /\ Calling(p)
  /\ \/ \E n \in Size : create(p, path, n, parent)
     \/ mkdir(p, path, there, parent) \/ open(p, path, there) \/ chdir(p, there)
     \/ RemoveFile(p, path, there, parent) \/ RemoveDir(p, path, there, parent)

FdCall(p, k) ==
  /\ Calling(p)
  /\ \/ close(p, k) \/ read(p, k, 1) \/ OnDirectory(p, k)
     \/ \E pos \in Position : seek(p, k, pos)
     \/ \E b \in Byte : write(p, k, b)

Next ==
  \E p \in Process :
    \/ \E path \in Path : PathCall(p, path)
    \/ \E k \in Descriptors : FdCall(p, k)
    \/ \E name \in DOMAIN fs.disk[ROOT_DIR_SECTOR].entries : exec(p, name)
    \/ exit(p) \/ OpenInit(p) \/ CloseFree(p) \/ RemoveEmpty(p)

Spec == Init /\ [][Next]_vars

-----------------------------------------------------------------------------
(* Properties                                                               *)

\* The handles of process p: its executable, its directory, its descriptors.
HandleAt(p, k) == CASE k = 0 -> proc[p].exe [] k = 1 -> proc[p].cwd [] OTHER -> proc[p].fd[k]
Handles == {<<p, k>> \in Process \X (0 .. MaxFd) :
              proc[p] # NULL /\ HandleAt(p, k) # NULL}

\* An inode is in memory, once, as long as someone refers to it: open_cnt
\* counts the struct files and struct dirs and the references that calls have
\* lost, and deny_write_cnt those of them that run it as a program, across
\* every order of open, close, exec, exit, chdir and remove, also between the
\* two halves of a rmdir (inode.c:430).  It does not hold when calls come in
\* between the halves of open or close.  That calls lose references at all is
\* NoReferenceLost's subject.
CountsMatch ==
  LET handle == [h \in Handles |-> HandleAt(h[1], h[2])]
      Refs(a) == {h \in DOMAIN handle : handle[h].inode = a}
      Denied(a) == {h \in Refs(a) : handle[h].deny_write} IN
  Quiet =>
    /\ \A a, b \in fs.open_inodes : fs.inode[a].sector = fs.inode[b].sector => a = b
    /\ \A h \in DOMAIN handle : handle[h].inode \in fs.open_inodes
    /\ \A a \in Addr : lost[a] > 0 => a \in fs.open_inodes
    /\ \A a \in fs.open_inodes :
         LET count == Cardinality(Refs(a)) + lost[a] IN
         /\ count > 0 /\ fs.inode[a].open_cnt = count
         /\ fs.inode[a].deny_write_cnt = Cardinality(Denied(a))

\* What a process has open stays what it opened until it closes it, whoever
\* removes it and whatever is created in the meantime (inode.c:498), unless it
\* was free already when it was opened.  It does not hold when calls come in
\* between the halves of open or close.
HandlesKeepTheirFile ==
  Quiet =>
    \A h \in Handles :
      LET handle == HandleAt(h[1], h[2]) IN
      handle.id # NULL => /\ handle.inode \in fs.open_inodes
                          /\ SectorOf(handle) \notin fs.free
                          /\ NodeOf(handle).id = handle.id

\* The bytes of a running program do not change under it (process.c:386).
ExecutableIntact ==
  \A p \in Process :
    proc[p] # NULL => IsPrefix(proc[p].image, NodeOf(proc[p].exe).data)

\* The names in directories that exist, as pairs of directory and name.
Entries ==
  UNION {{d} \X (DOMAIN fs.disk[d].entries \ {Dot, DotDot}) :
           d \in {s \in Sector \ fs.free : fs.disk[s].is_dir /\ ~to_be_removed(fs, s)}}

\* Every name leads to a file or directory that is neither free nor removed, and
\* that has no other name.
NamesLead ==
  LET Lead(x) == fs.disk[x[1]].entries[x[2]] IN
  /\ \A x \in Entries : Lead(x) \notin fs.free /\ ~to_be_removed(fs, Lead(x))
  /\ \A x, y \in Entries : Lead(x) = Lead(y) => x = y


-----------------------------------------------------------------------------
(* What the following say of the calls has counterexamples.                 *)

\* Only an empty directory is removed: "if (emp)" (filesys.c:102).  So every
\* file and directory has one name, in one directory, until it is removed, and
\* then none; ".." leads to the directory with the name; and a removed
\* directory is empty.
TreeIsSound ==
  LET Live == Sector \ fs.free
      Dirs == {s \in Live : fs.disk[s].is_dir}
      Parents(s) == {d \in Dirs : \E n \in DOMAIN fs.disk[d].entries \ {Dot, DotDot} :
                                    fs.disk[d].entries[n] = s} IN
  Quiet =>
    /\ \A d \in Dirs : to_be_removed(fs, d) \/ Range(fs.disk[d].entries) \subseteq Live
    /\ \A s \in Live \ {ROOT_DIR_SECTOR} :
         IF to_be_removed(fs, s)
         THEN Parents(s) = {} /\ (s \in Dirs => is_empty(fs, s))
         ELSE /\ Cardinality(Parents(s)) = 1
              /\ s \in Dirs => fs.disk[s].entries[DotDot] \in Parents(s)

\* inode_open opens a file or directory that exists: no process has open what
\* the free map says is free (filesys.c:102, ".." of what a removed directory
\* held).
OpensWhatExists == \A h \in Handles : SectorOf(HandleAt(h[1], h[2])) \notin fs.free

\* A path that leads nowhere makes a call fail and no more: "If next was not a
\* directory, our next iteration will check if cur_dir was set to NULL"
\* (directory.c:429).
NoPanic == ~panicked

\* inode_close: "If this was the last reference to INODE, frees its memory"
\* (inode.c:431): no call leaves a reference behind that nobody can close.
NoReferenceLost == Lost = 0

\* file_deny_write "Prevents write operations on FILE's underlying inode"
\* (file.c:118): a running program has the length that it was loaded with.
DeniedKeepsLength ==
  \A p \in Process :
    proc[p] # NULL => Len(NodeOf(proc[p].exe).data) = Len(proc[p].image)
=============================================================================
