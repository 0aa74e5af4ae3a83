-------------------------------- MODULE Ide --------------------------------
(***************************************************************************)
(* The ATA disk driver, devices/ide.c, under the block layer and the       *)
(* partitions: one channel with two disks.  Boot finds the disks and their *)
(* partitions; then threads read and write sectors of the file system's    *)
(* partition of each disk.  The controller, its interrupt line and the     *)
(* disks are hardware, modelled from how the driver uses them: a command   *)
(* takes any time, the interrupt that ends it is taken at any later        *)
(* moment, and a few interrupts come without reason.                       *)
(***************************************************************************)
EXTENDS Partition, FiniteSets

CONSTANTS Thread, Boot,   \* the threads with requests, and the booting one
          Value, Part, NULL,
          DiskSize,       \* sectors of a disk
          MaxSize,        \* sectors from which on a disk is ignored
          Table,          \* Table[dev]: what sector 0 of disk dev holds
          Timeout,        \* {FALSE}; with TRUE, wait_until_idle and wait_while_busy may
                          \* have made all their turns
          Refusal,        \* {FALSE}; with TRUE, a read or a write may be refused
          MaxSpurious     \* bound of the interrupts without reason

ASSUME IdeAssumption ==
  /\ Boot \notin Thread /\ DiskSize \in Nat /\ MaxSize \in Nat /\ DiskSize < MaxSize
  /\ Timeout \subseteq BOOLEAN /\ Refusal \subseteq BOOLEAN /\ MaxSpurious \in Nat
  /\ Value # {}

Device == {0, 1}

\* The entry of the file system's partition in a disk's table.
Home(dev) == LET e == Table[dev].entries
             IN  e[CHOOSE i \in 1 .. Len(e) : e[i].type = BLOCK_FILESYS]

\* The partitions of a list that hold a file system.
Filesys(list) == {list[i] : i \in {j \in DOMAIN list : list[j].type = BLOCK_FILESYS}}

\* The disks are formatted: the scan of each one's table finds one file system,
\* the one of that entry; it begins behind the table and ends on the disk.
ASSUME TableAssumption ==
  \A dev \in Device :
    LET home == Home(dev) IN
    /\ home.offset \in Nat \ {0} /\ home.size \in Nat /\ home.offset + home.size <= DiskSize
    /\ Filesys(partition_scan(Table[dev], DiskSize))
         = {[type |-> BLOCK_FILESYS, start |-> home.offset, size |-> home.size]}

\* Sectors of the file systems, as requests name them.
Sector == UNION {{dev} \X (0 .. Home(dev).size - 1) : dev \in Device}

\* What a thread asks of block_read and block_write.
Request == [op : {"read"}, sector : Sector, part : Part]
           \cup [op : {"write"}, sector : Sector, part : Part, data : Value]

ASSUME NullAssumption == NULL \notin Thread \cup {Boot} \cup Request

VARIABLES pc, request, buffer,   \* of each thread; request is NULL when it has taken effect
          lock,                  \* the holder of the channel's lock, or NULL
          expecting_interrupt, completion_wait,
          is_ata,                \* of each disk
          blocks,                \* blocks[dev]: the registered partitions
          probe,                 \* the disk that Boot is looking at
          panic,
          capacity, disk,        \* hardware: sectors of each disk (0: none), contents
          reg,                   \* the disk and the sector that were selected
          status, data,          \* what the controller does, and its buffer
          irq, spurious          \* an interrupt is pending; how many came unasked

driver == <<lock, expecting_interrupt, completion_wait, is_ata, blocks, probe>>

hardware == <<capacity, disk, reg, status, data, irq, spurious>>

vars == <<pc, request, buffer, driver, panic, hardware>>

\* Bits of the status register.
STA_BSY == status \in {"identifying", "reading", "accepting", "writing"}

STA_DRQ == status \in {"data_in", "data_out"}

FirstValue == CHOOSE v \in Value : TRUE

Init ==
  /\ pc = [t \in Thread \cup {Boot} |-> IF t = Boot THEN "reset" ELSE "start"]
  /\ request = [t \in Thread \cup {Boot} |-> NULL]
  /\ buffer = [t \in Thread |-> FirstValue]
  /\ lock = NULL /\ expecting_interrupt = FALSE /\ completion_wait = 0
  /\ is_ata = [d \in Device |-> FALSE]
  /\ blocks = [d \in Device |-> <<>>]
  /\ probe = 0
  /\ panic = FALSE
  /\ capacity \in [Device -> {0, DiskSize, MaxSize}]
  /\ disk = [d \in Device |-> [s \in 1 .. DiskSize - 1 |-> FirstValue]]
  /\ reg = [dev |-> 0, sector |-> 0]
  /\ status = "idle" /\ data = FirstValue
  /\ irq = FALSE /\ spurious = 0

At(t, l) == ~panic /\ pc[t] = l

Goto(t, l) == pc' = [pc EXCEPT ![t] = l]

-----------------------------------------------------------------------------
\* Hardware.  A command ends: the sector is in the buffer, the controller wants
\* data, or the data are on the disk.  A command that is refused ends without
\* data; IDENTIFY always may be.  The buffer is lost between commands.
Controller ==
  /\ ~panic /\ STA_BSY
  /\ \/ /\ status = "identifying"
        /\ status' \in {"data_in", "idle"}
        /\ irq' = TRUE
        /\ UNCHANGED <<data, disk>>
     \/ /\ status = "reading"
        /\ \E refused \in Refusal : status' = IF refused THEN "idle" ELSE "data_in"
        /\ data' = IF reg.sector = 0 THEN data ELSE disk[reg.dev][reg.sector]
        /\ irq' = TRUE
        /\ UNCHANGED disk
     \/ /\ status = "accepting"
        /\ \E refused \in Refusal : /\ status' = IF refused THEN "idle" ELSE "data_out"
                                    /\ irq' = (refused \/ irq)
        /\ UNCHANGED <<data, disk>>
     \/ /\ status = "writing"
        /\ status' = "idle"
        /\ disk' = [disk EXCEPT ![reg.dev][reg.sector] = data]
        /\ irq' = TRUE
        /\ data' = FirstValue
  /\ UNCHANGED <<pc, request, buffer, driver, panic, capacity, reg, spurious>>

Spurious ==
  /\ ~panic /\ spurious < MaxSpurious /\ ~irq
  /\ irq' = TRUE
  /\ spurious' = spurious + 1
  /\ UNCHANGED <<pc, request, buffer, driver, panic, capacity, disk, reg, status, data>>

interrupt_handler ==
  /\ ~panic /\ irq
  /\ irq' = FALSE
  /\ completion_wait' = completion_wait + (IF expecting_interrupt THEN 1 ELSE 0)
  /\ UNCHANGED <<pc, request, buffer, lock, expecting_interrupt, is_ata, blocks, probe, panic,
                 capacity, disk, reg, status, data, spurious>>

-----------------------------------------------------------------------------
\* The registered partitions of disk dev that hold a file system.
filesys_block(dev) == Filesys(blocks[dev])

\* What thread t does to the channel: the command, the disk and the sector.
Job(t) ==
  IF t = Boot
  THEN [op |-> IF lock = Boot THEN "read" ELSE "identify", dev |-> probe, sector |-> 0]
  ELSE LET r    == request[t]
           part == CHOOSE b \in filesys_block(r.sector[1]) : TRUE
       IN  [op |-> r.op, dev |-> r.sector[1], sector |-> part.start + r.sector[2]]

\* A thread calls block_read or block_write of a partition, which calls them of
\* the disk; check_sector is passed in both.
Submit(t) ==
  /\ At(t, "start") /\ pc[Boot] = "up"
  /\ \E r \in Request :
       LET s == r.sector IN
       /\ \E b \in filesys_block(s[1]) :
            panic' = ~(s[2] < b.size /\ b.start + s[2] < capacity[s[1]])
       /\ request' = [request EXCEPT ![t] = r]
  /\ Goto(t, "lock")
  /\ UNCHANGED <<buffer, driver, hardware>>

lock_acquire(t) ==
  /\ At(t, "lock") /\ lock = NULL
  /\ lock' = t
  /\ Goto(t, "idle1")
  /\ UNCHANGED <<request, buffer, expecting_interrupt, completion_wait, is_ata, blocks, probe,
                 panic, hardware>>

\* wait_until_idle, before and after select_device.  It reads the status
\* register, and so clears an interrupt that is pending.
wait_until_idle(t) ==
  /\ At(t, "idle1") \/ At(t, "idle2")
  /\ \E timeout \in Timeout : timeout \/ (~STA_BSY /\ ~STA_DRQ)
  /\ irq' = FALSE
  /\ Goto(t, IF pc[t] = "idle1" THEN "select"
             ELSE IF Job(t).op = "identify" THEN "command" ELSE "sector")
  /\ UNCHANGED <<request, buffer, driver, panic, capacity, disk, reg, status, data, spurious>>

select_device(t) ==
  /\ At(t, "select")
  /\ reg' = [reg EXCEPT !.dev = Job(t).dev]
  /\ Goto(t, "idle2")
  /\ UNCHANGED <<request, buffer, driver, panic, capacity, disk, status, data, irq, spurious>>

\* Mutant: the device bit of the last register is forgotten.
select_sector_master(t) ==
  /\ At(t, "sector")
  /\ reg' = [dev |-> 0, sector |-> Job(t).sector]
  /\ Goto(t, "command")
  /\ UNCHANGED <<request, buffer, driver, panic, capacity, disk, status, data, irq, spurious>>

select_sector(t) ==
  /\ At(t, "sector")
  /\ reg' = [dev |-> Job(t).dev, sector |-> Job(t).sector]
  /\ Goto(t, "command")
  /\ UNCHANGED <<request, buffer, driver, panic, capacity, disk, status, data, irq, spurious>>

\* Mutant: the interrupt is not announced to the handler.
issue_pio_command_quiet(t) ==
  LET op == Job(t).op
  IN  /\ At(t, "command")
      /\ status' = IF STA_BSY \/ STA_DRQ THEN status
                   ELSE CASE op = "write" -> "accepting"
                          [] op = "read" -> "reading"
                          [] op = "identify" -> "identifying"
      /\ Goto(t, IF op = "write" THEN "busy" ELSE "wait")
      /\ UNCHANGED <<request, buffer, driver, panic, capacity, disk, reg, data, irq, spurious>>

\* A busy controller ignores the command.
issue_pio_command(t) ==
  LET op == Job(t).op
  IN  /\ At(t, "command")
      /\ expecting_interrupt' = TRUE
      /\ status' = IF STA_BSY \/ STA_DRQ THEN status
                   ELSE CASE op = "write" -> "accepting"
                          [] op = "read" -> "reading"
                          [] op = "identify" -> "identifying"
      /\ Goto(t, IF op = "write" THEN "busy" ELSE "wait")
      /\ UNCHANGED <<request, buffer, lock, completion_wait, is_ata, blocks, probe, panic,
                     capacity, disk, reg, data, irq, spurious>>

\* sema_down (&c->completion_wait).  After it a write is over.
sema_down(t) ==
  /\ At(t, "wait") /\ completion_wait > 0
  /\ completion_wait' = completion_wait - 1
  /\ Goto(t, IF t # Boot /\ request[t] = NULL THEN "unlock" ELSE "busy")
  /\ UNCHANGED <<request, buffer, lock, expecting_interrupt, is_ata, blocks, probe, panic, hardware>>

\* wait_while_busy returns false: no data at the end of the command, or the last
\* turn is over.
NoData(timeout) == IF timeout THEN TRUE ELSE ~STA_BSY /\ ~STA_DRQ

\* wait_while_busy of a read or a write, which panic if it returns false, and of
\* an IDENTIFY that is answered.
wait_while_busy(t) ==
  /\ At(t, "busy")
  /\ \E timeout \in Timeout :
       /\ STA_DRQ \/ NoData(timeout)
       /\ Job(t).op = "identify" => ~NoData(timeout)
       /\ panic' = NoData(timeout)
  /\ Goto(t, "transfer")
  /\ UNCHANGED <<request, buffer, driver, hardware>>

\* input_sector and output_sector
Transfer(t) ==
  LET op == Job(t).op
  IN  /\ t # Boot /\ At(t, "transfer")
      /\ status' = IF op = "write" THEN "writing" ELSE "idle"
      /\ data' = IF op = "write" THEN request[t].data ELSE FirstValue
      /\ buffer' = IF op = "write" THEN buffer ELSE [buffer EXCEPT ![t] = data]
      /\ request' = [request EXCEPT ![t] = NULL]
      /\ Goto(t, IF op = "write" THEN "wait" ELSE "unlock")
      /\ UNCHANGED <<driver, panic, capacity, disk, reg, irq, spurious>>

lock_release(t) ==
  /\ t # Boot /\ At(t, "unlock")
  /\ lock' = NULL
  /\ Goto(t, "start")
  /\ UNCHANGED <<request, buffer, expecting_interrupt, completion_wait, is_ata, blocks, probe,
                 panic, hardware>>

-----------------------------------------------------------------------------
\* reset_channel
Reset ==
  /\ At(Boot, "reset")
  /\ status' = "idle"
  /\ Goto(Boot, "check")
  /\ UNCHANGED <<request, buffer, driver, panic, capacity, disk, reg, data, irq, spurious>>

\* What a disk, another device or nobody may answer: the error register, whether
\* the status has DRDY and not BSY, and whether the signature is an ATA disk's.
Answer(dev) ==
  {a \in [error : {0, 1, 129}, ready : BOOLEAN, signature : BOOLEAN] :
     IF capacity[dev] > 0 THEN a = [error |-> 1, ready |-> TRUE, signature |-> TRUE]
     ELSE ~(a.ready /\ a.signature)}

\* Disk 1 is looked at if disk 0 says that there may be one.
check_device_type ==
  /\ At(Boot, "check")
  /\ \E a \in Answer(probe) :
       LET bad   == \/ a.error # 1 /\ (a.error # 129 \/ probe = 1)
                    \/ ~a.ready
           slave == bad => a.error # 129
       IN  /\ is_ata' = [is_ata EXCEPT ![probe] = ~bad /\ a.signature]
           /\ reg' = [reg EXCEPT !.dev = probe]
           /\ irq' = FALSE
           /\ IF probe = 0 /\ slave
              THEN probe' = 1 /\ Goto(Boot, "check")
              ELSE probe' = 0 /\ Goto(Boot, "probe")
  /\ UNCHANGED <<request, buffer, lock, expecting_interrupt, completion_wait, blocks, panic,
                 capacity, disk, status, data, spurious>>

\* identify_ata_device of each disk.
Probe ==
  /\ At(Boot, "probe")
  /\ Goto(Boot, IF probe > 1 THEN "up" ELSE IF is_ata[probe] THEN "idle1" ELSE "probe")
  /\ probe' = IF probe <= 1 /\ ~is_ata[probe] THEN probe + 1 ELSE probe
  /\ UNCHANGED <<request, buffer, lock, expecting_interrupt, completion_wait, is_ata, blocks,
                 panic, hardware>>

\* wait_while_busy of an IDENTIFY that is refused, or for which it waits too long
Refused ==
  /\ At(Boot, "busy") /\ lock # Boot
  /\ \E timeout \in Timeout : NoData(timeout)
  /\ is_ata' = [is_ata EXCEPT ![probe] = FALSE]
  /\ probe' = probe + 1
  /\ Goto(Boot, "probe")
  /\ UNCHANGED <<request, buffer, lock, expecting_interrupt, completion_wait, blocks, panic,
                 hardware>>

\* The identity is read: a large disk is ignored, another one scanned.
Identified ==
  /\ At(Boot, "transfer") /\ lock # Boot
  /\ status' = "idle"
  /\ IF capacity[probe] >= MaxSize
     THEN /\ is_ata' = [is_ata EXCEPT ![probe] = FALSE]
          /\ probe' = probe + 1
          /\ Goto(Boot, "probe")
     ELSE Goto(Boot, "lock") /\ UNCHANGED <<is_ata, probe>>
  /\ UNCHANGED <<request, buffer, lock, expecting_interrupt, completion_wait, blocks, panic,
                 capacity, disk, reg, data, irq, spurious>>

\* partition_scan has read sector 0.
Scanned ==
  /\ At(Boot, "transfer") /\ lock = Boot
  /\ status' = "idle"
  /\ blocks' = [blocks EXCEPT ![probe] = partition_scan(Table[probe], capacity[probe])]
  /\ lock' = NULL
  /\ probe' = probe + 1
  /\ Goto(Boot, "probe")
  /\ UNCHANGED <<request, buffer, expecting_interrupt, completion_wait, is_ata, panic,
                 capacity, disk, reg, data, irq, spurious>>

-----------------------------------------------------------------------------
\* No wait of the driver ends before the controller is ready, and no read or
\* write is refused.
Reliable == TRUE \notin Timeout \cup Refusal

Steps(t) ==
  \/ lock_acquire(t) \/ wait_until_idle(t) \/ select_device(t) \/ select_sector(t)
  \/ issue_pio_command(t) \/ sema_down(t) \/ wait_while_busy(t) \/ Transfer(t) \/ lock_release(t)

Booting == Reset \/ check_device_type \/ Probe \/ Refused \/ Identified \/ Scanned

Next ==
  \/ Controller \/ Spurious \/ interrupt_handler
  \/ Booting
  \/ \E t \in Thread : Submit(t)
  \/ \E t \in Thread \cup {Boot} : Steps(t)

\* The controller ends commands, interrupts are taken, and threads run.
Fairness ==
  /\ WF_vars(Controller) /\ WF_vars(interrupt_handler) /\ WF_vars(Booting)
  /\ \A t \in Thread \cup {Boot} : WF_vars(Steps(t))

Spec == Init /\ [][Next]_vars /\ Fairness

-----------------------------------------------------------------------------
\* The contents of the file systems, as the entry of the partition table places
\* them; a sector that the controller is writing counts as written.
Contents ==
  [s \in Sector |->
     LET n == Home(s[1]).offset + s[2]
     IN  [p \in Part |-> IF status = "writing" /\ reg = [dev |-> s[1], sector |-> n] THEN data
                         ELSE disk[s[1]][n]]]

Store == INSTANCE SectorStore WITH
           mem     <- Contents,
           request <- [t \in Thread |-> request[t]]

\* The sectors of the file systems on both disks are a store on which each read
\* returns the last write to that sector of that disk, whoever else uses the
\* channel, and although an interrupt without reason is taken for the end of a
\* command: the driver keeps the promise that the buffer cache is built on.
ImplementsStore == Store!SSpec

Using(t) == pc[t] \notin {"start", "lock", "reset", "check", "probe", "up"}

\* Whoever uses the channel gives it back: no completion is lost, and neither
\* ide_read nor ide_write waits for an interrupt that has come.  No transfer
\* ends in a panic.
ChannelReleased ==
  /\ []~panic
  /\ \A t \in Thread \cup {Boot} : Using(t) ~> ~Using(t)

\* What the comment of ide_write says: it returns after the disk has taken the
\* data.
WrittenWhenReturned ==
  \A t \in Thread : pc[t] = "unlock" => status # "writing"

=============================================================================
