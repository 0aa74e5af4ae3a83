----------------------------- MODULE Partition -----------------------------
(***************************************************************************)
(* The scan of a disk's partition table, devices/partition.c.  A table is  *)
(* its signature and the type, offset and size of its entries; it stands   *)
(* in sector 0, which every block_read of the scan reads.                  *)
(***************************************************************************)
EXTENDS Integers, Sequences

CONSTANT SectorBits   \* bits of a block_sector_t (32)

ASSUME PartitionAssumption == SectorBits \in Nat \ {0}

Extended == {5, 15, 133, 197}   \* types of extended partitions

BLOCK_FILESYS == 33             \* the type of the file system's partition

SectorT(x) == x % 2 ^ SectorBits

\* The partition that block_register gets, if any.
found_partition(block_size, type, start, size) ==
  IF \/ start >= block_size
     \/ SectorT(start + size) < start
     \/ SectorT(start + size) > block_size
  THEN <<>> ELSE <<[type |-> type, start |-> start, size |-> size]>>

\* The partitions that are registered, in order, by FIRST_ENTRY and those behind it
\* of the table that is taken for the one in sector FROM.
ReadEntries(pt, block_size, from, primary, first_entry) ==
  LET Read[sector \in Nat, primary_extended_sector \in Nat, i \in Nat] ==
        LET e     == pt.entries[i]
            rest  == Read[sector, primary_extended_sector, i + 1]
            first == IF sector = 0 THEN e.offset ELSE primary_extended_sector
            inner == IF sector = 0 THEN e.offset
                     ELSE SectorT(e.offset + primary_extended_sector)
        IN  CASE i > Len(pt.entries) \/ ~pt.signed \/ sector >= block_size -> <<>>
              [] e.size = 0 \/ e.type = 0 -> rest
              [] e.type \in Extended -> Read[inner, first, 1] \o rest
              [] OTHER -> found_partition(block_size, e.type, SectorT(e.offset + sector), e.size)
                          \o rest
  IN  Read[from, primary, first_entry]

partition_scan(pt, block_size) == ReadEntries(pt, block_size, 0, 0, 1)

=============================================================================
