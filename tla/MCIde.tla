------------------------------- MODULE MCIde -------------------------------
(* The partition tables of an instance: the file system's partition starts *)
(* at sector 1 of disk 0 and at sector 2 of disk 1; the others do not fit. *)
EXTENDS Ide

MCTable ==
  [dev \in Device |->
     [signed |-> TRUE,
      entries |-> <<[type |-> 0, offset |-> 1, size |-> 1],
                    [type |-> 32, offset |-> 2, size |-> 2 ^ SectorBits - 1],
                    [type |-> BLOCK_FILESYS, offset |-> dev + 1, size |-> 1],
                    [type |-> 35, offset |-> DiskSize, size |-> 1]>>]]
=============================================================================
