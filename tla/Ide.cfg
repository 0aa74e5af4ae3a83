\* Two threads on two disks of three sectors, with one interrupt without reason.
SPECIFICATION Spec
CONSTANTS
  t1 = t1
  t2 = t2
  boot = boot
  v1 = v1
  v2 = v2
  whole = whole
  NULL = NULL
  Thread = {t1, t2}
  Boot = boot
  Value = {v1, v2}
  Part = {whole}
  DiskSize = 3
  MaxSize = 8
  SectorBits = 4
  Table <- MCTable
  Timeout = {FALSE}
  Refusal = {FALSE}
  MaxSpurious = 1
PROPERTIES ImplementsStore ChannelReleased
CHECK_DEADLOCK FALSE
