----------------------------- MODULE SectorStore -----------------------------
(***************************************************************************)
(* What the buffer cache promises the file system: a sector is a row of    *)
(* bytes, a read returns what the last write left there, and each request  *)
(* takes effect at one moment between its call and its return.             *)
(***************************************************************************)
CONSTANTS Thread, Sector, Part, Value, NULL

VARIABLES mem,      \* the contents of the device
          request,  \* the request each thread is waiting for, or NULL
          buffer    \* what each thread last read

svars == <<mem, request, buffer>>

Request == [op : {"read"}, sector : Sector, part : Part]
           \cup [op : {"write"}, sector : Sector, part : Part, data : Value]

SInit ==
  /\ mem \in [Sector -> [Part -> Value]]
  /\ request = [t \in Thread |-> NULL]
  /\ buffer \in [Thread -> Value]

Submit(t) ==
  /\ request[t] = NULL
  /\ \E r \in Request : request' = [request EXCEPT ![t] = r]
  /\ UNCHANGED <<mem, buffer>>

ReadSector(t) ==
  /\ request[t] \in [op : {"read"}, sector : Sector, part : Part]
  /\ buffer' = [buffer EXCEPT ![t] = mem[request[t].sector][request[t].part]]
  /\ request' = [request EXCEPT ![t] = NULL]
  /\ UNCHANGED mem

WriteSector(t) ==
  /\ request[t] \in [op : {"write"}, sector : Sector, part : Part, data : Value]
  /\ mem' = [mem EXCEPT ![request[t].sector][request[t].part] = request[t].data]
  /\ request' = [request EXCEPT ![t] = NULL]
  /\ UNCHANGED buffer

SNext == \E t \in Thread : Submit(t) \/ ReadSector(t) \/ WriteSector(t)

SSpec == SInit /\ [][SNext]_svars
=============================================================================
