---------------------------- MODULE RamdiskWreq -----------------------------
(***************************************************************************)
(* block/ramdisk/ramdisk_wreq.c: a RAM disk behind a request queue.  The   *)
(* block layer merges bios into requests and keeps them in the elevator;   *)
(* request_fn takes them in an order of the elevator's choice and serves   *)
(* them a segment at a time, all under the queue lock (ramdisk.lock).      *)
(***************************************************************************)
EXTENDS Bvecs, SequencesExt

CONSTANTS
  Clients,     \* processes that use the disk
  Zero,        \* the value of a byte that kzalloc has cleared
  Sectors      \* capacity of the disk (RAMDISK_SIZE / 512)

ASSUME RamdiskAssumption ==
  /\ Zero \notin Clients
  /\ Sectors \in Nat \ {0}

VARIABLES
  at, held,    \* initialisation and cleanup (module Ladder)
  file,        \* per process: has it the disk open?
  ramdiskbuf,  \* the bytes of the disk
  bio,         \* per process: its bio in flight, or NoBio
  elevator,    \* the requests that wait in the queue
  running,     \* the processes in whose context request_fn runs
  rq           \* per process: the request that it serves there, or NoRq

disk == <<at, held>>
vars == <<disk, file, ramdiskbuf, bio, elevator, running, rq>>

Bytes == Sectors * SectorSize
NoBio == [dir |-> "none"]
NoRq == [bios |-> <<>>]

\* A client writes bytes that name it.
Data == {Zero} \cup Clients

Acquired == <<"ramdiskbuf", "blkdev", "gendisk", "queue", "disk">>

\* blk_init_fail without its put_disk.
UndoneBy_LeaksDisk ==
  [ramdiskbuf |-> {}, blkdev |-> {"ramdiskbuf"},
   gendisk |-> {"ramdiskbuf", "blkdev"}, queue |-> {"ramdiskbuf", "blkdev"}]

\* What the goto labels release; add_disk cannot fail.
UndoneBy ==
  [ramdiskbuf |-> {},
   blkdev     |-> {"ramdiskbuf"},
   gendisk    |-> {"ramdiskbuf", "blkdev"},
   queue      |-> {"ramdiskbuf", "blkdev", "gendisk"}]

\* ramdisk_exit.
Released == <<"disk", "gendisk", "queue", "blkdev", "ramdiskbuf">>

Life == INSTANCE Ladder

TypeOK ==
  /\ Life!TypeOK
  /\ file \in [Clients -> {"closed", "open"}]
  /\ ramdiskbuf \in [0 .. Bytes - 1 -> Data]
  /\ running \subseteq Clients
  /\ \A c \in Clients : bio[c] # NoBio =>
       /\ bio[c].dir \in {"read", "write"}
       /\ bio[c].sector \in 0 .. Sectors - 1
       /\ bio[c].page + Total(bio[c].segs) \in 1 .. Bytes
  /\ \A r \in elevator \cup {rq[c] : c \in Clients} : r # NoRq =>
       /\ r.bios \in Seq(Clients) \ {<<>>}
       /\ r.pos \in 0 .. Sectors
       /\ r.size \in 1 .. Sectors
       /\ r.copied \in BOOLEAN

Init ==
  /\ Life!Init
  /\ file = [c \in Clients |-> "closed"]
  /\ ramdiskbuf = [b \in 0 .. Bytes - 1 |-> Zero]
  /\ bio = [c \in Clients |-> NoBio]
  /\ elevator = {}
  /\ running = {}
  /\ rq = [c \in Clients |-> NoRq]

-----------------------------------------------------------------------------
(* ramdisk_init and ramdisk_exit. *)

Cleared == ramdiskbuf' = [b \in 0 .. Bytes - 1 |-> Zero]

RamdiskInit ==
  /\ \/ Life!Begin /\ UNCHANGED ramdiskbuf
     \/ \E i \in DOMAIN Acquired :
          \/ Life!Acquire(i) /\ IF Acquired[i] = "ramdiskbuf" THEN Cleared
                                                               ELSE UNCHANGED ramdiskbuf
          \/ Life!Fail(i) /\ UNCHANGED ramdiskbuf
  /\ UNCHANGED <<file, bio, elevator, running, rq>>

\* The block operations without .owner.
InUse_NoOwner == FALSE

\* An open disk holds a reference on the module (ramdisk_fops.owner).
InUse == \E c \in Clients : file[c] = "open"

RamdiskExit ==
  /\ \/ Life!Quit /\ ~InUse
     \/ \E i \in DOMAIN Released : Life!Release(i)
  /\ UNCHANGED <<file, ramdiskbuf, bio, elevator, running, rq>>

-----------------------------------------------------------------------------
(* The block layer: opening the disk, submitting bios, running the queue.  *)

\* The disk is there from add_disk on, until the module is going.
RamdiskOpen(c) ==
  /\ file[c] = "closed"
  /\ "disk" \in held
  /\ at[1] # "exit"
  /\ file' = [file EXCEPT ![c] = "open"]
  /\ UNCHANGED <<disk, ramdiskbuf, bio, elevator, running, rq>>

RamdiskRelease(c) ==
  /\ file[c] = "open"
  /\ bio[c] = NoBio
  /\ c \notin running
  /\ file' = [file EXCEPT ![c] = "closed"]
  /\ UNCHANGED <<disk, ramdiskbuf, bio, elevator, running, rq>>

\* A queue that is set up without a lock.
LockFree_NoLock == TRUE

\* blk_init_queue was given ramdisk.lock: request_fn runs with it held, and
\* nothing else gets at the queue.
LockFree == running = {}

\* Where the bio b of client c can go: a request of its own, or the back or the
\* front of a waiting one that it adjoins.
Placed(c, b) ==
  LET n     == Total(b.segs) \div SectorSize
      alike == {r \in elevator : bio[Head(r.bios)].dir = b.dir}
  IN  {elevator \cup {[pos |-> b.sector, size |-> n, bios |-> <<c>>, copied |-> FALSE]}}
      \cup {(elevator \ {r}) \cup {[r EXCEPT !.bios = Append(@, c), !.size = @ + n]} :
              r \in {q \in alike : q.pos + q.size = b.sector}}
      \cup {(elevator \ {r}) \cup {[r EXCEPT !.bios = <<c>> \o @, !.size = @ + n, !.pos = b.sector]} :
              r \in {q \in alike : b.sector + n = q.pos}}

SubmitBio(c) ==
  /\ file[c] = "open"
  /\ bio[c] = NoBio
  /\ LockFree
  /\ \E dir \in {"read", "write"}, sector \in 0 .. Sectors - 1, segs \in Segments :
       /\ sector * SectorSize + Total(segs) <= Bytes
       /\ bio' = [bio EXCEPT ![c] =
            [dir |-> dir, sector |-> sector, segs |-> segs, page |-> 0,
             mem |-> [i \in 0 .. Total(segs) - 1 |-> IF dir = "write" THEN c ELSE Zero]]]
       /\ elevator' \in Placed(c, bio'[c])
  /\ UNCHANGED <<disk, file, ramdiskbuf, running, rq>>

\* A process whose bio waits unplugs the queue: request_fn is called.
RunQueue(c) ==
  /\ LockFree
  /\ c \notin running
  /\ bio[c] # NoBio
  /\ elevator # {}
  /\ running' = running \cup {c}
  /\ UNCHANGED <<disk, file, ramdiskbuf, bio, elevator, rq>>

-----------------------------------------------------------------------------
(* ramdisk_request_fn. *)

\* blk_fetch_request, with a request or with NULL.
Fetch(c) ==
  /\ c \in running
  /\ rq[c] = NoRq
  /\ IF elevator = {}
       THEN /\ running' = running \ {c}
            /\ UNCHANGED <<elevator, rq>>
       ELSE /\ \E r \in elevator :
                 /\ rq' = [rq EXCEPT ![c] = r]
                 /\ elevator' = elevator \ {r}
            /\ UNCHANGED running
  /\ UNCHANGED <<disk, file, ramdiskbuf, bio>>

\* The shift left out.
Start_Sector(r) == r.pos

\* blk_rq_pos << 9: where the current segment lies in ramdiskbuf.
Start(r) == r.pos * SectorSize

\* ramdisk_transfer: one memcpy of the current segment.
Transfer(c) ==
  LET r     == rq[c]
      o     == Head(r.bios)   \* the owner of the current bio
      b     == bio[o]
      len   == Head(b.segs)
      start == Start(r)
  IN  /\ r # NoRq
      /\ ~r.copied
      /\ bio' = [bio EXCEPT ![o].mem = [i \in DOMAIN @ |->
                   IF b.dir = "read" /\ i \in b.page .. b.page + len - 1
                     THEN ramdiskbuf[start + i - b.page] ELSE @[i]]]
      /\ ramdiskbuf' = [i \in DOMAIN ramdiskbuf |->
                   IF b.dir = "write" /\ i \in start .. start + len - 1
                     THEN b.mem[b.page + i - start] ELSE ramdiskbuf[i]]
      /\ rq' = [rq EXCEPT ![c].copied = TRUE]
      /\ UNCHANGED <<disk, file, elevator, running>>

\* The result of __blk_end_request_cur ignored: fetch after every segment.
Served_Ignored(r) == TRUE

\* The loop never leaves a request.
Served_Never(r) == FALSE

\* __blk_end_request_cur returns false: nothing of r is left.
Served(r) == r.bios = <<>>

\* __blk_end_request_cur: the current segment is done; so is its bio, when the
\* segment was the bio's last.  The loop stays with r until it has been served.
EndCur(c) ==
  LET r    == rq[c]
      o    == Head(r.bios)
      b    == bio[o]
      len  == Head(b.segs)
      left == [pos    |-> r.pos + len \div SectorSize,
               size   |-> r.size - len \div SectorSize,
               bios   |-> IF Len(b.segs) = 1 THEN Tail(r.bios) ELSE r.bios,
               copied |-> FALSE]
  IN  /\ r # NoRq
      /\ r.copied
      /\ bio' = [bio EXCEPT ![o] = IF Len(b.segs) = 1 THEN NoBio
                                   ELSE [b EXCEPT !.segs = Tail(@), !.page = @ + len]]
      /\ rq' = [rq EXCEPT ![c] = IF Served(left) THEN NoRq ELSE left]
      /\ UNCHANGED <<disk, file, ramdiskbuf, elevator, running>>

Next ==
  \/ RamdiskInit \/ RamdiskExit
  \/ \E c \in Clients :
       \/ RamdiskOpen(c) \/ RamdiskRelease(c) \/ SubmitBio(c) \/ RunQueue(c)
       \/ Fetch(c) \/ Transfer(c) \/ EndCur(c)

Spec == Init /\ [][Next]_vars

\* The block layer runs a queue that holds requests, and request_fn gets on.
FairSpec ==
  /\ Spec
  /\ \A c \in Clients : WF_vars(RunQueue(c)) /\ WF_vars(Fetch(c) \/ Transfer(c) \/ EndCur(c))

-----------------------------------------------------------------------------
(* Properties. *)

\* The bio of c has begun to move: its first segment has been copied.
Begun(c) ==
  /\ bio[c] # NoBio
  /\ \/ bio[c].page > 0
     \/ \E k \in Clients : rq[k] # NoRq /\ rq[k].copied /\ Head(rq[k].bios) = c

First(c) == bio[c].sector * SectorSize

\* How many bytes of the bio of c have been copied.
Copied(c) ==
  bio[c].page + IF \E k \in Clients : rq[k] # NoRq /\ rq[k].copied /\ Head(rq[k].bios) = c
                  THEN Head(bio[c].segs) ELSE 0

\* The bytes of the disk that are as good as written: bio c is on its way.
Overwritten(c) ==
  IF Begun(c) /\ bio[c].dir = "write" THEN {First(c) + i : i \in DOMAIN bio[c].mem} ELSE {}

Stored ==
  [b \in DOMAIN ramdiskbuf |->
     IF \E c \in Clients : b \in Overwritten(c)
       THEN CHOOSE c \in Clients : b \in Overwritten(c)
       ELSE ramdiskbuf[b]]

\* A bio that reads is as good as complete as well: what has not been copied to
\* its memory yet is still on the disk.
Io ==
  [c \in Clients |->
     IF bio[c] = NoBio THEN NoBio
     ELSE [dir   |-> bio[c].dir,
           first |-> First(c),
           moved |-> IF Begun(c) THEN {First(c) + i : i \in DOMAIN bio[c].mem} ELSE {},
           mem   |-> [i \in DOMAIN bio[c].mem |->
              IF Begun(c) /\ bio[c].dir = "read" /\ i >= Copied(c)
                THEN ramdiskbuf[First(c) + i] ELSE bio[c].mem[i]]]]

\* What this disk promises: every bio moves all its bytes to or from its own
\* place in one instant, the copy of its first segment, although the segments
\* are copied and completed one by one, merged with those of other processes.
\* The queue lock is what makes it so.
Store == INSTANCE BlockStore WITH store <- Stored, io <- Io, Whole <- TRUE
StoresRequests == Store!Spec

\* A failure of any step of ramdisk_init, and ramdisk_exit, leave nothing behind.
NothingLeaked == Life!Balanced

\* The buffer and the queue outlive every request.
BufferOutlivesBios ==
  \A c \in Clients : bio[c] # NoBio \/ c \in running =>
    {"ramdiskbuf", "queue", "disk"} \subseteq held

\* No bio is dropped or served twice: one in flight is in exactly one request.
InOneRequest ==
  \A c \in Clients : bio[c] # NoBio =>
    Cardinality({r \in elevator : Contains(r.bios, c)})
      + Cardinality({k \in Clients : Contains(rq[k].bios, c)}) = 1

\* Every bio that is submitted ends, whatever order the elevator picks.
BiosEnd == \A c \in Clients : bio[c] # NoBio ~> bio[c] = NoBio
=============================================================================
