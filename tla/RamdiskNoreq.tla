---------------------------- MODULE RamdiskNoreq ----------------------------
(***************************************************************************)
(* block/ramdisk/ramdisk_noreq.c: a RAM disk whose make_request function   *)
(* copies every bio in the context of the process that submits it.  No     *)
(* lock is taken (the spinlock is initialised and never used), so the      *)
(* copies of several processes interleave byte by byte.                    *)
(***************************************************************************)
EXTENDS Bvecs

CONSTANTS
  Clients,     \* processes that use the disk
  Zero,        \* the value of a byte that kzalloc has cleared
  Sectors      \* capacity of the disk (RAMDISK_SIZE / 512)

ASSUME RamdiskAssumption ==
  /\ Zero \notin Clients
  /\ Sectors \in Nat \ {0}

VARIABLES
  at, held,    \* initialisation and cleanup (module Ladder)
  file,        \* per process: has it the disk open?
  ramdiskbuf,  \* the bytes of the disk
  bio          \* per process: its bio in make_request, or NoBio

vars == <<at, held, file, ramdiskbuf, bio>>

Bytes == Sectors * SectorSize
NoBio == [dir |-> "none"]

\* A client writes bytes that name it.
Data == {Zero} \cup Clients

Acquired == <<"ramdiskbuf", "blkdev", "gendisk", "queue", "disk">>

\* The labels without the fall-through to register_blkdev_fail.
UndoneBy_LeaksBuffer ==
  [ramdiskbuf |-> {}, blkdev |-> {"ramdiskbuf"},
   gendisk |-> {"blkdev"}, queue |-> {"gendisk", "blkdev"}]

\* What the goto labels release; add_disk cannot fail.
UndoneBy ==
  [ramdiskbuf |-> {},
   blkdev     |-> {"ramdiskbuf"},
   gendisk    |-> {"ramdiskbuf", "blkdev"},
   queue      |-> {"ramdiskbuf", "blkdev", "gendisk"}]

\* ramdisk_exit.
Released == <<"disk", "gendisk", "queue", "blkdev", "ramdiskbuf">>

Life == INSTANCE Ladder

TypeOK ==
  /\ Life!TypeOK
  /\ file \in [Clients -> {"closed", "open"}]
  /\ ramdiskbuf \in [0 .. Bytes - 1 -> Data]
  /\ \A c \in Clients : bio[c] # NoBio =>
       /\ bio[c].dir \in {"read", "write"}
       /\ bio[c].sector \in 0 .. Sectors - 1
       /\ bio[c].offset \in 0 .. Bytes
       /\ bio[c].segs # <<>> => bio[c].k \in 0 .. Head(bio[c].segs) - 1

Init ==
  /\ Life!Init
  /\ file = [c \in Clients |-> "closed"]
  /\ ramdiskbuf = [b \in 0 .. Bytes - 1 |-> Zero]
  /\ bio = [c \in Clients |-> NoBio]

-----------------------------------------------------------------------------
(* ramdisk_init and ramdisk_exit. *)

\* kmalloc in the place of kzalloc.
Cleared_Kmalloc == ramdiskbuf' \in [0 .. Bytes - 1 -> Data]

Cleared == ramdiskbuf' = [b \in 0 .. Bytes - 1 |-> Zero]

RamdiskInit ==
  /\ \/ Life!Begin /\ UNCHANGED ramdiskbuf
     \/ \E i \in DOMAIN Acquired :
          \/ Life!Acquire(i) /\ IF Acquired[i] = "ramdiskbuf" THEN Cleared
                                                               ELSE UNCHANGED ramdiskbuf
          \/ Life!Fail(i) /\ UNCHANGED ramdiskbuf
  /\ UNCHANGED <<file, bio>>

\* The block operations without .owner.
InUse_NoOwner == FALSE

\* An open disk holds a reference on the module (ramdisk_fops.owner).
InUse == \E c \in Clients : file[c] = "open"

RamdiskExit ==
  /\ \/ Life!Quit /\ ~InUse
     \/ \E i \in DOMAIN Released : Life!Release(i)
  /\ UNCHANGED <<file, ramdiskbuf, bio>>

-----------------------------------------------------------------------------
(* The block device. *)

\* The disk is there from add_disk on, until the module is going.
RamdiskOpen(c) ==
  /\ file[c] = "closed"
  /\ "disk" \in held
  /\ at[1] # "exit"
  /\ file' = [file EXCEPT ![c] = "open"]
  /\ UNCHANGED <<at, held, ramdiskbuf, bio>>

RamdiskRelease(c) ==
  /\ file[c] = "open"
  /\ bio[c] = NoBio
  /\ file' = [file EXCEPT ![c] = "closed"]
  /\ UNCHANGED <<at, held, ramdiskbuf, bio>>

\* The shift left out.
Shifted_Sector(sector) == sector

\* bi_sector << 9: the byte at which a sector starts.
Shifted(sector) == sector * SectorSize

\* make_request_fn is entered with a bio that lies within the capacity.
MakeRequest(c) ==
  /\ file[c] = "open"
  /\ bio[c] = NoBio
  /\ \E dir \in {"read", "write"}, sector \in 0 .. Sectors - 1, segs \in Segments :
       /\ sector * SectorSize + Total(segs) <= Bytes
       /\ bio' = [bio EXCEPT ![c] =
            [dir |-> dir, sector |-> sector, segs |-> segs, offset |-> Shifted(sector),
             k |-> 0, page |-> 0,
             mem |-> [i \in 0 .. Total(segs) - 1 |-> IF dir = "write" THEN c ELSE Zero]]]
  /\ UNCHANGED <<at, held, file, ramdiskbuf>>

\* The increment left out.
NextOffset_Stuck(offset, len) == offset

\* The increment in the branches as well as after them.
NextOffset_Twice(offset, len) == offset + 2 * len

\* The offset of the segment that follows one of len bytes.
NextOffset(offset, len) == offset + len

\* bio_for_each_segment is through.
Done(b) == b.segs = <<>>

\* memcpy moves byte k of the current segment; after its last byte the loop
\* goes on to the next bvec.
CopyByte(c) ==
  LET b    == bio[c]
      disk == b.offset + b.k   \* position in ramdiskbuf
      mem  == b.page + b.k     \* position in the memory of the bio
      len  == Head(b.segs)
  IN  /\ b # NoBio
      /\ ~Done(b)
      /\ LET moved == IF b.dir = "read" THEN [b EXCEPT !.mem[mem] = ramdiskbuf[disk]] ELSE b
         IN  bio' = [bio EXCEPT ![c] =
               IF b.k + 1 < len THEN [moved EXCEPT !.k = @ + 1]
               ELSE [moved EXCEPT !.k = 0, !.page = @ + len, !.segs = Tail(@),
                                  !.offset = NextOffset(@, len)]]
      /\ ramdiskbuf' = IF b.dir = "write" THEN [ramdiskbuf EXCEPT ![disk] = b.mem[mem]]
                                          ELSE ramdiskbuf
      /\ UNCHANGED <<at, held, file>>

\* bio_endio inside the READ branch.
EndBio_InReadBranch(c) ==
  /\ bio[c].dir = "read"
  /\ Done(bio[c])
  /\ bio' = [bio EXCEPT ![c] = NoBio]
  /\ UNCHANGED <<at, held, file, ramdiskbuf>>

\* bio_endio, with success.
EndBio(c) ==
  /\ bio[c] # NoBio
  /\ Done(bio[c])
  /\ bio' = [bio EXCEPT ![c] = NoBio]
  /\ UNCHANGED <<at, held, file, ramdiskbuf>>

Next ==
  \/ RamdiskInit \/ RamdiskExit
  \/ \E c \in Clients :
       RamdiskOpen(c) \/ RamdiskRelease(c) \/ MakeRequest(c) \/ CopyByte(c) \/ EndBio(c)

Spec == Init /\ [][Next]_vars

\* A process that is in make_request gets on with it.
FairSpec == Spec /\ \A c \in Clients : WF_vars(CopyByte(c) \/ EndBio(c))

-----------------------------------------------------------------------------
(* Properties. *)

\* A bio as a request for bytes: those before the current one have been moved.
Io ==
  [c \in Clients |->
     IF bio[c] = NoBio THEN NoBio
     ELSE LET first == bio[c].sector * SectorSize
          IN  [dir   |-> bio[c].dir,
               first |-> first,
               moved |-> first .. first + bio[c].page + bio[c].k - 1,
               mem   |-> bio[c].mem]]

\* What the disk promises: whatever processes copy at the same time without a
\* lock, every byte of a bio is moved exactly once, from or to its own place on
\* the disk, before bio_endio reports success, and a fresh disk reads as zeros.
\* The bytes of a bio are moved one by one: bios that overlap may mix.
Store == INSTANCE BlockStore WITH store <- ramdiskbuf, io <- Io, Whole <- FALSE
StoresBytes == Store!Spec

\* A failure of any step of ramdisk_init, and ramdisk_exit, leave nothing behind.
NothingLeaked == Life!Balanced

\* The buffer and the queue outlive every bio in make_request.
BufferOutlivesBios ==
  \A c \in Clients : bio[c] # NoBio => {"ramdiskbuf", "queue", "disk"} \subseteq held

\* Every bio that is submitted ends.
BiosEnd == \A c \in Clients : bio[c] # NoBio ~> bio[c] = NoBio
=============================================================================
