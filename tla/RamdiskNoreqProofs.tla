------------------------- MODULE RamdiskNoreqProofs -------------------------
(***************************************************************************)
(* For any number of processes and any size of the disk: nothing is        *)
(* leaked, no bio is copied to a buffer that has been freed or past its    *)
(* end, and the driver implements the store of bytes of BlockStore.        *)
(***************************************************************************)
EXTENDS RamdiskNoreq, TLAPS

\* What the driver holds at each step of its life.
Rungs ==
  \/ at = <<"off", 0>>  /\ held = {}
  \/ at = <<"init", 1>> /\ held = {}
  \/ at = <<"init", 2>> /\ held = {"ramdiskbuf"}
  \/ at = <<"init", 3>> /\ held = {"ramdiskbuf", "blkdev"}
  \/ at = <<"init", 4>> /\ held = {"ramdiskbuf", "blkdev", "gendisk"}
  \/ at = <<"init", 5>> /\ held = {"ramdiskbuf", "blkdev", "gendisk", "queue"}
  \/ at = <<"on", 0>>   /\ held = {"ramdiskbuf", "blkdev", "gendisk", "queue", "disk"}
  \/ at = <<"exit", 1>> /\ held = {"ramdiskbuf", "blkdev", "gendisk", "queue", "disk"}
  \/ at = <<"exit", 2>> /\ held = {"ramdiskbuf", "blkdev", "gendisk", "queue"}
  \/ at = <<"exit", 3>> /\ held = {"ramdiskbuf", "blkdev", "queue"}
  \/ at = <<"exit", 4>> /\ held = {"ramdiskbuf", "blkdev"}
  \/ at = <<"exit", 5>> /\ held = {"ramdiskbuf"}

\* A bio needs an open disk, an open disk a driver that is not going.
Users ==
  /\ file \in [Clients -> {"closed", "open"}]
  /\ bio = [c \in Clients |-> bio[c]]
  /\ \A c \in Clients : bio[c] # NoBio => file[c] = "open"
  /\ \A c \in Clients : file[c] = "open" => at = <<"on", 0>>

IInv == Rungs /\ Users

\* The steps of init climb the rungs, those of exit and the labels descend.
LEMMA InitClimbs ==
  ASSUME Rungs, RamdiskInit
  PROVE  Rungs' /\ at # <<"on", 0>>
<1>1. CASE Life!Begin
  BY <1>1 DEF Rungs, Life!Begin
<1>2. ASSUME NEW i \in DOMAIN Acquired, Life!Acquire(i)
      PROVE  Rungs' /\ at # <<"on", 0>>
  <2>1. i \in 1 .. 5 /\ Len(Acquired) = 5
    BY DEF Acquired
  <2>2. CASE i = 1
    BY <1>2, <2>1, <2>2 DEF Rungs, Life!Acquire, Acquired
  <2>3. CASE i = 2
    BY <1>2, <2>1, <2>3 DEF Rungs, Life!Acquire, Acquired
  <2>4. CASE i = 3
    BY <1>2, <2>1, <2>4 DEF Rungs, Life!Acquire, Acquired
  <2>5. CASE i = 4
    BY <1>2, <2>1, <2>5 DEF Rungs, Life!Acquire, Acquired
  <2>6. CASE i = 5
    BY <1>2, <2>1, <2>6 DEF Rungs, Life!Acquire, Acquired
  <2>. QED  BY <2>1, <2>2, <2>3, <2>4, <2>5, <2>6
<1>3. ASSUME NEW i \in DOMAIN Acquired, Life!Fail(i)
      PROVE  Rungs' /\ at # <<"on", 0>>
  <2>1. i \in 1 .. 5 /\ Acquired[i] \in {"ramdiskbuf", "blkdev", "gendisk", "queue"}
    BY <1>3 DEF Life!Fail, Acquired, UndoneBy
  <2>2. CASE i = 1
    BY <1>3, <2>2 DEF Rungs, Life!Fail, Acquired, UndoneBy
  <2>3. CASE i = 2
    BY <1>3, <2>3 DEF Rungs, Life!Fail, Acquired, UndoneBy
  <2>4. CASE i = 3
    BY <1>3, <2>4 DEF Rungs, Life!Fail, Acquired, UndoneBy
  <2>5. CASE i = 4
    BY <1>3, <2>5 DEF Rungs, Life!Fail, Acquired, UndoneBy
  <2>6. i # 5
    BY <2>1 DEF Acquired
  <2>. QED  BY <2>1, <2>2, <2>3, <2>4, <2>5, <2>6
<1>. QED  BY <1>1, <1>2, <1>3 DEF RamdiskInit

LEMMA ExitDescends ==
  ASSUME Rungs, RamdiskExit
  PROVE  Rungs' /\ (at = <<"on", 0>> => ~InUse)
<1>1. CASE Life!Quit /\ ~InUse
  BY <1>1 DEF Rungs, Life!Quit
<1>2. ASSUME NEW i \in DOMAIN Released, Life!Release(i)
      PROVE  Rungs' /\ at # <<"on", 0>>
  <2>1. i \in 1 .. 5 /\ Len(Released) = 5
    BY DEF Released
  <2>2. CASE i = 1
    BY <1>2, <2>1, <2>2 DEF Rungs, Life!Release, Released
  <2>3. CASE i = 2
    BY <1>2, <2>1, <2>3 DEF Rungs, Life!Release, Released
  <2>4. CASE i = 3
    BY <1>2, <2>1, <2>4 DEF Rungs, Life!Release, Released
  <2>5. CASE i = 4
    BY <1>2, <2>1, <2>5 DEF Rungs, Life!Release, Released
  <2>6. CASE i = 5
    BY <1>2, <2>1, <2>6 DEF Rungs, Life!Release, Released
  <2>. QED  BY <2>1, <2>2, <2>3, <2>4, <2>5, <2>6
<1>. QED  BY <1>1, <1>2 DEF RamdiskExit

LEMMA InitIInv == Init => IInv
BY DEF Init, IInv, Rungs, Users, Life!Init

LEMMA NextIInv == IInv /\ [Next]_vars => IInv'
<1>. SUFFICES ASSUME IInv, [Next]_vars PROVE IInv'
  OBVIOUS
<1>. USE DEF IInv
<1>1. CASE RamdiskInit
  <2>1. Rungs' /\ at # <<"on", 0>>
    BY <1>1, InitClimbs
  <2>. QED  BY <1>1, <2>1 DEF Users, RamdiskInit
<1>2. CASE RamdiskExit
  <2>1. Rungs' /\ (at = <<"on", 0>> => ~InUse)
    BY <1>2, ExitDescends
  <2>. QED  BY <1>2, <2>1 DEF Users, RamdiskExit, InUse
<1>3. ASSUME NEW c \in Clients, RamdiskOpen(c) PROVE IInv'
  <2>1. at = <<"on", 0>>
    BY <1>3 DEF Rungs, RamdiskOpen
  <2>. QED  BY <1>3, <2>1 DEF Rungs, Users, RamdiskOpen
<1>4. ASSUME NEW c \in Clients, RamdiskRelease(c) PROVE IInv'
  BY <1>4 DEF Rungs, Users, RamdiskRelease
<1>5. ASSUME NEW c \in Clients, MakeRequest(c) PROVE IInv'
  <2>1. PICK b : file[c] = "open" /\ bio' = [bio EXCEPT ![c] = b]
    BY <1>5 DEF MakeRequest
  <2>2. UNCHANGED <<at, held, file>>
    BY <1>5 DEF MakeRequest
  <2>. QED  BY <2>1, <2>2 DEF Rungs, Users
<1>6. ASSUME NEW c \in Clients, CopyByte(c) PROVE IInv'
  <2>1. PICK b : bio[c] # NoBio /\ bio' = [bio EXCEPT ![c] = b]
    BY <1>6 DEF CopyByte
  <2>2. UNCHANGED <<at, held, file>>
    BY <1>6 DEF CopyByte
  <2>. QED  BY <2>1, <2>2 DEF Rungs, Users
<1>7. ASSUME NEW c \in Clients, EndBio(c) PROVE IInv'
  BY <1>7 DEF Rungs, Users, EndBio
<1>8. CASE UNCHANGED vars
  BY <1>8 DEF Rungs, Users, vars
<1>. QED  BY <1>1, <1>2, <1>3, <1>4, <1>5, <1>6, <1>7, <1>8 DEF Next

\* The rungs and the use count, in every reachable state.
LEMMA Inductive == Spec => []IInv
BY InitIInv, NextIInv, PTL DEF Spec

\* Nothing is leaked, whichever step of ramdisk_init fails.
THEOREM NoreqLeaksNothing == Spec => []NothingLeaked
<1>1. IInv => NothingLeaked
  BY DEF IInv, Rungs, NothingLeaked, Life!Balanced
<1>. QED  BY <1>1, Inductive, PTL

\* The buffer and the queue outlive every bio in make_request.
THEOREM NoreqKeepsBuffer == Spec => []BufferOutlivesBios
<1>1. IInv => BufferOutlivesBios
  BY DEF IInv, Rungs, Users, BufferOutlivesBios
<1>. QED  BY <1>1, Inductive, PTL

-----------------------------------------------------------------------------
(* The data: what a step does to the buffer and to a bio. *)

Bios ==
  [dir : {"read", "write"}, sector : 0 .. Sectors - 1, segs : Segments \cup {<<>>},
   offset : Nat, k : Nat, page : Nat, mem : UNION {[0 .. n - 1 -> Data] : n \in 1 .. Bytes}]

\* Where a bio is on its way through its segments: the bytes that are left are
\* those of the segments that are left, and all lie on the disk.
OnItsWay(b) ==
  LET n == b.page + Total(b.segs)
  IN  /\ n > 0
      /\ b.mem \in [0 .. n - 1 -> Data]
      /\ b.offset = b.sector * SectorSize + b.page
      /\ b.sector * SectorSize + n <= Bytes
      /\ IF b.segs = <<>> THEN b.k = 0 ELSE b.k < Head(b.segs)

BiosOK == \A c \in Clients : bio[c] # NoBio => bio[c] \in Bios /\ OnItsWay(bio[c])
BufferOK == ramdiskbuf \in [0 .. Bytes - 1 -> Data]

DataInv == BiosOK /\ BufferOK

\* The memory of the bio that MakeRequest is entered with.
Fresh(c, dir, sector, segs) ==
  [dir |-> dir, sector |-> sector, segs |-> segs, offset |-> sector * SectorSize,
   k |-> 0, page |-> 0,
   mem |-> [i \in 0 .. Total(segs) - 1 |-> IF dir = "write" THEN c ELSE Zero]]

LEMMA DiskSize == Bytes \in Nat \ {0} /\ \A n \in 0 .. Sectors - 1 : n * SectorSize \in Nat
BY RamdiskAssumption, SectorAssumption, SMTT(30) DEF Bytes

LEMMA FreshOK ==
  ASSUME NEW c \in Clients, NEW dir \in {"read", "write"}, NEW sector \in 0 .. Sectors - 1,
         NEW segs \in Segments, sector * SectorSize + Total(segs) <= Bytes
  PROVE  /\ Fresh(c, dir, sector, segs) \in Bios
         /\ OnItsWay(Fresh(c, dir, sector, segs))
         /\ Total(segs) \in 1 .. Bytes
<1>. DEFINE first == sector * SectorSize
            n == Total(segs)
            mem == [i \in 0 .. n - 1 |-> IF dir = "write" THEN c ELSE Zero]
            b == Fresh(c, dir, sector, segs)
<1>1. first \in Nat /\ Bytes \in Nat /\ first + n <= Bytes
  BY DiskSize
<1>2. n \in Nat \ {0} /\ n = Total(segs) /\ segs # <<>> /\ Head(segs) > 0
  BY FirstSegment
<1>3. n \in 1 .. Bytes
  <2>. HIDE DEF first, n
  <2>. QED  BY <1>1, <1>2
<1>4. mem \in [0 .. n - 1 -> Data]
  BY DEF Data
<1>5. /\ b.dir = dir /\ b.sector = sector /\ b.segs = segs /\ b.offset = first
      /\ b.k = 0 /\ b.page = 0 /\ b.mem = mem
  BY DEF Fresh
<1>6. b \in Bios
  <2>1. mem \in UNION {[0 .. i - 1 -> Data] : i \in 1 .. Bytes}
    <3>. HIDE DEF mem, n
    <3>. QED  BY <1>3, <1>4
  <2>. HIDE DEF mem, first
  <2>2. b = [dir |-> dir, sector |-> sector, segs |-> segs, offset |-> first,
             k |-> 0, page |-> 0, mem |-> mem]
    BY DEF Fresh, mem, first
  <2>. HIDE DEF b
  <2>. QED  BY <1>1, <2>1, <2>2 DEF Bios
<1>7. OnItsWay(b)
  <2>. HIDE DEF b, mem, first, n
  <2>1. b.page + Total(b.segs) = n
    BY <1>2, <1>5
  <2>2. b.sector * SectorSize = first
    BY <1>5 DEF first
  <2>. QED  BY <1>1, <1>2, <1>4, <1>5, <2>1, <2>2 DEF OnItsWay
<1>. QED  BY <1>3, <1>6, <1>7

\* What has been moved of bio b, and the byte of the disk that it is about next.
Moved(b) == b.page + b.k
Place(b) == b.sector * SectorSize + Moved(b)

\* The byte that CopyByte moves is one of the bio and one of the disk.
LEMMA ByteInBounds ==
  ASSUME NEW b \in Bios, OnItsWay(b), b.segs # <<>>
  PROVE  /\ Moved(b) \in DOMAIN b.mem
         /\ Place(b) \in 0 .. Bytes - 1
         /\ b.offset + b.k = Place(b)
<1>. DEFINE first == b.sector * SectorSize
            n == b.page + Total(b.segs)
<1>1. /\ b.sector \in 0 .. Sectors - 1 /\ b.page \in Nat /\ b.k \in Nat
      /\ b.segs \in Segments
  BY DEF Bios
<1>2. first \in Nat /\ Bytes \in Nat
  BY <1>1, DiskSize
<1>3. Head(b.segs) \in Nat /\ Total(Tail(b.segs)) \in Nat /\ Total(b.segs) = Head(b.segs) + Total(Tail(b.segs))
  BY <1>1, FirstSegment
<1>4. b.k < Head(b.segs) /\ b.mem \in [0 .. n - 1 -> Data] /\ first + n <= Bytes /\ b.offset = first + b.page
  BY DEF OnItsWay
<1>5. n \in Nat /\ b.page + b.k < n
  BY <1>1, <1>3, <1>4
<1>. HIDE DEF first, n
<1>6. b.page + b.k \in 0 .. n - 1 /\ first + (b.page + b.k) \in 0 .. Bytes - 1
  BY <1>1, <1>2, <1>4, <1>5
<1>7. Place(b) = first + (b.page + b.k) /\ DOMAIN b.mem = 0 .. n - 1
  BY <1>4 DEF Place, Moved, first
<1>. QED  BY <1>1, <1>2, <1>4, <1>6, <1>7 DEF Moved

\* The bio after a byte of it has been moved; only its memory may differ.
Advanced(b) ==
  IF b.k + 1 < Head(b.segs) THEN [b EXCEPT !.k = @ + 1]
  ELSE [b EXCEPT !.k = 0, !.page = @ + Head(b.segs), !.segs = Tail(@),
                 !.offset = NextOffset(@, Head(b.segs))]

LEMMA AdvancedOK ==
  ASSUME NEW b \in Bios, OnItsWay(b), b.segs # <<>>
  PROVE  /\ Advanced(b) \in Bios
         /\ OnItsWay(Advanced(b))
         /\ Advanced(b).dir = b.dir /\ Advanced(b).sector = b.sector /\ Advanced(b).mem = b.mem
         /\ Moved(Advanced(b)) = Moved(b) + 1
<1>. DEFINE len == Head(b.segs)
            rest == Total(Tail(b.segs))
            first == b.sector * SectorSize
            a == Advanced(b)
<1>1. /\ b.sector \in 0 .. Sectors - 1 /\ b.page \in Nat /\ b.k \in Nat /\ b.offset \in Nat
      /\ b.segs \in Segments
  BY DEF Bios
<1>2. /\ len \in Nat \ {0} /\ rest \in Nat /\ Total(b.segs) = len + rest
      /\ Tail(b.segs) \in Segments \cup {<<>>}
      /\ Tail(b.segs) = <<>> \/ Head(Tail(b.segs)) > 0
  BY <1>1, FirstSegment
<1>3. /\ b.mem \in [0 .. (b.page + Total(b.segs)) - 1 -> Data] /\ b.offset = first + b.page
      /\ first + (b.page + Total(b.segs)) <= Bytes /\ b.k < len
  <2>1. b.mem \in [0 .. (b.page + Total(b.segs)) - 1 -> Data]
    <3>. HIDE DEF len, rest, first, a
    <3>. QED  BY DEF OnItsWay
  <2>2. b.offset = first + b.page
    BY DEF OnItsWay
  <2>3. first + (b.page + Total(b.segs)) <= Bytes
    BY DEF OnItsWay
  <2>4. b.k < len
    BY DEF OnItsWay
  <2>. QED  BY <2>1, <2>2, <2>3, <2>4
<1>4. first \in Nat
  BY <1>1, DiskSize
<1>5. CASE b.k + 1 < len
  <2>1. a = [b EXCEPT !.k = @ + 1]
    BY <1>5 DEF Advanced
  <2>2. a \in Bios /\ a.dir = b.dir /\ a.sector = b.sector /\ a.mem = b.mem /\ a.segs = b.segs
        /\ a.offset = b.offset /\ a.page = b.page /\ a.k = b.k + 1
    BY <1>1, <2>1 DEF Bios
  <2>3. OnItsWay(a)
    BY <1>5, <2>2 DEF OnItsWay
  <2>. HIDE DEF a
  <2>. QED  BY <1>1, <2>2, <2>3 DEF Moved, a
<1>6. CASE ~(b.k + 1 < len)
  <2>1. a = [b EXCEPT !.k = 0, !.page = @ + len, !.segs = Tail(@), !.offset = @ + len]
    BY <1>6 DEF Advanced, NextOffset
  <2>2. a.dir = b.dir /\ a.sector = b.sector /\ a.mem = b.mem /\ a.segs = Tail(b.segs)
        /\ a.offset = b.offset + len /\ a.page = b.page + len /\ a.k = 0
    BY <2>1 DEF Bios
  <2>3. b.offset + len \in Nat /\ b.page + len \in Nat
    BY <1>1, <1>2
  <2>4. a \in Bios
    <3>. DEFINE Mems == UNION {[0 .. n - 1 -> Data] : n \in 1 .. Bytes}
    <3>. HIDE DEF len, a, Mems
    <3>1. b \in [dir : {"read", "write"}, sector : 0 .. Sectors - 1, segs : Segments \cup {<<>>},
                 offset : Nat, k : Nat, page : Nat, mem : Mems]
      BY DEF Bios, Mems
    <3>2. a \in [dir : {"read", "write"}, sector : 0 .. Sectors - 1, segs : Segments \cup {<<>>},
                 offset : Nat, k : Nat, page : Nat, mem : Mems]
      BY <1>2, <2>1, <2>3, <3>1
    <3>. QED  BY <3>2 DEF Bios, Mems
  <2>5. b.k + 1 = len
    <3>. HIDE DEF len
    <3>. QED  BY <1>1, <1>2, <1>3, <1>6
  <2>6. /\ b.page + Total(b.segs) = a.page + Total(a.segs)
        /\ a.offset = first + a.page
        /\ Moved(a) = Moved(b) + 1
    <3>. HIDE DEF len, rest, first, a
    <3>1. Total(a.segs) = rest
      BY <2>2 DEF rest
    <3>2. len \in Nat /\ rest \in Nat /\ Total(b.segs) = len + rest /\ b.offset = first + b.page
      BY <1>2, <1>3
    <3>3. a.page = b.page + len /\ a.k = 0 /\ a.offset = b.offset + len /\ b.page \in Nat
      BY <1>1, <2>2
    <3>4. Total(b.segs) = len + Total(a.segs)
      BY <3>1, <3>2
    <3>5. a.offset = first + a.page
      BY <1>4, <3>2, <3>3
    <3>6. a.page + a.k = (b.page + b.k) + 1
      BY <1>1, <2>5, <3>2, <3>3
    <3>. QED  BY <3>1, <3>2, <3>3, <3>4, <3>5, <3>6 DEF Moved
  <2>. HIDE DEF a, len
  <2>7. OnItsWay(a)
    BY <1>2, <1>3, <2>2, <2>6 DEF OnItsWay
  <2>. QED  BY <2>2, <2>4, <2>6, <2>7 DEF a
<1>. QED  BY <1>5, <1>6

\* The bio once the byte is in its memory, if it reads.
Filled(b) ==
  IF b.dir = "read" THEN [b EXCEPT !.mem = [b.mem EXCEPT ![Moved(b)] = ramdiskbuf[Place(b)]]] ELSE b

LEMMA CopyEffect ==
  ASSUME Users, DataInv, NEW c \in Clients, CopyByte(c)
  PROVE  LET b == bio[c]
         IN  /\ b \in Bios /\ OnItsWay(b) /\ b.segs # <<>> /\ b # NoBio
             /\ Filled(b) \in Bios /\ OnItsWay(Filled(b)) /\ Filled(b).segs # <<>>
             /\ Filled(b).dir = b.dir /\ Filled(b).sector = b.sector
             /\ Moved(Filled(b)) = Moved(b)
             /\ Filled(b).mem = IF b.dir = "read" THEN [b.mem EXCEPT ![Moved(b)] = ramdiskbuf[Place(b)]]
                                                  ELSE b.mem
             /\ bio' = [bio EXCEPT ![c] = Advanced(Filled(b))]
             /\ ramdiskbuf' = IF b.dir = "write" THEN [ramdiskbuf EXCEPT ![Place(b)] = b.mem[Moved(b)]]
                                                 ELSE ramdiskbuf
<1>. DEFINE b == bio[c]
            n == b.page + Total(b.segs)
            mem == [b.mem EXCEPT ![Moved(b)] = ramdiskbuf[Place(b)]]
<1>1. b \in Bios /\ OnItsWay(b) /\ b.segs # <<>> /\ b # NoBio
  BY DEF CopyByte, Done, DataInv, BiosOK
<1>2. Moved(b) \in DOMAIN b.mem /\ Place(b) \in 0 .. Bytes - 1 /\ b.offset + b.k = Place(b)
  BY <1>1, ByteInBounds
<1>3. ramdiskbuf[Place(b)] \in Data
  BY <1>2 DEF DataInv, BufferOK
<1>4. b.mem \in [0 .. n - 1 -> Data]
  BY <1>1 DEF OnItsWay
<1>5. mem \in [0 .. n - 1 -> Data]
  <2>. HIDE DEF n
  <2>. QED  BY <1>3, <1>4
<1>6. mem \in UNION {[0 .. i - 1 -> Data] : i \in 1 .. Bytes}
  <2>1. PICK i \in 1 .. Bytes : b.mem \in [0 .. i - 1 -> Data]
    BY <1>1 DEF Bios
  <2>2. mem \in [0 .. i - 1 -> Data]
    BY <2>1, <1>3
  <2>. HIDE DEF mem
  <2>. QED  BY <2>2
<1>7. CASE b.dir = "read"
  <2>. HIDE DEF mem
  <2>1. Filled(b) = [b EXCEPT !.mem = mem]
    BY <1>7 DEF Filled, mem
  <2>. DEFINE Mems == UNION {[0 .. i - 1 -> Data] : i \in 1 .. Bytes}
              f == Filled(b)
  <2>2. f \in Bios
    <3>. HIDE DEF Mems, f
    <3>1. b \in [dir : {"read", "write"}, sector : 0 .. Sectors - 1, segs : Segments \cup {<<>>},
                 offset : Nat, k : Nat, page : Nat, mem : Mems] /\ mem \in Mems
      BY <1>1, <1>6 DEF Bios, Mems
    <3>2. f \in [dir : {"read", "write"}, sector : 0 .. Sectors - 1, segs : Segments \cup {<<>>},
                 offset : Nat, k : Nat, page : Nat, mem : Mems]
      BY <2>1, <3>1 DEF f
    <3>. QED  BY <3>2 DEF Bios, Mems
  <2>3. /\ f.dir = b.dir /\ f.sector = b.sector /\ f.segs = b.segs /\ f.offset = b.offset
        /\ f.k = b.k /\ f.page = b.page /\ f.mem = mem
    BY <1>1, <2>1 DEF Bios
  <2>. HIDE DEF f
  <2>4. OnItsWay(f)
    BY <1>1, <1>5, <2>3 DEF OnItsWay
  <2>5. bio' = [bio EXCEPT ![c] = Advanced(f)]
    <3>1. [b EXCEPT !.mem[b.page + b.k] = ramdiskbuf[b.offset + b.k]] = f
      BY <1>2, <2>1 DEF Moved, f, mem
    <3>. QED  BY <1>7, <2>3, <3>1 DEF CopyByte, Advanced
  <2>6. ramdiskbuf' = ramdiskbuf
    BY <1>7 DEF CopyByte
  <2>. QED  BY <1>1, <1>7, <2>2, <2>3, <2>4, <2>5, <2>6 DEF f, Moved, mem
<1>8. CASE b.dir # "read"
  <2>1. Filled(b) = b /\ b.dir = "write"
    BY <1>1, <1>8 DEF Filled, Bios
  <2>2. bio' = [bio EXCEPT ![c] = Advanced(b)]
    BY <2>1 DEF CopyByte, Advanced
  <2>3. ramdiskbuf' = [ramdiskbuf EXCEPT ![Place(b)] = b.mem[Moved(b)]]
    BY <1>2, <2>1 DEF CopyByte, Moved
  <2>. QED  BY <1>1, <1>8, <2>1, <2>2, <2>3
<1>. QED  BY <1>7, <1>8

LEMMA InitDataInv == Init => DataInv
BY DEF Init, DataInv, BiosOK, BufferOK, Data

LEMMA NextDataInv == IInv /\ DataInv /\ [Next]_vars => DataInv'
<1>. SUFFICES ASSUME Rungs, Users, BiosOK, BufferOK, [Next]_vars PROVE BiosOK' /\ BufferOK'
  BY DEF IInv, DataInv
<1>1. CASE RamdiskInit
  BY <1>1 DEF RamdiskInit, Cleared, BiosOK, BufferOK, Data
<1>2. CASE RamdiskExit
  BY <1>2 DEF RamdiskExit, BiosOK, BufferOK
<1>3. ASSUME NEW c \in Clients, RamdiskOpen(c) \/ RamdiskRelease(c) PROVE BiosOK' /\ BufferOK'
  BY <1>3 DEF RamdiskOpen, RamdiskRelease, BiosOK, BufferOK
<1>4. ASSUME NEW c \in Clients, MakeRequest(c) PROVE BiosOK' /\ BufferOK'
  <2>1. PICK dir \in {"read", "write"}, sector \in 0 .. Sectors - 1, segs \in Segments :
          /\ sector * SectorSize + Total(segs) <= Bytes
          /\ bio' = [bio EXCEPT ![c] = Fresh(c, dir, sector, segs)]
    BY <1>4 DEF MakeRequest, Fresh, Shifted
  <2>2. PICK b : b \in Bios /\ OnItsWay(b) /\ bio' = [bio EXCEPT ![c] = b]
    BY <2>1, FreshOK
  <2>. QED  BY <1>4, <2>2 DEF MakeRequest, Users, BiosOK, BufferOK
<1>5. ASSUME NEW c \in Clients, CopyByte(c) PROVE BiosOK' /\ BufferOK'
  <2>. DEFINE b == bio[c]
  <2>1. b \in Bios /\ OnItsWay(b) /\ b.segs # <<>>
    BY <1>5, CopyEffect DEF DataInv
  <2>2. PICK a : a \in Bios /\ OnItsWay(a) /\ bio' = [bio EXCEPT ![c] = a]
    BY <1>5, CopyEffect, AdvancedOK DEF DataInv
  <2>3. b.mem[Moved(b)] \in Data /\ Place(b) \in 0 .. Bytes - 1
    BY <2>1, ByteInBounds DEF OnItsWay
  <2>4. ramdiskbuf' = IF b.dir = "write" THEN [ramdiskbuf EXCEPT ![Place(b)] = b.mem[Moved(b)]]
                                         ELSE ramdiskbuf
    BY <1>5, CopyEffect DEF DataInv
  <2>5. BufferOK'
    BY <2>3, <2>4 DEF BufferOK
  <2>. QED  BY <2>2, <2>5 DEF Users, BiosOK
<1>6. ASSUME NEW c \in Clients, EndBio(c) PROVE BiosOK' /\ BufferOK'
  BY <1>6 DEF EndBio, Users, BiosOK, BufferOK
<1>7. CASE UNCHANGED vars
  BY <1>7 DEF vars, BiosOK, BufferOK
<1>. QED  BY <1>1, <1>2, <1>3, <1>4, <1>5, <1>6, <1>7 DEF Next

LEMMA InductiveData == Spec => [](IInv /\ DataInv)
<1>1. Init => IInv /\ DataInv
  BY InitIInv, InitDataInv
<1>2. IInv /\ DataInv /\ [Next]_vars => (IInv /\ DataInv)'
  BY NextIInv, NextDataInv
<1>. QED  BY <1>1, <1>2, PTL DEF Spec

\* The types of all variables; a bio never points outside the disk, whatever
\* segments it has.
THEOREM NoreqTypes == Spec => []TypeOK
<1>1. IInv /\ DataInv => TypeOK
  <2>. SUFFICES ASSUME Rungs, Users, BiosOK, BufferOK PROVE TypeOK
    BY DEF IInv, DataInv
  <2>1. Life!TypeOK
    <3>1. DOMAIN Acquired = 1 .. 5 /\ DOMAIN Released = 1 .. 5
      BY DEF Acquired, Released
    <3>2. Life!Resources = {"ramdiskbuf", "blkdev", "gendisk", "queue", "disk"}
      BY <3>1 DEF Life!Resources, Acquired
    <3>. QED  BY <3>1, <3>2 DEF Rungs, Life!TypeOK
  <2>2. ASSUME NEW c \in Clients, bio[c] # NoBio
        PROVE  /\ bio[c].dir \in {"read", "write"}
               /\ bio[c].sector \in 0 .. Sectors - 1
               /\ bio[c].offset \in 0 .. Bytes
               /\ bio[c].segs # <<>> => bio[c].k \in 0 .. Head(bio[c].segs) - 1
    <3>. DEFINE b == bio[c]
                first == b.sector * SectorSize
                rest == Total(b.segs)
    <3>1. b \in Bios /\ OnItsWay(b)
      BY <2>2 DEF BiosOK
    <3>2. /\ b.dir \in {"read", "write"} /\ b.sector \in 0 .. Sectors - 1
          /\ b.offset \in Nat /\ b.k \in Nat /\ b.page \in Nat /\ b.segs \in Segments \cup {<<>>}
      BY <3>1 DEF Bios
    <3>3. first \in Nat /\ Bytes \in Nat
      BY <3>2, DiskSize
    <3>4. b.segs # <<>> => rest \in Nat /\ Head(b.segs) \in Nat /\ b.k < Head(b.segs)
      BY <3>1, <3>2, FirstSegment DEF OnItsWay
    <3>5. rest \in Nat
      BY <3>4, TotalNone
    <3>6. b.offset = first + b.page /\ first + (b.page + rest) <= Bytes
      BY <3>1 DEF OnItsWay
    <3>7. b.offset \in 0 .. Bytes
      <4>. HIDE DEF first, rest
      <4>. QED  BY <3>2, <3>3, <3>5, <3>6
    <3>. QED  BY <3>2, <3>4, <3>7
  <2>. QED  BY <2>1, <2>2 DEF Users, BufferOK, TypeOK
<1>. QED  BY <1>1, InductiveData, PTL

-----------------------------------------------------------------------------
(* The driver implements the store of bytes. *)

\* A bio as a request of the store.
Request(b) ==
  [dir   |-> b.dir,
   first |-> b.sector * SectorSize,
   moved |-> b.sector * SectorSize .. Place(b) - 1,
   mem   |-> b.mem]

LEMMA PlaceOf ==
  ASSUME NEW b \in Bios
  PROVE  LET first == b.sector * SectorSize
         IN  first + b.page + b.k - 1 = Place(b) - 1
<1>1. b.sector \in 0 .. Sectors - 1 /\ b.page \in Nat /\ b.k \in Nat
  BY DEF Bios
<1>2. b.sector * SectorSize \in Nat
  BY <1>1, DiskSize
<1>. QED  BY <1>1, <1>2 DEF Place, Moved

LEMMA IoRequests ==
  ASSUME BiosOK
  PROVE  Io = [c \in Clients |-> IF bio[c] = NoBio THEN NoBio ELSE Request(bio[c])]
BY PlaceOf DEF BiosOK, Io, Request

LEMMA IoRequestsNext ==
  ASSUME BiosOK'
  PROVE  Io' = [c \in Clients |-> IF bio'[c] = NoBio THEN NoBio ELSE Request(bio'[c])]
BY PlaceOf DEF BiosOK, Io, Request

\* make_request is entered with a fresh request: none of its bytes has moved.
LEMMA SubmitRefines ==
  ASSUME Users, BiosOK, BiosOK', NEW c \in Clients, MakeRequest(c)
  PROVE  Store!Submit(c)
<1>1. PICK dir \in {"read", "write"}, sector \in 0 .. Sectors - 1, segs \in Segments :
        /\ sector * SectorSize + Total(segs) <= Bytes
        /\ bio' = [bio EXCEPT ![c] = Fresh(c, dir, sector, segs)]
  BY DEF MakeRequest, Fresh, Shifted
<1>. DEFINE b == Fresh(c, dir, sector, segs)
            first == sector * SectorSize
            n == Total(segs)
            r == Request(b)
<1>2. /\ b.dir = dir /\ b.sector = sector /\ Moved(b) = 0
      /\ b.mem = [i \in 0 .. n - 1 |-> IF dir = "write" THEN c ELSE Zero]
  BY DEF Fresh, Moved
<1>3. n \in 1 .. Bytes /\ first \in Nat /\ first + n <= Bytes /\ Bytes \in Nat
  BY <1>1, FreshOK, DiskSize
<1>4. r.dir = dir /\ r.first = first /\ r.moved = {} /\ r.mem = b.mem
  <2>. HIDE DEF b
  <2>1. Place(b) = first + 0 /\ b.sector * SectorSize = first
    BY <1>2 DEF Place
  <2>. HIDE DEF first
  <2>2. first .. (first + 0) - 1 = {}
    BY <1>3
  <2>. QED  BY <1>2, <2>1, <2>2 DEF Request
<1>5. r.mem \in [0 .. n - 1 -> Data]
  BY <1>2, <1>4 DEF Data
<1>6. Store!FreshRequest(r)
  <2>. HIDE DEF r, n, first
  <2>1. Store!Extent(r) \subseteq 0 .. Bytes - 1
    BY <1>3, <1>4, <1>5 DEF Store!Extent
  <2>. QED  BY <1>3, <1>4, <1>5, <2>1 DEF Store!FreshRequest
<1>7. bio[c] = NoBio /\ ramdiskbuf' = ramdiskbuf /\ b # NoBio
  BY <1>2 DEF MakeRequest, NoBio
<1>8. Io[c] = NoBio /\ Io' = [Io EXCEPT ![c] = r]
  <2>1. bio' = [bio EXCEPT ![c] = b]
    BY <1>1
  <2>2. Io' = [d \in Clients |-> IF bio'[d] = NoBio THEN NoBio ELSE Request(bio'[d])]
    BY IoRequestsNext
  <2>. HIDE DEF b
  <2>3. DOMAIN bio = Clients
    BY DEF Users
  <2>. QED  BY <1>7, <2>1, <2>2, <2>3, IoRequests
<1>9. r # NoBio
  BY <1>4 DEF NoBio
<1>10. DOMAIN Io = Clients
  BY IoRequests
<1>. HIDE DEF r
<1>. QED  BY <1>6, <1>7, <1>8, <1>9, <1>10 DEF Store!Submit, Store!NoIo, NoBio

\* A byte copied is a byte moved, and none before it.
LEMMA MoveRefines ==
  ASSUME Users, DataInv, BiosOK', NEW c \in Clients, CopyByte(c)
  PROVE  Store!Move(c)
<1>. DEFINE b == bio[c]
            a == Advanced(Filled(b))
            first == b.sector * SectorSize
            S == {Place(b)}
            mem == [i \in DOMAIN b.mem |->
                      IF b.dir = "read" /\ first + i \in S THEN ramdiskbuf[first + i] ELSE b.mem[i]]
<1>1. /\ b \in Bios /\ OnItsWay(b) /\ b.segs # <<>> /\ b # NoBio
      /\ Filled(b) \in Bios /\ OnItsWay(Filled(b)) /\ Filled(b).segs # <<>>
      /\ Filled(b).dir = b.dir /\ Filled(b).sector = b.sector /\ Moved(Filled(b)) = Moved(b)
      /\ Filled(b).mem = IF b.dir = "read" THEN [b.mem EXCEPT ![Moved(b)] = ramdiskbuf[Place(b)]]
                                           ELSE b.mem
      /\ bio' = [bio EXCEPT ![c] = a]
      /\ ramdiskbuf' = IF b.dir = "write" THEN [ramdiskbuf EXCEPT ![Place(b)] = b.mem[Moved(b)]]
                                          ELSE ramdiskbuf
  BY CopyEffect
<1>2. /\ a \in Bios /\ a.dir = b.dir /\ a.sector = b.sector /\ a.mem = Filled(b).mem
      /\ Moved(a) = Moved(b) + 1
  BY <1>1, AdvancedOK
<1>3. /\ first \in Nat /\ Moved(b) \in Nat /\ Place(b) = first + Moved(b) /\ Bytes \in Nat
      /\ Moved(b) \in DOMAIN b.mem /\ Place(b) \in 0 .. Bytes - 1
  <2>1. b.sector \in 0 .. Sectors - 1 /\ b.page \in Nat /\ b.k \in Nat
    BY <1>1 DEF Bios
  <2>. QED  BY <1>1, <2>1, DiskSize, ByteInBounds DEF Place, Moved
<1>4. PICK n \in Int : b.mem \in [0 .. n - 1 -> Data]
  <2>1. PICK n \in 1 .. Bytes : b.mem \in [0 .. n - 1 -> Data]
    BY <1>1 DEF Bios
  <2>2. n \in Int
    BY <2>1, <1>3
  <2>. QED  BY <2>1, <2>2, Zenon
<1>5. a.mem = mem
  <2>. HIDE DEF a, b, first
  <2>1. \A i \in DOMAIN b.mem : first + i \in S <=> i = Moved(b)
    BY <1>3, <1>4
  <2>. QED  BY <1>1, <1>2, <1>3, <1>4, <2>1
<1>6. a # NoBio /\ b # NoBio
  BY <1>1, <1>2 DEF Bios, NoBio
<1>7. Request(b) = [dir |-> b.dir, first |-> first, moved |-> first .. Place(b) - 1, mem |-> b.mem]
  BY DEF Request
<1>8. Request(a) = [dir |-> b.dir, first |-> first, moved |-> (first .. Place(b) - 1) \cup S, mem |-> mem]
  <2>. HIDE DEF b, a, mem
  <2>1. a.sector * SectorSize = first /\ Place(a) = first + Moved(a)
    BY <1>2 DEF Place
  <2>. HIDE DEF first
  <2>2. first .. Place(a) - 1 = (first .. Place(b) - 1) \cup S
    BY <1>2, <1>3, <2>1
  <2>. QED  BY <1>2, <1>5, <2>1, <2>2 DEF Request
<1>9. Io[c] = Request(b) /\ DOMAIN Io = Clients
  BY <1>6, IoRequests DEF DataInv
<1>10. Io' = [Io EXCEPT ![c] = Request(a)]
  <2>. HIDE DEF a, mem
  <2>1. DOMAIN bio = Clients
    BY DEF Users
  <2>. QED  BY <1>1, <1>6, <2>1, IoRequests, IoRequestsNext DEF DataInv
<1>11. Store!Extent(Request(b)) = {first + i : i \in DOMAIN b.mem}
  BY <1>7 DEF Store!Extent
<1>12. S \subseteq Store!Extent(Io[c]) \ Io[c].moved /\ S # {}
  <2>. HIDE DEF b, first
  <2>1. Io[c].moved = first .. Place(b) - 1
    BY <1>7, <1>9
  <2>. QED  BY <1>3, <1>9, <1>11, <2>1
<1>13. Io' = [Io EXCEPT
                ![c].moved = @ \cup S,
                ![c].mem = [i \in DOMAIN @ |->
                   IF Io[c].dir = "read" /\ Io[c].first + i \in S
                     THEN ramdiskbuf[Io[c].first + i] ELSE @[i]]]
  <2>. DEFINE r == Io[c]
              m == [i \in DOMAIN r.mem |->
                      IF r.dir = "read" /\ r.first + i \in S THEN ramdiskbuf[r.first + i] ELSE r.mem[i]]
  <2>1. m = mem
    BY <1>7, <1>9
  <2>. HIDE DEF S, mem, b, a, first
  <2>2. Request(a) = [[r EXCEPT !.moved = @ \cup S] EXCEPT !.mem = mem]
    <3>. DEFINE M == first .. Place(b) - 1
    <3>1. r = [dir |-> b.dir, first |-> first, moved |-> M, mem |-> b.mem]
      BY <1>7, <1>9
    <3>2. Request(a) = [dir |-> b.dir, first |-> first, moved |-> M \cup S, mem |-> mem]
      BY <1>8
    <3>. HIDE DEF r, M, m
    <3>3. [r EXCEPT !.moved = @ \cup S] = [dir |-> b.dir, first |-> first, moved |-> M \cup S, mem |-> b.mem]
      BY <3>1
    <3>4. [[dir |-> b.dir, first |-> first, moved |-> M \cup S, mem |-> b.mem] EXCEPT !.mem = mem]
            = [dir |-> b.dir, first |-> first, moved |-> M \cup S, mem |-> mem]
      OBVIOUS
    <3>. QED  BY <3>2, <3>3, <3>4, Zenon
  <2>3. [r EXCEPT !.moved = @ \cup S].mem = r.mem
    BY <1>7, <1>9
  <2>. QED  BY <1>9, <1>10, <2>1, <2>2, <2>3
<1>14. ramdiskbuf' = [i \in DOMAIN ramdiskbuf |->
                        IF Io[c].dir = "write" /\ i \in S
                          THEN Io[c].mem[i - Io[c].first] ELSE ramdiskbuf[i]]
  <2>1. Io[c].dir = b.dir /\ Io[c].mem = b.mem /\ Io[c].first = first
    BY <1>7, <1>9
  <2>2. Place(b) - first = Moved(b)
    <3>. HIDE DEF b, first
    <3>. QED  BY <1>3
  <2>. HIDE DEF b, first
  <2>3. ramdiskbuf \in [0 .. Bytes - 1 -> Data]
    BY DEF DataInv, BufferOK
  <2>. QED  BY <1>1, <1>3, <2>1, <2>2, <2>3
<1>15. Io[c] # NoBio
  <2>1. Io[c].dir \in {"read", "write"}
    BY <1>1, <1>7, <1>9 DEF Bios
  <2>. QED  BY <2>1 DEF NoBio
<1>. HIDE DEF S
<1>. QED  BY <1>12, <1>13, <1>14, <1>15 DEF Store!Move, Store!NoIo, NoBio

\* bio_endio reports success when nothing is left to be moved, and not before.
LEMMA EndRefines ==
  ASSUME Users, BiosOK, BiosOK', NEW c \in Clients, EndBio(c)
  PROVE  Store!End(c)
<1>. DEFINE b == bio[c]
            first == b.sector * SectorSize
<1>1. b \in Bios /\ OnItsWay(b) /\ b.segs = <<>> /\ b # NoBio
      /\ bio' = [bio EXCEPT ![c] = NoBio] /\ ramdiskbuf' = ramdiskbuf
  BY DEF EndBio, Done, BiosOK
<1>2. b.k = 0 /\ b.page \in Nat /\ b.sector \in 0 .. Sectors - 1 /\ Total(b.segs) = 0
  <2>1. b.page \in Nat /\ b.sector \in 0 .. Sectors - 1
    BY <1>1 DEF Bios
  <2>2. b.k = 0
    BY <1>1 DEF OnItsWay
  <2>3. Total(b.segs) = 0
    BY <1>1, TotalNone
  <2>. QED  BY <2>1, <2>2, <2>3
<1>3. first \in Nat
  BY <1>2, DiskSize
<1>4. b.mem \in [0 .. b.page - 1 -> Data]
  <2>1. b.mem \in [0 .. (b.page + Total(b.segs)) - 1 -> Data]
    BY <1>1 DEF OnItsWay
  <2>. QED  BY <1>2, <2>1
<1>5. Io[c] = Request(b) /\ DOMAIN Io = Clients
  BY <1>1, IoRequests
<1>6. Io[c].first = first /\ Io[c].mem = b.mem /\ Io[c].moved = first .. Place(b) - 1 /\ Io[c].dir = b.dir
  BY <1>5 DEF Request
<1>7. Place(b) = first + b.page
  <2>1. Place(b) = first + (b.page + b.k)
    BY DEF Place, Moved
  <2>. HIDE DEF b, first
  <2>. QED  BY <1>2, <1>3, <2>1
<1>8. Io[c].moved = Store!Extent(Io[c])
  <2>. HIDE DEF b, first
  <2>1. ASSUME NEW x PROVE x \in first .. (first + b.page) - 1 <=> \E i \in 0 .. b.page - 1 : x = first + i
    <3>1. ASSUME x \in first .. (first + b.page) - 1 PROVE x - first \in 0 .. b.page - 1 /\ x = first + (x - first)
      BY <1>2, <1>3, <3>1
    <3>. QED  BY <1>2, <1>3, <3>1
  <2>2. first .. (first + b.page) - 1 = {first + i : i \in 0 .. b.page - 1}
    BY <2>1
  <2>. QED  BY <1>4, <1>6, <1>7, <2>2 DEF Store!Extent
<1>9. Io' = [Io EXCEPT ![c] = NoBio]
  <2>1. DOMAIN bio = Clients
    BY DEF Users
  <2>. QED  BY <1>1, <2>1, IoRequests, IoRequestsNext
<1>10. Io[c] # NoBio
  <2>1. b.dir \in {"read", "write"}
    BY <1>1 DEF Bios
  <2>. QED  BY <1>6, <2>1 DEF NoBio
<1>. QED  BY <1>1, <1>8, <1>9, <1>10 DEF Store!End, Store!NoIo, NoBio

\* The buffer is cleared while no process has a bio.
LEMMA LoadRefines ==
  ASSUME Rungs, Users, BiosOK, RamdiskInit
  PROVE  Store!Reset \/ UNCHANGED <<ramdiskbuf, Io>>
<1>1. UNCHANGED bio
  BY DEF RamdiskInit
<1>2. UNCHANGED Io
  BY <1>1 DEF Io
<1>3. CASE UNCHANGED ramdiskbuf
  BY <1>2, <1>3
<1>4. CASE Cleared
  <2>1. at # <<"on", 0>>
    BY InitClimbs
  <2>2. \A c \in Clients : bio[c] = NoBio
    BY <2>1 DEF Users
  <2>3. \A c \in Clients : Io[c] = NoBio
    BY <2>2, IoRequests
  <2>. QED  BY <1>2, <1>4, <2>3 DEF Cleared, Store!Reset, Store!Empty, Store!NoIo, NoBio
<1>. QED  BY <1>3, <1>4 DEF RamdiskInit

\* What the disk promises its users is what the driver does, whatever copies
\* interleave: every byte of a bio is moved once, between the bio's memory and
\* the byte's own place, before bio_endio, and a fresh disk reads as zeros.
THEOREM NoreqStoresBytes == Spec => StoresBytes
<1>1. Init => Store!Init
  <2>1. ASSUME Init PROVE Io = [c \in Clients |-> NoBio]
    BY <2>1 DEF Init, Io
  <2>. QED  BY <2>1 DEF Init, Store!Init, Store!Empty, Store!NoIo, NoBio
<1>2. (IInv /\ DataInv) /\ (IInv /\ DataInv)' /\ [Next]_vars => [Store!Next]_<<ramdiskbuf, Io>>
  <2>. SUFFICES ASSUME Rungs, Users, BiosOK, DataInv, BiosOK', [Next]_vars
                PROVE  [Store!Next]_<<ramdiskbuf, Io>>
    BY DEF IInv, DataInv
  <2>1. CASE RamdiskInit
    BY <2>1, LoadRefines DEF Store!Next
  <2>2. CASE RamdiskExit
    BY <2>2 DEF RamdiskExit, Io
  <2>3. ASSUME NEW c \in Clients, RamdiskOpen(c) \/ RamdiskRelease(c)
        PROVE  UNCHANGED <<ramdiskbuf, Io>>
    BY <2>3 DEF RamdiskOpen, RamdiskRelease, Io
  <2>4. ASSUME NEW c \in Clients, MakeRequest(c) PROVE Store!Next
    BY <2>4, SubmitRefines DEF Store!Next
  <2>5. ASSUME NEW c \in Clients, CopyByte(c) PROVE Store!Next
    BY <2>5, MoveRefines DEF Store!Next
  <2>6. ASSUME NEW c \in Clients, EndBio(c) PROVE Store!Next
    BY <2>6, EndRefines DEF Store!Next
  <2>7. CASE UNCHANGED vars
    BY <2>7 DEF vars, Io
  <2>. QED  BY <2>1, <2>2, <2>3, <2>4, <2>5, <2>6, <2>7 DEF Next
<1>. QED  BY <1>1, <1>2, InductiveData, PTL DEF Spec, StoresBytes, Store!Spec
=============================================================================
