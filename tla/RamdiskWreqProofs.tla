------------------------- MODULE RamdiskWreqProofs --------------------------
(***************************************************************************)
(* For any number of processes and any size of the disk, whichever way the *)
(* elevator merges and orders bios: nothing is leaked, no request outlives *)
(* the buffer, none is lost or served twice, and the driver implements the *)
(* store of BlockStore with requests that are atomic.                      *)
(***************************************************************************)
EXTENDS RamdiskWreq, FiniteSetTheorems

\* What the driver holds at each step of its life.
Rungs ==
  \/ at = <<"off", 0>>  /\ held = {}
  \/ at = <<"init", 1>> /\ held = {}
  \/ at = <<"init", 2>> /\ held = {"ramdiskbuf"}
  \/ at = <<"init", 3>> /\ held = {"ramdiskbuf", "blkdev"}
  \/ at = <<"init", 4>> /\ held = {"ramdiskbuf", "blkdev", "gendisk"}
  \/ at = <<"init", 5>> /\ held = {"ramdiskbuf", "blkdev", "gendisk", "queue"}
  \/ at = <<"on", 0>>   /\ held = {"ramdiskbuf", "blkdev", "gendisk", "queue", "disk"}
  \/ at = <<"exit", 1>> /\ held = {"ramdiskbuf", "blkdev", "gendisk", "queue", "disk"}
  \/ at = <<"exit", 2>> /\ held = {"ramdiskbuf", "blkdev", "gendisk", "queue"}
  \/ at = <<"exit", 3>> /\ held = {"ramdiskbuf", "blkdev", "queue"}
  \/ at = <<"exit", 4>> /\ held = {"ramdiskbuf", "blkdev"}
  \/ at = <<"exit", 5>> /\ held = {"ramdiskbuf"}

\* A bio, and a process in request_fn, need an open disk, an open disk a driver
\* that is not going.
Users ==
  /\ file \in [Clients -> {"closed", "open"}]
  /\ \A c \in Clients : bio[c] # NoBio \/ c \in running => file[c] = "open"
  /\ \A c \in Clients : file[c] = "open" => at = <<"on", 0>>

\* Only the process that holds the queue lock has a request.
Locked ==
  /\ running \subseteq Clients
  /\ \A k, l \in running : k = l
  /\ \A k \in Clients : rq[k] # NoRq => k \in running

-----------------------------------------------------------------------------
(* Bios and requests. *)

Mems == UNION {[0 .. n - 1 -> Data] : n \in 1 .. Bytes}

Bios == [dir : {"read", "write"}, sector : 0 .. Sectors - 1, segs : Segments, page : Nat, mem : Mems]

\* Where the first byte of bio b, the current one and the one after its last
\* lie on the disk.
FirstByte(b) == b.sector * SectorSize
Place(b) == FirstByte(b) + b.page
Beyond(b) == Place(b) + Total(b.segs)

\* The segments that are left of a bio are the rest of its memory.
BioOK(b) ==
  /\ b \in Bios
  /\ b.mem \in [0 .. (b.page + Total(b.segs)) - 1 -> Data]
  /\ Beyond(b) <= Bytes

Requests == [pos : Nat, size : Nat, bios : Seq(Clients) \ {<<>>}, copied : BOOLEAN]

\* The bios of a request, in the state f of bios, are in flight; the head is the
\* only one that may have been begun, and each starts where the one before ends,
\* so that none ends behind the last.
Chain(s, f) ==
  /\ \A i, j \in 1 .. Len(s) : s[i] = s[j] => i = j
  /\ \A i \in 1 .. Len(s) : f[s[i]] # NoBio /\ BioOK(f[s[i]])
  /\ \A i \in 2 .. Len(s) : f[s[i]].page = 0
  /\ \A i \in 2 .. Len(s) : Place(f[s[i]]) = Beyond(f[s[i - 1]])
  /\ \A i \in 1 .. Len(s) : Beyond(f[s[i]]) <= Beyond(f[s[Len(s)]])

\* The position and the size of a request are those of its bios.
RequestOK(r, f) ==
  /\ r \in Requests
  /\ Chain(r.bios, f)
  /\ r.pos * SectorSize = Place(f[r.bios[1]])
  /\ (r.pos + r.size) * SectorSize = Beyond(f[r.bios[Len(r.bios)]])

\* The requests that wait have not been begun.
Untouched(r, f) == ~r.copied /\ f[r.bios[1]].page = 0

Members(r) == {r.bios[i] : i \in 1 .. Len(r.bios)}

BiosOK == bio \in [Clients -> {NoBio} \cup Bios] /\ \A c \in Clients : bio[c] # NoBio => BioOK(bio[c])
WaitingOK == \A r \in elevator : RequestOK(r, bio) /\ Untouched(r, bio)
ServedOK == DOMAIN rq = Clients /\ \A k \in Clients : rq[k] # NoRq => RequestOK(rq[k], bio)

\* No bio is in two requests, and each is in one.
Apart ==
  /\ \A r, q \in elevator : r # q => Members(r) \cap Members(q) = {}
  /\ \A r \in elevator, k \in Clients : Members(r) \cap Members(rq[k]) = {}
Covered ==
  \A c \in Clients : bio[c] # NoBio =>
    (\E r \in elevator : c \in Members(r)) \/ (\E k \in Clients : c \in Members(rq[k]))

QueueInv == BiosOK /\ WaitingOK /\ ServedOK /\ Apart /\ Covered

\* What has been copied of a write is on the disk.
BufferInv ==
  /\ ramdiskbuf \in [0 .. Bytes - 1 -> Data]
  /\ \A c \in Clients : bio[c] # NoBio /\ bio[c].dir = "write" =>
       \A i \in DOMAIN bio[c].mem :
         /\ bio[c].mem[i] = c
         /\ i < Copied(c) => ramdiskbuf[FirstByte(bio[c]) + i] = c

\* Only the head of the request that is being served has been begun.
BegunOK ==
  \A c \in Clients : bio[c] # NoBio /\ bio[c].page > 0 =>
    \E k \in Clients : rq[k] # NoRq /\ Head(rq[k].bios) = c

IInv == Rungs /\ Users /\ Locked /\ QueueInv /\ BufferInv /\ BegunOK

-----------------------------------------------------------------------------
(* The life of the driver. *)

\* The steps of init climb the rungs, those of exit and the labels descend.
LEMMA InitClimbs ==
  ASSUME Rungs, RamdiskInit
  PROVE  Rungs' /\ at # <<"on", 0>>
<1>1. CASE Life!Begin
  BY <1>1 DEF Rungs, Life!Begin
<1>2. ASSUME NEW i \in DOMAIN Acquired, Life!Acquire(i)
      PROVE  Rungs' /\ at # <<"on", 0>>
  <2>1. i \in 1 .. 5 /\ Len(Acquired) = 5
    BY DEF Acquired
  <2>2. CASE i = 1
    BY <1>2, <2>1, <2>2 DEF Rungs, Life!Acquire, Acquired
  <2>3. CASE i = 2
    BY <1>2, <2>1, <2>3 DEF Rungs, Life!Acquire, Acquired
  <2>4. CASE i = 3
    BY <1>2, <2>1, <2>4 DEF Rungs, Life!Acquire, Acquired
  <2>5. CASE i = 4
    BY <1>2, <2>1, <2>5 DEF Rungs, Life!Acquire, Acquired
  <2>6. CASE i = 5
    BY <1>2, <2>1, <2>6 DEF Rungs, Life!Acquire, Acquired
  <2>. QED  BY <2>1, <2>2, <2>3, <2>4, <2>5, <2>6
<1>3. ASSUME NEW i \in DOMAIN Acquired, Life!Fail(i)
      PROVE  Rungs' /\ at # <<"on", 0>>
  <2>1. i \in 1 .. 5 /\ Acquired[i] \in {"ramdiskbuf", "blkdev", "gendisk", "queue"}
    BY <1>3 DEF Life!Fail, Acquired, UndoneBy
  <2>2. CASE i = 1
    BY <1>3, <2>2 DEF Rungs, Life!Fail, Acquired, UndoneBy
  <2>3. CASE i = 2
    BY <1>3, <2>3 DEF Rungs, Life!Fail, Acquired, UndoneBy
  <2>4. CASE i = 3
    BY <1>3, <2>4 DEF Rungs, Life!Fail, Acquired, UndoneBy
  <2>5. CASE i = 4
    BY <1>3, <2>5 DEF Rungs, Life!Fail, Acquired, UndoneBy
  <2>6. i # 5
    BY <2>1 DEF Acquired
  <2>. QED  BY <2>1, <2>2, <2>3, <2>4, <2>5, <2>6
<1>. QED  BY <1>1, <1>2, <1>3 DEF RamdiskInit

LEMMA ExitDescends ==
  ASSUME Rungs, RamdiskExit
  PROVE  Rungs' /\ (at = <<"on", 0>> => ~InUse)
<1>1. CASE Life!Quit /\ ~InUse
  BY <1>1 DEF Rungs, Life!Quit
<1>2. ASSUME NEW i \in DOMAIN Released, Life!Release(i)
      PROVE  Rungs' /\ at # <<"on", 0>>
  <2>1. i \in 1 .. 5 /\ Len(Released) = 5
    BY DEF Released
  <2>2. CASE i = 1
    BY <1>2, <2>1, <2>2 DEF Rungs, Life!Release, Released
  <2>3. CASE i = 2
    BY <1>2, <2>1, <2>3 DEF Rungs, Life!Release, Released
  <2>4. CASE i = 3
    BY <1>2, <2>1, <2>4 DEF Rungs, Life!Release, Released
  <2>5. CASE i = 4
    BY <1>2, <2>1, <2>5 DEF Rungs, Life!Release, Released
  <2>6. CASE i = 5
    BY <1>2, <2>1, <2>6 DEF Rungs, Life!Release, Released
  <2>. QED  BY <2>1, <2>2, <2>3, <2>4, <2>5, <2>6
<1>. QED  BY <1>1, <1>2 DEF RamdiskExit

-----------------------------------------------------------------------------
(* Sectors and segments. *)

LEMMA Multiples ==
  ASSUME NEW x \in Nat, NEW y \in Nat
  PROVE  /\ x * SectorSize \in Nat
         /\ (x + y) * SectorSize = x * SectorSize + y * SectorSize
         /\ x * SectorSize <= y * SectorSize => x <= y
         /\ x * SectorSize < y * SectorSize => x < y
<1>. DEFINE S == SectorSize
<1>1. S \in Nat \ {0}
  BY SectorAssumption
<1>2. x * S \in Nat /\ (x + y) * S = x * S + y * S
  <2>. HIDE DEF S
  <2>. QED  BY <1>1, SMTT(30)
<1>3. ASSUME NEW u \in Nat, NEW v \in Nat, u < v PROVE u * S < v * S
  <2>. HIDE DEF S
  <2>1. u * S + S <= v * S
    BY <1>1, <1>3, SMTT(30)
  <2>2. u * S \in Nat /\ v * S \in Nat
    BY <1>1
  <2>. QED  BY <1>1, <2>1, <2>2
<1>4. x * S \in Nat /\ y * S \in Nat
  BY <1>1
<1>5. x < y \/ x = y \/ y < x
  OBVIOUS
<1>. HIDE DEF S
<1>6. (x * S <= y * S => x <= y) /\ (x * S < y * S => x < y)
  BY <1>3, <1>4, <1>5
<1>. QED  BY <1>2, <1>6 DEF S

LEMMA Lengths ==
  ASSUME NEW segs \in Segments
  PROVE  /\ Head(segs) \in {SectorSize, 2 * SectorSize}
         /\ Total(segs) \in {SectorSize, 2 * SectorSize}
         /\ Len(segs) = 1 => Total(segs) = Head(segs)
         /\ Len(segs) # 1 => Total(segs) = Head(segs) + Total(Tail(segs)) /\ Tail(segs) \in Segments
<1>. DEFINE S == SectorSize
<1>1. S \in Nat \ {0} /\ 2 * S \in Nat \ {0}
  BY SectorAssumption
<1>2. CASE segs \in {<<S>>, <<2 * S>>}
  <2>1. PICK a \in {S, 2 * S} : segs = <<a>>
    BY <1>2
  <2>2. a \in Nat \ {0}
    BY <1>1
  <2>3. Len(segs) = 1 /\ Head(segs) = a /\ Total(segs) = a
    BY <2>1, <2>2, TotalOne
  <2>. HIDE DEF S
  <2>. QED  BY <2>1, <2>3 DEF S
<1>3. CASE segs = <<S, S>>
  <2>1. Len(segs) = 2 /\ Head(segs) = S /\ Tail(segs) = <<S>>
    BY <1>3
  <2>2. Total(segs) = S + S /\ Total(Tail(segs)) = S
    BY <1>1, <1>3, <2>1, TotalOne, TotalTwo
  <2>3. Tail(segs) \in Segments
    BY <2>1 DEF Segments
  <2>4. S + S = 2 * S
    BY <1>1
  <2>. QED  BY <2>1, <2>2, <2>3, <2>4
<1>. QED  BY <1>2, <1>3 DEF Segments

LEMMA HeadAndTotal ==
  ASSUME NEW segs \in Segments
  PROVE  Head(segs) \in Nat \ {0} /\ Total(segs) \in Nat \ {0} /\ Head(segs) <= Total(segs)
<1>. DEFINE h == Head(segs)
            t == Total(Tail(segs))
<1>1. h \in Nat \ {0} /\ t \in Nat /\ Total(segs) = h + t
  BY FirstSegment
<1>. HIDE DEF h, t
<1>2. Total(segs) \in Nat \ {0} /\ h <= Total(segs)
  BY <1>1
<1>. QED  BY <1>1, <1>2 DEF h

LEMMA InSectors ==
  ASSUME NEW len \in {SectorSize, 2 * SectorSize}
  PROVE  /\ len \in Nat \ {0}
         /\ len \div SectorSize \in Nat \ {0}
         /\ (len \div SectorSize) * SectorSize = len
<1>. DEFINE S == SectorSize
<1>1. S \in Nat \ {0}
  BY SectorAssumption
<1>2. S \div S = 1
  <2>. HIDE DEF S
  <2>. QED  BY <1>1, SMTT(30)
<1>3. (2 * S) \div S = 2
  <2>. HIDE DEF S
  <2>. QED  BY <1>1, SMTT(30)
<1>4. 1 * S = S /\ 2 * S \in Nat \ {0}
  BY <1>1
<1>. QED  BY <1>1, <1>2, <1>3, <1>4

-----------------------------------------------------------------------------
(* Requests: what merging and completing does to them. *)

\* A request does not depend on bios that are not in it.
LEMMA RequestSame ==
  ASSUME NEW r, NEW f, NEW g, RequestOK(r, f),
         \A i \in 1 .. Len(r.bios) : g[r.bios[i]] = f[r.bios[i]]
  PROVE  RequestOK(r, g) /\ (Untouched(r, f) => Untouched(r, g))
<1>1. r.bios \in Seq(Clients) /\ r.bios # <<>>
  BY DEF RequestOK, Requests
<1>2. Len(r.bios) \in Nat \ {0} /\ 1 \in 1 .. Len(r.bios) /\ Len(r.bios) \in 1 .. Len(r.bios)
  BY <1>1
<1>3. Chain(r.bios, g)
  <2>1. \A i \in 2 .. Len(r.bios) : i \in 1 .. Len(r.bios) /\ i - 1 \in 1 .. Len(r.bios)
    BY <1>2
  <2>. QED  BY <2>1 DEF RequestOK, Chain
<1>. QED  BY <1>2, <1>3 DEF RequestOK, Untouched

LEMMA BeyondNat ==
  ASSUME NEW b, BioOK(b)
  PROVE  /\ FirstByte(b) \in Nat /\ Place(b) \in Nat /\ Beyond(b) \in Nat
         /\ Place(b) < Beyond(b)
<1>1. b.sector \in Nat /\ b.page \in Nat /\ b.segs \in Segments
  BY RamdiskAssumption DEF BioOK, Bios
<1>2. Total(b.segs) \in Nat \ {0}
  BY <1>1, Lengths, InSectors
<1>3. FirstByte(b) \in Nat
  BY <1>1, Multiples DEF FirstByte
<1>4. Place(b) \in Nat
  BY <1>1, <1>3 DEF Place
<1>. QED  BY <1>2, <1>3, <1>4 DEF Beyond

LEMMA MemIndex ==
  ASSUME NEW b, BioOK(b), NEW i \in DOMAIN b.mem
  PROVE  i \in Nat /\ i \in 0 .. (b.page + Total(b.segs)) - 1
<1>1. i \in 0 .. (b.page + Total(b.segs)) - 1
  BY DEF BioOK
<1>. QED  BY <1>1

\* A bio of its own.
LEMMA RequestOne ==
  ASSUME NEW c \in Clients, NEW b, BioOK(b), b.page = 0, NEW g, g[c] = b, b # NoBio
  PROVE  LET r == [pos |-> b.sector, size |-> Total(b.segs) \div SectorSize, bios |-> <<c>>, copied |-> FALSE]
         IN  RequestOK(r, g) /\ Untouched(r, g) /\ Members(r) = {c}
<1>. DEFINE n == Total(b.segs) \div SectorSize
            r == [pos |-> b.sector, size |-> n, bios |-> <<c>>, copied |-> FALSE]
<1>1. b.sector \in Nat /\ b.segs \in Segments
  BY RamdiskAssumption DEF BioOK, Bios
<1>2. n \in Nat /\ n * SectorSize = Total(b.segs) /\ Total(b.segs) \in Nat
  BY <1>1, Lengths, InSectors
<1>3. r.bios \in Seq(Clients) \ {<<>>} /\ Len(r.bios) = 1 /\ r.bios[1] = c
  OBVIOUS
<1>4. r \in Requests
  BY <1>1, <1>2, <1>3 DEF Requests
<1>5. Chain(r.bios, g)
  <2>1. Beyond(b) \in Nat
    BY BeyondNat
  <2>. QED  BY <1>3, <2>1 DEF Chain
<1>6. r.pos * SectorSize = Place(b) /\ (r.pos + r.size) * SectorSize = Beyond(b)
  <2>1. /\ b.sector * SectorSize \in Nat
        /\ (b.sector + n) * SectorSize = b.sector * SectorSize + n * SectorSize
    BY <1>1, <1>2, Multiples
  <2>2. r.pos = b.sector /\ r.size = n
    OBVIOUS
  <2>. HIDE DEF n, r
  <2>. QED  BY <1>2, <2>1, <2>2 DEF Place, FirstByte, Beyond
<1>7. ~r.copied
  OBVIOUS
<1>8. Members(r) = {c}
  BY <1>3 DEF Members
<1>. HIDE DEF r
<1>9. RequestOK(r, g) /\ Untouched(r, g)
  BY <1>3, <1>4, <1>5, <1>6, <1>7 DEF RequestOK, Untouched
<1>. QED  BY <1>8, <1>9 DEF r

\* A bio at the back and at the front of a request that waits.
AtBack(r, c, b) ==
  [r EXCEPT !.bios = Append(@, c), !.size = @ + Total(b.segs) \div SectorSize]
AtFront(r, c, b) ==
  [r EXCEPT !.bios = <<c>> \o @, !.size = @ + Total(b.segs) \div SectorSize, !.pos = b.sector]

LEMMA RequestBack ==
  ASSUME NEW c \in Clients, NEW b, BioOK(b), b.page = 0, b # NoBio,
         NEW f, NEW r, RequestOK(r, f), Untouched(r, f), c \notin Members(r),
         r.pos + r.size = b.sector,
         NEW g, g[c] = b, \A i \in 1 .. Len(r.bios) : g[r.bios[i]] = f[r.bios[i]]
  PROVE  LET q == AtBack(r, c, b)
         IN  RequestOK(q, g) /\ Untouched(q, g) /\ Members(q) = Members(r) \cup {c}
<1>. DEFINE n == Total(b.segs) \div SectorSize
            s == Append(r.bios, c)
            m == Len(r.bios)
            q == [r EXCEPT !.bios = Append(@, c), !.size = @ + n]
<1>1. b.sector \in Nat /\ b.segs \in Segments
  BY RamdiskAssumption DEF BioOK, Bios
<1>2. n \in Nat /\ n * SectorSize = Total(b.segs) /\ Total(b.segs) \in Nat
  BY <1>1, Lengths, InSectors
<1>3. r.bios \in Seq(Clients) \ {<<>>} /\ r.pos \in Nat /\ r.size \in Nat
  BY DEF RequestOK, Requests
<1>4. /\ s \in Seq(Clients) \ {<<>>} /\ m \in Nat \ {0} /\ Len(s) = m + 1 /\ s[m + 1] = c
      /\ \A i \in 1 .. m : s[i] = r.bios[i]
  BY <1>3
<1>5. /\ q.pos = r.pos /\ q.size = r.size + n /\ q.bios = s /\ q.copied = r.copied
      /\ q \in Requests
  <2>. HIDE DEF n
  <2>1. r \in Requests /\ r.size + n \in Nat
    BY <1>2, <1>3 DEF RequestOK
  <2>2. q = [r EXCEPT !.bios = s, !.size = r.size + n]
    OBVIOUS
  <2>. HIDE DEF s, q
  <2>. QED  BY <1>4, <2>1, <2>2 DEF Requests
<1>. HIDE DEF n, s, m, q
<1>6. RequestOK(r, g) /\ Untouched(r, g)
  BY RequestSame
<1>7. Place(b) = Beyond(g[r.bios[m]])
  <2>1. (r.pos + r.size) * SectorSize = Beyond(g[r.bios[m]])
    BY <1>6 DEF RequestOK, m
  <2>2. b.sector * SectorSize \in Nat
    BY <1>1, Multiples
  <2>. QED  BY <1>1, <2>1, <2>2 DEF Place, FirstByte
<1>8. Chain(s, g)
  <2>1. Chain(r.bios, g) /\ \A i \in 1 .. m : r.bios[i] # c
    BY <1>6 DEF RequestOK, Members, m
  <2>2. \A i \in 1 .. m + 1 : i \in 1 .. m \/ i = m + 1
    BY <1>4
  <2>3. \A i \in 2 .. m + 1 : i - 1 \in 1 .. m /\ (i \in 2 .. m \/ i = m + 1)
    BY <1>4
  <2>4. ASSUME NEW i \in 1 .. Len(s), NEW j \in 1 .. Len(s), s[i] = s[j] PROVE i = j
    <3>1. \A k, l \in 1 .. m : r.bios[k] = r.bios[l] => k = l
      BY <2>1 DEF Chain, m
    <3>2. (i \in 1 .. m \/ i = m + 1) /\ (j \in 1 .. m \/ j = m + 1)
      BY <1>4, <2>2
    <3>. QED  BY <1>4, <2>1, <2>4, <3>1, <3>2
  <2>5. \A i \in 1 .. Len(s) : g[s[i]] # NoBio /\ BioOK(g[s[i]])
    BY <1>4, <2>1, <2>2 DEF Chain, m
  <2>6. ASSUME NEW i \in 2 .. Len(s) PROVE g[s[i]].page = 0 /\ Place(g[s[i]]) = Beyond(g[s[i - 1]])
    <3>1. CASE i \in 2 .. m
      <4>1. s[i] = r.bios[i] /\ s[i - 1] = r.bios[i - 1]
        BY <1>4, <3>1
      <4>. QED  BY <2>1, <3>1, <4>1 DEF Chain, m
    <3>2. CASE i = m + 1
      <4>1. s[i] = c /\ s[i - 1] = r.bios[m]
        BY <1>4, <3>2
      <4>. QED  BY <1>7, <4>1
    <3>. QED  BY <1>4, <2>3, <3>1, <3>2
  <2>7. ASSUME NEW i \in 1 .. Len(s) PROVE Beyond(g[s[i]]) <= Beyond(g[s[Len(s)]])
    <3>1. \A k \in 1 .. m : Beyond(g[r.bios[k]]) \in Nat /\ Beyond(g[r.bios[k]]) <= Beyond(g[r.bios[m]])
      BY <2>1, BeyondNat DEF Chain, m
    <3>2. Beyond(b) \in Nat /\ Place(b) \in Nat /\ Place(b) < Beyond(b)
      BY BeyondNat
    <3>3. \A k \in 1 .. m : Beyond(g[r.bios[k]]) \in Nat /\ Beyond(g[r.bios[k]]) <= Beyond(b)
      BY <1>7, <3>1, <3>2
    <3>4. g[s[Len(s)]] = b
      BY <1>4
    <3>. QED  BY <1>4, <2>2, <3>2, <3>3, <3>4
  <2>. QED  BY <2>4, <2>5, <2>6, <2>7 DEF Chain
<1>9. q.pos * SectorSize = Place(g[s[1]]) /\ ~q.copied /\ g[s[1]].page = 0
  BY <1>4, <1>5, <1>6 DEF RequestOK, Untouched
<1>10. (q.pos + q.size) * SectorSize = Beyond(g[s[Len(s)]])
  <2>1. q.pos + q.size = b.sector + n
    BY <1>2, <1>3, <1>5
  <2>2. (b.sector + n) * SectorSize = b.sector * SectorSize + n * SectorSize /\ b.sector * SectorSize \in Nat
    BY <1>1, <1>2, Multiples
  <2>3. Beyond(b) = b.sector * SectorSize + Total(b.segs)
    BY <1>2, <2>2 DEF Beyond, Place, FirstByte
  <2>. QED  BY <1>2, <1>4, <2>1, <2>2, <2>3
<1>11. Members(q) = Members(r) \cup {c}
  BY <1>4, <1>5 DEF Members, m
<1>12. RequestOK(q, g) /\ Untouched(q, g)
  BY <1>5, <1>8, <1>9, <1>10 DEF RequestOK, Untouched
<1>. QED  BY <1>11, <1>12 DEF q, n, AtBack

LEMMA RequestFront ==
  ASSUME NEW c \in Clients, NEW b, BioOK(b), b.page = 0, b # NoBio,
         NEW f, NEW r, RequestOK(r, f), Untouched(r, f), c \notin Members(r),
         b.sector + Total(b.segs) \div SectorSize = r.pos,
         NEW g, g[c] = b, \A i \in 1 .. Len(r.bios) : g[r.bios[i]] = f[r.bios[i]]
  PROVE  LET q == AtFront(r, c, b)
         IN  RequestOK(q, g) /\ Untouched(q, g) /\ Members(q) = Members(r) \cup {c}
<1>. DEFINE n == Total(b.segs) \div SectorSize
            s == <<c>> \o r.bios
            m == Len(r.bios)
            q == [r EXCEPT !.bios = <<c>> \o @, !.size = @ + n, !.pos = b.sector]
<1>1. b.sector \in Nat /\ b.segs \in Segments
  BY RamdiskAssumption DEF BioOK, Bios
<1>2. n \in Nat /\ n * SectorSize = Total(b.segs) /\ Total(b.segs) \in Nat
  BY <1>1, Lengths, InSectors
<1>3. r.bios \in Seq(Clients) \ {<<>>} /\ r.pos \in Nat /\ r.size \in Nat
  BY DEF RequestOK, Requests
<1>4. /\ s \in Seq(Clients) \ {<<>>} /\ m \in Nat \ {0} /\ Len(s) = m + 1 /\ s[1] = c
      /\ \A i \in 2 .. m + 1 : s[i] = r.bios[i - 1] /\ i - 1 \in 1 .. m
  <2>1. <<c>> \in Seq(Clients) /\ Len(<<c>>) = 1 /\ <<c>>[1] = c
    OBVIOUS
  <2>2. m \in Nat \ {0}
    BY <1>3
  <2>. QED  BY <1>3, <2>1, <2>2
<1>5. /\ q.pos = b.sector /\ q.size = r.size + n /\ q.bios = s /\ q.copied = r.copied
      /\ q \in Requests
  <2>. HIDE DEF n
  <2>1. r \in Requests /\ r.size + n \in Nat
    BY <1>2, <1>3 DEF RequestOK
  <2>2. q = [r EXCEPT !.bios = s, !.size = r.size + n, !.pos = b.sector]
    OBVIOUS
  <2>. HIDE DEF s, q
  <2>. QED  BY <1>1, <1>4, <2>1, <2>2 DEF Requests
<1>. HIDE DEF n, s, m, q
<1>6. RequestOK(r, g) /\ Untouched(r, g)
  BY RequestSame
<1>7. Beyond(b) = Place(g[r.bios[1]])
  <2>1. r.pos * SectorSize = Place(g[r.bios[1]])
    BY <1>6 DEF RequestOK
  <2>2. /\ b.sector * SectorSize \in Nat
        /\ (b.sector + n) * SectorSize = b.sector * SectorSize + n * SectorSize
    BY <1>1, <1>2, Multiples
  <2>3. b.sector + n = r.pos
    BY DEF n
  <2>. QED  BY <1>1, <1>2, <2>1, <2>2, <2>3 DEF Place, FirstByte, Beyond
<1>8. Chain(s, g)
  <2>1. Chain(r.bios, g) /\ \A i \in 1 .. m : r.bios[i] # c
    BY <1>6 DEF RequestOK, Members, m
  <2>2. \A i \in 1 .. m + 1 : i = 1 \/ i \in 2 .. m + 1
    BY <1>4
  <2>3. ASSUME NEW i \in 1 .. Len(s), NEW j \in 1 .. Len(s), s[i] = s[j] PROVE i = j
    <3>1. \A k, l \in 1 .. m : r.bios[k] = r.bios[l] => k = l
      BY <2>1 DEF Chain, m
    <3>2. (i \in 2 .. m + 1 \/ i = 1) /\ (j \in 2 .. m + 1 \/ j = 1)
      BY <1>4, <2>2
    <3>3. ASSUME i \in 2 .. m + 1, j \in 2 .. m + 1 PROVE i = j
      <4>1. i - 1 = j - 1
        BY <1>4, <2>3, <3>1, <3>3
      <4>. QED  BY <3>3, <4>1
    <3>4. \A k \in 2 .. m + 1 : s[k] # s[1]
      BY <1>4, <2>1
    <3>. QED  BY <2>3, <3>2, <3>3, <3>4
  <2>4. ASSUME NEW i \in 1 .. Len(s) PROVE g[s[i]] # NoBio /\ BioOK(g[s[i]])
    <3>1. \A k \in 1 .. m : g[r.bios[k]] # NoBio /\ BioOK(g[r.bios[k]])
      BY <2>1 DEF Chain, m
    <3>. QED  BY <1>4, <2>2, <3>1
  <2>5. ASSUME NEW i \in 2 .. Len(s) PROVE g[s[i]].page = 0 /\ Place(g[s[i]]) = Beyond(g[s[i - 1]])
    <3>1. s[i] = r.bios[i - 1] /\ i - 1 \in 1 .. m
      BY <1>4
    <3>2. CASE i = 2
      <4>1. s[i] = r.bios[1] /\ s[i - 1] = c
        BY <1>4, <3>1, <3>2
      <4>. QED  BY <1>6, <1>7, <4>1 DEF Untouched
    <3>3. CASE i # 2
      <4>1. i - 1 \in 2 .. m /\ i - 1 \in 2 .. m + 1 /\ (i - 1) - 1 = i - 2
        BY <1>4, <3>3
      <4>2. s[i - 1] = r.bios[(i - 1) - 1]
        BY <1>4, <4>1
      <4>. QED  BY <2>1, <3>1, <4>1, <4>2 DEF Chain, m
    <3>. QED  BY <3>2, <3>3
  <2>6. s[Len(s)] = r.bios[m]
    <3>1. m + 1 \in 2 .. m + 1 /\ (m + 1) - 1 = m
      BY <1>4
    <3>. QED  BY <1>4, <3>1
  <2>7. ASSUME NEW i \in 1 .. Len(s) PROVE Beyond(g[s[i]]) <= Beyond(g[s[Len(s)]])
    <3>1. \A k \in 1 .. m : Beyond(g[r.bios[k]]) \in Nat /\ Beyond(g[r.bios[k]]) <= Beyond(g[r.bios[m]])
      BY <2>1, BeyondNat DEF Chain, m
    <3>2. Beyond(b) \in Nat
      BY BeyondNat
    <3>3. CASE i \in 2 .. m + 1
      BY <1>4, <2>6, <3>1, <3>3
    <3>4. CASE i = 1
      <4>1. 1 \in 1 .. m /\ m \in 1 .. m
        BY <1>4
      <4>2. Beyond(b) <= Beyond(g[r.bios[m]])
        <5>0. BioOK(g[r.bios[1]])
          BY <2>1, <4>1 DEF Chain, m
        <5>1. Place(g[r.bios[1]]) <= Beyond(g[r.bios[m]])
          BY <3>1, <4>1, <5>0, BeyondNat
        <5>. QED  BY <1>7, <5>1
      <4>. QED  BY <1>4, <2>6, <3>2, <3>4, <4>2
    <3>. QED  BY <1>4, <2>2, <3>3, <3>4
  <2>. QED  BY <2>3, <2>4, <2>5, <2>7 DEF Chain
<1>9. q.pos * SectorSize = Place(g[s[1]]) /\ ~q.copied /\ g[s[1]].page = 0
  <2>1. b.sector * SectorSize \in Nat
    BY <1>1, Multiples
  <2>2. q.pos * SectorSize = Place(b)
    BY <1>5, <2>1 DEF Place, FirstByte
  <2>. QED  BY <1>4, <1>5, <1>6, <2>2 DEF Untouched
<1>10. (q.pos + q.size) * SectorSize = Beyond(g[s[Len(s)]])
  <2>1. q.pos + q.size = r.pos + r.size
    <3>1. b.sector + n = r.pos
      BY DEF n
    <3>. QED  BY <1>1, <1>2, <1>3, <1>5, <3>1
  <2>2. s[Len(s)] = r.bios[m]
    <3>1. m + 1 \in 2 .. m + 1 /\ (m + 1) - 1 = m
      BY <1>4
    <3>. QED  BY <1>4, <3>1
  <2>. QED  BY <1>6, <2>1, <2>2 DEF RequestOK, m
<1>11. Members(q) = Members(r) \cup {c}
  <2>1. \A i \in 1 .. m : i + 1 \in 2 .. m + 1 /\ (i + 1) - 1 = i
    BY <1>4
  <2>2. \A i \in 1 .. m : s[i + 1] = r.bios[i]
    BY <1>4, <2>1
  <2>3. \A i \in 1 .. m + 1 : i = 1 \/ i \in 2 .. m + 1
    BY <1>4
  <2>4. \A i \in 2 .. m + 1 : i \in 1 .. m + 1
    BY <1>4
  <2>5. 1 \in 1 .. m + 1 /\ Len(q.bios) = m + 1 /\ q.bios = s
    BY <1>4, <1>5
  <2>6. Members(q) = {s[i] : i \in 1 .. m + 1} /\ Members(r) = {r.bios[i] : i \in 1 .. m}
    BY <2>5 DEF Members, m
  <2>7. ASSUME NEW x \in Members(q) PROVE x \in Members(r) \cup {c}
    <3>1. PICK i \in 1 .. m + 1 : x = s[i]
      BY <2>6
    <3>2. CASE i = 1
      BY <1>4, <3>1, <3>2
    <3>3. CASE i \in 2 .. m + 1
      BY <1>4, <2>6, <3>1, <3>3
    <3>. QED  BY <2>3, <3>2, <3>3
  <2>8. ASSUME NEW x \in Members(r) PROVE x \in Members(q)
    <3>1. PICK i \in 1 .. m : x = r.bios[i]
      BY <2>6
    <3>2. x = s[i + 1] /\ i + 1 \in 1 .. m + 1
      BY <2>1, <2>2, <2>4, <3>1
    <3>. QED  BY <2>6, <3>2
  <2>9. c \in Members(q)
    BY <1>4, <2>5, <2>6
  <2>. QED  BY <2>7, <2>8, <2>9
<1>12. RequestOK(q, g) /\ Untouched(q, g)
  BY <1>5, <1>8, <1>9, <1>10 DEF RequestOK, Untouched
<1>. QED  BY <1>11, <1>12 DEF q, n, AtFront

\* What is left of a request once the current segment is done.
LEMMA RequestLeft ==
  ASSUME NEW r, NEW f, RequestOK(r, f)
  PROVE  LET b == f[r.bios[1]]
             n == Head(b.segs) \div SectorSize
         IN  /\ BioOK(b) /\ b # NoBio
             /\ n \in Nat \ {0}
             /\ r.pos \in Nat /\ r.size \in Nat
             /\ r.size - n \in Nat
             /\ (r.pos + n) + (r.size - n) = r.pos + r.size
             /\ (r.pos + n) * SectorSize = Place(b) + Head(b.segs)
<1>. DEFINE b == f[r.bios[1]]
            len == Head(b.segs)
            n == len \div SectorSize
            last == f[r.bios[Len(r.bios)]]
<1>1. r.pos \in Nat /\ r.size \in Nat /\ Len(r.bios) \in Nat \ {0}
  BY DEF RequestOK, Requests
<1>2. 1 \in 1 .. Len(r.bios) /\ Len(r.bios) \in 1 .. Len(r.bios)
  BY <1>1
<1>3. BioOK(b) /\ b # NoBio /\ BioOK(last) /\ Beyond(b) <= Beyond(last)
  BY <1>2 DEF RequestOK, Chain
<1>4. r.pos * SectorSize = Place(b) /\ (r.pos + r.size) * SectorSize = Beyond(last)
  BY DEF RequestOK
<1>5. b.segs \in Segments
  BY <1>3 DEF BioOK, Bios
<1>6. len \in Nat \ {0} /\ n \in Nat \ {0} /\ n * SectorSize = len
  BY <1>5, Lengths, InSectors
<1>7. Total(b.segs) \in Nat /\ len <= Total(b.segs)
  BY <1>5, FirstSegment
<1>8. Place(b) \in Nat /\ Beyond(b) \in Nat /\ Beyond(last) \in Nat
  BY <1>3, BeyondNat
<1>9. Place(b) + len <= Beyond(b)
  <2>. HIDE DEF len, b
  <2>. QED  BY <1>6, <1>7, <1>8 DEF Beyond
<1>. HIDE DEF b, len, n, last
<1>10. (r.pos + n) * SectorSize = Place(b) + len
  BY <1>1, <1>4, <1>6, Multiples
<1>11. (r.pos + n) * SectorSize <= (r.pos + r.size) * SectorSize
  BY <1>3, <1>4, <1>6, <1>8, <1>9, <1>10
<1>12. r.pos + n \in Nat /\ r.pos + r.size \in Nat
  BY <1>1, <1>6
<1>13. r.pos + n <= r.pos + r.size
  BY <1>11, <1>12, Multiples
<1>14. r.size - n \in Nat /\ (r.pos + n) + (r.size - n) = r.pos + r.size
  BY <1>1, <1>6, <1>13
<1>. QED  BY <1>1, <1>3, <1>6, <1>10, <1>14 DEF b, len, n

\* The bio at the head has ended.
LEMMA RequestTail ==
  ASSUME NEW r, NEW f, RequestOK(r, f), Len(f[r.bios[1]].segs) = 1, Tail(r.bios) # <<>>,
         NEW g, \A i \in 2 .. Len(r.bios) : g[r.bios[i]] = f[r.bios[i]]
  PROVE  LET n == Head(f[r.bios[1]].segs) \div SectorSize
             q == [pos |-> r.pos + n, size |-> r.size - n, bios |-> Tail(r.bios), copied |-> FALSE]
         IN  RequestOK(q, g) /\ Members(q) = Members(r) \ {r.bios[1]} /\ g[q.bios[1]].page = 0
<1>. DEFINE b == f[r.bios[1]]
            n == Head(b.segs) \div SectorSize
            s == Tail(r.bios)
            m == Len(r.bios)
            q == [pos |-> r.pos + n, size |-> r.size - n, bios |-> s, copied |-> FALSE]
<1>1. /\ BioOK(b) /\ n \in Nat \ {0} /\ r.pos \in Nat /\ r.size \in Nat /\ r.size - n \in Nat
      /\ (r.pos + n) + (r.size - n) = r.pos + r.size
      /\ (r.pos + n) * SectorSize = Place(b) + Head(b.segs)
  BY RequestLeft
<1>2. r.bios \in Seq(Clients) \ {<<>>} /\ Chain(r.bios, f)
  BY DEF RequestOK, Requests
<1>3. /\ m \in Nat /\ m > 1 /\ Len(s) = m - 1 /\ s \in Seq(Clients) \ {<<>>}
      /\ \A i \in 1 .. m - 1 : s[i] = r.bios[i + 1]
  BY <1>2
<1>4. r.pos + n \in Nat
  BY <1>1
<1>5. q \in Requests
  BY <1>1, <1>3, <1>4 DEF Requests
<1>6. q.pos = r.pos + n /\ q.size = r.size - n /\ q.bios = s /\ ~q.copied
  OBVIOUS
<1>7. Head(b.segs) = Total(b.segs)
  BY <1>1, Lengths DEF BioOK, Bios
<1>. HIDE DEF b, n, s, m, q
<1>8. \A i \in 1 .. m - 1 : i + 1 \in 1 .. m /\ i + 1 \in 2 .. m
  BY <1>3
<1>9. \A i \in 1 .. m - 1 : g[s[i]] = f[r.bios[i + 1]]
  BY <1>3, <1>8 DEF m
<1>10. Chain(s, g)
  <2>1. ASSUME NEW i \in 1 .. Len(s), NEW j \in 1 .. Len(s), s[i] = s[j] PROVE i = j
    <3>1. i + 1 = j + 1
      BY <1>2, <1>3, <1>8, <2>1 DEF Chain, m
    <3>. QED  BY <1>3, <3>1
  <2>2. ASSUME NEW i \in 1 .. Len(s) PROVE g[s[i]] # NoBio /\ BioOK(g[s[i]])
    <3>1. i \in 1 .. m - 1 /\ i + 1 \in 1 .. Len(r.bios)
      BY <1>3, <1>8 DEF m
    <3>2. f[r.bios[i + 1]] # NoBio /\ BioOK(f[r.bios[i + 1]])
      BY <1>2, <3>1 DEF Chain
    <3>. QED  BY <1>9, <3>1, <3>2
  <2>3. ASSUME NEW i \in 2 .. Len(s) PROVE g[s[i]].page = 0 /\ Place(g[s[i]]) = Beyond(g[s[i - 1]])
    <3>1. /\ i \in 1 .. m - 1 /\ i - 1 \in 1 .. m - 1 /\ i + 1 \in 2 .. m
          /\ (i - 1) + 1 = i /\ (i + 1) - 1 = i
      BY <1>3
    <3>2. g[s[i]] = f[r.bios[i + 1]] /\ g[s[i - 1]] = f[r.bios[i]]
      BY <1>9, <3>1
    <3>3. /\ f[r.bios[i + 1]].page = 0
          /\ Place(f[r.bios[i + 1]]) = Beyond(f[r.bios[(i + 1) - 1]])
      BY <1>2, <3>1 DEF Chain, m
    <3>. QED  BY <3>1, <3>2, <3>3
  <2>4. ASSUME NEW i \in 1 .. Len(s) PROVE Beyond(g[s[i]]) <= Beyond(g[s[Len(s)]])
    <3>1. g[s[Len(s)]] = f[r.bios[m]]
      <4>1. m - 1 \in 1 .. m - 1 /\ (m - 1) + 1 = m
        BY <1>3
      <4>. QED  BY <1>3, <1>9, <4>1
    <3>. QED  BY <1>2, <1>3, <1>8, <1>9, <3>1 DEF Chain, m
  <2>. QED  BY <2>1, <2>2, <2>3, <2>4 DEF Chain
<1>11. g[s[1]] = f[r.bios[2]] /\ s[1] = r.bios[2] /\ 2 \in 2 .. m /\ 2 - 1 = 1
  <2>1. 1 \in 1 .. m - 1 /\ 1 + 1 = 2 /\ 2 \in 2 .. m
    BY <1>3
  <2>. QED  BY <1>3, <1>9, <2>1
<1>12. q.pos * SectorSize = Place(g[s[1]]) /\ g[s[1]].page = 0
  <2>1. Place(f[r.bios[2]]) = Beyond(f[r.bios[2 - 1]]) /\ f[r.bios[2]].page = 0
    BY <1>2, <1>11 DEF Chain, m
  <2>2. Place(f[r.bios[2]]) = Place(b) + Total(b.segs)
    BY <1>11, <2>1 DEF Beyond, b
  <2>. QED  BY <1>1, <1>6, <1>7, <1>11, <2>1, <2>2
<1>13. (q.pos + q.size) * SectorSize = Beyond(g[s[Len(s)]])
  <2>1. g[s[Len(s)]] = f[r.bios[m]]
    <3>1. m - 1 \in 1 .. m - 1 /\ (m - 1) + 1 = m
      BY <1>3
    <3>. QED  BY <1>3, <1>9, <3>1
  <2>2. (r.pos + r.size) * SectorSize = Beyond(f[r.bios[m]])
    BY DEF RequestOK, m
  <2>. QED  BY <1>1, <1>6, <2>1, <2>2
<1>14. Members(q) = Members(r) \ {r.bios[1]}
  <2>1. Members(q) = {s[i] : i \in 1 .. m - 1} /\ Members(r) = {r.bios[i] : i \in 1 .. m}
    BY <1>3, <1>6 DEF Members, m
  <2>2. ASSUME NEW x \in Members(q) PROVE x \in Members(r) \ {r.bios[1]}
    <3>1. PICK i \in 1 .. m - 1 : x = s[i]
      BY <2>1
    <3>2. x = r.bios[i + 1] /\ i + 1 \in 1 .. m /\ 1 \in 1 .. m /\ i + 1 # 1
      BY <1>3, <1>8, <3>1
    <3>. QED  BY <1>2, <2>1, <3>2 DEF Chain, m
  <2>3. ASSUME NEW x \in Members(r) \ {r.bios[1]} PROVE x \in Members(q)
    <3>1. PICK i \in 1 .. m : x = r.bios[i] /\ i # 1
      BY <2>1
    <3>2. i - 1 \in 1 .. m - 1 /\ (i - 1) + 1 = i
      BY <1>3, <3>1
    <3>3. x = s[i - 1]
      BY <1>3, <3>1, <3>2
    <3>. QED  BY <2>1, <3>2, <3>3
  <2>. QED  BY <2>2, <2>3
<1>15. RequestOK(q, g)
  BY <1>5, <1>6, <1>10, <1>12, <1>13 DEF RequestOK
<1>. QED  BY <1>6, <1>12, <1>14, <1>15 DEF b, n, s, q

\* A segment of the bio at the head is done, and it was not its last.
Shortened(b) == [b EXCEPT !.segs = Tail(@), !.page = @ + Head(b.segs)]

LEMMA RequestAdvance ==
  ASSUME NEW r, NEW f, RequestOK(r, f), Len(f[r.bios[1]].segs) # 1,
         NEW g, g[r.bios[1]] = Shortened(f[r.bios[1]]),
         \A i \in 2 .. Len(r.bios) : g[r.bios[i]] = f[r.bios[i]]
  PROVE  LET n == Head(f[r.bios[1]].segs) \div SectorSize
             q == [pos |-> r.pos + n, size |-> r.size - n, bios |-> r.bios, copied |-> FALSE]
         IN  /\ RequestOK(q, g) /\ Members(q) = Members(r)
             /\ BioOK(g[r.bios[1]]) /\ g[r.bios[1]] # NoBio
<1>. DEFINE b == f[r.bios[1]]
            h == g[r.bios[1]]
            len == Head(b.segs)
            n == len \div SectorSize
            s == r.bios
            m == Len(s)
            q == [pos |-> r.pos + n, size |-> r.size - n, bios |-> s, copied |-> FALSE]
<1>1. /\ BioOK(b) /\ n \in Nat \ {0} /\ r.pos \in Nat /\ r.size \in Nat /\ r.size - n \in Nat
      /\ (r.pos + n) + (r.size - n) = r.pos + r.size
      /\ (r.pos + n) * SectorSize = Place(b) + len
  BY RequestLeft
<1>2. s \in Seq(Clients) \ {<<>>} /\ m \in Nat \ {0} /\ Chain(s, f)
  BY DEF RequestOK, Requests
<1>3. r.pos + n \in Nat
  BY <1>1
<1>4. q \in Requests
  BY <1>1, <1>2, <1>3 DEF Requests
<1>5. q.pos = r.pos + n /\ q.size = r.size - n /\ q.bios = s /\ ~q.copied
  OBVIOUS
<1>6. b \in Bios /\ b.segs \in Segments /\ b.page \in Nat
  BY <1>1 DEF BioOK, Bios
<1>7. /\ len \in Nat \ {0} /\ Tail(b.segs) \in Segments /\ Total(Tail(b.segs)) \in Nat
      /\ Total(b.segs) = len + Total(Tail(b.segs))
  BY <1>6, Lengths, FirstSegment
<1>8. /\ h \in Bios /\ h.page = b.page + len /\ h.segs = Tail(b.segs) /\ h.sector = b.sector
      /\ h.mem = b.mem
  <2>1. b.page + len \in Nat
    BY <1>6, <1>7
  <2>2. h = [b EXCEPT !.segs = Tail(b.segs), !.page = b.page + len]
    BY DEF Shortened
  <2>. HIDE DEF b, h, len
  <2>. QED  BY <1>6, <1>7, <2>1, <2>2 DEF Bios
<1>. HIDE DEF b, h, len, n, q
<1>9. FirstByte(h) = FirstByte(b) /\ FirstByte(b) \in Nat
  BY <1>1, <1>8, BeyondNat DEF FirstByte
<1>10. Place(h) = Place(b) + len /\ Beyond(h) = Beyond(b)
  BY <1>6, <1>7, <1>8, <1>9 DEF Place, Beyond
<1>11. BioOK(h)
  <2>1. h.page + Total(h.segs) = b.page + Total(b.segs)
    BY <1>6, <1>7, <1>8
  <2>. QED  BY <1>1, <1>8, <1>10, <2>1 DEF BioOK
<1>12. h # NoBio
  <2>1. h.dir # "none"
    BY <1>8 DEF Bios
  <2>. QED  BY <2>1 DEF NoBio
<1>13. \A i \in 1 .. m : i = 1 \/ i \in 2 .. m
  BY <1>2
<1>14. \A i \in 2 .. m : s[i] # s[1] /\ g[s[i]] = f[s[i]]
  <2>1. \A i \in 2 .. m : i \in 1 .. m /\ 1 \in 1 .. m /\ i # 1
    BY <1>2
  <2>. QED  BY <1>2, <2>1 DEF Chain
<1>15. \A i \in 1 .. m : Beyond(g[s[i]]) = Beyond(f[s[i]])
  BY <1>10, <1>13, <1>14 DEF b, h
<1>16. Chain(s, g)
  <2>1. \A i \in 1 .. m : g[s[i]] # NoBio /\ BioOK(g[s[i]])
    <3>1. \A i \in 2 .. m : i \in 1 .. m
      BY <1>2
    <3>. QED  BY <1>2, <1>11, <1>12, <1>13, <1>14, <3>1 DEF Chain, h
  <2>2. \A i \in 2 .. m : g[s[i]].page = 0
    BY <1>2, <1>14 DEF Chain
  <2>3. ASSUME NEW i \in 2 .. m PROVE Place(g[s[i]]) = Beyond(g[s[i - 1]])
    <3>1. i - 1 \in 1 .. m
      BY <1>2
    <3>2. Place(f[s[i]]) = Beyond(f[s[i - 1]])
      BY <1>2 DEF Chain
    <3>. QED  BY <1>14, <1>15, <3>1, <3>2
  <2>4. ASSUME NEW i \in 1 .. m PROVE Beyond(g[s[i]]) <= Beyond(g[s[m]])
    <3>1. m \in 1 .. m
      BY <1>2
    <3>2. Beyond(f[s[i]]) <= Beyond(f[s[m]])
      BY <1>2 DEF Chain
    <3>. QED  BY <1>15, <3>1, <3>2
  <2>. QED  BY <1>2, <2>1, <2>2, <2>3, <2>4 DEF Chain
<1>17. q.pos * SectorSize = Place(g[s[1]])
  BY <1>1, <1>5, <1>10 DEF h
<1>18. (q.pos + q.size) * SectorSize = Beyond(g[s[m]])
  <2>1. m \in 1 .. m
    BY <1>2
  <2>2. (r.pos + r.size) * SectorSize = Beyond(f[s[m]])
    BY DEF RequestOK
  <2>. QED  BY <1>1, <1>5, <1>15, <2>1, <2>2
<1>19. Members(q) = Members(r)
  BY <1>5 DEF Members
<1>20. RequestOK(q, g)
  BY <1>4, <1>5, <1>16, <1>17, <1>18 DEF RequestOK
<1>. QED  BY <1>11, <1>12, <1>19, <1>20 DEF b, h, len, n, q

\* Nor does a request depend on the memory of its bios.
LEMMA RequestMoved ==
  ASSUME NEW r, NEW f, NEW g, RequestOK(r, f),
         \A i \in 1 .. Len(r.bios) :
           /\ g[r.bios[i]] # NoBio /\ BioOK(g[r.bios[i]])
           /\ g[r.bios[i]].page = f[r.bios[i]].page
           /\ Place(g[r.bios[i]]) = Place(f[r.bios[i]])
           /\ Beyond(g[r.bios[i]]) = Beyond(f[r.bios[i]])
  PROVE  RequestOK(r, g) /\ (Untouched(r, f) => Untouched(r, g))
<1>1. Len(r.bios) \in Nat \ {0} /\ 1 \in 1 .. Len(r.bios) /\ Len(r.bios) \in 1 .. Len(r.bios)
  <2>1. r.bios \in Seq(Clients) /\ r.bios # <<>>
    BY DEF RequestOK, Requests
  <2>. QED  BY <2>1
<1>2. Chain(r.bios, g)
  <2>1. \A i \in 2 .. Len(r.bios) : i \in 1 .. Len(r.bios) /\ i - 1 \in 1 .. Len(r.bios)
    BY <1>1
  <2>. QED  BY <1>1, <2>1 DEF RequestOK, Chain
<1>. QED  BY <1>1, <1>2 DEF RequestOK, Untouched

-----------------------------------------------------------------------------
(* The inductive invariant. *)

\* The request that c serves is the only one that is being served, and the bio
\* at its head the only one that has been begun.
LEMMA TheRequest ==
  ASSUME IInv, NEW c \in Clients, rq[c] # NoRq
  PROVE  LET r == rq[c]
             o == Head(r.bios)
         IN  /\ RequestOK(r, bio) /\ r.bios # <<>> /\ o = r.bios[1]
             /\ o \in Clients /\ bio[o] # NoBio /\ BioOK(bio[o])
             /\ Start(r) = Place(bio[o])
             /\ c \in running
             /\ \A k \in Clients : k # c => rq[k] = NoRq
             /\ \A d \in Clients : bio[d] # NoBio /\ d # o => bio[d].page = 0
             /\ \A d \in Clients : d # o => Copied(d) = bio[d].page + 0
             /\ Copied(o) = bio[o].page + IF r.copied THEN Head(bio[o].segs) ELSE 0
<1>. DEFINE r == rq[c]
            o == Head(r.bios)
<1>1. RequestOK(r, bio)
  BY DEF IInv, QueueInv, ServedOK
<1>2. r.bios \in Seq(Clients) \ {<<>>}
  BY <1>1 DEF RequestOK, Requests
<1>3. o = r.bios[1] /\ o \in Clients /\ 1 \in 1 .. Len(r.bios)
  BY <1>2
<1>4. bio[o] # NoBio /\ BioOK(bio[o]) /\ Start(r) = Place(bio[o])
  BY <1>1, <1>3 DEF RequestOK, Chain, Start
<1>5. c \in running /\ \A k \in Clients : k # c => rq[k] = NoRq
  BY DEF IInv, Locked
<1>6. \A d \in Clients : bio[d] # NoBio /\ d # o => bio[d].page = 0
  <2>1. ASSUME NEW d \in Clients, bio[d] # NoBio, d # o PROVE ~(bio[d].page > 0)
    BY <1>5, <2>1 DEF IInv, BegunOK
  <2>2. ASSUME NEW d \in Clients, bio[d] # NoBio PROVE bio[d].page \in Nat
    BY <2>2 DEF IInv, QueueInv, BiosOK, BioOK, Bios
  <2>. QED  BY <2>1, <2>2
<1>7. \A d \in Clients :
        (\E k \in Clients : rq[k] # NoRq /\ rq[k].copied /\ Head(rq[k].bios) = d) <=> (r.copied /\ d = o)
  BY <1>5
<1>8. \A d \in Clients : d # o => Copied(d) = bio[d].page + 0
  BY <1>7 DEF Copied
<1>9. Copied(o) = bio[o].page + IF r.copied THEN Head(bio[o].segs) ELSE 0
  BY <1>3, <1>7 DEF Copied
<1>. HIDE DEF r, o
<1>10. RequestOK(r, bio) /\ r.bios # <<>> /\ o = r.bios[1]
  BY <1>1, <1>2, <1>3
<1>. QED  BY <1>3, <1>4, <1>5, <1>6, <1>8, <1>9, <1>10 DEF r, o

\* When none is being served, no bio has been begun.
LEMMA NoRequest ==
  ASSUME IInv, \A k \in Clients : rq[k] = NoRq
  PROVE  \A d \in Clients : bio[d] # NoBio => bio[d].page = 0 /\ Copied(d) = 0
<1>1. ASSUME NEW d \in Clients, bio[d] # NoBio PROVE bio[d].page = 0
  <2>1. bio[d].page \in Nat
    BY <1>1 DEF IInv, QueueInv, BiosOK, BioOK, Bios
  <2>2. ~(bio[d].page > 0)
    BY <1>1 DEF IInv, BegunOK
  <2>. QED  BY <2>1, <2>2
<1>2. ASSUME NEW d \in Clients, bio[d] # NoBio PROVE Copied(d) = 0
  BY <1>1, <1>2 DEF Copied
<1>. QED  BY <1>1, <1>2

\* The bios in a request are in flight.
LEMMA InFlight ==
  ASSUME IInv, NEW c, \/ \E r \in elevator : c \in Members(r)
                      \/ \E k \in Clients : c \in Members(rq[k])
  PROVE  c \in Clients /\ bio[c] # NoBio
<1>1. ASSUME NEW r, RequestOK(r, bio), c \in Members(r) PROVE c \in Clients /\ bio[c] # NoBio
  <2>1. PICK i \in 1 .. Len(r.bios) : c = r.bios[i]
    BY <1>1 DEF Members
  <2>2. r.bios \in Seq(Clients)
    BY <1>1 DEF RequestOK, Requests
  <2>. QED  BY <1>1, <2>1, <2>2 DEF RequestOK, Chain
<1>2. Members(NoRq) = {}
  BY DEF Members, NoRq
<1>. QED  BY <1>1, <1>2 DEF IInv, QueueInv, WaitingOK, ServedOK

LEMMA CapacityNat == Bytes \in Nat /\ Bytes = Sectors * SectorSize
BY RamdiskAssumption, Multiples DEF Bytes

LEMMA InitInv ==
  ASSUME Init
  PROVE  IInv
<1>1. Rungs
  BY DEF Init, Life!Init, Rungs
<1>2. Users /\ Locked /\ BegunOK
  BY DEF Init, Users, Locked, BegunOK
<1>3. QueueInv
  BY DEF Init, QueueInv, BiosOK, WaitingOK, ServedOK, Apart, Covered
<1>4. BufferInv
  BY DEF Init, BufferInv, Data
<1>. QED  BY <1>1, <1>2, <1>3, <1>4 DEF IInv

LEMMA LifeInv ==
  ASSUME IInv, RamdiskInit \/ RamdiskExit
  PROVE  IInv'
<1>1. Rungs' /\ \A c \in Clients : file[c] # "open"
  BY InitClimbs, ExitDescends DEF IInv, Users, InUse
<1>2. UNCHANGED <<file, bio, elevator, running, rq>>
  BY DEF RamdiskInit, RamdiskExit
<1>3. \A c \in Clients : bio[c] = NoBio
  BY <1>1 DEF IInv, Users
<1>4. Users' /\ Locked' /\ BegunOK'
  BY <1>1, <1>2, <1>3 DEF IInv, Users, Locked, BegunOK
<1>5. QueueInv'
  BY <1>2 DEF IInv, QueueInv, BiosOK, WaitingOK, ServedOK, Apart, Covered
<1>6. BufferInv'
  <2>1. ramdiskbuf' = ramdiskbuf \/ Cleared
    BY DEF RamdiskInit, RamdiskExit
  <2>2. ramdiskbuf' \in [0 .. Bytes - 1 -> Data]
    BY <2>1 DEF IInv, BufferInv, Cleared, Data
  <2>. QED  BY <1>2, <1>3, <2>2 DEF BufferInv
<1>. QED  BY <1>1, <1>4, <1>5, <1>6 DEF IInv

\* What does not touch the queue.
LEMMA Aside ==
  ASSUME IInv, UNCHANGED <<ramdiskbuf, bio, elevator, rq>>
  PROVE  QueueInv' /\ BufferInv' /\ BegunOK'
<1>1. \A d : Copied(d)' = Copied(d)
  BY DEF Copied
<1>2. BufferInv' /\ BegunOK'
  BY <1>1 DEF IInv, BufferInv, BegunOK
<1>3. QueueInv'
  BY DEF IInv, QueueInv, BiosOK, WaitingOK, ServedOK, Apart, Covered
<1>. QED  BY <1>2, <1>3

LEMMA FileInv ==
  ASSUME IInv, NEW c \in Clients, RamdiskOpen(c) \/ RamdiskRelease(c) \/ RunQueue(c)
  PROVE  IInv'
<1>1. QueueInv' /\ BufferInv' /\ BegunOK'
  BY Aside DEF RamdiskOpen, RamdiskRelease, RunQueue
<1>2. Rungs'
  BY DEF RamdiskOpen, RamdiskRelease, RunQueue, disk, IInv, Rungs
<1>3. CASE RamdiskOpen(c)
  <2>1. at = <<"on", 0>>
    BY <1>3 DEF RamdiskOpen, IInv, Rungs
  <2>2. Users' /\ Locked'
    BY <1>3, <2>1 DEF RamdiskOpen, disk, IInv, Users, Locked
  <2>. QED  BY <1>1, <1>2, <2>2 DEF IInv
<1>4. CASE RamdiskRelease(c)
  <2>1. Users' /\ Locked'
    BY <1>4 DEF RamdiskRelease, disk, IInv, Users, Locked
  <2>. QED  BY <1>1, <1>2, <2>1 DEF IInv
<1>5. CASE RunQueue(c)
  <2>1. Users' /\ Locked'
    BY <1>5 DEF RunQueue, LockFree, disk, IInv, Users, Locked
  <2>. QED  BY <1>1, <1>2, <2>1 DEF IInv
<1>. QED  BY <1>3, <1>4, <1>5

LEMMA FetchInv ==
  ASSUME IInv, NEW c \in Clients, Fetch(c)
  PROVE  IInv'
<1>1. \A k \in Clients : rq[k] = NoRq
  BY DEF IInv, Locked, Fetch
<1>2. \A d \in Clients : bio[d] # NoBio => bio[d].page = 0 /\ Copied(d) = 0
  BY <1>1, NoRequest
<1>3. UNCHANGED <<disk, file, ramdiskbuf, bio>>
  BY DEF Fetch
<1>4. Rungs'
  BY <1>3 DEF disk, IInv, Rungs
<1>5. Users' /\ Locked'
  <2>1. DOMAIN rq = Clients
    BY DEF IInv, QueueInv, ServedOK
  <2>2. running' \subseteq running /\ \A k \in Clients : rq'[k] # NoRq => k \in running'
    BY <1>1, <2>1 DEF Fetch
  <2>. QED  BY <1>3, <2>2 DEF disk, IInv, Users, Locked
<1>6. CASE elevator = {}
  <2>1. UNCHANGED <<elevator, rq>>
    BY <1>6 DEF Fetch
  <2>. QED  BY <1>3, <1>4, <1>5, <2>1, Aside DEF IInv
<1>7. CASE elevator # {}
  <2>1. PICK r \in elevator : rq' = [rq EXCEPT ![c] = r] /\ elevator' = elevator \ {r}
    BY <1>7 DEF Fetch
  <2>2. DOMAIN rq = Clients
    BY DEF IInv, QueueInv, ServedOK
  <2>3. rq'[c] = r /\ \A k \in Clients : k # c => rq'[k] = NoRq
    BY <1>1, <2>1, <2>2
  <2>4. RequestOK(r, bio) /\ ~r.copied
    BY DEF IInv, QueueInv, WaitingOK, Untouched
  <2>5. Members(NoRq) = {}
    BY DEF Members, NoRq
  <2>6. BiosOK' /\ WaitingOK'
    BY <1>3, <2>1 DEF IInv, QueueInv, BiosOK, WaitingOK
  <2>7. ServedOK'
    BY <1>3, <2>1, <2>2, <2>3, <2>4 DEF ServedOK
  <2>8. Apart'
    <3>1. \A q \in elevator' : q \in elevator /\ q # r
      BY <2>1
    <3>. QED  BY <2>3, <2>5, <3>1 DEF IInv, QueueInv, Apart
  <2>9. Covered'
    <3>1. ASSUME NEW d \in Clients, bio[d] # NoBio PROVE \E q \in elevator : d \in Members(q)
      BY <1>1, <2>5, <3>1 DEF IInv, QueueInv, Covered
    <3>. QED  BY <1>3, <2>1, <2>3, <3>1 DEF Covered
  <2>10. \A d \in Clients : bio[d] # NoBio => Copied(d)' = 0
    BY <1>2, <1>3, <2>3, <2>4 DEF Copied
  <2>11. BufferInv'
    BY <1>2, <1>3, <2>10 DEF IInv, BufferInv
  <2>12. BegunOK'
    BY <1>2, <1>3 DEF BegunOK
  <2>. QED  BY <1>4, <1>5, <2>6, <2>7, <2>8, <2>9, <2>11, <2>12 DEF IInv, QueueInv
<1>. QED  BY <1>6, <1>7

\* The bio that a process submits.
LEMMA NewBio ==
  ASSUME NEW c \in Clients, NEW dir \in {"read", "write"}, NEW sector \in 0 .. Sectors - 1,
         NEW segs \in Segments, sector * SectorSize + Total(segs) <= Bytes
  PROVE  LET b == [dir |-> dir, sector |-> sector, segs |-> segs, page |-> 0,
                   mem |-> [i \in 0 .. Total(segs) - 1 |-> IF dir = "write" THEN c ELSE Zero]]
         IN  BioOK(b) /\ b.page = 0 /\ b # NoBio
<1>. DEFINE mem == [i \in 0 .. Total(segs) - 1 |-> IF dir = "write" THEN c ELSE Zero]
            b == [dir |-> dir, sector |-> sector, segs |-> segs, page |-> 0, mem |-> mem]
<1>1. sector \in Nat /\ sector * SectorSize \in Nat
  BY RamdiskAssumption, Multiples
<1>2. Total(segs) \in Nat \ {0}
  BY Lengths, InSectors
<1>3. Total(segs) \in 1 .. Bytes
  BY <1>1, <1>2, CapacityNat
<1>4. mem \in [0 .. Total(segs) - 1 -> Data]
  BY DEF Data
<1>5. mem \in Mems
  <2>. HIDE DEF mem
  <2>. QED  BY <1>3, <1>4 DEF Mems
<1>6. /\ b.dir = dir /\ b.sector = sector /\ b.segs = segs /\ b.page = 0 /\ b.mem = mem
      /\ b \in [dir : {"read", "write"}, sector : 0 .. Sectors - 1, segs : Segments, page : Nat, mem : {mem}]
  OBVIOUS
<1>. HIDE DEF b, mem
<1>7. b \in Bios
  <2>. DEFINE Ms == Mems
  <2>1. mem \in Ms
    BY <1>5
  <2>. HIDE DEF Ms
  <2>2. b \in [dir : {"read", "write"}, sector : 0 .. Sectors - 1, segs : Segments, page : Nat, mem : Ms]
    BY <1>6, <2>1
  <2>. QED  BY <2>2 DEF Bios, Ms
<1>8. b # NoBio
  <2>1. b.dir # "none"
    BY <1>6
  <2>. QED  BY <2>1 DEF NoBio
<1>9. BioOK(b)
  <2>1. 0 + Total(segs) = Total(segs) /\ sector * SectorSize + 0 = sector * SectorSize
    BY <1>1, <1>2
  <2>. QED  BY <1>4, <1>6, <1>7, <2>1 DEF BioOK, Beyond, Place, FirstByte
<1>. QED  BY <1>6, <1>8, <1>9 DEF b, mem

\* Wherever a bio goes, one request takes it in, and with it what was in at most
\* one that waited.
LEMMA PlacedInv ==
  ASSUME IInv, NEW c \in Clients, bio[c] = NoBio,
         NEW b, BioOK(b), b.page = 0, b # NoBio,
         NEW g, g[c] = b, \A d \in Clients : d # c => g[d] = bio[d],
         NEW Q, Q \in Placed(c, b)
  PROVE  \E R \in SUBSET elevator : \E q :
           /\ Q = (elevator \ R) \cup {q}
           /\ RequestOK(q, g) /\ Untouched(q, g)
           /\ Members(q) = (UNION {Members(r) : r \in R}) \cup {c}
<1>2. g[c] = b /\ \A d \in Clients : d # c => g[d] = bio[d]
  OBVIOUS
<1>3. ASSUME NEW r \in elevator
      PROVE  /\ RequestOK(r, bio) /\ Untouched(r, bio) /\ c \notin Members(r)
             /\ \A i \in 1 .. Len(r.bios) : g[r.bios[i]] = bio[r.bios[i]]
  <2>1. RequestOK(r, bio) /\ Untouched(r, bio)
    BY DEF IInv, QueueInv, WaitingOK
  <2>2. r.bios \in Seq(Clients) /\ c \notin Members(r)
    BY <2>1, InFlight DEF RequestOK, Requests
  <2>3. \A i \in 1 .. Len(r.bios) : r.bios[i] \in Clients /\ r.bios[i] # c
    BY <2>2 DEF Members
  <2>. QED  BY <1>2, <2>1, <2>2, <2>3
<1>. DEFINE n == Total(b.segs) \div SectorSize
            one == [pos |-> b.sector, size |-> n, bios |-> <<c>>, copied |-> FALSE]
            back(r) == AtBack(r, c, b)
            front(r) == AtFront(r, c, b)
<1>4. \/ Q = elevator \cup {one}
      \/ \E r \in elevator : r.pos + r.size = b.sector /\ Q = (elevator \ {r}) \cup {back(r)}
      \/ \E r \in elevator : b.sector + n = r.pos /\ Q = (elevator \ {r}) \cup {front(r)}
  <2>1. \A S, T : S \cup T = T \cup S
    OBVIOUS
  <2>. QED  BY DEF Placed, AtBack, AtFront
<1>5. CASE Q = elevator \cup {one}
  <2>1. RequestOK(one, g) /\ Untouched(one, g) /\ Members(one) = {c}
    BY <1>2, RequestOne
  <2>. DEFINE R == {}
  <2>2. /\ R \in SUBSET elevator /\ Q = (elevator \ R) \cup {one}
        /\ Members(one) = (UNION {Members(r) : r \in R}) \cup {c}
    BY <1>5, <2>1
  <2>. QED  BY <2>1, <2>2
<1>6. ASSUME NEW r \in elevator, r.pos + r.size = b.sector, Q = (elevator \ {r}) \cup {back(r)}
      PROVE  \E R \in SUBSET elevator : \E q :
               /\ Q = (elevator \ R) \cup {q}
               /\ RequestOK(q, g) /\ Untouched(q, g)
               /\ Members(q) = (UNION {Members(p) : p \in R}) \cup {c}
  <2>1. RequestOK(back(r), g) /\ Untouched(back(r), g) /\ Members(back(r)) = Members(r) \cup {c}
    <3>1. /\ RequestOK(r, bio) /\ Untouched(r, bio) /\ c \notin Members(r) /\ g[c] = b
          /\ \A i \in 1 .. Len(r.bios) : g[r.bios[i]] = bio[r.bios[i]]
      BY <1>2, <1>3
    <3>2. r.pos + r.size = b.sector
      BY <1>6
    <3>. QED  BY <3>1, <3>2, RequestBack
  <2>2. UNION {Members(p) : p \in {r}} = Members(r) /\ {r} \in SUBSET elevator
    OBVIOUS
  <2>. HIDE DEF back
  <2>. QED  BY <1>6, <2>1, <2>2
<1>7. ASSUME NEW r \in elevator, b.sector + n = r.pos, Q = (elevator \ {r}) \cup {front(r)}
      PROVE  \E R \in SUBSET elevator : \E q :
               /\ Q = (elevator \ R) \cup {q}
               /\ RequestOK(q, g) /\ Untouched(q, g)
               /\ Members(q) = (UNION {Members(p) : p \in R}) \cup {c}
  <2>1. RequestOK(front(r), g) /\ Untouched(front(r), g) /\ Members(front(r)) = Members(r) \cup {c}
    <3>1. /\ RequestOK(r, bio) /\ Untouched(r, bio) /\ c \notin Members(r) /\ g[c] = b
          /\ \A i \in 1 .. Len(r.bios) : g[r.bios[i]] = bio[r.bios[i]]
      BY <1>2, <1>3
    <3>2. b.sector + Total(b.segs) \div SectorSize = r.pos
      BY <1>7
    <3>. QED  BY <3>1, <3>2, RequestFront
  <2>2. UNION {Members(p) : p \in {r}} = Members(r) /\ {r} \in SUBSET elevator
    OBVIOUS
  <2>. HIDE DEF front
  <2>. QED  BY <1>7, <2>1, <2>2
<1>. HIDE DEF one, back, front
<1>. QED  BY <1>4, <1>5, <1>6, <1>7

LEMMA SubmitInv ==
  ASSUME IInv, NEW c \in Clients, SubmitBio(c)
  PROVE  IInv'
<1>1. DOMAIN bio = Clients /\ DOMAIN rq = Clients /\ file[c] = "open" /\ bio[c] = NoBio
  BY DEF SubmitBio, IInv, QueueInv, BiosOK, ServedOK
<1>2. PICK dir \in {"read", "write"}, sector \in 0 .. Sectors - 1, segs \in Segments :
        /\ sector * SectorSize + Total(segs) <= Bytes
        /\ bio' = [bio EXCEPT ![c] =
             [dir |-> dir, sector |-> sector, segs |-> segs, page |-> 0,
              mem |-> [i \in 0 .. Total(segs) - 1 |-> IF dir = "write" THEN c ELSE Zero]]]
        /\ elevator' \in Placed(c, bio'[c])
  BY DEF SubmitBio
<1>. DEFINE b == [dir |-> dir, sector |-> sector, segs |-> segs, page |-> 0,
                  mem |-> [i \in 0 .. Total(segs) - 1 |-> IF dir = "write" THEN c ELSE Zero]]
<1>3. BioOK(b) /\ b.page = 0 /\ b # NoBio
  BY <1>2, NewBio
<1>4. b.dir = "write" => \A i \in DOMAIN b.mem : b.mem[i] = c
  OBVIOUS
<1>5. bio' = [bio EXCEPT ![c] = b]
  BY <1>2
<1>. HIDE DEF b
<1>6. bio'[c] = b /\ \A d \in Clients : d # c => bio'[d] = bio[d]
  BY <1>1, <1>5
<1>7. elevator' \in Placed(c, b)
  BY <1>2, <1>6
<1>7a. PICK R \in SUBSET elevator : \E q :
        /\ elevator' = (elevator \ R) \cup {q}
        /\ RequestOK(q, bio') /\ Untouched(q, bio')
        /\ Members(q) = (UNION {Members(r) : r \in R}) \cup {c}
  BY <1>1, <1>3, <1>6, <1>7, PlacedInv
<1>8. PICK q :
        /\ elevator' = (elevator \ R) \cup {q}
        /\ RequestOK(q, bio') /\ Untouched(q, bio')
        /\ Members(q) = (UNION {Members(r) : r \in R}) \cup {c}
  BY <1>7a
<1>9. UNCHANGED <<disk, file, ramdiskbuf, running, rq>> /\ running = {}
  BY DEF SubmitBio, LockFree
<1>10. \A k \in Clients : rq[k] = NoRq
  BY <1>9 DEF IInv, Locked
<1>11. Rungs' /\ Users' /\ Locked'
  BY <1>1, <1>6, <1>9 DEF disk, IInv, Rungs, Users, Locked
<1>12. BiosOK'
  <2>1. b \in Bios
    BY <1>3 DEF BioOK
  <2>2. bio' \in [Clients -> {NoBio} \cup Bios]
    BY <1>5, <2>1 DEF IInv, QueueInv, BiosOK
  <2>. QED  BY <1>3, <1>6, <2>2 DEF IInv, QueueInv, BiosOK
<1>13. ASSUME NEW r \in elevator PROVE RequestOK(r, bio') /\ Untouched(r, bio') /\ c \notin Members(r)
  <2>1. RequestOK(r, bio) /\ Untouched(r, bio)
    BY DEF IInv, QueueInv, WaitingOK
  <2>2. r.bios \in Seq(Clients) /\ c \notin Members(r)
    BY <1>1, <2>1, InFlight DEF RequestOK, Requests
  <2>3. \A i \in 1 .. Len(r.bios) : r.bios[i] \in Clients /\ r.bios[i] # c
    BY <2>2 DEF Members
  <2>4. \A i \in 1 .. Len(r.bios) : bio'[r.bios[i]] = bio[r.bios[i]]
    BY <1>6, <2>3
  <2>5. RequestOK(r, bio') /\ (Untouched(r, bio) => Untouched(r, bio'))
    BY <2>1, <2>4, RequestSame
  <2>. QED  BY <2>1, <2>2, <2>5
<1>14. WaitingOK'
  BY <1>8, <1>13 DEF WaitingOK
<1>15. ServedOK'
  BY <1>1, <1>9, <1>10 DEF ServedOK
<1>16. Members(NoRq) = {}
  BY DEF Members, NoRq
<1>17. Apart'
  <2>1. \A r, p \in elevator : r # p => Members(r) \cap Members(p) = {}
    BY DEF IInv, QueueInv, Apart
  <2>2. \A r \in elevator' : r = q \/ (r \in elevator /\ r \notin R)
    BY <1>8
  <2>3. ASSUME NEW r \in elevator, r \notin R PROVE Members(r) \cap Members(q) = {}
    <3>1. \A p \in R : Members(r) \cap Members(p) = {}
      BY <2>1, <2>3
    <3>. QED  BY <1>8, <1>13, <3>1
  <2>4. \A r, p \in elevator' : r # p => Members(r) \cap Members(p) = {}
    BY <2>1, <2>2, <2>3
  <2>. QED  BY <1>9, <1>10, <1>16, <2>4 DEF Apart
<1>18. Covered'
  <2>1. ASSUME NEW d \in Clients, bio'[d] # NoBio PROVE \E r \in elevator' : d \in Members(r)
    <3>1. CASE d = c
      BY <1>8, <3>1
    <3>2. CASE d # c
      <4>1. PICK r \in elevator : d \in Members(r)
        BY <1>6, <1>10, <1>16, <2>1, <3>2 DEF IInv, QueueInv, Covered
      <4>. QED  BY <1>8, <4>1
    <3>. QED  BY <3>1, <3>2
  <2>. QED  BY <2>1 DEF Covered
<1>19. \A d \in Clients : bio'[d] # NoBio => bio'[d].page = 0
  BY <1>3, <1>6, <1>10, NoRequest
<1>20. \A d \in Clients : bio'[d] # NoBio => Copied(d)' = 0
  BY <1>9, <1>10, <1>19 DEF Copied
<1>21. \A d \in Clients : bio[d] # NoBio => Copied(d) = 0
  BY <1>10, NoRequest
<1>22. BufferInv'
  <2>1. ASSUME NEW d \in Clients, bio'[d] # NoBio, bio'[d].dir = "write", NEW i \in DOMAIN bio'[d].mem
        PROVE  bio'[d].mem[i] = d /\ ~(i < Copied(d)')
    <3>1. bio'[d].mem[i] = d
      BY <1>4, <1>6, <2>1 DEF IInv, BufferInv
    <3>2. i \in Nat
      <4>. DEFINE h == bio'[d]
      <4>1. BioOK(h) /\ i \in DOMAIN h.mem
        BY <1>12, <2>1 DEF BiosOK
      <4>. HIDE DEF h
      <4>2. i \in 0 .. (h.page + Total(h.segs)) - 1
        BY <4>1 DEF BioOK
      <4>. QED  BY <4>2
    <3>. QED  BY <1>20, <2>1, <3>1, <3>2
  <2>. QED  BY <1>9, <2>1 DEF IInv, BufferInv
<1>23. BegunOK'
  BY <1>19 DEF BegunOK
<1>. QED  BY <1>11, <1>12, <1>14, <1>15, <1>17, <1>18, <1>22, <1>23 DEF IInv, QueueInv

\* The copy of a segment fills bytes of the disk, or of the memory of the bio.
LEMMA TransferKeeps ==
  ASSUME IInv, NEW c \in Clients, Transfer(c)
  PROVE  LET r     == rq[c]
             o     == Head(r.bios)
             b     == bio[o]
             len   == Head(b.segs)
             start == Start(r)
             mem   == [i \in DOMAIN b.mem |->
                         IF b.dir = "read" /\ i \in b.page .. b.page + len - 1
                           THEN ramdiskbuf[start + i - b.page] ELSE b.mem[i]]
         IN  /\ mem \in [DOMAIN b.mem -> Data]
             /\ bio' = [bio EXCEPT ![o] = [b EXCEPT !.mem = mem]]
             /\ ramdiskbuf' \in [0 .. Bytes - 1 -> Data]
             /\ start \in Nat /\ len \in Nat \ {0} /\ b.page \in Nat
             /\ b.page + len <= b.page + Total(b.segs)
             /\ start = FirstByte(b) + b.page /\ start + len <= Bytes
             /\ FirstByte(b) \in Nat
<1>. DEFINE r     == rq[c]
            o     == Head(r.bios)
            b     == bio[o]
            len   == Head(b.segs)
            start == Start(r)
            mem   == [i \in DOMAIN b.mem |->
                        IF b.dir = "read" /\ i \in b.page .. b.page + len - 1
                          THEN ramdiskbuf[start + i - b.page] ELSE b.mem[i]]
<1>1. rq[c] # NoRq /\ ~r.copied
  BY DEF Transfer
<1>2. BioOK(b) /\ b # NoBio /\ start = Place(b) /\ o \in Clients
  BY <1>1, TheRequest
<1>3. b \in Bios /\ b.segs \in Segments /\ b.page \in Nat
  BY <1>2 DEF BioOK, Bios
<1>4. len \in Nat \ {0} /\ Total(b.segs) \in Nat /\ len <= Total(b.segs)
  BY <1>3, HeadAndTotal
<1>5. /\ start \in Nat /\ FirstByte(b) \in Nat /\ start = FirstByte(b) + b.page
      /\ Beyond(b) = start + Total(b.segs)
  BY <1>2, BeyondNat DEF Place, Beyond
<1>6. Beyond(b) <= Bytes /\ Bytes \in Nat
  BY <1>2, CapacityNat DEF BioOK
<1>7. DOMAIN b.mem = 0 .. (b.page + Total(b.segs)) - 1 /\ b.mem \in [DOMAIN b.mem -> Data]
  BY <1>2 DEF BioOK
<1>8. ramdiskbuf \in [0 .. Bytes - 1 -> Data]
  BY DEF IInv, BufferInv
<1>9. bio' = [bio EXCEPT ![o].mem = mem]
  BY DEF Transfer
<1>10. ramdiskbuf' = [i \in DOMAIN ramdiskbuf |->
                        IF b.dir = "write" /\ i \in start .. start + len - 1
                          THEN b.mem[b.page + i - start] ELSE ramdiskbuf[i]]
  BY DEF Transfer
<1>11. bio' = [bio EXCEPT ![o] = [b EXCEPT !.mem = mem]]
  <2>. HIDE DEF mem
  <2>. QED  BY <1>9
<1>. HIDE DEF r, b, len, start
<1>12. start + len <= Bytes /\ b.page + len <= b.page + Total(b.segs)
  BY <1>3, <1>4, <1>5, <1>6
<1>13. \A i \in b.page .. b.page + len - 1 : start + i - b.page \in 0 .. Bytes - 1
  BY <1>3, <1>4, <1>5, <1>6, <1>12
<1>14. \A i \in start .. start + len - 1 : b.page + i - start \in DOMAIN b.mem
  <2>. DEFINE P == b.page
              T == Total(b.segs)
  <2>1. P \in Nat /\ T \in Nat /\ start \in Nat /\ len \in Nat /\ len <= T
    BY <1>3, <1>4, <1>5
  <2>. HIDE DEF P, T
  <2>2. \A i \in start .. start + len - 1 : i - start \in 0 .. len - 1
    BY <2>1
  <2>3. \A j \in 0 .. len - 1 : P + j \in 0 .. (P + T) - 1
    BY <2>1
  <2>4. \A i \in start .. start + len - 1 : P + i - start \in 0 .. (P + T) - 1
    BY <2>2, <2>3
  <2>. QED  BY <1>7, <2>4 DEF P, T
<1>15. mem \in [DOMAIN b.mem -> Data]
  BY <1>7, <1>8, <1>13
<1>16. ramdiskbuf' \in [0 .. Bytes - 1 -> Data]
  BY <1>7, <1>8, <1>10, <1>14
<1>. QED  BY <1>3, <1>4, <1>5, <1>11, <1>12, <1>15, <1>16 DEF r, b, len, start

LEMMA TransferInv ==
  ASSUME IInv, NEW c \in Clients, Transfer(c)
  PROVE  IInv'
<1>. DEFINE r     == rq[c]
            o     == Head(r.bios)
            b     == bio[o]
            len   == Head(b.segs)
            start == Start(r)
            mem   == [i \in DOMAIN b.mem |->
                        IF b.dir = "read" /\ i \in b.page .. b.page + len - 1
                          THEN ramdiskbuf[start + i - b.page] ELSE b.mem[i]]
            h     == [b EXCEPT !.mem = mem]
<1>1. /\ r # NoRq /\ ~r.copied /\ rq' = [rq EXCEPT ![c].copied = TRUE]
      /\ UNCHANGED <<disk, file, elevator, running>>
  BY DEF Transfer
<1>2. /\ RequestOK(r, bio) /\ r.bios # <<>> /\ o = r.bios[1]
      /\ o \in Clients /\ b # NoBio /\ BioOK(b)
      /\ c \in running
      /\ \A k \in Clients : k # c => rq[k] = NoRq
      /\ \A d \in Clients : bio[d] # NoBio /\ d # o => bio[d].page = 0
  BY <1>1, TheRequest
<1>3. /\ mem \in [DOMAIN b.mem -> Data] /\ bio' = [bio EXCEPT ![o] = h]
      /\ ramdiskbuf' \in [0 .. Bytes - 1 -> Data]
      /\ start \in Nat /\ len \in Nat \ {0} /\ b.page \in Nat
      /\ start = FirstByte(b) + b.page /\ FirstByte(b) \in Nat /\ start + len <= Bytes
  BY TransferKeeps
<1>4. ramdiskbuf' = [i \in DOMAIN ramdiskbuf |->
                        IF b.dir = "write" /\ i \in start .. start + len - 1
                          THEN b.mem[b.page + i - start] ELSE ramdiskbuf[i]]
  BY DEF Transfer
<1>5. b.dir = "write" => mem = b.mem
  <2>1. b.mem = [i \in DOMAIN b.mem |-> b.mem[i]]
    BY <1>2 DEF BioOK
  <2>. QED  BY <2>1
<1>6. DOMAIN bio = Clients /\ DOMAIN rq = Clients
  BY DEF IInv, QueueInv, BiosOK, ServedOK
<1>. HIDE DEF mem
<1>7. /\ h \in Bios /\ h.dir = b.dir /\ h.sector = b.sector /\ h.segs = b.segs
      /\ h.page = b.page /\ h.mem = mem
  <2>1. b \in Bios
    BY <1>2 DEF BioOK
  <2>2. /\ b \in [dir : {"read", "write"}, sector : 0 .. Sectors - 1, segs : Segments, page : Nat, mem : {b.mem}]
    BY <2>1 DEF Bios
  <2>3. mem \in Mems
    <3>1. PICK n \in 1 .. Bytes : b.mem \in [0 .. n - 1 -> Data]
      BY <2>1 DEF Bios, Mems
    <3>2. mem \in [0 .. n - 1 -> Data]
      BY <1>3, <3>1
    <3>. QED  BY <3>2 DEF Mems
  <2>. DEFINE Ms == Mems
  <2>. HIDE DEF Ms, b
  <2>4. h \in [dir : {"read", "write"}, sector : 0 .. Sectors - 1, segs : Segments, page : Nat, mem : {mem}]
    BY <2>2
  <2>5. h \in [dir : {"read", "write"}, sector : 0 .. Sectors - 1, segs : Segments, page : Nat, mem : Ms]
    BY <2>3, <2>4 DEF Ms
  <2>. QED  BY <2>2, <2>5 DEF Bios, Ms
<1>. HIDE DEF r, o, b, len, start, h
<1>8. Place(h) = Place(b) /\ Beyond(h) = Beyond(b) /\ FirstByte(h) = FirstByte(b)
  BY <1>7 DEF Place, Beyond, FirstByte
<1>9. BioOK(h)
  <2>1. mem \in [0 .. (b.page + Total(b.segs)) - 1 -> Data]
    BY <1>2, <1>3 DEF BioOK
  <2>. QED  BY <1>2, <1>7, <1>8, <2>1 DEF BioOK
<1>10. h # NoBio
  <2>1. h.dir # "none"
    BY <1>7 DEF Bios
  <2>. QED  BY <2>1 DEF NoBio
<1>11. bio'[o] = h /\ \A d \in Clients : d # o => bio'[d] = bio[d]
  BY <1>2, <1>3, <1>6
<1>12. \A d \in Clients : bio'[d] = NoBio <=> bio[d] = NoBio
  BY <1>2, <1>10, <1>11 DEF b
<1>13. Rungs' /\ Users' /\ Locked'
  <2>1. \A k \in Clients : rq'[k] # NoRq => k = c
    BY <1>1, <1>2, <1>6
  <2>. QED  BY <1>1, <1>2, <1>12, <2>1 DEF disk, IInv, Rungs, Users, Locked
<1>14. BiosOK'
  <2>1. bio' \in [Clients -> {NoBio} \cup Bios]
    BY <1>3, <1>7 DEF IInv, QueueInv, BiosOK
  <2>. QED  BY <1>9, <1>11, <2>1 DEF IInv, QueueInv, BiosOK
<1>15. ASSUME NEW p, RequestOK(p, bio) PROVE RequestOK(p, bio') /\ (Untouched(p, bio) => Untouched(p, bio'))
  <2>1. \A i \in 1 .. Len(p.bios) : p.bios[i] \in Clients /\ bio[p.bios[i]] # NoBio /\ BioOK(bio[p.bios[i]])
    BY <1>15 DEF RequestOK, Requests, Chain
  <2>2. ASSUME NEW i \in 1 .. Len(p.bios)
        PROVE  /\ bio'[p.bios[i]] # NoBio /\ BioOK(bio'[p.bios[i]])
               /\ bio'[p.bios[i]].page = bio[p.bios[i]].page
               /\ Place(bio'[p.bios[i]]) = Place(bio[p.bios[i]])
               /\ Beyond(bio'[p.bios[i]]) = Beyond(bio[p.bios[i]])
    <3>1. CASE p.bios[i] = o
      <4>1. bio[p.bios[i]] = b /\ bio'[p.bios[i]] = h
        BY <1>11, <3>1 DEF b
      <4>. QED  BY <1>7, <1>8, <1>9, <1>10, <4>1
    <3>2. CASE p.bios[i] # o
      BY <1>11, <2>1, <3>2
    <3>. QED  BY <3>1, <3>2
  <2>. QED  BY <1>15, <2>2, RequestMoved
<1>16. WaitingOK'
  BY <1>1, <1>15 DEF IInv, QueueInv, WaitingOK
<1>17. /\ rq'[c] = [r EXCEPT !.copied = TRUE] /\ r \in Requests
       /\ \A k \in Clients : k # c => rq'[k] = NoRq
  BY <1>1, <1>2, <1>6 DEF r, RequestOK
<1>18. /\ rq'[c] \in Requests /\ rq'[c].bios = r.bios /\ rq'[c].pos = r.pos
       /\ rq'[c].size = r.size /\ rq'[c].copied
  BY <1>17 DEF Requests
<1>19. ServedOK'
  <2>1. RequestOK(r, bio')
    BY <1>2, <1>15
  <2>2. RequestOK(rq'[c], bio')
    BY <1>18, <2>1 DEF RequestOK
  <2>. QED  BY <1>1, <1>6, <1>17, <2>2 DEF ServedOK
<1>20. \A k \in Clients : Members(rq'[k]) = Members(rq[k])
  <2>1. Members(rq'[c]) = Members(rq[c])
    BY <1>18 DEF Members, r
  <2>. QED  BY <1>2, <1>17, <2>1
<1>21. Apart' /\ Covered'
  BY <1>1, <1>12, <1>20 DEF IInv, QueueInv, Apart, Covered
<1>22. BegunOK'
  <2>1. \A d \in Clients : bio'[d] # NoBio /\ bio'[d].page > 0 => d = o
    BY <1>2, <1>11 DEF IInv, BegunOK
  <2>2. rq'[c] # NoRq /\ Head(rq'[c].bios) = o
    BY <1>2, <1>18 DEF o, NoRq
  <2>. QED  BY <2>1, <2>2 DEF BegunOK
<1>23. ASSUME NEW d, d = o PROVE Copied(d)' = b.page + len
  <2>1. rq'[c] # NoRq /\ rq'[c].copied /\ Head(rq'[c].bios) = d
    BY <1>2, <1>18, <1>23 DEF o, NoRq
  <2>2. Copied(d)' = bio'[d].page + Head(bio'[d].segs)
    BY <2>1 DEF Copied
  <2>. QED  BY <1>7, <1>11, <1>23, <2>2 DEF len
<1>24. \A d \in Clients : bio[d] # NoBio /\ d # o => Copied(d)' = 0
  <2>1. \A d \in Clients : d # o =>
          ~ \E k \in Clients : rq'[k] # NoRq /\ rq'[k].copied /\ Head(rq'[k].bios) = d
    BY <1>17, <1>18 DEF o
  <2>. QED  BY <1>2, <1>11, <2>1 DEF Copied
<1>25. ASSUME NEW d \in Clients, bio'[d] # NoBio, bio'[d].dir = "write", NEW i \in DOMAIN bio'[d].mem
       PROVE  bio'[d].mem[i] = d /\ (i < Copied(d)' => ramdiskbuf'[FirstByte(bio'[d]) + i] = d)
  <2>1. CASE d = o
    <3>1. b.dir = "write" /\ i \in DOMAIN b.mem /\ bio'[d].mem = b.mem
      BY <1>5, <1>7, <1>11, <1>25, <2>1
    <3>2. b.mem[i] = o /\ (i < Copied(o) => ramdiskbuf[FirstByte(b) + i] = o)
      BY <1>2, <3>1 DEF IInv, BufferInv, b
    <3>3. Copied(o) = b.page
      <4>1. Copied(o) = b.page + IF r.copied THEN Head(b.segs) ELSE 0
        BY <1>1, TheRequest DEF r, o, b
      <4>2. Copied(o) = b.page + 0
        BY <1>1, <4>1
      <4>. QED  BY <1>3, <4>2
    <3>4. i \in Nat
      BY <1>2, <3>1, MemIndex
    <3>5. ASSUME i < b.page + len PROVE ramdiskbuf'[FirstByte(b) + i] = o
      <4>1. FirstByte(b) + i \in 0 .. Bytes - 1 /\ DOMAIN ramdiskbuf = 0 .. Bytes - 1
        BY <1>3, <3>4, <3>5, CapacityNat DEF IInv, BufferInv
      <4>2. CASE i < b.page
        <5>1. FirstByte(b) + i \notin start .. start + len - 1
          BY <1>3, <3>4, <4>2
        <5>. QED  BY <1>4, <3>2, <3>3, <4>1, <4>2, <5>1
      <4>3. CASE ~(i < b.page)
        <5>1. FirstByte(b) + i \in start .. start + len - 1
          <6>. DEFINE F == FirstByte(b)
                      P == b.page
          <6>1. F \in Nat /\ P \in Nat /\ start = F + P /\ len \in Nat /\ start \in Nat
            BY <1>3
          <6>2. i < P + len /\ ~(i < P) /\ i \in Nat
            BY <3>4, <3>5, <4>3
          <6>. HIDE DEF F, P
          <6>3. F + i >= F + P /\ F + i < (F + P) + len /\ F + i \in Nat
            BY <6>1, <6>2
          <6>4. F + i \in start .. start + len - 1
            BY <6>1, <6>3
          <6>. QED  BY <6>4 DEF F
        <5>2. b.page + (FirstByte(b) + i) - start = i
          BY <1>3, <3>4
        <5>3. ramdiskbuf'[FirstByte(b) + i] = b.mem[b.page + (FirstByte(b) + i) - start]
          BY <1>4, <3>1, <4>1, <5>1
        <5>. QED  BY <3>2, <5>2, <5>3
      <4>. QED  BY <4>2, <4>3
    <3>. QED  BY <1>8, <1>11, <1>23, <2>1, <3>1, <3>2, <3>5
  <2>2. CASE d # o
    <3>1. bio'[d] = bio[d] /\ Copied(d)' = 0
      BY <1>11, <1>24, <1>25, <2>2
    <3>2. i \in Nat
      <4>. DEFINE g == bio[d]
      <4>1. BioOK(g) /\ i \in DOMAIN g.mem
        BY <1>25, <3>1 DEF IInv, QueueInv, BiosOK
      <4>. HIDE DEF g
      <4>. QED  BY <4>1, MemIndex
    <3>. QED  BY <1>25, <3>1, <3>2 DEF IInv, BufferInv
  <2>. QED  BY <2>1, <2>2
<1>26. BufferInv'
  BY <1>3, <1>25 DEF BufferInv
<1>. QED  BY <1>13, <1>14, <1>16, <1>19, <1>21, <1>22, <1>26 DEF IInv, QueueInv

LEMMA LastBio ==
  ASSUME NEW s \in Seq(Clients) \ {<<>>}, Tail(s) = <<>>
  PROVE  Len(s) = 1
<1>1. Len(Tail(s)) = Len(s) - 1 /\ Len(s) \in Nat
  OBVIOUS
<1>2. ASSUME NEW t, t = <<>> PROVE Len(t) = 0
  BY <1>2
<1>3. Len(Tail(s)) = 0
  BY <1>2, Zenon
<1>. QED  BY <1>1, <1>3

\* The end of a segment: the same bio is served on, another one of the request, or
\* none.
LEMMA EndCurEffect ==
  ASSUME IInv, NEW c \in Clients, EndCur(c)
  PROVE  LET r == rq[c]
             o == Head(r.bios)
             b == bio[o]
             len == Head(b.segs)
         IN  /\ rq'[c] = NoRq \/ (RequestOK(rq'[c], bio') /\ ~rq'[c].copied)
             /\ Members(rq'[c]) = Members(r) \ {d \in {o} : bio'[d] = NoBio}
             /\ \/ bio'[o] = NoBio /\ Len(b.segs) = 1
                \/ /\ bio'[o] # NoBio /\ BioOK(bio'[o])
                   /\ bio'[o].page = b.page + len /\ bio'[o].sector = b.sector
                   /\ bio'[o].dir = b.dir /\ bio'[o].mem = b.mem
                   /\ rq'[c] # NoRq /\ Head(rq'[c].bios) = o
             /\ \A d \in Clients : d # o => bio'[d] = bio[d]
             /\ \A k \in Clients : k # c => rq'[k] = NoRq
             /\ DOMAIN bio' = Clients /\ DOMAIN rq' = Clients /\ o \in Members(r)
<1>. DEFINE r    == rq[c]
            o    == Head(r.bios)
            b    == bio[o]
            len  == Head(b.segs)
            rest == [pos |-> r.pos + len \div SectorSize, size |-> r.size - len \div SectorSize,
                     bios |-> Tail(r.bios), copied |-> FALSE]
            same == [pos |-> r.pos + len \div SectorSize, size |-> r.size - len \div SectorSize,
                     bios |-> r.bios, copied |-> FALSE]
            h    == Shortened(b)
<1>1. /\ r # NoRq /\ r.copied
      /\ UNCHANGED <<disk, file, ramdiskbuf, elevator, running>>
  BY DEF EndCur
<1>2. /\ RequestOK(r, bio) /\ r.bios # <<>> /\ o = r.bios[1]
      /\ o \in Clients /\ b # NoBio /\ BioOK(b)
      /\ c \in running
      /\ \A k \in Clients : k # c => rq[k] = NoRq
      /\ \A d \in Clients : bio[d] # NoBio /\ d # o => bio[d].page = 0
      /\ Copied(o) = b.page + len
  BY <1>1, TheRequest
<1>3. DOMAIN bio = Clients /\ DOMAIN rq = Clients
  BY DEF IInv, QueueInv, BiosOK, ServedOK
<1>4. \/ Len(b.segs) = 1 /\ bio' = [bio EXCEPT ![o] = NoBio]
         /\ rq' = [rq EXCEPT ![c] = IF Tail(r.bios) = <<>> THEN NoRq ELSE rest]
      \/ Len(b.segs) # 1 /\ bio' = [bio EXCEPT ![o] = h]
         /\ rq' = [rq EXCEPT ![c] = IF r.bios = <<>> THEN NoRq ELSE same]
  <2>1. CASE Len(b.segs) = 1
    BY <2>1 DEF EndCur, Served
  <2>2. CASE Len(b.segs) # 1
    BY <2>2 DEF EndCur, Served, Shortened
  <2>. QED  BY <2>1, <2>2
<1>5. r.bios \in Seq(Clients) \ {<<>>} /\ Len(r.bios) \in Nat \ {0}
  BY <1>2 DEF RequestOK, Requests
<1>6. \A i \in 2 .. Len(r.bios) : r.bios[i] \in Clients /\ r.bios[i] # o
  <2>1. \A i \in 2 .. Len(r.bios) : i \in 1 .. Len(r.bios) /\ 1 \in 1 .. Len(r.bios) /\ i # 1
    BY <1>5
  <2>. QED  BY <1>2, <1>5, <2>1 DEF RequestOK, Chain
<1>7. o \in Members(r)
  <2>1. 1 \in 1 .. Len(r.bios)
    BY <1>5
  <2>. QED  BY <1>2, <2>1 DEF Members
<1>8. \A d \in Clients : d # o => bio'[d] = bio[d]
  BY <1>3, <1>4
<1>9. \A i \in 2 .. Len(r.bios) : bio'[r.bios[i]] = bio[r.bios[i]]
  BY <1>6, <1>8
<1>10. Members(NoRq) = {}
  BY DEF Members, NoRq
\* What is served next: the same bio, another one of the request, or none.
<1>. DEFINE Onwards ==
              /\ rq'[c] = NoRq \/ (RequestOK(rq'[c], bio') /\ ~rq'[c].copied)
              /\ Members(rq'[c]) = Members(r) \ {d \in {o} : bio'[d] = NoBio}
              /\ \/ bio'[o] = NoBio /\ Len(b.segs) = 1
                 \/ /\ bio'[o] # NoBio /\ BioOK(bio'[o])
                    /\ bio'[o].page = b.page + len /\ bio'[o].sector = b.sector
                    /\ bio'[o].dir = b.dir /\ bio'[o].mem = b.mem
                    /\ rq'[c] # NoRq /\ Head(rq'[c].bios) = o
<1>11. ASSUME Len(b.segs) = 1, Tail(r.bios) = <<>> PROVE Onwards
  <2>1. rq'[c] = NoRq /\ bio'[o] = NoBio
    BY <1>2, <1>3, <1>4, <1>11
  <2>2. Members(r) = {o}
    <3>1. Len(r.bios) = 1
      BY <1>5, <1>11, LastBio
    <3>. QED  BY <1>2, <3>1 DEF Members
  <2>. QED  BY <1>10, <1>11, <2>1, <2>2
<1>12. ASSUME Len(b.segs) = 1, Tail(r.bios) # <<>> PROVE Onwards
  <2>1. rq'[c] = rest /\ bio'[o] = NoBio
    BY <1>2, <1>3, <1>4, <1>12
  <2>2. RequestOK(rest, bio') /\ Members(rest) = Members(r) \ {o}
    <3>1. /\ RequestOK(r, bio) /\ Len(bio[r.bios[1]].segs) = 1 /\ Tail(r.bios) # <<>>
          /\ \A i \in 2 .. Len(r.bios) : bio'[r.bios[i]] = bio[r.bios[i]]
      BY <1>2, <1>9, <1>12
    <3>2. LET n == Head(bio[r.bios[1]].segs) \div SectorSize
              q == [pos |-> r.pos + n, size |-> r.size - n, bios |-> Tail(r.bios), copied |-> FALSE]
          IN  RequestOK(q, bio') /\ Members(q) = Members(r) \ {r.bios[1]}
      BY <3>1, RequestTail
    <3>. QED  BY <1>2, <3>2, Zenon
  <2>3. ~rest.copied
    OBVIOUS
  <2>. HIDE DEF rest
  <2>. QED  BY <1>12, <2>1, <2>2, <2>3
<1>13. ASSUME Len(b.segs) # 1 PROVE Onwards
  <2>1. rq'[c] = same /\ bio'[o] = h
    BY <1>2, <1>3, <1>4, <1>13
  <2>2. RequestOK(same, bio') /\ Members(same) = Members(r) /\ BioOK(h) /\ h # NoBio
    <3>1. /\ RequestOK(r, bio) /\ Len(bio[r.bios[1]].segs) # 1
          /\ bio'[r.bios[1]] = Shortened(bio[r.bios[1]])
          /\ \A i \in 2 .. Len(r.bios) : bio'[r.bios[i]] = bio[r.bios[i]]
      BY <1>2, <1>9, <1>13, <2>1
    <3>. DEFINE n == Head(bio[r.bios[1]].segs) \div SectorSize
                q == [pos |-> r.pos + n, size |-> r.size - n, bios |-> r.bios, copied |-> FALSE]
    <3>2. q = same
      BY <1>2
    <3>. HIDE DEF r, same, h, Onwards
    <3>3. /\ RequestOK(q, bio') /\ Members(q) = Members(r)
          /\ BioOK(bio'[r.bios[1]]) /\ bio'[r.bios[1]] # NoBio
      BY <3>1, RequestAdvance
    <3>. HIDE DEF q
    <3>. QED  BY <1>2, <2>1, <3>2, <3>3
  <2>3. h.page = b.page + len /\ h.sector = b.sector /\ h.dir = b.dir /\ h.mem = b.mem
    <3>1. b \in [dir : {"read", "write"}, sector : 0 .. Sectors - 1, segs : Segments, page : Nat, mem : {b.mem}]
      BY <1>2 DEF BioOK, Bios
    <3>. HIDE DEF b
    <3>. QED  BY <3>1 DEF Shortened
  <2>4. ~same.copied /\ same.bios = r.bios /\ same # NoRq
    <3>1. ~same.copied /\ same.bios = r.bios
      OBVIOUS
    <3>2. NoRq.bios = <<>>
      BY DEF NoRq
    <3>. HIDE DEF same
    <3>. QED  BY <1>2, <3>1, <3>2
  <2>. HIDE DEF same, h, b, len
  <2>. QED  BY <2>1, <2>2, <2>3, <2>4
<1>14. Onwards
  BY <1>11, <1>12, <1>13
<1>15. \A k \in Clients : k # c => rq'[k] = NoRq
  BY <1>2, <1>3, <1>4
<1>16. DOMAIN bio' = Clients /\ DOMAIN rq' = Clients
  BY <1>3, <1>4
<1>. QED  BY <1>7, <1>8, <1>14, <1>15, <1>16

LEMMA EndCurInv ==
  ASSUME IInv, NEW c \in Clients, EndCur(c)
  PROVE  IInv'
<1>. DEFINE r   == rq[c]
            o   == Head(r.bios)
            b   == bio[o]
            len == Head(b.segs)
<1>1. /\ r # NoRq /\ r.copied
      /\ UNCHANGED <<disk, file, ramdiskbuf, elevator, running>>
  BY DEF EndCur
<1>2. /\ o \in Clients /\ b # NoBio /\ BioOK(b)
      /\ c \in running
      /\ \A k \in Clients : k # c => rq[k] = NoRq
      /\ \A d \in Clients : bio[d] # NoBio /\ d # o => bio[d].page = 0
      /\ Copied(o) = b.page + len
  BY <1>1, TheRequest
<1>3. DOMAIN bio' = Clients /\ DOMAIN rq' = Clients
  BY EndCurEffect
<1>4. o \in Members(r)
  BY EndCurEffect
<1>5. \A d \in Clients : d # o => bio'[d] = bio[d]
  BY EndCurEffect
<1>6. Members(NoRq) = {}
  BY DEF Members, NoRq
<1>7. /\ rq'[c] = NoRq \/ (RequestOK(rq'[c], bio') /\ ~rq'[c].copied)
      /\ Members(rq'[c]) = Members(r) \ {d \in {o} : bio'[d] = NoBio}
      /\ \/ bio'[o] = NoBio
         \/ /\ bio'[o] # NoBio /\ BioOK(bio'[o])
            /\ bio'[o].page = b.page + len /\ bio'[o].sector = b.sector
            /\ bio'[o].dir = b.dir /\ bio'[o].mem = b.mem
             /\ rq'[c] # NoRq /\ Head(rq'[c].bios) = o
  BY EndCurEffect
<1>8. \A k \in Clients : k # c => rq'[k] = NoRq
  BY EndCurEffect
<1>9. Rungs' /\ Users' /\ Locked'
  <2>1. \A d \in Clients : bio'[d] # NoBio => bio[d] # NoBio
    BY <1>2, <1>5
  <2>2. \A k \in Clients : rq'[k] # NoRq => k = c
    BY <1>8
  <2>. QED  BY <1>1, <1>2, <2>1, <2>2 DEF disk, IInv, Rungs, Users, Locked
<1>10. BiosOK'
  <2>1. bio'[o] = NoBio \/ bio'[o] \in Bios
    BY <1>7 DEF BioOK
  <2>2. bio' = [d \in Clients |-> bio'[d]]
    BY <1>3 DEF EndCur
  <2>3. \A d \in Clients : bio'[d] \in {NoBio} \cup Bios
    BY <1>5, <2>1 DEF IInv, QueueInv, BiosOK
  <2>4. bio' \in [Clients -> {NoBio} \cup Bios]
    BY <2>2, <2>3
  <2>5. \A d \in Clients : bio'[d] # NoBio => BioOK(bio'[d])
    BY <1>5, <1>7 DEF IInv, QueueInv, BiosOK
  <2>. QED  BY <2>4, <2>5 DEF BiosOK
<1>11. ASSUME NEW q \in elevator PROVE RequestOK(q, bio') /\ Untouched(q, bio') /\ o \notin Members(q)
  <2>1. RequestOK(q, bio) /\ Untouched(q, bio)
    BY DEF IInv, QueueInv, WaitingOK
  <2>2. q.bios \in Seq(Clients) /\ o \notin Members(q)
    BY <1>4, <2>1 DEF RequestOK, Requests, IInv, QueueInv, Apart
  <2>3. \A i \in 1 .. Len(q.bios) : q.bios[i] \in Clients /\ q.bios[i] # o
    BY <2>2 DEF Members
  <2>4. \A i \in 1 .. Len(q.bios) : bio'[q.bios[i]] = bio[q.bios[i]]
    BY <1>5, <2>3
  <2>5. RequestOK(q, bio') /\ (Untouched(q, bio) => Untouched(q, bio'))
    BY <2>1, <2>4, RequestSame
  <2>. QED  BY <2>1, <2>2, <2>5
<1>12. WaitingOK'
  BY <1>1, <1>11 DEF WaitingOK
<1>13. ServedOK'
  BY <1>3, <1>7, <1>8 DEF ServedOK
<1>14. \A k \in Clients : Members(rq'[k]) \subseteq Members(rq[k])
  BY <1>6, <1>7, <1>8
<1>15. Apart'
  BY <1>1, <1>14 DEF IInv, QueueInv, Apart
<1>16. Covered'
  <2>1. ASSUME NEW d \in Clients, bio'[d] # NoBio
        PROVE  (\E q \in elevator : d \in Members(q)) \/ (\E k \in Clients : d \in Members(rq'[k]))
    <3>1. bio[d] # NoBio
      BY <1>2, <1>5, <2>1
    <3>2. CASE \E q \in elevator : d \in Members(q)
      BY <3>2
    <3>3. ASSUME NEW k \in Clients, d \in Members(rq[k]) PROVE d \in Members(rq'[k])
      <4>1. k = c
        BY <1>2, <1>6, <3>3
      <4>. QED  BY <1>7, <2>1, <3>3, <4>1
    <3>. QED  BY <3>1, <3>2, <3>3 DEF IInv, QueueInv, Covered
  <2>. QED  BY <1>1, <2>1 DEF Covered
<1>17. BegunOK'
  <2>1. \A d \in Clients : bio'[d] # NoBio /\ bio'[d].page > 0 => d = o
    BY <1>2, <1>5
  <2>. QED  BY <1>7, <2>1 DEF BegunOK
<1>18. \A d \in Clients : Copied(d)' = bio'[d].page + 0
  <2>1. \A k \in Clients : rq'[k] # NoRq => ~rq'[k].copied
    BY <1>7, <1>8
  <2>. QED  BY <2>1 DEF Copied
<1>19. ASSUME NEW d \in Clients, bio'[d] # NoBio, bio'[d].dir = "write", NEW i \in DOMAIN bio'[d].mem
       PROVE  bio'[d].mem[i] = d /\ (i < Copied(d)' => ramdiskbuf[FirstByte(bio'[d]) + i] = d)
  <2>1. CASE d = o
    <3>1. /\ bio'[d].page = b.page + len /\ FirstByte(bio'[d]) = FirstByte(b)
          /\ bio'[d].dir = b.dir /\ bio'[d].mem = b.mem
      BY <1>7, <1>19, <2>1 DEF FirstByte
    <3>2. b.page \in Nat /\ len \in Nat
      BY <1>2, HeadAndTotal DEF BioOK, Bios
    <3>3. Copied(d)' = Copied(d)
      <4>. HIDE DEF b, len
      <4>. QED  BY <1>2, <1>18, <2>1, <3>1, <3>2
    <3>. QED  BY <1>2, <1>19, <2>1, <3>1, <3>3 DEF IInv, BufferInv
  <2>2. CASE d # o
    <3>1. bio'[d] = bio[d] /\ bio[d].page = 0
      BY <1>2, <1>5, <1>19, <2>2
    <3>2. Copied(d)' = 0
      BY <1>18, <3>1
    <3>3. i \in Nat
      <4>. DEFINE g == bio[d]
      <4>1. BioOK(g) /\ i \in DOMAIN g.mem
        BY <1>19, <3>1 DEF IInv, QueueInv, BiosOK
      <4>. HIDE DEF g
      <4>. QED  BY <4>1, MemIndex
    <3>. QED  BY <1>19, <3>1, <3>2, <3>3 DEF IInv, BufferInv
  <2>. QED  BY <2>1, <2>2
<1>20. BufferInv'
  BY <1>1, <1>19 DEF IInv, BufferInv
<1>. QED  BY <1>9, <1>10, <1>12, <1>13, <1>15, <1>16, <1>17, <1>20 DEF IInv, QueueInv

LEMMA NextInv == IInv /\ [Next]_vars => IInv'
<1>. SUFFICES ASSUME IInv, [Next]_vars PROVE IInv'
  OBVIOUS
<1>1. CASE RamdiskInit \/ RamdiskExit
  BY <1>1, LifeInv
<1>2. ASSUME NEW c \in Clients, RamdiskOpen(c) \/ RamdiskRelease(c) \/ RunQueue(c) PROVE IInv'
  BY <1>2, FileInv
<1>3. ASSUME NEW c \in Clients, SubmitBio(c) PROVE IInv'
  BY <1>3, SubmitInv
<1>4. ASSUME NEW c \in Clients, Fetch(c) PROVE IInv'
  BY <1>4, FetchInv
<1>5. ASSUME NEW c \in Clients, Transfer(c) PROVE IInv'
  BY <1>5, TransferInv
<1>6. ASSUME NEW c \in Clients, EndCur(c) PROVE IInv'
  BY <1>6, EndCurInv
<1>7. CASE UNCHANGED vars
  <2>1. UNCHANGED <<disk, file, ramdiskbuf, bio, elevator, running, rq>>
    BY <1>7 DEF vars
  <2>2. QueueInv' /\ BufferInv' /\ BegunOK'
    BY <2>1, Aside
  <2>. QED  BY <2>1, <2>2 DEF disk, IInv, Rungs, Users, Locked
<1>. QED  BY <1>1, <1>2, <1>3, <1>4, <1>5, <1>6, <1>7 DEF Next

LEMMA Inductive == Spec => []IInv
BY InitInv, NextInv, PTL DEF Spec

\* A failure of any step of ramdisk_init, and ramdisk_exit, leave nothing behind.
THEOREM WreqLeaksNothing == Spec => []NothingLeaked
<1>1. IInv => NothingLeaked
  BY DEF IInv, Rungs, NothingLeaked, Life!Balanced
<1>. QED  BY <1>1, Inductive, PTL

\* The buffer and the queue outlive every request: ramdisk_exit frees them only
\* once the last file is closed, and a file is not closed before its bio ends.
THEOREM WreqKeepsBuffer == Spec => []BufferOutlivesBios
<1>1. IInv => BufferOutlivesBios
  BY DEF IInv, Rungs, Users, BufferOutlivesBios
<1>. QED  BY <1>1, Inductive, PTL

\* However bios are merged into requests and requests are fetched and completed,
\* a bio in flight is in exactly one of them.
THEOREM WreqInOneRequest == Spec => []InOneRequest
<1>1. IInv => InOneRequest
  <2>. SUFFICES ASSUME IInv, NEW c \in Clients, bio[c] # NoBio
                PROVE  Cardinality({r \in elevator : Contains(r.bios, c)})
                         + Cardinality({k \in Clients : Contains(rq[k].bios, c)}) = 1
    BY DEF InOneRequest
  <2>. DEFINE waiting == {r \in elevator : Contains(r.bios, c)}
              served  == {k \in Clients : Contains(rq[k].bios, c)}
  <2>1. waiting = {r \in elevator : c \in Members(r)} /\ served = {k \in Clients : c \in Members(rq[k])}
    BY DEF Contains, Members
  <2>2. \A r, q \in elevator : c \in Members(r) /\ c \in Members(q) => r = q
    BY DEF IInv, QueueInv, Apart
  <2>3. \A r \in elevator, k \in Clients : ~(c \in Members(r) /\ c \in Members(rq[k]))
    BY DEF IInv, QueueInv, Apart
  <2>4. \A k, l \in Clients : c \in Members(rq[k]) /\ c \in Members(rq[l]) => k = l
    <3>1. Members(NoRq) = {}
      BY DEF Members, NoRq
    <3>. QED  BY <3>1 DEF IInv, Locked
  <2>5. (waiting = {} /\ \E k : served = {k}) \/ (served = {} /\ \E r : waiting = {r})
    <3>. HIDE DEF waiting, served
    <3>1. ASSUME NEW r \in elevator, c \in Members(r) PROVE waiting = {r} /\ served = {}
      BY <2>1, <2>2, <2>3, <3>1
    <3>2. ASSUME NEW k \in Clients, c \in Members(rq[k]) PROVE served = {k} /\ waiting = {}
      BY <2>1, <2>3, <2>4, <3>2
    <3>. QED  BY <3>1, <3>2 DEF IInv, QueueInv, Covered
  <2>. HIDE DEF waiting, served
  <2>6. Cardinality(waiting) + Cardinality(served) = 1
    <3>1. Cardinality({}) = 0 /\ \A x : Cardinality({x}) = 1
      BY FS_EmptySet, FS_Singleton
    <3>2. \/ Cardinality(waiting) = 0 /\ Cardinality(served) = 1
          \/ Cardinality(served) = 0 /\ Cardinality(waiting) = 1
      BY <2>5, <3>1
    <3>. QED  BY <3>2
  <2>. QED  BY <2>6 DEF waiting, served
<1>. QED  BY <1>1, Inductive, PTL

\* The types of all variables: no request is longer than the disk or reaches
\* behind its end, and none is empty, whatever has been merged into it.
THEOREM WreqTypes == Spec => []TypeOK
<1>1. IInv => TypeOK
  <2>. SUFFICES ASSUME IInv PROVE TypeOK
    OBVIOUS
  <2>1. Life!TypeOK
    <3>1. DOMAIN Acquired = 1 .. 5 /\ DOMAIN Released = 1 .. 5
      BY DEF Acquired, Released
    <3>2. Life!Resources = {"ramdiskbuf", "blkdev", "gendisk", "queue", "disk"}
      BY <3>1 DEF Life!Resources, Acquired
    <3>. QED  BY <3>1, <3>2 DEF IInv, Rungs, Life!TypeOK
  <2>2. ASSUME NEW c \in Clients, bio[c] # NoBio
        PROVE  /\ bio[c].dir \in {"read", "write"}
               /\ bio[c].sector \in 0 .. Sectors - 1
               /\ bio[c].page + Total(bio[c].segs) \in 1 .. Bytes
    <3>. DEFINE b == bio[c]
    <3>1. BioOK(b)
      BY <2>2 DEF IInv, QueueInv, BiosOK
    <3>. HIDE DEF b
    <3>2. b.dir \in {"read", "write"} /\ b.sector \in 0 .. Sectors - 1 /\ b.segs \in Segments /\ b.page \in Nat
      BY <3>1 DEF BioOK, Bios
    <3>3. Total(b.segs) \in Nat \ {0} /\ FirstByte(b) \in Nat /\ Bytes \in Nat
      BY <3>1, <3>2, HeadAndTotal, BeyondNat, CapacityNat
    <3>4. (FirstByte(b) + b.page) + Total(b.segs) <= Bytes
      BY <3>1 DEF BioOK, Beyond, Place
    <3>5. b.page + Total(b.segs) \in 1 .. Bytes
      BY <3>2, <3>3, <3>4
    <3>. QED  BY <3>2, <3>5 DEF b
  <2>3. ASSUME NEW r, RequestOK(r, bio)
        PROVE  /\ r.bios \in Seq(Clients) \ {<<>>}
               /\ r.pos \in 0 .. Sectors
               /\ r.size \in 1 .. Sectors
               /\ r.copied \in BOOLEAN
    <3>. DEFINE m == Len(r.bios)
    <3>1. r \in Requests /\ r.bios \in Seq(Clients) \ {<<>>} /\ r.pos \in Nat /\ r.size \in Nat /\ r.copied \in BOOLEAN
      BY <2>3 DEF RequestOK, Requests
    <3>2. m \in 1 .. m /\ 1 \in 1 .. m
      BY <3>1
    <3>3. /\ BioOK(bio[r.bios[1]]) /\ BioOK(bio[r.bios[m]])
          /\ Beyond(bio[r.bios[1]]) <= Beyond(bio[r.bios[m]])
      BY <2>3, <3>2 DEF RequestOK, Chain
    <3>4. /\ r.pos * SectorSize = Place(bio[r.bios[1]])
          /\ (r.pos + r.size) * SectorSize = Beyond(bio[r.bios[m]])
      BY <2>3 DEF RequestOK
    <3>5. /\ r.pos * SectorSize < (r.pos + r.size) * SectorSize
          /\ (r.pos + r.size) * SectorSize <= Sectors * SectorSize
      <4>1. Place(bio[r.bios[1]]) \in Nat /\ Place(bio[r.bios[1]]) < Beyond(bio[r.bios[1]])
        BY <3>3, BeyondNat
      <4>2. Beyond(bio[r.bios[1]]) \in Nat /\ Beyond(bio[r.bios[m]]) \in Nat
        BY <3>3, BeyondNat
      <4>3. Beyond(bio[r.bios[m]]) <= Sectors * SectorSize
        BY <3>3, CapacityNat DEF BioOK
      <4>. QED  BY <3>3, <3>4, <4>1, <4>2, <4>3
    <3>6. r.pos + r.size \in Nat /\ Sectors \in Nat
      BY <3>1, RamdiskAssumption
    <3>7. r.pos < r.pos + r.size /\ r.pos + r.size <= Sectors
      BY <3>1, <3>5, <3>6, Multiples
    <3>8. r.pos \in 0 .. Sectors /\ r.size \in 1 .. Sectors
      BY <3>1, <3>6, <3>7
    <3>. QED  BY <3>1, <3>8
  <2>4. \A r \in elevator \cup {rq[c] : c \in Clients} : r # NoRq => RequestOK(r, bio)
    BY DEF IInv, QueueInv, WaitingOK, ServedOK
  <2>. QED  BY <2>1, <2>2, <2>3, <2>4 DEF IInv, Users, Locked, BufferInv, TypeOK
<1>. QED  BY <1>1, Inductive, PTL

-----------------------------------------------------------------------------
(* The driver implements the store with requests that are atomic. *)

Ext(b) == {FirstByte(b) + i : i \in DOMAIN b.mem}

\* The request of the store that bio b stands for, when n of its bytes have been
\* copied and the disk is buf.
View(b, n, buf) ==
  [dir   |-> b.dir,
   first |-> FirstByte(b),
   moved |-> IF n > 0 THEN Ext(b) ELSE {},
   mem   |-> [i \in DOMAIN b.mem |-> IF n > 0 /\ b.dir = "read" /\ i >= n
                                        THEN buf[FirstByte(b) + i] ELSE b.mem[i]]]

\* The bio of c has been begun, as its request in the store has been moved.
Going(c) == bio[c] # NoBio /\ Copied(c) > 0

LEMMA CopiedBegun ==
  ASSUME IInv, NEW c \in Clients
  PROVE  (Begun(c) <=> Going(c)) /\ (bio[c] # NoBio => Copied(c) \in Nat)
<1>1. CASE bio[c] = NoBio
  BY <1>1 DEF Begun, Going
<1>2. CASE bio[c] # NoBio
  <2>. DEFINE b == bio[c]
              here == \E k \in Clients : rq[k] # NoRq /\ rq[k].copied /\ Head(rq[k].bios) = c
  <2>1. BioOK(b)
    BY <1>2 DEF IInv, QueueInv, BiosOK
  <2>2. b.page \in Nat /\ Head(b.segs) \in Nat \ {0}
    BY <2>1, HeadAndTotal DEF BioOK, Bios
  <2>3. Copied(c) = b.page + IF here THEN Head(b.segs) ELSE 0
    BY DEF Copied
  <2>4. Begun(c) <=> (b.page > 0 \/ here)
    BY <1>2 DEF Begun
  <2>. HIDE DEF b, here
  <2>5. Copied(c) \in Nat /\ (Copied(c) > 0 <=> (b.page > 0 \/ here))
    <3>1. CASE here
      BY <2>2, <2>3, <3>1
    <3>2. CASE ~here
      BY <2>2, <2>3, <3>2
    <3>. QED  BY <3>1, <3>2
  <2>. QED  BY <1>2, <2>4, <2>5 DEF Going
<1>. QED  BY <1>1, <1>2

\* Requests are served one at a time, in order: one bio is begun at most.
LEMMA OneGoing ==
  ASSUME IInv, NEW c \in Clients, NEW d \in Clients, Going(c), Going(d)
  PROVE  c = d
<1>1. CASE \A k \in Clients : rq[k] = NoRq
  <2>1. Copied(c) = 0
    BY <1>1, NoRequest DEF Going
  <2>. QED  BY <2>1 DEF Going
<1>2. ASSUME NEW k \in Clients, rq[k] # NoRq PROVE c = d
  <2>. DEFINE o == Head(rq[k].bios)
  <2>1. \A e \in Clients : bio[e] # NoBio /\ e # o => bio[e].page = 0 /\ Copied(e) = bio[e].page + 0
    BY <1>2, TheRequest
  <2>2. \A e \in Clients : Going(e) => e = o
    BY <2>1 DEF Going
  <2>. QED  BY <2>2
<1>. QED  BY <1>1, <1>2

\* The store and its requests, in terms of the bios.
IoIsView ==
  Io = [c \in Clients |-> IF bio[c] = NoBio THEN NoBio ELSE View(bio[c], Copied(c), ramdiskbuf)]
StoredIsDisk ==
  (\A c \in Clients : Going(c) => bio[c].dir # "write") => Stored = ramdiskbuf
StoredIsWritten ==
  \A o \in Clients : Going(o) /\ bio[o].dir = "write" =>
    Stored = [x \in DOMAIN ramdiskbuf |-> IF x \in Ext(bio[o]) THEN o ELSE ramdiskbuf[x]]

LEMMA Views == IInv => IoIsView /\ StoredIsDisk /\ StoredIsWritten
<1>. SUFFICES ASSUME IInv PROVE IoIsView /\ StoredIsDisk /\ StoredIsWritten
  OBVIOUS
<1>1. \A c \in Clients : First(c) = FirstByte(bio[c])
  BY DEF First, FirstByte
<1>2. IoIsView
  <2>1. ASSUME NEW c \in Clients, bio[c] # NoBio
        PROVE  View(bio[c], Copied(c), ramdiskbuf) =
                 [dir   |-> bio[c].dir,
                  first |-> First(c),
                  moved |-> IF Begun(c) THEN {First(c) + i : i \in DOMAIN bio[c].mem} ELSE {},
                  mem   |-> [i \in DOMAIN bio[c].mem |->
                     IF Begun(c) /\ bio[c].dir = "read" /\ i >= Copied(c)
                       THEN ramdiskbuf[First(c) + i] ELSE bio[c].mem[i]]]
    <3>1. Begun(c) <=> Copied(c) > 0
      BY <2>1, CopiedBegun DEF Going
    <3>. QED  BY <1>1, <3>1 DEF View, Ext
  <2>. QED  BY <2>1 DEF IoIsView, Io
<1>3. \A c \in Clients : Overwritten(c) = IF Going(c) /\ bio[c].dir = "write" THEN Ext(bio[c]) ELSE {}
  BY <1>1, CopiedBegun DEF Overwritten, Ext
<1>4. ramdiskbuf = [x \in DOMAIN ramdiskbuf |-> ramdiskbuf[x]]
  BY DEF IInv, BufferInv
<1>5. StoredIsDisk
  <2>. SUFFICES ASSUME \A c \in Clients : Going(c) => bio[c].dir # "write" PROVE Stored = ramdiskbuf
    BY DEF StoredIsDisk
  <2>1. \A x : ~ \E c \in Clients : x \in Overwritten(c)
    BY <1>3
  <2>. QED  BY <1>4, <2>1 DEF Stored
<1>6. StoredIsWritten
  <2>. SUFFICES ASSUME NEW o \in Clients, Going(o), bio[o].dir = "write"
                PROVE  Stored = [x \in DOMAIN ramdiskbuf |-> IF x \in Ext(bio[o]) THEN o ELSE ramdiskbuf[x]]
    BY DEF StoredIsWritten
  <2>1. \A x, c : c \in Clients /\ x \in Overwritten(c) <=> c = o /\ x \in Ext(bio[o])
    BY <1>3, OneGoing
  <2>2. ASSUME NEW x \in DOMAIN ramdiskbuf
        PROVE  (IF \E c \in Clients : x \in Overwritten(c)
                  THEN CHOOSE c \in Clients : x \in Overwritten(c) ELSE ramdiskbuf[x])
               = IF x \in Ext(bio[o]) THEN o ELSE ramdiskbuf[x]
    <3>1. CASE x \in Ext(bio[o])
      <4>1. (CHOOSE c \in Clients : x \in Overwritten(c)) = o
        BY <2>1, <3>1
      <4>. QED  BY <2>1, <3>1, <4>1
    <3>2. CASE x \notin Ext(bio[o])
      BY <2>1, <3>2
    <3>. QED  BY <3>1, <3>2
  <2>. QED  BY <2>2 DEF Stored
<1>. QED  BY <1>2, <1>5, <1>6

LEMMA ViewsNext == IInv' => IoIsView' /\ StoredIsDisk' /\ StoredIsWritten'
BY Views, PTL

\* What leaves the disk, the memory of the bios and what has been copied of them
\* alone, does not show in the store.
LEMMA Unseen ==
  ASSUME IInv, IInv', UNCHANGED ramdiskbuf,
         \A c \in Clients : bio'[c] = NoBio <=> bio[c] = NoBio,
         \A c \in Clients : bio[c] # NoBio =>
           /\ bio'[c].dir = bio[c].dir /\ bio'[c].sector = bio[c].sector /\ bio'[c].mem = bio[c].mem
           /\ Copied(c)' = Copied(c)
  PROVE  UNCHANGED <<Stored, Io>>
<1>1. IoIsView /\ StoredIsDisk /\ StoredIsWritten /\ IoIsView' /\ StoredIsDisk' /\ StoredIsWritten'
  BY Views, ViewsNext
<1>2. \A c \in Clients : bio[c] # NoBio =>
        /\ Ext(bio'[c]) = Ext(bio[c])
        /\ View(bio'[c], Copied(c)', ramdiskbuf') = View(bio[c], Copied(c), ramdiskbuf)
  BY DEF Ext, View, FirstByte
<1>3. Io' = Io
  BY <1>1, <1>2 DEF IoIsView
<1>4. \A c \in Clients : Going(c)' <=> Going(c)
  BY DEF Going
<1>5. Stored' = Stored
  <2>1. CASE \A c \in Clients : Going(c) => bio[c].dir # "write"
    <3>1. \A c \in Clients : Going(c)' => bio'[c].dir # "write"
      BY <1>4, <2>1 DEF Going
    <3>. QED  BY <1>1, <2>1, <3>1 DEF StoredIsDisk
  <2>2. ASSUME NEW o \in Clients, Going(o), bio[o].dir = "write" PROVE Stored' = Stored
    <3>1. bio[o] # NoBio /\ Going(o)' /\ bio'[o].dir = "write" /\ Ext(bio'[o]) = Ext(bio[o])
      BY <1>2, <1>4, <2>2 DEF Going
    <3>. QED  BY <1>1, <2>2, <3>1 DEF StoredIsWritten
  <2>. QED  BY <2>1, <2>2
<1>. QED  BY <1>3, <1>5

\* A request that is fetched has not been begun.
LEMMA FetchUnseen ==
  ASSUME IInv, IInv', NEW c \in Clients, Fetch(c)
  PROVE  UNCHANGED <<Stored, Io>>
<1>1. UNCHANGED <<ramdiskbuf, bio>> /\ \A k \in Clients : rq[k] = NoRq
  BY DEF Fetch, IInv, Locked
<1>2. \A d \in Clients : bio[d] # NoBio => bio[d].page = 0 /\ Copied(d) = 0
  BY <1>1, NoRequest
<1>3. \A k \in Clients : rq'[k] # NoRq => ~rq'[k].copied
  <2>1. DOMAIN rq = Clients /\ \A r \in elevator : ~r.copied
    BY DEF IInv, QueueInv, ServedOK, WaitingOK, Untouched
  <2>2. CASE elevator = {}
    BY <1>1, <2>2 DEF Fetch
  <2>3. CASE elevator # {}
    <3>1. PICK r \in elevator : rq' = [rq EXCEPT ![c] = r]
      BY <2>3 DEF Fetch
    <3>. QED  BY <1>1, <2>1, <3>1
  <2>. QED  BY <2>2, <2>3
<1>4. \A d \in Clients : bio[d] # NoBio => Copied(d)' = 0
  BY <1>1, <1>2, <1>3 DEF Copied
<1>. QED  BY <1>1, <1>2, <1>4, Unseen

LEMMA AsideUnseen ==
  ASSUME IInv, IInv', UNCHANGED <<ramdiskbuf, bio, rq>>
  PROVE  UNCHANGED <<Stored, Io>>
<1>1. \A d \in Clients : Copied(d)' = Copied(d)
  BY DEF Copied
<1>. QED  BY <1>1, Unseen

\* The buffer is cleared while no process has a bio.
LEMMA LoadRefines ==
  ASSUME IInv, IInv', RamdiskInit
  PROVE  Store!Reset \/ UNCHANGED <<Stored, Io>>
<1>1. UNCHANGED <<bio, rq>>
  BY DEF RamdiskInit
<1>2. CASE UNCHANGED ramdiskbuf
  BY <1>1, <1>2, AsideUnseen
<1>3. CASE Cleared
  <2>1. at # <<"on", 0>>
    BY InitClimbs DEF IInv
  <2>2. \A c \in Clients : bio[c] = NoBio /\ bio'[c] = NoBio
    BY <1>1, <2>1 DEF IInv, Users
  <2>3. \A c \in Clients : ~Going(c) /\ ~Going(c)'
    BY <2>2 DEF Going
  <2>4. Stored' = ramdiskbuf'
    BY <2>3, ViewsNext DEF StoredIsDisk
  <2>5. (\A c \in Clients : Io[c] = NoBio) /\ Io' = Io
    BY <2>2, Views, ViewsNext DEF IoIsView
  <2>. QED  BY <1>3, <2>4, <2>5 DEF Cleared, Store!Reset, Store!Empty, Store!NoIo, NoBio
<1>. QED  BY <1>2, <1>3 DEF RamdiskInit

\* A bio that is submitted is a fresh request: nothing of it has been moved.
LEMMA SubmitRefines ==
  ASSUME IInv, IInv', NEW c \in Clients, SubmitBio(c)
  PROVE  Store!Submit(c)
<1>1. PICK dir \in {"read", "write"}, sector \in 0 .. Sectors - 1, segs \in Segments :
        /\ sector * SectorSize + Total(segs) <= Bytes
        /\ bio' = [bio EXCEPT ![c] =
             [dir |-> dir, sector |-> sector, segs |-> segs, page |-> 0,
              mem |-> [i \in 0 .. Total(segs) - 1 |-> IF dir = "write" THEN c ELSE Zero]]]
  BY DEF SubmitBio
<1>. DEFINE mem == [i \in 0 .. Total(segs) - 1 |-> IF dir = "write" THEN c ELSE Zero]
            b == [dir |-> dir, sector |-> sector, segs |-> segs, page |-> 0, mem |-> mem]
            r == View(b, 0, ramdiskbuf)
<1>2. bio' = [bio EXCEPT ![c] = b] /\ DOMAIN bio = Clients
  BY <1>1 DEF IInv, QueueInv, BiosOK
<1>3. BioOK(b) /\ b # NoBio
  BY <1>1, NewBio
<1>4. b.dir = dir /\ b.mem = mem /\ mem \in [0 .. Total(segs) - 1 -> Data] /\ b.sector = sector
  BY DEF Data
<1>5. bio[c] = NoBio /\ UNCHANGED <<ramdiskbuf, rq>> /\ \A k \in Clients : rq[k] = NoRq
  BY DEF SubmitBio, LockFree, IInv, Locked
<1>. HIDE DEF b, mem
<1>6. bio'[c] = b /\ \A d \in Clients : d # c => bio'[d] = bio[d]
  BY <1>2
<1>7. \A d \in Clients : bio[d] # NoBio => bio[d].page = 0 /\ Copied(d) = 0
  BY <1>5, NoRequest
<1>8. \A d \in Clients : bio'[d] # NoBio => Copied(d)' = 0
  <2>1. \A k \in Clients : rq'[k] = NoRq
    BY <1>5
  <2>2. b.page = 0
    BY <1>1 DEF b
  <2>3. \A d \in Clients : bio'[d] # NoBio => bio'[d].page = 0
    BY <1>6, <1>7, <2>2
  <2>. QED  BY <2>1, <2>3 DEF Copied
<1>9. \A d \in Clients : ~Going(d) /\ ~Going(d)'
  BY <1>7, <1>8 DEF Going
<1>10. Stored = ramdiskbuf /\ Stored' = ramdiskbuf'
  BY <1>9, Views, ViewsNext DEF StoredIsDisk
<1>11. Io = [d \in Clients |-> IF bio[d] = NoBio THEN NoBio ELSE View(bio[d], Copied(d), ramdiskbuf)]
  BY Views DEF IoIsView
<1>12. Io' = [d \in Clients |-> IF bio'[d] = NoBio THEN NoBio ELSE View(bio'[d], Copied(d)', ramdiskbuf')]
  BY ViewsNext DEF IoIsView
<1>13. Io[c] = NoBio /\ Io' = [Io EXCEPT ![c] = r]
  <2>1. \A d \in Clients : d # c => Io'[d] = Io[d]
    BY <1>5, <1>6, <1>7, <1>8, <1>11, <1>12
  <2>2. Io'[c] = r /\ Io[c] = NoBio
    BY <1>3, <1>5, <1>6, <1>8, <1>11, <1>12
  <2>. HIDE DEF r
  <2>. QED  BY <1>11, <1>12, <2>1, <2>2
<1>14. r.dir = dir /\ r.first = FirstByte(b) /\ r.moved = {} /\ r.mem = mem
  <2>1. r.mem = [i \in DOMAIN mem |-> mem[i]] /\ r.dir = dir /\ r.first = FirstByte(b) /\ r.moved = {}
    BY <1>4 DEF View
  <2>2. [i \in DOMAIN mem |-> mem[i]] = mem
    BY <1>4
  <2>. QED  BY <2>1, <2>2
<1>15. Store!FreshRequest(r)
  <2>. HIDE DEF r
  <2>1. Total(segs) \in Nat \ {0} /\ FirstByte(b) \in Nat /\ Bytes \in Nat
    BY <1>3, HeadAndTotal, BeyondNat, CapacityNat
  <2>2. FirstByte(b) + Total(segs) <= Bytes
    BY <1>1, <1>4 DEF FirstByte
  <2>. DEFINE n == Total(segs)
              f == FirstByte(b)
  <2>. HIDE DEF n, f
  <2>3. DOMAIN mem = 0 .. n - 1 /\ mem \in [0 .. n - 1 -> Data]
    BY <1>4 DEF n
  <2>4. n \in 1 .. Bytes /\ f + n <= Bytes /\ f \in Nat /\ Bytes \in Nat
    BY <2>1, <2>2 DEF n, f
  <2>5. {f + i : i \in 0 .. n - 1} \subseteq 0 .. Bytes - 1
    BY <2>4
  <2>6. Store!Extent(r) \subseteq 0 .. Bytes - 1
    BY <1>14, <2>3, <2>5 DEF Store!Extent, f
  <2>. QED  BY <1>14, <2>3, <2>4, <2>6 DEF Store!FreshRequest
<1>16. r # NoBio
  BY <1>14 DEF NoBio
<1>17. DOMAIN Io = Clients
  BY <1>11
<1>. HIDE DEF r
<1>. QED  BY <1>5, <1>10, <1>13, <1>15, <1>16, <1>17 DEF Store!Submit, Store!NoIo, NoBio

\* What the copy of a segment does, in terms of the bytes that have been copied.
LEMMA TransferEffect ==
  ASSUME IInv, NEW c \in Clients, Transfer(c)
  PROVE  LET o   == Head(rq[c].bios)
             b   == bio[o]
             n   == b.page
             len == Head(b.segs)
             f   == FirstByte(b)
             h   == bio'[o]
         IN  /\ o \in Clients /\ b # NoBio /\ BioOK(b) /\ h # NoBio
             /\ n \in Nat /\ len \in Nat \ {0} /\ f \in Nat
             /\ Copied(o) = n /\ \A d \in Clients : d = o => Copied(d)' = n + len
             /\ h.dir = b.dir /\ h.sector = b.sector /\ DOMAIN h.mem = DOMAIN b.mem
             /\ \A d \in Clients : d # o => bio'[d] = bio[d]
             /\ \A d \in Clients : bio[d] # NoBio /\ d # o => Copied(d) = 0 /\ Copied(d)' = 0
             /\ b.dir = "write" => /\ h.mem = b.mem
                                   /\ \A x \in DOMAIN ramdiskbuf :
                                        x \notin Ext(b) => ramdiskbuf'[x] = ramdiskbuf[x]
             /\ b.dir = "read"  => /\ ramdiskbuf' = ramdiskbuf
                                   /\ \A i \in DOMAIN b.mem :
                                        h.mem[i] = IF n <= i /\ i < n + len THEN ramdiskbuf[f + i] ELSE b.mem[i]
             /\ DOMAIN ramdiskbuf' = DOMAIN ramdiskbuf
<1>. DEFINE r     == rq[c]
            o     == Head(r.bios)
            b     == bio[o]
            n     == b.page
            len   == Head(b.segs)
            f     == FirstByte(b)
            start == Start(r)
            mem   == [i \in DOMAIN b.mem |->
                        IF b.dir = "read" /\ i \in b.page .. b.page + len - 1
                          THEN ramdiskbuf[start + i - b.page] ELSE b.mem[i]]
            h     == [b EXCEPT !.mem = mem]
<1>1. /\ r # NoRq /\ ~r.copied /\ rq' = [rq EXCEPT ![c].copied = TRUE]
  BY DEF Transfer
<1>2. /\ o \in Clients /\ b # NoBio /\ BioOK(b) /\ r \in Requests /\ r.bios # <<>>
      /\ \A k \in Clients : k # c => rq[k] = NoRq
      /\ \A d \in Clients : bio[d] # NoBio /\ d # o => bio[d].page = 0 /\ Copied(d) = bio[d].page + 0
      /\ Copied(o) = b.page + 0
  BY <1>1, TheRequest DEF RequestOK
<1>3. /\ mem \in [DOMAIN b.mem -> Data] /\ bio' = [bio EXCEPT ![o] = h]
      /\ start \in Nat /\ len \in Nat \ {0} /\ n \in Nat
      /\ n + len <= n + Total(b.segs)
      /\ start = f + n /\ f \in Nat
  BY TransferKeeps
<1>4. ramdiskbuf' = [i \in DOMAIN ramdiskbuf |->
                        IF b.dir = "write" /\ i \in start .. start + len - 1
                          THEN b.mem[b.page + i - start] ELSE ramdiskbuf[i]]
  BY DEF Transfer
<1>5. DOMAIN bio = Clients /\ DOMAIN rq = Clients
  BY DEF IInv, QueueInv, BiosOK, ServedOK
<1>6. bio'[o] = h /\ \A d \in Clients : d # o => bio'[d] = bio[d]
  BY <1>2, <1>3, <1>5
<1>7. h.dir = b.dir /\ h.sector = b.sector /\ h.segs = b.segs /\ h.page = b.page /\ h.mem = mem
  <2>1. b \in [dir : {"read", "write"}, sector : 0 .. Sectors - 1, segs : Segments, page : Nat, mem : {b.mem}]
    BY <1>2 DEF BioOK, Bios
  <2>. HIDE DEF b, mem
  <2>. QED  BY <2>1
<1>8. h # NoBio
  <2>1. b.dir \in {"read", "write"}
    BY <1>2 DEF BioOK, Bios
  <2>2. h.dir # "none"
    BY <1>7, <2>1
  <2>. HIDE DEF h
  <2>. QED  BY <2>2 DEF NoBio
<1>9. /\ rq'[c].copied /\ rq'[c].bios = r.bios /\ rq'[c] # NoRq
      /\ \A k \in Clients : k # c => rq'[k] = NoRq
  <2>1. rq'[c] = [r EXCEPT !.copied = TRUE]
    BY <1>1, <1>5
  <2>2. rq'[c].copied /\ rq'[c].bios = r.bios
    BY <1>2, <2>1 DEF Requests
  <2>. QED  BY <1>1, <1>2, <2>2 DEF NoRq
<1>10. DOMAIN b.mem = 0 .. (n + Total(b.segs)) - 1 /\ b.mem = [i \in DOMAIN b.mem |-> b.mem[i]]
  BY <1>2 DEF BioOK
<1>11. Total(b.segs) \in Nat
  BY <1>2, HeadAndTotal DEF BioOK, Bios
<1>12. ASSUME NEW d \in Clients, d = o PROVE Copied(d)' = n + len
  <2>1. rq'[c] # NoRq /\ rq'[c].copied /\ Head(rq'[c].bios) = d
    BY <1>9, <1>12
  <2>2. Copied(d)' = bio'[d].page + Head(bio'[d].segs)
    BY <2>1 DEF Copied
  <2>3. bio'[d].page = n /\ bio'[d].segs = b.segs
    BY <1>6, <1>7, <1>12
  <2>. HIDE DEF n
  <2>. QED  BY <2>2, <2>3
<1>13. ASSUME NEW d \in Clients, bio[d] # NoBio, d # o PROVE Copied(d) = 0 /\ Copied(d)' = 0
  <2>1. ~ \E k \in Clients : rq'[k] # NoRq /\ rq'[k].copied /\ Head(rq'[k].bios) = d
    BY <1>9, <1>13
  <2>2. Copied(d)' = bio'[d].page + 0
    BY <2>1 DEF Copied
  <2>3. bio'[d] = bio[d] /\ bio[d].page = 0 /\ Copied(d) = bio[d].page + 0
    BY <1>2, <1>6, <1>13
  <2>. HIDE DEF o
  <2>. QED  BY <2>2, <2>3
<1>14. ASSUME b.dir = "write"
       PROVE  mem = b.mem /\ \A x \in DOMAIN ramdiskbuf : x \notin Ext(b) => ramdiskbuf'[x] = ramdiskbuf[x]
  <2>1. mem = b.mem
    BY <1>10, <1>14
  <2>2. ASSUME NEW x \in DOMAIN ramdiskbuf, x \in start .. start + len - 1 PROVE x \in Ext(b)
    <3>. HIDE DEF mem, h, n, len, f, b, start
    <3>1. x - f \in 0 .. (n + Total(b.segs)) - 1 /\ x = f + (x - f)
      BY <1>3, <1>11, <2>2
    <3>. QED  BY <1>10, <3>1 DEF Ext, f
  <2>. QED  BY <1>4, <2>1, <2>2
<1>15. ASSUME b.dir = "read"
       PROVE  /\ ramdiskbuf' = ramdiskbuf
              /\ \A i \in DOMAIN b.mem :
                   mem[i] = IF n <= i /\ i < n + len THEN ramdiskbuf[f + i] ELSE b.mem[i]
  <2>1. ramdiskbuf = [x \in DOMAIN ramdiskbuf |-> ramdiskbuf[x]]
    BY DEF IInv, BufferInv
  <2>2. ramdiskbuf' = ramdiskbuf
    BY <1>4, <1>15, <2>1
  <2>3. ASSUME NEW i \in DOMAIN b.mem
        PROVE  mem[i] = IF n <= i /\ i < n + len THEN ramdiskbuf[f + i] ELSE b.mem[i]
    <3>1. i \in Nat
      BY <1>2, MemIndex
    <3>2. mem[i] = IF i \in b.page .. b.page + len - 1 THEN ramdiskbuf[start + i - b.page] ELSE b.mem[i]
      BY <1>15
    <3>. HIDE DEF mem, h, len, f, start
    <3>3. i \in b.page .. b.page + len - 1 <=> n <= i /\ i < n + len
      <4>. HIDE DEF b
      <4>. QED  BY <1>3, <3>1
    <3>4. start + i - b.page = f + i
      <4>. HIDE DEF b
      <4>. QED  BY <1>3, <3>1
    <3>. QED  BY <3>2, <3>3, <3>4
  <2>. QED  BY <2>2, <2>3
<1>16. DOMAIN h.mem = DOMAIN b.mem /\ DOMAIN ramdiskbuf' = DOMAIN ramdiskbuf
  BY <1>3, <1>4, <1>7
<1>17. Copied(o) = n
  <2>1. Copied(o) = n + 0
    BY <1>2
  <2>. HIDE DEF o, n
  <2>. QED  BY <1>3, <2>1
<1>18. /\ b.dir = "write" => /\ bio'[o].mem = b.mem
                             /\ \A x \in DOMAIN ramdiskbuf :
                                  x \notin Ext(b) => ramdiskbuf'[x] = ramdiskbuf[x]
       /\ b.dir = "read"  => /\ ramdiskbuf' = ramdiskbuf
                             /\ \A i \in DOMAIN b.mem :
                                  bio'[o].mem[i] = IF n <= i /\ i < n + len THEN ramdiskbuf[f + i] ELSE b.mem[i]
  <2>. HIDE DEF h, mem, n, len, f, b
  <2>. QED  BY <1>6, <1>7, <1>14, <1>15
<1>. QED  BY <1>2, <1>3, <1>6, <1>7, <1>8, <1>12, <1>13, <1>16, <1>17, <1>18

\* The copy of the first segment moves all bytes of the bio at once; the others
\* do not show.
LEMMA TransferRefines ==
  ASSUME IInv, IInv', NEW c \in Clients, Transfer(c)
  PROVE  (\E o \in Clients : Store!Move(o)) \/ UNCHANGED <<Stored, Io>>
<1>7a. PICK o \in Clients : o = Head(rq[c].bios)
  BY TransferEffect
<1>. DEFINE b   == bio[o]
            n   == b.page
            len == Head(b.segs)
            f   == FirstByte(b)
            h   == bio'[o]
<1>1. /\ b = bio[o] /\ h = bio'[o] /\ f = FirstByte(b)
      /\ b # NoBio /\ h # NoBio /\ BioOK(b)
      /\ n \in Nat /\ len \in Nat \ {0} /\ f \in Nat
      /\ Copied(o) = n /\ Copied(o)' = n + len
      /\ h.dir = b.dir /\ h.sector = b.sector /\ DOMAIN h.mem = DOMAIN b.mem
      /\ \A d \in Clients : d # o => bio'[d] = bio[d]
      /\ \A d \in Clients : bio[d] # NoBio /\ d # o => Copied(d) = 0 /\ Copied(d)' = 0
      /\ b.dir = "write" => /\ h.mem = b.mem
                            /\ \A x \in DOMAIN ramdiskbuf :
                                 x \notin Ext(b) => ramdiskbuf'[x] = ramdiskbuf[x]
      /\ b.dir = "read"  => /\ ramdiskbuf' = ramdiskbuf
                            /\ \A i \in DOMAIN b.mem :
                                 h.mem[i] = IF n <= i /\ i < n + len THEN ramdiskbuf[f + i] ELSE b.mem[i]
      /\ DOMAIN ramdiskbuf' = DOMAIN ramdiskbuf
  BY <1>7a, TransferEffect
<1>. HIDE DEF b, n, len, f, h
<1>2. b.dir \in {"read", "write"} /\ n + len > 0 /\ \A i \in DOMAIN b.mem : i \in Nat
  BY <1>1, MemIndex DEF BioOK, Bios
<1>3. FirstByte(h) = f /\ Ext(h) = Ext(b) /\ Ext(b) = {f + i : i \in DOMAIN b.mem}
  BY <1>1 DEF FirstByte, Ext
<1>4. Io = [d \in Clients |-> IF bio[d] = NoBio THEN NoBio ELSE View(bio[d], Copied(d), ramdiskbuf)]
  BY Views DEF IoIsView
<1>5. Io' = [d \in Clients |-> IF bio'[d] = NoBio THEN NoBio ELSE View(bio'[d], Copied(d)', ramdiskbuf')]
  BY ViewsNext DEF IoIsView
<1>. DEFINE r == View(b, n, ramdiskbuf)
            q == View(h, n + len, ramdiskbuf')
<1>6. Io[o] = r /\ Io'[o] = q
  BY <1>1, <1>4, <1>5
<1>7. \A d \in Clients : d # o => Io'[d] = Io[d]
  <2>1. \A e, u, v : View(e, 0, u) = View(e, 0, v)
    BY DEF View
  <2>. QED  BY <1>1, <1>4, <1>5, <2>1
<1>8. Io' = [Io EXCEPT ![o] = q]
  <2>. HIDE DEF q
  <2>. QED  BY <1>4, <1>5, <1>6, <1>7
\* What the disk holds, in the store, before and after.
<1>9. \A d \in Clients : (Going(d) => d = o) /\ (Going(d)' => d = o)
  BY <1>1 DEF Going
<1>10. (Going(o) <=> n > 0) /\ Going(o)'
  BY <1>1, <1>2 DEF Going
<1>11. b.dir = "read" => Stored = ramdiskbuf /\ Stored' = ramdiskbuf
  <2>. SUFFICES ASSUME b.dir = "read" PROVE Stored = ramdiskbuf /\ Stored' = ramdiskbuf'
    BY <1>1
  <2>1. \A d \in Clients : (Going(d) => bio[d].dir # "write") /\ (Going(d)' => bio'[d].dir # "write")
    BY <1>1, <1>9
  <2>. QED  BY <2>1, Views, ViewsNext DEF StoredIsDisk
<1>12. b.dir = "write" => Stored' = [x \in DOMAIN ramdiskbuf |-> IF x \in Ext(b) THEN o ELSE ramdiskbuf[x]]
  <2>. SUFFICES ASSUME b.dir = "write"
                PROVE  Stored' = [x \in DOMAIN ramdiskbuf |-> IF x \in Ext(b) THEN o ELSE ramdiskbuf[x]]
    OBVIOUS
  <2>1. Stored' = [x \in DOMAIN ramdiskbuf' |-> IF x \in Ext(bio'[o]) THEN o ELSE ramdiskbuf'[x]]
    BY <1>1, <1>10, ViewsNext DEF StoredIsWritten
  <2>. QED  BY <1>1, <1>3, <2>1
<1>13. b.dir = "write" /\ n > 0 =>
         Stored = [x \in DOMAIN ramdiskbuf |-> IF x \in Ext(b) THEN o ELSE ramdiskbuf[x]]
  BY <1>1, <1>10, Views DEF StoredIsWritten
<1>14. n = 0 => Stored = ramdiskbuf
  <2>1. n = 0 => \A d \in Clients : ~Going(d)
    BY <1>9, <1>10
  <2>. QED  BY <2>1, Views DEF StoredIsDisk
<1>15. /\ q.dir = b.dir /\ q.first = f /\ q.moved = Ext(b)
       /\ q.mem = [i \in DOMAIN b.mem |-> IF b.dir = "read" /\ i >= n + len
                                            THEN ramdiskbuf'[f + i] ELSE h.mem[i]]
       /\ q = [dir |-> q.dir, first |-> q.first, moved |-> q.moved, mem |-> q.mem]
  BY <1>1, <1>2, <1>3 DEF View
<1>16. /\ r.dir = b.dir /\ r.first = f /\ r.moved = (IF n > 0 THEN Ext(b) ELSE {})
       /\ r.mem = [i \in DOMAIN b.mem |-> IF n > 0 /\ b.dir = "read" /\ i >= n
                                            THEN ramdiskbuf[f + i] ELSE b.mem[i]]
       /\ r = [dir |-> r.dir, first |-> r.first, moved |-> r.moved, mem |-> r.mem]
  BY <1>1 DEF View
<1>. HIDE DEF q, r
<1>17. CASE n > 0
  <2>1. Stored' = Stored
    BY <1>2, <1>11, <1>12, <1>13, <1>17
  <2>2. \A i \in DOMAIN b.mem : q.mem[i] = r.mem[i]
    <3>1. CASE b.dir = "read"
      <4>. SUFFICES ASSUME NEW i \in DOMAIN b.mem PROVE q.mem[i] = r.mem[i]
        OBVIOUS
      <4>1. q.mem[i] = IF i >= n + len THEN ramdiskbuf[f + i] ELSE h.mem[i]
        BY <1>1, <1>15, <3>1
      <4>2. r.mem[i] = IF i >= n THEN ramdiskbuf[f + i] ELSE b.mem[i]
        BY <1>16, <1>17, <3>1
      <4>3. h.mem[i] = IF n <= i /\ i < n + len THEN ramdiskbuf[f + i] ELSE b.mem[i]
        BY <1>1, <3>1
      <4>4. i \in Nat /\ n \in Nat /\ len \in Nat
        BY <1>1, <1>2
      <4>. QED  BY <4>1, <4>2, <4>3, <4>4
    <3>2. CASE b.dir = "write"
      BY <1>1, <1>15, <1>16, <3>2
    <3>. QED  BY <1>2, <3>1, <3>2
  <2>3. q.mem = r.mem
    BY <1>15, <1>16, <2>2
  <2>4. q = r
    BY <1>15, <1>16, <1>17, <2>3
  <2>5. Io' = Io
    BY <1>4, <1>6, <1>8, <2>4
  <2>. QED  BY <2>1, <2>5
<1>18. CASE n = 0
  <2>. DEFINE S == Ext(b)
              m == [i \in DOMAIN r.mem |->
                      IF r.dir = "read" /\ r.first + i \in S THEN Stored[r.first + i] ELSE r.mem[i]]
  <2>1. r.moved = {} /\ r.mem = [i \in DOMAIN b.mem |-> b.mem[i]] /\ DOMAIN r.mem = DOMAIN b.mem
    BY <1>16, <1>18
  <2>2. Store!Extent(r) = S
    BY <1>3, <1>16, <2>1 DEF Store!Extent
  <2>3. S # {}
    <3>1. 0 \in DOMAIN b.mem
      <4>1. Total(b.segs) \in Nat \ {0} /\ b.page \in Nat
        BY <1>1, HeadAndTotal DEF BioOK, Bios
      <4>2. 0 \in 0 .. (b.page + Total(b.segs)) - 1
        BY <4>1
      <4>. QED  BY <1>1, <4>2 DEF BioOK
    <3>. QED  BY <1>3, <3>1
  <2>4. \A i \in DOMAIN b.mem : q.mem[i] = m[i]
    <3>1. CASE b.dir = "read"
      <4>. SUFFICES ASSUME NEW i \in DOMAIN b.mem PROVE q.mem[i] = m[i]
        OBVIOUS
      <4>1. q.mem[i] = IF i >= n + len THEN ramdiskbuf[f + i] ELSE h.mem[i]
        BY <1>1, <1>15, <3>1
      <4>2. h.mem[i] = IF n <= i /\ i < n + len THEN ramdiskbuf[f + i] ELSE b.mem[i]
        BY <1>1, <3>1
      <4>3. i \in Nat /\ n \in Nat /\ len \in Nat
        BY <1>1, <1>2
      <4>4. q.mem[i] = ramdiskbuf[f + i]
        BY <1>18, <4>1, <4>2, <4>3
      <4>5. m[i] = ramdiskbuf[f + i]
        BY <1>3, <1>11, <1>16, <2>1, <3>1
      <4>. QED  BY <4>4, <4>5
    <3>2. CASE b.dir = "write"
      BY <1>1, <1>15, <1>16, <2>1, <3>2
    <3>. QED  BY <1>2, <3>1, <3>2
  <2>5. q.mem = m
    BY <1>15, <2>1, <2>4
  <2>. HIDE DEF S, m
  <2>6. q = [[r EXCEPT !.moved = @ \cup S] EXCEPT !.mem = m]
    <3>. DEFINE M == r.moved
                F == r.first
                D == r.dir
                G == r.mem
    <3>1. r = [dir |-> D, first |-> F, moved |-> M, mem |-> G]
      BY <1>16
    <3>2. q = [dir |-> D, first |-> F, moved |-> M \cup S, mem |-> m]
      BY <1>15, <1>16, <2>1, <2>5 DEF S
    <3>. HIDE DEF M, F, D, G
    <3>3. [[dir |-> D, first |-> F, moved |-> M, mem |-> G] EXCEPT !.moved = @ \cup S]
            = [dir |-> D, first |-> F, moved |-> M \cup S, mem |-> G]
      OBVIOUS
    <3>4. [[dir |-> D, first |-> F, moved |-> M \cup S, mem |-> G] EXCEPT !.mem = m]
            = [dir |-> D, first |-> F, moved |-> M \cup S, mem |-> m]
      OBVIOUS
    <3>. QED  BY <3>1, <3>2, <3>3, <3>4, Zenon
  <2>7. [r EXCEPT !.moved = @ \cup S].mem = r.mem
    OBVIOUS
  <2>8. Io' = [Io EXCEPT
                ![o].moved = @ \cup S,
                ![o].mem = [i \in DOMAIN @ |->
                   IF Io[o].dir = "read" /\ Io[o].first + i \in S
                     THEN Stored[Io[o].first + i] ELSE @[i]]]
    <3>1. o \in DOMAIN Io
      BY <1>4
    <3>2. Io' = [Io EXCEPT ![o] = [[r EXCEPT !.moved = @ \cup S] EXCEPT !.mem = m]]
      BY <1>8, <2>6
    <3>3. /\ [r EXCEPT !.moved = @ \cup S].dir = r.dir
          /\ [r EXCEPT !.moved = @ \cup S].first = r.first
      OBVIOUS
    <3>. QED  BY <1>6, <2>7, <3>1, <3>2, <3>3 DEF m
  <2>9. Stored' = [x \in DOMAIN Stored |->
                     IF Io[o].dir = "write" /\ x \in S THEN Io[o].mem[x - Io[o].first] ELSE Stored[x]]
    <3>1. Stored = ramdiskbuf /\ Io[o].dir = b.dir /\ Io[o].first = f /\ Io[o].mem = r.mem
      BY <1>6, <1>14, <1>16, <1>18
    <3>2. CASE b.dir = "read"
      <4>1. ramdiskbuf = [x \in DOMAIN ramdiskbuf |-> ramdiskbuf[x]]
        BY DEF IInv, BufferInv
      <4>. QED  BY <1>11, <3>1, <3>2, <4>1
    <3>3. CASE b.dir = "write"
      <4>1. ASSUME NEW x \in S PROVE r.mem[x - f] = o
        <5>1. PICK i \in DOMAIN b.mem : x = f + i
          BY <1>3, <4>1 DEF S
        <5>2. x - f = i
          BY <1>1, <1>2, <5>1
        <5>3. b.mem[i] = o
          BY <1>1, <3>3 DEF IInv, BufferInv
        <5>. QED  BY <2>1, <5>2, <5>3
      <4>. QED  BY <1>12, <3>1, <3>3, <4>1 DEF S
    <3>. QED  BY <1>2, <3>2, <3>3
  <2>10. S \in SUBSET (Store!Extent(Io[o]) \ Io[o].moved) /\ S = Store!Extent(Io[o])
    BY <1>6, <2>1, <2>2
  <2>11. Io[o] # NoBio
    BY <1>2, <1>6, <1>16 DEF NoBio
  <2>12. Store!Move(o)
    BY <2>3, <2>8, <2>9, <2>10, <2>11 DEF Store!Move, Store!NoIo, NoBio
  <2>. QED  BY <2>12
<1>. QED  BY <1>1, <1>17, <1>18

\* The end of the last segment of a bio ends its request, all of whose bytes are
\* by then on the disk or in memory; that of another one does not show.
LEMMA EndCurRefines ==
  ASSUME IInv, IInv', NEW c \in Clients, EndCur(c)
  PROVE  (\E o \in Clients : Store!End(o)) \/ UNCHANGED <<Stored, Io>>
<1>1. rq[c] # NoRq /\ rq[c].copied /\ ramdiskbuf' = ramdiskbuf
  BY DEF EndCur
<1>2. PICK o \in Clients : o = Head(rq[c].bios)
  BY <1>1, TheRequest
<1>. DEFINE b   == bio[o]
            len == Head(b.segs)
<1>3. /\ b # NoBio /\ BioOK(b) /\ Copied(o) = b.page + len
      /\ \A d \in Clients : bio[d] # NoBio /\ d # o => bio[d].page = 0 /\ Copied(d) = bio[d].page + 0
  BY <1>1, <1>2, TheRequest
<1>4. /\ \/ bio'[o] = NoBio /\ Len(b.segs) = 1
         \/ /\ bio'[o] # NoBio /\ bio'[o].page = b.page + len /\ bio'[o].sector = b.sector
            /\ bio'[o].dir = b.dir /\ bio'[o].mem = b.mem
      /\ \A d \in Clients : d # o => bio'[d] = bio[d]
      /\ \A k \in Clients : k # c => rq'[k] = NoRq
      /\ rq'[c] = NoRq \/ ~rq'[c].copied
  BY <1>2, EndCurEffect
<1>5. \A d \in Clients : Copied(d)' = bio'[d].page + 0
  <2>1. \A k \in Clients : rq'[k] # NoRq => ~rq'[k].copied
    BY <1>4
  <2>. QED  BY <2>1 DEF Copied
<1>6. b.page \in Nat /\ len \in Nat \ {0} /\ FirstByte(b) \in Nat
  BY <1>3, HeadAndTotal, BeyondNat DEF BioOK, Bios
<1>. HIDE DEF b, len
<1>7. \A d \in Clients : bio[d] # NoBio /\ d # o => Copied(d) = 0 /\ Copied(d)' = 0
  BY <1>3, <1>4, <1>5
<1>8. CASE bio'[o] # NoBio
  <2>1. Copied(o)' = Copied(o)
    BY <1>3, <1>4, <1>5, <1>6, <1>8
  <2>. QED  BY <1>1, <1>3, <1>4, <1>7, <1>8, <2>1, Unseen DEF b
<1>9. CASE bio'[o] = NoBio
  <2>1. Copied(o) = b.page + Total(b.segs) /\ Copied(o) > 0
    <3>1. Total(b.segs) = len
      BY <1>3, <1>4, <1>9, Lengths DEF BioOK, Bios, len
    <3>. QED  BY <1>3, <1>6, <3>1
  <2>2. DOMAIN b.mem = 0 .. Copied(o) - 1
    <3>1. DOMAIN b.mem = 0 .. (b.page + Total(b.segs)) - 1
      BY <1>3 DEF BioOK
    <3>. QED  BY <2>1, <3>1
  <2>3. \A d \in Clients : (Going(d) <=> d = o) /\ ~Going(d)'
    BY <1>3, <1>4, <1>7, <1>9, <2>1 DEF Going, b
  <2>4. Stored' = ramdiskbuf
    BY <1>1, <2>3, ViewsNext DEF StoredIsDisk
  <2>5. Stored = ramdiskbuf
    <3>1. CASE b.dir = "write"
      <4>1. Stored = [x \in DOMAIN ramdiskbuf |-> IF x \in Ext(b) THEN o ELSE ramdiskbuf[x]]
        BY <2>3, <3>1, Views DEF StoredIsWritten, b
      <4>2. \A x \in Ext(b) : ramdiskbuf[x] = o
        <5>1. ASSUME NEW i \in DOMAIN b.mem PROVE ramdiskbuf[FirstByte(b) + i] = o
          <6>1. i < Copied(o)
            BY <1>3, <1>6, <2>1, <2>2
          <6>. QED  BY <1>3, <3>1, <6>1 DEF IInv, BufferInv, b
        <5>. QED  BY <5>1 DEF Ext
      <4>3. ramdiskbuf = [x \in DOMAIN ramdiskbuf |-> ramdiskbuf[x]]
        BY DEF IInv, BufferInv
      <4>. QED  BY <4>1, <4>2, <4>3
    <3>2. CASE b.dir # "write"
      BY <2>3, <3>2, Views DEF StoredIsDisk, b
    <3>. QED  BY <3>1, <3>2
  <2>6. Io = [d \in Clients |-> IF bio[d] = NoBio THEN NoBio ELSE View(bio[d], Copied(d), ramdiskbuf)]
    BY Views DEF IoIsView
  <2>7. Io' = [d \in Clients |-> IF bio'[d] = NoBio THEN NoBio ELSE View(bio'[d], Copied(d)', ramdiskbuf')]
    BY ViewsNext DEF IoIsView
  <2>8. Io' = [Io EXCEPT ![o] = NoBio]
    <3>1. \A d \in Clients : d # o => Io'[d] = Io[d]
      BY <1>1, <1>4, <1>7, <2>6, <2>7
    <3>2. Io'[o] = NoBio
      BY <1>9, <2>7
    <3>. QED  BY <2>6, <2>7, <3>1, <3>2
  <2>9. Io[o] = View(b, Copied(o), ramdiskbuf)
    BY <1>3, <2>6 DEF b
  <2>10. Io[o].moved = Ext(b) /\ Io[o].first = FirstByte(b) /\ DOMAIN Io[o].mem = DOMAIN b.mem /\ Io[o].dir = b.dir
    BY <2>1, <2>9 DEF View
  <2>11. Io[o].moved = Store!Extent(Io[o])
    BY <2>10 DEF Store!Extent, Ext
  <2>12. Io[o] # NoBio
    <3>1. b.dir \in {"read", "write"}
      BY <1>3 DEF BioOK, Bios
    <3>. QED  BY <2>10, <3>1 DEF NoBio
  <2>13. Store!End(o)
    BY <2>4, <2>5, <2>8, <2>11, <2>12 DEF Store!End, Store!NoIo, NoBio
  <2>. QED  BY <2>13
<1>. QED  BY <1>8, <1>9

\* What the disk promises its users is what the driver does: although bios are
\* merged, and copied and completed a segment at a time, each moves all its bytes
\* to or from its own place in one instant, between its submission and its end.
THEOREM WreqStoresRequests == Spec => StoresRequests
<1>1. Init => Store!Init
  <2>. SUFFICES ASSUME Init PROVE Store!Init
    OBVIOUS
  <2>1. IInv
    BY InitInv
  <2>2. (\A c \in Clients : ~Going(c)) /\ ramdiskbuf = [b \in 0 .. Bytes - 1 |-> Zero]
    BY DEF Init, Going
  <2>3. Stored = ramdiskbuf
    BY <2>1, <2>2, Views DEF StoredIsDisk
  <2>4. Io = [c \in Clients |-> NoBio]
    BY <2>1, Views DEF Init, IoIsView
  <2>. QED  BY <2>2, <2>3, <2>4 DEF Store!Init, Store!Empty, Store!NoIo, NoBio
<1>2. IInv /\ IInv' /\ [Next]_vars => [Store!Next]_<<Stored, Io>>
  <2>. SUFFICES ASSUME IInv, IInv', [Next]_vars PROVE [Store!Next]_<<Stored, Io>>
    OBVIOUS
  <2>1. CASE RamdiskInit
    BY <2>1, LoadRefines DEF Store!Next
  <2>2. CASE RamdiskExit
    BY <2>2, AsideUnseen DEF RamdiskExit
  <2>3. ASSUME NEW c \in Clients, RamdiskOpen(c) \/ RamdiskRelease(c) \/ RunQueue(c)
        PROVE  UNCHANGED <<Stored, Io>>
    BY <2>3, AsideUnseen DEF RamdiskOpen, RamdiskRelease, RunQueue
  <2>4. ASSUME NEW c \in Clients, SubmitBio(c) PROVE Store!Next
    BY <2>4, SubmitRefines DEF Store!Next
  <2>5. ASSUME NEW c \in Clients, Fetch(c) PROVE UNCHANGED <<Stored, Io>>
    BY <2>5, FetchUnseen
  <2>6. ASSUME NEW c \in Clients, Transfer(c) PROVE [Store!Next]_<<Stored, Io>>
    BY <2>6, TransferRefines DEF Store!Next
  <2>7. ASSUME NEW c \in Clients, EndCur(c) PROVE [Store!Next]_<<Stored, Io>>
    BY <2>7, EndCurRefines DEF Store!Next
  <2>8. CASE UNCHANGED vars
    BY <2>8, AsideUnseen DEF vars
  <2>. QED  BY <2>1, <2>2, <2>3, <2>4, <2>5, <2>6, <2>7, <2>8 DEF Next
<1>. QED  BY <1>1, <1>2, Inductive, PTL DEF Spec, StoresRequests, Store!Spec
=============================================================================
