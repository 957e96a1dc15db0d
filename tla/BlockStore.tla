----------------------------- MODULE BlockStore -----------------------------
(***************************************************************************)
(* What a RAM disk promises its users: a store of bytes, initially zero,   *)
(* and requests that read or write a range of it.  Each byte of a request  *)
(* is moved exactly once, between its submission and its end.  If Whole,   *)
(* all bytes of a request are moved in one instant: requests are atomic.   *)
(* The module is never run by itself: RamdiskNoreq and RamdiskWreq         *)
(* implement it, which is why its actions read io' instead of guessing it. *)
(***************************************************************************)
EXTENDS Naturals

CONSTANTS
  Clients,  \* users of the disk
  Data,     \* values of a byte
  Zero,     \* the initial one
  Bytes,    \* capacity
  Whole     \* are requests atomic?

VARIABLES
  store,  \* the bytes
  io      \* per client: its request, or NoIo

NoIo == [dir |-> "none"]

\* The bytes of the disk that request r is about.
Extent(r) == {r.first + i : i \in DOMAIN r.mem}

FreshRequest(r) ==
  /\ r.dir \in {"read", "write"}
  /\ r.moved = {}
  /\ \E n \in 1 .. Bytes : r.mem \in [0 .. n - 1 -> Data]
  /\ Extent(r) \subseteq 0 .. Bytes - 1

Empty == [b \in 0 .. Bytes - 1 |-> Zero]

Init ==
  /\ store = Empty
  /\ io = [c \in Clients |-> NoIo]

Submit(c) ==
  /\ io[c] = NoIo
  /\ io'[c] # NoIo
  /\ FreshRequest(io'[c])
  /\ io' = [io EXCEPT ![c] = io'[c]]
  /\ UNCHANGED store

\* Move the bytes S between the store and the client's memory.
Move(c) ==
  /\ io[c] # NoIo
  /\ \E S \in SUBSET (Extent(io[c]) \ io[c].moved) :
       /\ S # {}
       /\ Whole => S = Extent(io[c])
       /\ io' = [io EXCEPT
                  ![c].moved = @ \cup S,
                  ![c].mem = [i \in DOMAIN @ |->
                     IF io[c].dir = "read" /\ io[c].first + i \in S
                       THEN store[io[c].first + i] ELSE @[i]]]
       /\ store' = [b \in DOMAIN store |->
                     IF io[c].dir = "write" /\ b \in S
                       THEN io[c].mem[b - io[c].first] ELSE store[b]]

\* The request ends, with success, once all its bytes have been moved.
End(c) ==
  /\ io[c] # NoIo
  /\ io[c].moved = Extent(io[c])
  /\ io' = [io EXCEPT ![c] = NoIo]
  /\ UNCHANGED store

\* The driver is loaded again: the contents are lost.
Reset ==
  /\ \A c \in Clients : io[c] = NoIo
  /\ store' = Empty
  /\ UNCHANGED io

Next == Reset \/ \E c \in Clients : Submit(c) \/ Move(c) \/ End(c)

Spec == Init /\ [][Next]_<<store, io>>
=============================================================================
