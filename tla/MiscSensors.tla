----------------------------- MODULE MiscSensors ----------------------------
(***************************************************************************)
(* The three sensor drivers with a misc device: ap3216c_demo (I2C),        *)
(* regmap/ap3216c (I2C through regmap) and regmap/icm20608 (SPI through    *)
(* regmap).  Opening an AP3216C resets and enables the chip, the ICM20608  *)
(* is set up by probe.  A read fetches all data registers one by one, puts *)
(* them together in the one device structure that all files share, without *)
(* a lock, and copies that out.                                            *)
(***************************************************************************)
EXTENDS Naturals, Sequences, FiniteSetsExt, Functions

CONSTANTS
  Procs,       \* processes that run ap3216cApp or icm20608App
  Channels,    \* quantities that a read returns (3 or 7), two registers each
  Conversions, \* bound on the measurements that the chip makes
  Failures,    \* bound on the transfers that fail
  Bad          \* a byte that does not come from the chip

ASSUME SensorAssumption ==
  /\ Channels \in Nat \ {0}
  /\ Conversions \in Nat
  /\ Failures \in Nat
  /\ Bad \notin Nat

VARIABLES
  kind,                   \* the driver: "demo", "regmap" or "icm"
  at, held, mod, byHand,  \* its module, probe and remove (module Driver)
  client,                 \* ap3216c_demo: has private_data been set?
  chip,                   \* is the chip enabled, or as a reset leaves it?
  now,                    \* measurements made
  reg,                    \* a data register: the number of a measurement, 0 after a reset
  dev,                    \* the device structure: per channel the two bytes of its value
  fd,                     \* per process: its descriptor
  rd,                     \* per process: its read, or NoRead
  failed,                 \* transfers that have failed
  \* History variables: no guard reads them, but for the mutex that an oops keeps.
  fault,                  \* an access through a pointer that is no good
  lost                    \* has the last write failed that resets or enables the chip?

chipVars == <<chip, now, reg, lost>>
userVars == <<dev, fd, rd>>
vars == <<kind, at, held, mod, byHand, client, chipVars, userVars, failed, fault>>

Kinds == {"demo", "regmap", "icm"}
Bytes == 0 .. Conversions \cup {Bad}
NoRead == [buf |-> "none"]

\* The loop with <= in the place of <.
Registers_OffByOne == 2 * Channels + 1

\* Data registers that readdata fetches.
Registers == 2 * Channels

\* What the three probes do.  The demo driver and the ICM20608's register their
\* device before they are ready for it.
Acquired ==
  [demo   |-> <<"node", "client">>,
   regmap |-> <<"regmap", "node">>,
   icm    |-> <<"regmap", "node", "reset", "enable">>]

UndoneBy ==
  [demo   |-> [node |-> {}],
   regmap |-> [regmap |-> {}, node |-> {"regmap"}],
   icm    |-> [regmap |-> {}, node |-> {"regmap"}]]

\* remove is misc_deregister alone; devres then frees the regmap.
Released ==
  [demo |-> <<"node">>, regmap |-> <<"node", "regmap">>, icm |-> <<"node", "regmap">>]

Core(k) == INSTANCE Driver WITH
  Acquired <- Acquired[k], UndoneBy <- UndoneBy[k], Released <- Released[k]

TypeOK ==
  /\ kind \in Kinds
  /\ \A k \in Kinds : kind = k => Core(k)!DriverTypeOK
  /\ client \in BOOLEAN
  /\ chip \in {"reset", "on"}
  /\ now \in 0 .. Conversions /\ reg \in 0 .. now
  /\ dev \in [1 .. Channels -> Bytes \X Bytes]
  /\ fd \in [Procs -> {"closed", "opening", "open"}]
  /\ \A p \in Procs : rd[p] # NoRead =>
       /\ rd[p].buf \in Seq(Bytes) /\ Len(rd[p].buf) <= 2 * Channels
       /\ rd[p].data \in Seq(Bytes \X Bytes) /\ Len(rd[p].data) <= Channels
       /\ rd[p].stored \in 0 .. Channels
       /\ rd[p].floor \in 0 .. rd[p].since /\ rd[p].since \in 0 .. now
       /\ rd[p].spoilt \in BOOLEAN
  /\ failed \in 0 .. Failures
  /\ fault \in {"none", "open", "read"}
  /\ lost \in BOOLEAN

Init ==
  /\ kind \in Kinds
  /\ \A k \in Kinds : kind = k => Core(k)!DriverInit
  /\ client = FALSE
  /\ chip = "reset" /\ now = 0 /\ reg = 0
  /\ dev = [i \in 1 .. Channels |-> <<0, 0>>]
  /\ fd = [p \in Procs |-> "closed"]
  /\ rd = [p \in Procs |-> NoRead]
  /\ failed = 0 /\ fault = "none" /\ lost = FALSE

-----------------------------------------------------------------------------
(* The chip and the bus. *)

Convert ==
  /\ chip = "on"
  /\ now < Conversions
  /\ now' = now + 1
  /\ reg' = now + 1
  /\ UNCHANGED <<at, held, mod, byHand, client, chip, lost, userVars, failed, fault>>

BusFails == failed < Failures /\ failed' = failed + 1

\* A write that resets or enables the chip gets through or fails.
WriteReg(c) ==
  /\ chip' = c
  /\ reg' = IF c = "reset" THEN 0 ELSE reg
  /\ lost' = FALSE
  /\ UNCHANGED <<now, failed>>

WriteFails ==
  /\ BusFails
  /\ lost' = TRUE
  /\ UNCHANGED <<chip, now, reg>>

\* What every access goes through: private_data or the regmap.
HasChip == IF kind = "demo" THEN client ELSE "regmap" \in held

-----------------------------------------------------------------------------
(* probe, remove, and who calls them. *)

\* Files without .owner.
InUse_NoOwner == FALSE

\* A file that is open, or that a process died opening, holds the module.
InUse == fault = "open" \/ \E p \in Procs : fd[p] # "closed"

\* misc_open holds misc_mtx while it calls the driver's open; misc_register and
\* misc_deregister take it.  A process that dies in open keeps it.
MutexFree == fault # "open" /\ \A p \in Procs : fd[p] # "opening"

\* A new module finds private_data not set.  (The structure of values is zero
\* then, too; dev keeps what it had, for every read stores before it loads.)
Load(k) ==
  /\ Core(k)!Insmod
  /\ client' = FALSE
  /\ UNCHANGED <<chipVars, userVars, failed, fault>>

Rebind(k) ==
  /\ Core(k)!Rmmod(InUse) \/ Core(k)!SysfsBind \/ Core(k)!SysfsUnbind
  /\ UNCHANGED <<client, chipVars, userVars, failed, fault>>

\* devm_regmap_init_i2c or _spi, which may return an error pointer.
InitRegmap(k) ==
  /\ Core(k)!Acquires("regmap") \/ Core(k)!Fails("regmap")
  /\ UNCHANGED <<client, chipVars, userVars, failed, fault>>

\* misc_register; if it fails, so does probe, and devres frees the regmap.
RegisterMisc(k) ==
  /\ MutexFree
  /\ Core(k)!Acquires("node") \/ Core(k)!Fails("node")
  /\ UNCHANGED <<client, chipVars, userVars, failed, fault>>

\* ap3216c_demo sets private_data, and reads a register for a test.
SetClient(k) ==
  /\ Core(k)!Does("client")
  /\ client' = TRUE
  /\ UNCHANGED <<chipVars, userVars, failed, fault>>

\* icm20608_reginit, which ignores errors: the reset (line 110), then the wake-up
\* (112).  The eight writes after that choose rates and ranges, which nothing
\* here tells apart; they neither enable the chip nor put it to sleep.
RegInit(k) ==
  /\ \/ Core(k)!Does("reset") /\ (WriteReg("reset") \/ WriteFails)
     \/ Core(k)!Does("enable") /\ (WriteReg("on") \/ WriteFails)
  /\ UNCHANGED <<client, userVars, fault>>

\* misc_deregister, all that remove does.
Remove(k) ==
  /\ MutexFree
  /\ Core(k)!Releases("node")
  /\ UNCHANGED <<client, chipVars, userVars, failed, fault>>

FreeRegmap(k) ==
  /\ Core(k)!Releases("regmap")
  /\ UNCHANGED <<client, chipVars, userVars, failed, fault>>

-----------------------------------------------------------------------------
(* The file operations, as the applications call them. *)

\* misc_open finds the node and takes its module (fops->owner).
MiscOpen(p) ==
  /\ fd[p] = "closed"
  /\ "node" \in held
  /\ mod \in {"coming", "live"}
  /\ MutexFree

OpenIcm(p) ==
  /\ kind = "icm"
  /\ MiscOpen(p)
  /\ fd' = [fd EXCEPT ![p] = "open"]
  /\ UNCHANGED <<chipVars, failed, fault>>

\* The two drivers of the AP3216C reset the chip; the process dies if there is
\* no chip to go to.
OpenFaults(p) ==
  /\ kind # "icm"
  /\ MiscOpen(p)
  /\ ~HasChip
  /\ fault' = "open"
  /\ UNCHANGED <<chipVars, fd, failed>>

\* ap3216c_demo ignores errors ...
OpenDemo(p) ==
  /\ kind = "demo"
  /\ MiscOpen(p)
  /\ HasChip
  /\ WriteReg("reset") \/ WriteFails
  /\ fd' = [fd EXCEPT ![p] = "opening"]
  /\ UNCHANGED fault

\* ... and regmap/ap3216c gives up.
OpenRegmap(p) ==
  /\ kind = "regmap"
  /\ MiscOpen(p)
  /\ HasChip
  /\ \/ WriteReg("reset") /\ fd' = [fd EXCEPT ![p] = "opening"]
     \/ WriteFails /\ UNCHANGED fd
  /\ UNCHANGED fault

\* 50 ms later it is enabled.
EnableDemo(p) ==
  /\ kind = "demo"
  /\ fd[p] = "opening"
  /\ WriteReg("on") \/ WriteFails
  /\ fd' = [fd EXCEPT ![p] = "open"]
  /\ UNCHANGED fault

EnableRegmap(p) ==
  /\ kind = "regmap"
  /\ fd[p] = "opening"
  /\ \/ WriteReg("on") /\ fd' = [fd EXCEPT ![p] = "open"]
     \/ WriteFails /\ fd' = [fd EXCEPT ![p] = "closed"]
  /\ UNCHANGED fault

\* release puts the chip to sleep, whoever else uses it.
Close_PowersDown(p) ==
  /\ fd[p] = "open" /\ rd[p] = NoRead
  /\ fd' = [fd EXCEPT ![p] = "closed"]
  /\ WriteReg("reset")
  /\ UNCHANGED fault

\* release does nothing.
Close(p) ==
  /\ fd[p] = "open"
  /\ rd[p] = NoRead
  /\ fd' = [fd EXCEPT ![p] = "closed"]
  /\ UNCHANGED <<chipVars, failed, fault>>

OpenClose(p) ==
  /\ \/ OpenIcm(p) \/ OpenFaults(p) \/ OpenDemo(p) \/ OpenRegmap(p)
     \/ EnableDemo(p) \/ EnableRegmap(p) \/ Close(p)
  /\ UNCHANGED <<at, held, mod, byHand, client, dev, rd>>

Reading == {p \in Procs : rd[p] # NoRead}

\* A read keeps, for the properties, when it began, when the oldest read that
\* overlaps it did, and whether a transfer of any of these has failed.
ReadBegin(p) ==
  /\ fd[p] = "open"
  /\ rd[p] = NoRead
  /\ rd' = [rd EXCEPT ![p] =
       [buf |-> <<>>, stored |-> 0, data |-> <<>>, since |-> now,
        floor |-> Min({now} \cup {rd[q].since : q \in Reading}),
        spoilt |-> \E q \in Reading : Bad \in Range(rd[q].buf)]]
  /\ UNCHANGED <<dev, fd, failed, fault>>

\* readdata fetches one register.
FetchReg(p) ==
  /\ rd[p] # NoRead
  /\ Len(rd[p].buf) < Registers
  /\ HasChip
  /\ rd' = [rd EXCEPT ![p].buf = Append(@, reg)]
  /\ UNCHANGED <<dev, fd, failed, fault>>

\* The transfer fails, and nobody looks: the byte is 0 (demo) or whatever the
\* stack held (regmap).
FetchFails(p) ==
  /\ rd[p] # NoRead
  /\ Len(rd[p].buf) < Registers
  /\ HasChip
  /\ BusFails
  /\ rd' = [q \in Procs |-> CASE q = p -> [rd[p] EXCEPT !.buf = Append(@, Bad), !.spoilt = TRUE]
                              [] rd[q] = NoRead -> NoRead
                              [] OTHER -> [rd[q] EXCEPT !.spoilt = TRUE]]
  /\ UNCHANGED <<dev, fd, fault>>

\* The process is killed in read.
FetchFaults(p) ==
  /\ rd[p] # NoRead
  /\ Len(rd[p].buf) < Registers
  /\ ~HasChip
  /\ fault' = "read"
  /\ rd' = [rd EXCEPT ![p] = NoRead]
  /\ fd' = [fd EXCEPT ![p] = "closed"]
  /\ UNCHANGED <<dev, failed>>

\* readdata puts a channel together in the shared structure.
StoreChannel(p) ==
  /\ rd[p] # NoRead
  /\ Len(rd[p].buf) = Registers
  /\ rd[p].stored < Channels
  /\ LET i == rd[p].stored + 1
     IN  /\ dev' = [dev EXCEPT ![i] = <<rd[p].buf[2 * i - 1], rd[p].buf[2 * i]>>]
         /\ rd' = [rd EXCEPT ![p].stored = i]
  /\ UNCHANGED <<fd, failed, fault>>

\* The structure copied out before readdata is through with it.
Stored_NotAwaited(r) == Len(r.buf) = Registers

\* readdata has returned.
Stored(r) == r.stored = Channels

\* read copies a channel from the structure to the data it returns.
LoadChannel(p) ==
  /\ rd[p] # NoRead
  /\ Stored(rd[p])
  /\ Len(rd[p].data) < Channels
  /\ rd' = [rd EXCEPT ![p].data = Append(@, dev[Len(@) + 1])]
  /\ UNCHANGED <<dev, fd, failed, fault>>

\* copy_to_user; read returns sizeof(data), whatever the bus did, which the
\* application takes for data read successfully.  If the copy fails it is
\* -EFAULT, and the read is over as well.
ReadEnd(p) ==
  /\ rd[p] # NoRead
  /\ Len(rd[p].data) = Channels
  /\ rd' = [rd EXCEPT ![p] = NoRead]
  /\ UNCHANGED <<dev, fd, failed, fault>>

Read(p) ==
  /\ \/ ReadBegin(p) \/ FetchReg(p) \/ FetchFails(p) \/ FetchFaults(p)
     \/ StoreChannel(p) \/ LoadChannel(p) \/ ReadEnd(p)
  /\ UNCHANGED <<at, held, mod, byHand, client, chipVars>>

\* The application opens its file and reads until it is killed.
App(p) == OpenClose(p) \/ Read(p)

\* After an oops in open, whoever needs misc_mtx waits for ever.
Hung == fault = "open" /\ UNCHANGED vars

Next ==
  \/ /\ \/ Convert
        \/ \E k \in Kinds :
             /\ kind = k
             /\ \/ Load(k) \/ Rebind(k) \/ InitRegmap(k) \/ RegisterMisc(k)
                \/ SetClient(k) \/ RegInit(k) \/ Remove(k) \/ FreeRegmap(k)
        \/ \E p \in Procs : App(p)
     /\ UNCHANGED kind
  \/ Hung

Spec == Init /\ [][Next]_vars

-----------------------------------------------------------------------------
(* Properties. *)

\* The kernel is made to use a bad pointer in two ways only: ap3216c_demo's node
\* is opened before probe has set private_data, or a file of a regmap driver is
\* used after an unbind through sysfs has freed the regmap.
NoFault ==
  /\ fault = "open" => kind = "demo"
  /\ fault = "read" => kind # "demo" /\ byHand

\* While a process has the sensor open and none is just opening it, the sensor
\* is enabled, however many processes have reset it since, unless the last write
\* failed that resets or enables it.  What else is configured does not count, and
\* nothing is said while probe of the ICM20608 has yet to reset it.
SensorOn ==
  at = <<"on", 0>> /\ MutexFree /\ ~lost /\ (kind = "icm" \/ \E p \in Procs : fd[p] = "open")
    => chip = "on"

\* A read returns no byte older than the oldest read it overlaps, although
\* readers overwrite each other's values in the shared structure, and a byte
\* that is not the chip's only if a transfer of one of these reads failed.
NotStale ==
  \A p \in Reading : \A i \in DOMAIN rd[p].data : \A j \in {1, 2} :
    LET b == rd[p].data[i][j]
    IN  IF b = Bad THEN rd[p].spoilt ELSE b \in {0} \cup (rd[p].floor .. now)
=============================================================================
