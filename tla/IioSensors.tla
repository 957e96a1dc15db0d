----------------------------- MODULE IioSensors -----------------------------
(***************************************************************************)
(* The two IIO drivers, iio/ap3216c and iio/icm20608.  User space reads    *)
(* the channels of an IIO device through its sysfs files, without opening  *)
(* anything that would hold the module.  Neither driver takes its IIO      *)
(* device back: remove of the AP3216C's dies on the way, because probe     *)
(* never set the driver data, and that of the ICM20608's does nothing, so  *)
(* that files stay behind whose device has lost its regmap.                *)
(***************************************************************************)
EXTENDS SensorBytes, Sequences, SequencesExt

CONSTANTS
  Procs,    \* processes that read the files
  Axes,     \* the ICM20608's quantities, in the order of their registers
  Changes,  \* bound on the measurements made
  Devices,  \* bound on the IIO devices that a driver registers
  Light,    \* what an AP3216C may measure
  Motion,   \* what an ICM20608 may measure
  None,     \* no read, no value
  Error     \* what a read returns that fails

ASSUME BoundAssumption == Changes \in Nat /\ Devices \in Nat
ASSUME AxesAssumption == Axes \in Seq(STRING) /\ Range(Axes) \cap {"als", "ir", "ps"} = {}
ASSUME NoneAssumption == None \notin Int /\ Error \notin Int /\ None # Error
ASSUME MeasureAssumption ==
  /\ Light \subseteq [ir : Bits10, als : Word, ps : Bits10, over : BOOLEAN, near : BOOLEAN]
  /\ Motion \subseteq [Range(Axes) -> Signed16]

VARIABLES
  kind,                   \* the driver: "ap" or "icm"
  at, held, mod, byHand,  \* its module, probe and remove (module Driver)
  made,                   \* IIO devices registered so far; their files stay
  oldest,                 \* the first of these that the module now loaded made
  chip,                   \* does it measure, or is it as a reset leaves it?
  meas, now,              \* the measurement that its registers hold; how many it has made
  dev,                    \* per IIO device: the values in the ICM20608's structure
  rd,                     \* per process: its read, or None
  fault                   \* what last used a pointer that is no good

vars == <<kind, at, held, mod, byHand, made, oldest, chip, meas, now, dev, rd, fault>>

Kinds == {"ap", "icm"}

Acquired ==
  [ap |-> <<"regmap", "iio">>, icm |-> <<"regmap", "iio", "reset", "enable">>]
UndoneBy ==
  [k \in Kinds |-> [regmap |-> {}, iio |-> {"regmap"}]]
Released ==
  [k \in Kinds |-> <<"regmap">>]

Core(k) == INSTANCE Driver WITH
  Acquired <- Acquired[k], UndoneBy <- UndoneBy[k], Released <- Released[k]

\* The channels with a RAW file.
Channels == [ap |-> {"als", "ir", "ps"}, icm |-> Range(Axes) \cup {"temp"}]

\* After a reset.
Zero(k) == IF k = "ap" THEN [ir |-> 0, als |-> 0, ps |-> 0, over |-> FALSE, near |-> FALSE]
                       ELSE [a \in Range(Axes) |-> 0]

\* How many data registers there are, and what the chip holds in the nth.
Registers == IF kind = "ap" THEN 6 ELSE 2 * Len(Axes)

Register(n) ==
  LET i == (n + 1) \div 2
      b == IF kind = "icm" THEN AxisBytes(meas[Axes[i]])
           ELSE CASE i = 1 -> IrBytes(meas.ir, meas.over)
                  [] i = 2 -> AlsBytes(meas.als)
                  [] i = 3 -> PsBytes(meas.ps, meas.over, meas.near)
  IN  b[IF n % 2 = 1 THEN 1 ELSE 2]

Measurements == IF kind = "ap" THEN Light ELSE Motion

TypeOK ==
  /\ kind \in Kinds
  /\ \A k \in Kinds : kind = k => Core(k)!DriverTypeOK
  /\ made \in 0 .. Devices /\ oldest \in 1 .. made + 1
  /\ chip \in {"reset", "on"}
  /\ meas \in Measurements \cup {Zero(kind)}
  /\ now \in 0 .. Changes
  /\ dev \in [1 .. Devices -> [DOMAIN Axes -> Signed16]]
  /\ \A p \in Procs : rd[p] # None =>
       /\ rd[p].dev \in 1 .. made /\ rd[p].chan \in Channels[kind] \cup {None}
       /\ rd[p].buf \in Seq(Byte) /\ Len(rd[p].buf) <= Registers
       /\ rd[p].stored \in 0 .. Len(Axes)
       /\ \/ rd[p].val \in {None, Error}
          \/ rd[p].val \in (IF kind = "ap" THEN Word ELSE Signed16)
       /\ {rd[p].own, rd[p].moved, rd[p].failed} \subseteq BOOLEAN
  /\ fault \in {"none", "remove", "read"}

\* Whether the AP3216C measures is up to whoever used it before.
Init ==
  /\ kind \in Kinds
  /\ \A k \in Kinds : kind = k => Core(k)!DriverInit
  /\ made = 0 /\ oldest = 1
  /\ chip \in {"reset", "on"}
  /\ meas \in Measurements \cup {Zero(kind)}
  /\ now = 0
  /\ dev = [g \in 1 .. Devices |-> [i \in DOMAIN Axes |-> 0]]
  /\ rd = [p \in Procs |-> None]
  /\ fault = "none"

-----------------------------------------------------------------------------
(* The chip. *)

Reading == {p \in Procs : rd[p] # None}

\* The registers change: reads in progress keep, for the properties, that this
\* happened during them or during a read they overlap.
Moves(m) ==
  /\ meas' = m
  /\ rd' = IF m = meas THEN rd
           ELSE [p \in Procs |-> IF rd[p] = None THEN None
                                 ELSE [rd[p] EXCEPT !.own = TRUE, !.moved = TRUE]]

Measure ==
  /\ chip = "on"
  /\ now < Changes
  /\ now' = now + 1
  /\ \E m \in Measurements : Moves(m)
  /\ UNCHANGED <<at, held, mod, byHand, made, oldest, chip, dev, fault>>

-----------------------------------------------------------------------------
(* probe, remove, and who calls them. *)

Insmod(k) ==
  /\ Core(k)!Insmod
  /\ oldest' = made + 1
  /\ UNCHANGED <<made, chip, meas, now, dev, rd, fault>>

\* Nothing holds the module.
Rebind(k) ==
  /\ Core(k)!Rmmod(FALSE) \/ Core(k)!SysfsBind \/ Core(k)!SysfsUnbind
  /\ UNCHANGED <<made, oldest, chip, meas, now, dev, rd, fault>>

InitRegmap(k) ==
  /\ Core(k)!Acquires("regmap") \/ Core(k)!Fails("regmap")
  /\ UNCHANGED <<made, oldest, chip, meas, now, dev, rd, fault>>

\* iio_device_register, after which the files can be read.  It may be that it
\* never succeeds for the AP3216C, whose two intensity channels set channel2 and
\* not modified, so that their files have one name; here it may, for either.
RegisterIio(k) ==
  /\ \/ Core(k)!Does("iio") /\ made < Devices /\ made' = made + 1
     \/ Core(k)!Fails("iio") /\ UNCHANGED made
  /\ UNCHANGED <<oldest, chip, meas, now, dev, rd, fault>>

\* The ICM20608's probe goes on to reset it and wake it up, and ignores errors.
Reset(k) ==
  /\ Core(k)!Does("reset")
  /\ \/ chip' = "reset" /\ Moves(Zero(k))
     \/ UNCHANGED <<chip, meas, rd>>
  /\ UNCHANGED <<made, oldest, now, dev, fault>>

Enable(k) ==
  /\ Core(k)!Does("enable")
  /\ chip' \in {chip, "on"}
  /\ UNCHANGED <<made, oldest, meas, now, dev, rd, fault>>

\* remove of the AP3216C's unregisters a null pointer; whoever called it dies
\* and keeps the lock of the device.
RemoveAp ==
  /\ kind = "ap"
  /\ at = <<"exit", 1>>
  /\ fault' = "remove"
  /\ UNCHANGED <<at, held, mod, byHand, made, oldest, chip, meas, now, dev, rd>>

\* A remove that leaves the device as the ICM20608's does.
RemoveIcm_ForBoth(k) ==
  /\ Core(k)!Releases("regmap")
  /\ UNCHANGED <<made, oldest, chip, meas, now, dev, rd, fault>>

\* remove of the ICM20608's does nothing; devres frees the regmap.
RemoveIcm(k) ==
  /\ k = "icm"
  /\ Core(k)!Releases("regmap")
  /\ UNCHANGED <<made, oldest, chip, meas, now, dev, rd, fault>>

-----------------------------------------------------------------------------
(* read_raw, for a file of device rd[p].dev. *)

\* Between regmap and iio_device_register the regmap belongs to a device that has
\* no files yet, and those that exist lead to one that was freed.
Unregistered == at = <<"init", 2>>

\* The code of the module that made the device, and the device's regmap.
HasCode(p) == mod # "gone" /\ rd[p].dev >= oldest
HasRegmap(p) == HasCode(p) /\ rd[p].dev = made /\ "regmap" \in held /\ ~Unregistered

Fetching(p) == rd[p] # None /\ rd[p].val = None /\ Len(rd[p].buf) < Registers
Fetched(p) == rd[p] # None /\ rd[p].val = None /\ Len(rd[p].buf) = Registers

ReadBegin(p) ==
  /\ rd[p] = None
  /\ \E g \in 1 .. made :
       rd' = [rd EXCEPT ![p] =
         [dev |-> g, chan |-> None, buf |-> <<>>, stored |-> 0, val |-> None,
          own |-> FALSE, moved |-> \E q \in Reading : rd[q].own /\ rd[q].val = None, failed |-> FALSE]]
  /\ UNCHANGED <<dev, fault>>

FetchReg(p) ==
  /\ Fetching(p)
  /\ HasRegmap(p)
  /\ rd' = [rd EXCEPT ![p].buf = Append(@, Register(Len(@) + 1))]
  /\ UNCHANGED <<dev, fault>>

\* The loop that goes on with what is in val.
FetchFails_Ignored(p) ==
  /\ Fetching(p) /\ HasRegmap(p)
  /\ rd' = [rd EXCEPT ![p].buf = Append(@, 0), ![p].failed = TRUE]
  /\ UNCHANGED <<dev, fault>>

\* A transfer fails: read_raw returns its error.
FetchFails(p) ==
  /\ Fetching(p)
  /\ HasRegmap(p)
  /\ rd' = [rd EXCEPT ![p].val = Error, ![p].failed = TRUE]
  /\ UNCHANGED <<dev, fault>>

\* The regmap has been freed, or the module with the code: the process is killed.
ReadFaults(p) ==
  /\ (Fetching(p) /\ ~HasRegmap(p)) \/ (Fetched(p) /\ ~HasCode(p))
  /\ fault' = "read"
  /\ rd' = [rd EXCEPT ![p] = None]
  /\ UNCHANGED dev

\* Only now does it matter which channel the file belongs to.  The AP3216C's
\* driver takes its value out of the read's own buffer.
ConvertAp(p) ==
  /\ kind = "ap"
  /\ Fetched(p) /\ HasCode(p)
  /\ \E c \in Channels["ap"] :
       LET b == rd[p].buf
           v == CASE c = "ir"  -> IrValue(SubSeq(b, 1, 2))
                  [] c = "als" -> AlsValue(SubSeq(b, 3, 4))
                  [] c = "ps"  -> PsValue(SubSeq(b, 5, 6))
       IN  rd' = [rd EXCEPT ![p].chan = c, ![p].val = v]
  /\ UNCHANGED <<dev, fault>>

\* The ICM20608's stores all values in the device structure, one by one, ...
StoreAxis(p) ==
  /\ kind = "icm"
  /\ Fetched(p) /\ HasCode(p)
  /\ rd[p].stored < Len(Axes)
  /\ LET i == rd[p].stored + 1
     IN  /\ dev' = [dev EXCEPT ![rd[p].dev][i] = AxisValue(SubSeq(rd[p].buf, 2 * i - 1, 2 * i))]
         /\ rd' = [rd EXCEPT ![p].stored = i]
  /\ UNCHANGED fault

\* ... and then picks the one asked for.  The temperature's RAW file has no
\* modifier to go by: -EINVAL.
LoadAxis(p) ==
  /\ kind = "icm"
  /\ Fetched(p) /\ HasCode(p)
  /\ rd[p].stored = Len(Axes)
  /\ \/ rd' = [rd EXCEPT ![p].chan = "temp", ![p].val = Error]
     \/ \E i \in DOMAIN Axes :
          /\ Axes[i] # "temp"
          /\ rd' = [rd EXCEPT ![p].chan = Axes[i], ![p].val = dev[rd[p].dev][i]]
  /\ UNCHANGED <<dev, fault>>

ReadEnd(p) ==
  /\ rd[p] # None
  /\ rd[p].val # None
  /\ rd' = [rd EXCEPT ![p] = None]
  /\ UNCHANGED <<dev, fault>>

Read(p) ==
  /\ \/ ReadBegin(p) \/ FetchReg(p) \/ FetchFails(p) \/ ReadFaults(p)
     \/ ConvertAp(p) \/ StoreAxis(p) \/ LoadAxis(p) \/ ReadEnd(p)
  /\ UNCHANGED <<at, held, mod, byHand, made, oldest, chip, meas, now>>

Next ==
  /\ \/ Measure
     \/ \E k \in Kinds :
          /\ kind = k
          /\ \/ Insmod(k) \/ Rebind(k) \/ InitRegmap(k) \/ RegisterIio(k)
             \/ Reset(k) \/ Enable(k) \/ RemoveIcm(k)
     \/ RemoveAp
     \/ \E p \in Procs : Read(p)
  /\ UNCHANGED kind

Spec == Init /\ [][Next]_vars

-----------------------------------------------------------------------------
(* Properties. *)

\* The value of a channel, which is 0 for the chip's own "invalid".
Truth(c) == IF c \in {"ir", "ps"} /\ meas.over THEN 0 ELSE meas[c]

\* A bad pointer is used in two ways only: every remove of the AP3216C's driver,
\* and reads of files that the ICM20608's left behind when it was unbound.  The
\* AP3216C's files never lead to one: remove dies before anything is freed.
NoFault ==
  /\ fault = "remove" => kind = "ap"
  /\ fault = "read" => kind = "icm" /\ (byHand \/ oldest > 1 \/ mod \in {"going", "gone"})

\* read_raw returns the value that the chip holds, if that has not changed since
\* the oldest read began that this one overlaps, although reads of the ICM20608
\* share a structure without a lock; and it returns an error only if a transfer
\* of its own failed, or for the temperature.
ReadExact ==
  \A p \in Reading :
    LET r == rd[p]
    IN  CASE r.val = None -> TRUE
          [] r.val = Error -> r.failed \/ r.chan = "temp"
          [] OTHER -> ~r.failed /\ (~(IF kind = "ap" THEN r.own ELSE r.moved) => r.val = Truth(r.chan))
=============================================================================
