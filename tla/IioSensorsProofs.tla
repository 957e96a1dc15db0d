-------------------------- MODULE IioSensorsProofs ---------------------------
(***************************************************************************)
(* What read_raw of the IIO drivers guarantees, for any number of reading  *)
(* processes, of registered devices, of quantities and of measurements.    *)
(***************************************************************************)
EXTENDS IioSensors, SequenceTheorems, TLAPS

-----------------------------------------------------------------------------
(* How the bytes of the registers and the values correspond. *)

LEMMA Widths ==
  /\ \A v \in Int : v \in Byte <=> 0 <= v /\ v <= 255
  /\ \A v \in Int : v \in Bits10 <=> 0 <= v /\ v <= 1023
  /\ \A v \in Int : v \in Word <=> 0 <= v /\ v <= 65535
  /\ \A v \in Int : v \in Signed16 <=> -32768 <= v /\ v <= 32767
  /\ Byte \subseteq Int /\ Bits10 \subseteq Int /\ Word \subseteq Int /\ Signed16 \subseteq Int
<1>1. \A v \in Int : v \in Byte <=> 0 <= v /\ v <= 255
  BY DEF Byte
<1>2. \A v \in Int : v \in Bits10 <=> 0 <= v /\ v <= 1023
  BY DEF Bits10
<1>3. \A v \in Int : v \in Word <=> 0 <= v /\ v <= 65535
  BY SMTT(60) DEF Word
<1>4. \A v \in Int : v \in Signed16 <=> -32768 <= v /\ v <= 32767
  BY SMTT(60) DEF Signed16
<1>5. Byte \subseteq Int /\ Bits10 \subseteq Int /\ Word \subseteq Int /\ Signed16 \subseteq Int
  BY DEF Byte, Bits10, Word, Signed16
<1>. QED  BY <1>1, <1>2, <1>3, <1>4, <1>5

\* What the chip writes are bytes, and the driver reads the value that the chip
\* wrote, or 0 if the chip says it is invalid: for every value of 10 bits ...
THEOREM IrRoundTrip ==
  ASSUME NEW v \in Bits10, NEW over \in BOOLEAN
  PROVE  /\ \A i \in 1 .. 2 : IrBytes(v, over)[i] \in Byte
         /\ IrValue(IrBytes(v, over)) = IF over THEN 0 ELSE v
<1>1. CASE over  BY <1>1, SMT DEF IrValue, IrBytes, Bit, Byte, Bits10
<1>2. CASE ~over  BY <1>2, SMT DEF IrValue, IrBytes, Bit, Byte, Bits10
<1> QED  BY <1>1, <1>2

\* ... of 16 bits, without a sign ...
THEOREM AlsRoundTrip ==
  ASSUME NEW v \in Word
  PROVE  /\ \A i \in 1 .. 2 : AlsBytes(v)[i] \in Byte
         /\ AlsValue(AlsBytes(v)) = v
<1>1. v % 256 \in Byte /\ v \div 256 \in Byte /\ 256 * (v \div 256) + (v % 256) = v
  <2>1. v \in Int /\ 0 <= v /\ v <= 65535
    BY Widths
  <2>. QED  BY <2>1, SMT DEF Byte
<1>2. AlsBytes(v)[1] = v % 256 /\ AlsBytes(v)[2] = v \div 256  BY DEF AlsBytes
<1> QED  BY <1>1, <1>2, SMT DEF AlsValue

\* ... of 10 bits, whatever the flags in both bytes ...
THEOREM PsRoundTrip ==
  ASSUME NEW v \in Bits10, NEW over \in BOOLEAN, NEW near \in BOOLEAN
  PROVE  /\ \A i \in 1 .. 2 : PsBytes(v, over, near)[i] \in Byte
         /\ PsValue(PsBytes(v, over, near)) = IF over THEN 0 ELSE v
<1>1. CASE over /\ near  BY <1>1, SMT DEF PsValue, PsBytes, Bit, Byte, Bits10
<1>2. CASE over /\ ~near  BY <1>2, SMT DEF PsValue, PsBytes, Bit, Byte, Bits10
<1>3. CASE ~over /\ near  BY <1>3, SMT DEF PsValue, PsBytes, Bit, Byte, Bits10
<1>4. CASE ~over /\ ~near  BY <1>4, SMT DEF PsValue, PsBytes, Bit, Byte, Bits10
<1> QED  BY <1>1, <1>2, <1>3, <1>4

\* ... and of 16 bits in two's complement.
THEOREM AxisRoundTrip ==
  ASSUME NEW v \in Signed16
  PROVE  /\ \A i \in 1 .. 2 : AxisBytes(v)[i] \in Byte
         /\ AxisValue(AxisBytes(v)) = v
<1>1. PICK u \in Nat : u < 65536 /\ v % 65536 = u /\ v % 256 = u % 256
  <2>. v \in Int
    BY Widths
  <2>1. v % 65536 \in Nat /\ v % 65536 < 65536 /\ v % 256 = (v % 65536) % 256  BY SMT
  <2> WITNESS v % 65536 \in Nat
  <2> QED  BY <2>1, SMT
<1>2. IF v < 0 THEN u = v + 65536 ELSE u = v
  <2>. v \in Int /\ -32768 <= v /\ v < 32768
    BY Widths
  <2>1. CASE v < 0  BY <1>1, <2>1, SMT
  <2>2. CASE v >= 0  BY <1>1, <2>2, SMT
  <2> QED  BY <2>1, <2>2, SMT
<1>3. u \div 256 \in Byte /\ u % 256 \in Byte /\ 256 * (u \div 256) + (u % 256) = u
  BY <1>1, SMT DEF Byte
<1>4. AxisBytes(v) = <<u \div 256, u % 256>>  BY <1>1 DEF AxisBytes
<1>5. AxisValue(AxisBytes(v)) = IF u < 32768 THEN u ELSE u - 65536
  BY <1>3, <1>4, SMT DEF AxisValue
<1>6. AxisValue(AxisBytes(v)) = v
  <2>. v \in Int /\ -32768 <= v /\ v < 32768
    BY Widths
  <2>. QED  BY <1>1, <1>2, <1>5, SMT
<1>7. \A i \in 1 .. 2 : AxisBytes(v)[i] \in Byte  BY <1>3, <1>4, SMT
<1> QED  BY <1>6, <1>7

-----------------------------------------------------------------------------
(* The inductive invariant. *)

\* The regmap is there from the first step of probe to the end of remove.
Rung == held = IF at \in {<<"off", 0>>, <<"init", 1>>} THEN {} ELSE {"regmap"}

Places(k) ==
  {<<"off", 0>>, <<"init", 1>>, <<"init", 2>>, <<"on", 0>>, <<"exit", 1>>}
    \cup (IF k = "icm" THEN {<<"init", 3>>, <<"init", 4>>} ELSE {})

\* What the loader makes of the module while its driver is there.
Bind ==
  /\ kind \in Kinds /\ at \in Places(kind) /\ Rung
  /\ byHand \in BOOLEAN
  /\ CASE at[1] = "init" -> mod \in {"coming", "live"}
       [] at[1] = "on"   -> mod = "live"
       [] at[1] = "exit" -> mod = "going" \/ (byHand /\ mod = "live")
       [] at[1] = "off"  -> mod \in {"gone", "live"}

\* The device that the driver has registered since it was bound: with the first
\* module, and nobody unbinding by hand, it is the only one ever; the AP3216C's
\* driver never gets further than that.
Made ==
  /\ made \in 0 .. Devices /\ oldest \in 1 .. made + 1
  /\ ~byHand /\ oldest = 1 /\ mod \in {"coming", "live"} =>
       made = IF at \in {<<"init", 3>>, <<"init", 4>>, <<"on", 0>>} THEN 1 ELSE 0
  /\ kind = "ap" /\ made > 0 =>
       made = 1 /\ oldest = 1 /\ at \in {<<"on", 0>>, <<"exit", 1>>}
  /\ fault \in {"none", "remove", "read"}
  /\ fault = "read" => made > 0

Chip ==
  /\ chip \in {"reset", "on"}
  /\ meas \in Measurements \cup {Zero(kind)}
  /\ now \in 0 .. Changes
  /\ dev \in [1 .. Devices -> [DOMAIN Axes -> Signed16]]

Values == IF kind = "ap" THEN Word ELSE Signed16

ReadOK(r) ==
  /\ r \in [dev : 1 .. made, chan : Channels[kind] \cup {None}, buf : Seq(Byte), stored : 0 .. Len(Axes),
            val : Values \cup {None, Error}, own : BOOLEAN, moved : BOOLEAN, failed : BOOLEAN]
  /\ Len(r.buf) <= Registers
  /\ r.val = None => ~r.failed

Users == DOMAIN rd = Procs /\ \A p \in Reading : ReadOK(rd[p])

Going(p) == p \in Reading /\ rd[p].val = None

\* While the registers do not change, a read holds what they hold; while no read
\* it overlaps has seen them change, so does the structure that they share.
Fetches == \A p \in Procs : Going(p) /\ ~rd[p].own => \A j \in DOMAIN rd[p].buf : rd[p].buf[j] = Register(j)
Overlaps == \A p, q \in Procs : Going(p) /\ Going(q) /\ rd[q].own => rd[p].moved
Stores == \A p \in Procs : Going(p) /\ kind = "icm" /\ ~rd[p].moved =>
            \A i \in 1 .. rd[p].stored : dev[rd[p].dev][i] = meas[Axes[i]]

IInv == Bind /\ Made /\ Chip /\ NoFault /\ Users /\ Fetches /\ Overlaps /\ Stores /\ ReadExact

-----------------------------------------------------------------------------
(* One step of probe or remove. *)

\* The tables of the two drivers, entry by entry.
LEMMA Tables ==
  /\ Acquired["ap"] = <<"regmap", "iio">> /\ Len(Acquired["ap"]) = 2
  /\ Acquired["icm"] = <<"regmap", "iio", "reset", "enable">> /\ Len(Acquired["icm"]) = 4
  /\ \A k \in Kinds : UndoneBy[k] = [regmap |-> {}, iio |-> {"regmap"}]
  /\ \A k \in Kinds : Released[k] = <<"regmap">> /\ Len(Released[k]) = 1
<1>1. Acquired["ap"] = <<"regmap", "iio">> /\ Acquired["icm"] = <<"regmap", "iio", "reset", "enable">>
  BY DEF Acquired
<1>2. \A k \in Kinds : Released[k] = <<"regmap">>
  BY DEF Released
<1>. QED  BY <1>1, <1>2 DEF UndoneBy

\* What Settle makes of the module.
Settled(m, a) ==
  IF a \notin {<<"on", 0>>, <<"off", 0>>} THEN m
  ELSE IF m = "coming" THEN "live" ELSE IF m = "going" THEN "gone" ELSE m

LEMMA SettleEffect ==
  ASSUME NEW k \in Kinds, Core(k)!Settle
  PROVE  mod' = Settled(mod, at') /\ byHand' = byHand
BY DEF Core!Settle, Settled

LEMMA Entries ==
  ASSUME NEW k \in Kinds, NEW i \in DOMAIN Acquired[k]
  PROVE  /\ Acquired[k][i] = "regmap" => i = 1
         /\ Acquired[k][i] = "iio" => i = 2
         /\ Acquired[k][i] = "reset" => i = 3 /\ k = "icm"
         /\ Acquired[k][i] = "enable" => i = 4 /\ k = "icm"
BY Tables DEF Kinds

LEMMA AcquiresRegmap ==
  ASSUME NEW k \in Kinds, Rung, Core(k)!Acquires("regmap") \/ Core(k)!Fails("regmap")
  PROVE  /\ at = <<"init", 1>> /\ at' \in {<<"init", 2>>, <<"off", 0>>} /\ Rung'
         /\ mod' = Settled(mod, at') /\ byHand' = byHand
<1>1. CASE Core(k)!Acquires("regmap")
  <2>1. PICK i \in DOMAIN Acquired[k] : Acquired[k][i] = "regmap" /\ Core(k)!Acquire(i) /\ Core(k)!Settle
    BY <1>1 DEF Core!Acquires
  <2>2. i = 1 /\ i # Len(Acquired[k])
    BY <2>1, Entries, Tables DEF Kinds
  <2>3. i + 1 = 2
    BY <2>2
  <2>. QED  BY <2>1, <2>2, <2>3, SettleEffect DEF Core!Acquire, Rung
<1>2. CASE Core(k)!Fails("regmap")
  <2>1. PICK i \in DOMAIN Acquired[k] : Acquired[k][i] = "regmap" /\ Core(k)!Fail(i) /\ Core(k)!Settle
    BY <1>2 DEF Core!Fails
  <2>2. i = 1
    BY <2>1, Entries
  <2>. QED  BY <2>1, <2>2, SettleEffect DEF Core!Fail, Rung
<1>. QED  BY <1>1, <1>2

LEMMA DoesIio ==
  ASSUME NEW k \in Kinds, Rung, Core(k)!Does("iio")
  PROVE  /\ at = <<"init", 2>> /\ at' = (IF k = "icm" THEN <<"init", 3>> ELSE <<"on", 0>>) /\ Rung'
         /\ mod' = Settled(mod, at') /\ byHand' = byHand
<1>1. PICK i \in DOMAIN Acquired[k] : Acquired[k][i] = "iio" /\ Core(k)!Pass(i) /\ Core(k)!Settle
  BY DEF Core!Does
<1>2. i = 2 /\ (i = Len(Acquired[k]) <=> k # "icm")
  <2>1. i = 2
    BY <1>1, Entries
  <2>2. (k = "icm" /\ Len(Acquired[k]) = 4) \/ (k = "ap" /\ Len(Acquired[k]) = 2)
    BY Tables DEF Kinds
  <2>. QED  BY <2>1, <2>2
<1>3. i + 1 = 3
  BY <1>2
<1>. QED  BY <1>1, <1>2, <1>3, SettleEffect DEF Core!Pass, Rung

LEMMA FailsIio ==
  ASSUME NEW k \in Kinds, Rung, Core(k)!Fails("iio")
  PROVE  /\ at = <<"init", 2>> /\ at' = <<"off", 0>> /\ Rung'
         /\ mod' = Settled(mod, at') /\ byHand' = byHand
<1>1. PICK i \in DOMAIN Acquired[k] : Acquired[k][i] = "iio" /\ Core(k)!Fail(i) /\ Core(k)!Settle
  BY DEF Core!Fails
<1>2. i = 2 /\ UndoneBy[k]["iio"] = {"regmap"}
  BY <1>1, Entries, Tables
<1>. QED  BY <1>1, <1>2, SettleEffect DEF Core!Fail, Rung

LEMMA DoesInit ==
  ASSUME NEW k \in Kinds, Rung, NEW r \in {"reset", "enable"}, Core(k)!Does(r)
  PROVE  /\ k = "icm" /\ Rung'
         /\ at = <<"init", IF r = "reset" THEN 3 ELSE 4>>
         /\ at' = IF r = "reset" THEN <<"init", 4>> ELSE <<"on", 0>>
         /\ mod' = Settled(mod, at') /\ byHand' = byHand
<1>1. PICK i \in DOMAIN Acquired[k] : Acquired[k][i] = r /\ Core(k)!Pass(i) /\ Core(k)!Settle
  BY DEF Core!Does
<1>2. k = "icm" /\ i = (IF r = "reset" THEN 3 ELSE 4) /\ Len(Acquired[k]) = 4
  BY <1>1, Entries, Tables
<1>3. CASE r = "reset"
  <2>1. i = 3 /\ i + 1 = 4 /\ i # Len(Acquired[k])
    BY <1>2, <1>3
  <2>. QED  BY <1>1, <1>2, <1>3, <2>1, SettleEffect DEF Core!Pass, Rung
<1>4. CASE r = "enable"
  <2>1. i = 4 /\ i = Len(Acquired[k])
    BY <1>2, <1>4
  <2>. QED  BY <1>1, <1>2, <1>4, <2>1, SettleEffect DEF Core!Pass, Rung
<1>. QED  BY <1>3, <1>4

LEMMA ReleasesRegmap ==
  ASSUME NEW k \in Kinds, Rung, Core(k)!Releases("regmap")
  PROVE  /\ at = <<"exit", 1>> /\ at' = <<"off", 0>> /\ Rung'
         /\ mod' = Settled(mod, at') /\ byHand' = byHand
<1>1. PICK i \in DOMAIN Released[k] : Released[k][i] = "regmap" /\ Core(k)!Release(i) /\ Core(k)!Settle
  BY DEF Core!Releases
<1>2. i = 1 /\ i = Len(Released[k])
  <2>1. Released[k] = <<"regmap">> /\ Len(Released[k]) = 1
    BY Tables
  <2>2. DOMAIN <<"regmap">> = {1}
    OBVIOUS
  <2>. QED  BY <2>1, <2>2
<1>. QED  BY <1>1, <1>2, SettleEffect DEF Core!Release, Rung

LEMMA Begins ==
  ASSUME NEW k \in Kinds, Rung, Core(k)!Insmod \/ Core(k)!SysfsBind
  PROVE  /\ Rung' /\ at = <<"off", 0>> /\ at' = <<"init", 1>> /\ byHand' = byHand
         /\ \/ Core(k)!Insmod /\ mod = "gone" /\ mod' = "coming"
            \/ mod = "live" /\ mod' = "live"
BY DEF Core!Insmod, Core!SysfsBind, Core!Begin, Rung

LEMMA Quits ==
  ASSUME NEW k \in Kinds, Rung, Core(k)!Rmmod(FALSE) \/ Core(k)!SysfsUnbind
  PROVE  /\ Rung' /\ mod = "live"
         /\ \/ at = <<"on", 0>> /\ at' = <<"exit", 1>> /\ mod' = "going" /\ byHand' = byHand
            \/ at = <<"off", 0>> /\ at' = at /\ mod' = "gone" /\ byHand' = byHand
            \/ at = <<"on", 0>> /\ at' = <<"exit", 1>> /\ mod' = "live" /\ byHand' = TRUE
<1>1. CASE Core(k)!SysfsUnbind
  BY <1>1 DEF Core!SysfsUnbind, Core!Quit, Rung
<1>2. CASE Core(k)!Rmmod(FALSE)
  BY <1>2 DEF Core!Rmmod, Core!Quit, Core!Unbound, Rung
<1>. QED  BY <1>1, <1>2

-----------------------------------------------------------------------------
(* The steps of probe, of remove and of who calls them keep the invariant. *)

LEMMA BindSettled ==
  ASSUME Bind, kind' = kind, Rung', mod' = Settled(mod, at'), byHand' = byHand, at' \in Places(kind),
         \/ at[1] = "init" /\ at'[1] \in {"init", "on", "off"}
         \/ at[1] = "exit" /\ at' = <<"off", 0>>
  PROVE  Bind'
<1>1. CASE at[1] = "init" /\ at'[1] \in {"init", "on", "off"}
  <2>1. mod \in {"coming", "live"}
    BY <1>1 DEF Bind
  <2>2. CASE at'[1] = "init"
    <3>1. mod' = mod
      BY <2>2 DEF Settled
    <3>. QED  BY <2>1, <2>2, <3>1 DEF Bind, Places
  <2>3. CASE at'[1] \in {"on", "off"}
    <3>1. mod' = "live"
      BY <2>1, <2>3 DEF Settled, Places
    <3>. QED  BY <2>3, <3>1 DEF Bind, Places
  <2>. QED  BY <1>1, <2>2, <2>3
<1>2. CASE at[1] = "exit" /\ at' = <<"off", 0>>
  <2>1. mod' \in {"gone", "live"}
    BY <1>2 DEF Bind, Settled
  <2>. QED  BY <1>2, <2>1 DEF Bind, Places
<1>. QED  BY <1>1, <1>2

LEMMA MadeNat == IInv => made \in Nat /\ oldest \in Nat \ {0}
<1>1. Devices \in Nat
  BY BoundAssumption
<1>. QED  BY <1>1 DEF IInv, Made

LEMMA ReadKept ==
  ASSUME IInv, UNCHANGED kind, made' \in Nat, made <= made', NEW r, ReadOK(r)
  PROVE  ReadOK(r)'
<1>1. 1 .. made \subseteq 1 .. made'
  <2>1. made \in Nat
    BY MadeNat
  <2>. QED  BY <2>1
<1>2. Values' = Values /\ Registers' = Registers
  BY DEF Values, Registers
<1>3. r \in [dev : 1 .. made', chan : Channels[kind] \cup {None}, buf : Seq(Byte), stored : 0 .. Len(Axes),
            val : Values \cup {None, Error}, own : BOOLEAN, moved : BOOLEAN, failed : BOOLEAN]
  BY <1>1 DEF ReadOK
<1>. QED  BY <1>2, <1>3 DEF ReadOK

LEMMA UsersKept ==
  IInv /\ UNCHANGED <<kind, dev, rd, meas>> /\ made' \in Nat /\ made <= made'
    => (Users /\ Fetches /\ Overlaps /\ Stores /\ ReadExact)'
<1>. SUFFICES ASSUME IInv, UNCHANGED <<kind, dev, rd, meas>>, made' \in Nat, made <= made'
              PROVE  (Users /\ Fetches /\ Overlaps /\ Stores /\ ReadExact)'
  OBVIOUS
<1>1. Users'
  <2>1. \A r : ReadOK(r) => ReadOK(r)'
    BY ReadKept
  <2>. QED  BY <2>1 DEF IInv, Users, Reading
<1>2. Fetches'
  <2>1. \A n : Register(n)' = Register(n)
    BY DEF Register
  <2>. QED  BY <2>1 DEF IInv, Fetches, Going, Reading
<1>3. (Overlaps /\ Stores)'
  BY DEF IInv, Overlaps, Stores, Going, Reading
<1>4. ReadExact'
  BY DEF IInv, ReadExact, Reading, Truth
<1>. QED  BY <1>1, <1>2, <1>3, <1>4

LEMMA ChipKept == IInv /\ UNCHANGED <<kind, chip, meas, now, dev>> => Chip'
BY DEF IInv, Chip, Measurements, Zero

\* Steps that register no device and load no module.
LEMMA MadeKept ==
  ASSUME IInv, UNCHANGED <<kind, made, oldest, fault>>,
         byHand' = byHand \/ byHand', mod' \in {"gone", "coming", "live", "going"},
         mod' \in {"coming", "live"} /\ ~byHand' =>
           /\ mod \in {"coming", "live"} /\ ~byHand
           /\ at \in {<<"init", 3>>, <<"init", 4>>, <<"on", 0>>} <=> at' \in {<<"init", 3>>, <<"init", 4>>, <<"on", 0>>},
         at \in {<<"on", 0>>, <<"exit", 1>>} => at' \in {<<"on", 0>>, <<"exit", 1>>} \/ kind = "icm"
  PROVE  Made' /\ NoFault'
<1>1. Made'
  BY DEF IInv, Made
<1>2. NoFault'
  BY DEF IInv, NoFault
<1>. QED  BY <1>1, <1>2

\* The registers change.
LEMMA MovesKeeps ==
  ASSUME IInv, UNCHANGED <<kind, made, dev>>, NEW m, Moves(m)
  PROVE  meas' = m /\ (Users /\ Fetches /\ Overlaps /\ Stores /\ ReadExact)'
<1>1. meas' = m
  BY DEF Moves
<1>2. CASE m = meas
  BY <1>1, <1>2, UsersKept, MadeNat DEF Moves
<1>3. CASE m # meas
  <2>1. /\ rd' = [p \in Procs |-> IF rd[p] = None THEN None
                                  ELSE [rd[p] EXCEPT !.own = TRUE, !.moved = TRUE]]
        /\ \A p \in Procs : p \in Reading => ReadOK(rd[p])
    BY <1>3 DEF Moves, IInv, Users
  <2>2. ASSUME NEW p \in Procs, p \in Reading
        PROVE  /\ ReadOK(rd[p])' /\ rd'[p].own /\ rd'[p].moved
               /\ rd'[p].val = rd[p].val /\ rd'[p].chan = rd[p].chan /\ rd'[p].failed = rd[p].failed
    <3>1. rd[p] # None /\ ReadOK(rd[p])
      BY <2>1, <2>2 DEF Reading
    <3>2. \A r : ReadOK(r) => ReadOK([r EXCEPT !.own = TRUE, !.moved = TRUE])
      <4>. SUFFICES ASSUME NEW r, ReadOK(r)  PROVE  ReadOK([r EXCEPT !.own = TRUE, !.moved = TRUE])
        OBVIOUS
      <4>. DEFINE s == [r EXCEPT !.own = TRUE, !.moved = TRUE]
      <4>1. s \in [dev : 1 .. made, chan : Channels[kind] \cup {None}, buf : Seq(Byte), stored : 0 .. Len(Axes),
                  val : Values \cup {None, Error}, own : BOOLEAN, moved : BOOLEAN, failed : BOOLEAN]
        BY DEF ReadOK
      <4>2. s.buf = r.buf /\ s.val = r.val /\ s.failed = r.failed
        BY DEF ReadOK
      <4>. QED  BY <4>1, <4>2 DEF ReadOK
    <3>3. rd'[p] = [rd[p] EXCEPT !.own = TRUE, !.moved = TRUE]
      BY <2>1, <3>1
    <3>4. ReadOK(rd[p])'
      <4>1. \A r : ReadOK(r) => ReadOK(r)'
        BY ReadKept, MadeNat
      <4>2. \A r : r = rd'[p] /\ ReadOK(r)' => ReadOK(rd[p])'
        OBVIOUS
      <4>. QED  BY <3>1, <3>2, <3>3, <4>1, <4>2
    <3>5. \A r, s : ReadOK(r) /\ s = [r EXCEPT !.own = TRUE, !.moved = TRUE] =>
             s.own /\ s.moved /\ s.val = r.val /\ s.chan = r.chan /\ s.failed = r.failed
      BY DEF ReadOK
    <3>. QED  BY <3>1, <3>3, <3>4, <3>5
  <2>3. \A p \in Procs : p \notin Reading => rd'[p] = None
    BY <2>1 DEF Reading
  <2>4. Reading' \subseteq Reading
    BY <2>3 DEF Reading
  <2>5. Users'
    BY <2>1, <2>2, <2>4 DEF Users, Reading
  <2>6. (Fetches /\ Overlaps /\ Stores)'
    BY <2>2, <2>4 DEF Fetches, Overlaps, Stores, Going, Reading
  <2>7. ReadExact'
    <3>. SUFFICES ASSUME NEW p \in Reading'
                  PROVE  /\ rd'[p].val = Error => rd'[p].failed \/ rd'[p].chan = "temp"
                         /\ rd'[p].val \notin {None, Error} => ~rd'[p].failed
      <4>1. \A p \in Reading' : rd'[p].own /\ rd'[p].moved
        BY <2>2, <2>4 DEF Reading
      <4>. QED  BY <4>1 DEF ReadExact
    <3>1. p \in Procs /\ p \in Reading
      BY <2>4 DEF Reading
    <3>2. /\ rd[p].val = Error => rd[p].failed \/ rd[p].chan = "temp"
          /\ rd[p].val \notin {None, Error} => ~rd[p].failed
      BY <3>1, NoneAssumption DEF IInv, ReadExact
    <3>. QED  BY <2>2, <3>1, <3>2
  <2>. QED  BY <1>1, <2>5, <2>6, <2>7
<1>. QED  BY <1>2, <1>3

\* Every step of a driver but the reset leaves what the reads hold alone.
LEMMA Kept ==
  ASSUME IInv, UNCHANGED <<kind, meas, now, dev, rd>>, chip' \in {"reset", "on"}, made' \in Nat, made <= made',
         Bind', Made', NoFault'
  PROVE  IInv'
<1>1. Chip'
  BY DEF IInv, Chip, Measurements, Zero
<1>. QED  BY <1>1, UsersKept DEF IInv

LEMMA Insmods ==
  ASSUME IInv, NEW k \in Kinds, kind = k, Insmod(k), UNCHANGED kind
  PROVE  IInv'
<1>1. /\ Rung' /\ at = <<"off", 0>> /\ at' = <<"init", 1>> /\ byHand' = byHand /\ mod' = "coming"
      /\ oldest' = made + 1 /\ UNCHANGED <<made, chip, meas, now, dev, rd, fault>>
  <2>1. /\ Rung' /\ at = <<"off", 0>> /\ at' = <<"init", 1>> /\ byHand' = byHand
    BY Begins DEF Insmod, IInv, Bind
  <2>2. mod' = "coming"
    BY DEF Insmod, Core!Insmod, Core!Begin
  <2>. QED  BY <2>1, <2>2 DEF Insmod
<1>2. Bind'
  BY <1>1 DEF IInv, Bind, Places
<1>3. Made'
  <2>1. made \in Nat /\ made + 1 \in 1 .. made + 1 /\ (made + 1 = 1 => made = 0)
    BY MadeNat
  <2>. QED  BY <1>1, <2>1 DEF IInv, Made
<1>4. NoFault'
  <2>1. made \in Nat /\ (made > 0 => made + 1 > 1)
    BY MadeNat
  <2>. QED  BY <1>1, <2>1 DEF IInv, Made, NoFault
<1>. QED  BY <1>1, <1>2, <1>3, <1>4, Kept, MadeNat DEF IInv, Chip

LEMMA Rebinds ==
  ASSUME IInv, NEW k \in Kinds, kind = k, Rebind(k), UNCHANGED kind
  PROVE  IInv'
<1>1. UNCHANGED <<made, oldest, chip, meas, now, dev, rd, fault>> /\ Rung
  BY DEF Rebind, IInv, Bind
<1>2. CASE Core(k)!SysfsBind
  <2>1. /\ Rung' /\ at = <<"off", 0>> /\ at' = <<"init", 1>> /\ byHand' = byHand
        /\ mod = "live" /\ mod' = "live"
    <3>1. mod = "live"
      BY <1>2 DEF Core!SysfsBind
    <3>. QED  BY <1>1, <1>2, <3>1, Begins
  <2>2. Bind'
    BY <2>1 DEF IInv, Bind, Places
  <2>3. Made' /\ NoFault'
    BY <1>1, <2>1, MadeKept
  <2>. QED  BY <1>1, <2>2, <2>3, Kept, MadeNat DEF IInv, Chip
<1>3. CASE Core(k)!Rmmod(FALSE) \/ Core(k)!SysfsUnbind
  <2>1. /\ Rung' /\ mod = "live"
        /\ \/ at = <<"on", 0>> /\ at' = <<"exit", 1>> /\ mod' = "going" /\ byHand' = byHand
           \/ at = <<"off", 0>> /\ at' = at /\ mod' = "gone" /\ byHand' = byHand
           \/ at = <<"on", 0>> /\ at' = <<"exit", 1>> /\ mod' = "live" /\ byHand' = TRUE
    BY <1>1, <1>3, Quits
  <2>2. Bind'
    <3>1. CASE at = <<"on", 0>> /\ at' = <<"exit", 1>>
      <4>1. mod' = "going" \/ (byHand' /\ mod' = "live")
        BY <2>1, <3>1
      <4>2. byHand' \in BOOLEAN /\ at'[1] = "exit" /\ at' \in Places(kind)'
        <5>1. byHand \in BOOLEAN
          BY DEF IInv, Bind
        <5>. QED  BY <2>1, <3>1, <5>1 DEF Places
      <4>. QED  BY <1>1, <2>1, <4>1, <4>2 DEF IInv, Bind
    <3>2. CASE at = <<"off", 0>> /\ at' = at /\ mod' = "gone" /\ byHand' = byHand
      BY <2>1, <3>2 DEF IInv, Bind, Places
    <3>. QED  BY <2>1, <3>1, <3>2
  <2>3. Made' /\ NoFault'
    BY <1>1, <2>1, MadeKept
  <2>. QED  BY <1>1, <2>2, <2>3, Kept, MadeNat DEF IInv, Chip
<1>. QED  BY <1>2, <1>3 DEF Rebind

LEMMA Regmaps ==
  ASSUME IInv, NEW k \in Kinds, kind = k, InitRegmap(k), UNCHANGED kind
  PROVE  IInv'
<1>1. /\ UNCHANGED <<made, oldest, chip, meas, now, dev, rd, fault>>
      /\ at = <<"init", 1>> /\ at' \in {<<"init", 2>>, <<"off", 0>>} /\ Rung'
      /\ mod' = Settled(mod, at') /\ byHand' = byHand
  BY AcquiresRegmap DEF InitRegmap, IInv, Bind
<1>2. mod \in {"coming", "live"} /\ mod' \in {"coming", "live"}
  BY <1>1 DEF IInv, Bind, Settled
<1>3. Bind'
  BY <1>1, BindSettled DEF IInv, Places
<1>4. Made' /\ NoFault'
  BY <1>1, <1>2, MadeKept
<1>. QED  BY <1>1, <1>3, <1>4, Kept, MadeNat DEF IInv, Chip

LEMMA Registrations ==
  ASSUME IInv, NEW k \in Kinds, kind = k, RegisterIio(k), UNCHANGED kind
  PROVE  IInv'
<1>1. UNCHANGED <<oldest, chip, meas, now, dev, rd, fault>> /\ Rung
  BY DEF RegisterIio, IInv, Bind
<1>2. CASE Core(k)!Fails("iio") /\ UNCHANGED made
  <2>1. /\ at = <<"init", 2>> /\ at' = <<"off", 0>> /\ Rung'
        /\ mod' = Settled(mod, at') /\ byHand' = byHand
    BY <1>1, <1>2, FailsIio
  <2>2. mod \in {"coming", "live"} /\ mod' \in {"coming", "live"}
    BY <2>1 DEF IInv, Bind, Settled
  <2>3. Bind'
    BY <2>1, BindSettled DEF IInv, Places
  <2>4. Made' /\ NoFault'
    BY <1>1, <1>2, <2>1, <2>2, MadeKept
  <2>. QED  BY <1>1, <1>2, <2>3, <2>4, Kept, MadeNat DEF IInv, Chip
<1>3. CASE Core(k)!Does("iio") /\ made < Devices /\ made' = made + 1
  <2>1. /\ at = <<"init", 2>> /\ at' = (IF k = "icm" THEN <<"init", 3>> ELSE <<"on", 0>>) /\ Rung'
        /\ mod' = Settled(mod, at') /\ byHand' = byHand
    BY <1>1, <1>3, DoesIio
  <2>2. mod \in {"coming", "live"} /\ mod' \in {"coming", "live"}
    BY <2>1 DEF IInv, Bind, Settled
  <2>3. Bind'
    BY <2>1, BindSettled DEF IInv, Places, Kinds
  <2>4. made' \in Nat /\ made <= made' /\ made' \in 0 .. Devices /\ oldest' \in 1 .. made' + 1
    <3>1. made \in Nat /\ Devices \in Nat
      BY MadeNat, BoundAssumption
    <3>. QED  BY <1>1, <1>3, <3>1 DEF IInv, Made
  <2>5. at' \in {<<"init", 3>>, <<"init", 4>>, <<"on", 0>>}
    BY <2>1
  <2>6. ~byHand /\ oldest = 1 => made = 0
    BY <2>1, <2>2 DEF IInv, Made
  <2>7. kind = "ap" => made = 0 /\ oldest = 1 /\ at' = <<"on", 0>>
    <3>1. kind = "ap" => ~(made > 0)
      BY <2>1 DEF IInv, Made
    <3>2. made \in Nat /\ oldest \in 1 .. made + 1
      BY MadeNat DEF IInv, Made
    <3>. QED  BY <2>1, <3>1, <3>2
  <2>8. Made'
    <3>1. made = 0 => made' = 1
      BY <1>3
    <3>2. (fault = "read" => made > 0) /\ made' > 0 /\ fault \in {"none", "remove", "read"}
      BY <1>3, MadeNat DEF IInv, Made
    <3>. QED  BY <1>1, <2>1, <2>4, <2>5, <2>6, <2>7, <3>1, <3>2 DEF Made
  <2>9. NoFault'
    BY <1>1, <2>1, <2>2 DEF IInv, NoFault
  <2>. QED  BY <1>1, <2>3, <2>4, <2>8, <2>9, Kept DEF IInv, Chip
<1>. QED  BY <1>2, <1>3 DEF RegisterIio

LEMMA Removes ==
  ASSUME IInv, NEW k \in Kinds, kind = k, RemoveIcm(k), UNCHANGED kind
  PROVE  IInv'
<1>1. /\ UNCHANGED <<made, oldest, chip, meas, now, dev, rd, fault>> /\ k = "icm"
      /\ at = <<"exit", 1>> /\ at' = <<"off", 0>> /\ Rung'
      /\ mod' = Settled(mod, at') /\ byHand' = byHand
  BY ReleasesRegmap DEF RemoveIcm, IInv, Bind
<1>2. mod' \in {"gone", "live"} /\ (mod' = "live" => byHand)
  BY <1>1 DEF IInv, Bind, Settled
<1>3. Bind'
  BY <1>1, BindSettled DEF IInv, Places
<1>4. Made' /\ NoFault'
  BY <1>1, <1>2, MadeKept
<1>. QED  BY <1>1, <1>3, <1>4, Kept, MadeNat DEF IInv, Chip

LEMMA Inits ==
  ASSUME IInv, NEW k \in Kinds, kind = k, Reset(k) \/ Enable(k), UNCHANGED kind
  PROVE  IInv'
<1>1. /\ UNCHANGED <<made, oldest, now, dev, fault>> /\ k = "icm" /\ Rung'
      /\ at \in {<<"init", 3>>, <<"init", 4>>} /\ at' \in {<<"init", 4>>, <<"on", 0>>}
      /\ mod' = Settled(mod, at') /\ byHand' = byHand
      /\ at[1] = "init"
  <2>1. Rung
    BY DEF IInv, Bind
  <2>2. CASE Reset(k)
    BY <2>1, <2>2, DoesInit DEF Reset
  <2>3. CASE Enable(k)
    BY <2>1, <2>3, DoesInit DEF Enable
  <2>. QED  BY <2>2, <2>3
<1>2. mod \in {"coming", "live"} /\ mod' \in {"coming", "live"}
  <2>1. mod \in {"coming", "live"}
    BY <1>1 DEF IInv, Bind
  <2>. QED  BY <1>1, <2>1 DEF Settled
<1>3. Bind'
  BY <1>1, BindSettled DEF IInv, Places
<1>4. Made' /\ NoFault'
  BY <1>1, <1>2, MadeKept
<1>5. CASE UNCHANGED <<meas, rd>> /\ chip' \in {"reset", "on"}
  BY <1>1, <1>3, <1>4, <1>5, Kept, MadeNat
<1>6. CASE chip' = "reset" /\ Moves(Zero(k))
  <2>1. meas' = Zero(kind) /\ (Users /\ Fetches /\ Overlaps /\ Stores /\ ReadExact)'
    BY <1>1, <1>6, MovesKeeps
  <2>2. Zero(kind)' = Zero(kind)
    BY DEF Zero
  <2>3. Chip'
    BY <1>1, <1>6, <2>1, <2>2 DEF IInv, Chip
  <2>. QED  BY <1>3, <1>4, <2>1, <2>3 DEF IInv
<1>. QED  BY <1>5, <1>6 DEF Reset, Enable, IInv, Chip

LEMMA Measures ==
  ASSUME IInv, Measure, UNCHANGED kind
  PROVE  IInv'
<1>1. /\ UNCHANGED <<at, held, mod, byHand, made, oldest, chip, dev, fault>>
      /\ now < Changes /\ now' = now + 1
  BY DEF Measure
<1>2. PICK m \in Measurements : Moves(m)
  BY DEF Measure
<1>3. meas' = m /\ (Users /\ Fetches /\ Overlaps /\ Stores /\ ReadExact)'
  BY <1>1, <1>2, MovesKeeps
<1>4. now' \in 0 .. Changes
  <2>1. now \in 0 .. Changes /\ Changes \in Nat
    BY BoundAssumption DEF IInv, Chip
  <2>. QED  BY <1>1, <2>1
<1>5. Chip'
  BY <1>1, <1>2, <1>3, <1>4 DEF IInv, Chip, Measurements
<1>6. (Bind /\ Made /\ NoFault)'
  BY <1>1 DEF IInv, Bind, Rung, Made, NoFault
<1>. QED  BY <1>3, <1>5, <1>6 DEF IInv

LEMMA Dies ==
  ASSUME IInv, RemoveAp, UNCHANGED kind
  PROVE  IInv'
<1>1. /\ UNCHANGED <<at, held, mod, byHand, made, oldest, chip, meas, now, dev, rd>>
      /\ kind = "ap" /\ fault' = "remove"
  BY DEF RemoveAp
<1>2. (Bind /\ Made /\ NoFault)'
  BY <1>1 DEF IInv, Bind, Rung, Made, NoFault
<1>. QED  BY <1>1, <1>2, Kept, MadeNat DEF IInv, Chip

-----------------------------------------------------------------------------
(* The steps of a read keep the invariant. *)

\* What a read may become, when the devices hold d: what it has fetched, stored
\* and returned, and what the others see of it.
Fits(p, s, d) ==
  /\ ReadOK(s)
  /\ s.val = None => /\ ~s.own => \A j \in DOMAIN s.buf : s.buf[j] = Register(j)
                     /\ s.own => s.moved /\ \A q \in Procs \ {p} : Going(q) => rd[q].moved
                     /\ \A q \in Procs \ {p} : Going(q) /\ rd[q].own => s.moved
                     /\ kind = "icm" /\ ~s.moved => \A i \in 1 .. s.stored : d[s.dev][i] = meas[Axes[i]]
  /\ s.val = Error => s.failed \/ s.chan = "temp"
  /\ s.val \notin {None, Error} =>
       ~s.failed /\ (~(IF kind = "ap" THEN s.own ELSE s.moved) => s.val = Truth(s.chan))

SameDriver == UNCHANGED <<kind, at, held, mod, byHand, made, oldest, chip, meas, now>>

LEMMA SameRead ==
  ASSUME SameDriver, NEW s, ReadOK(s)
  PROVE  ReadOK(s)'
<1>1. Values' = Values /\ Registers' = Registers /\ made' = made /\ kind' = kind
  BY DEF SameDriver, Values, Registers
<1>. QED  BY <1>1 DEF ReadOK

LEMMA SameRegister ==
  ASSUME SameDriver
  PROVE  /\ \A n : Register(n)' = Register(n)
         /\ \A c : Truth(c)' = Truth(c)
BY DEF SameDriver, Register, Truth

\* One read goes on, or ends, and the others keep what they stored.
LEMMA OneRead ==
  ASSUME IInv, SameDriver, NEW p \in Procs, NEW s, rd' = [rd EXCEPT ![p] = s],
         s = None \/ Fits(p, s, dev'),
         \A q \in Procs \ {p} : Going(q) /\ kind = "icm" /\ ~rd[q].moved =>
           \A i \in 1 .. rd[q].stored : dev'[rd[q].dev][i] = meas[Axes[i]]
  PROVE  (Users /\ Fetches /\ Overlaps /\ Stores /\ ReadExact)'
<1>1. /\ DOMAIN rd = Procs /\ DOMAIN rd' = Procs /\ rd'[p] = s
      /\ \A q \in Procs \ {p} : rd'[q] = rd[q]
  BY DEF IInv, Users
<1>2. p \in Reading' => Fits(p, s, dev')
  BY <1>1 DEF Reading
<1>3. \A q \in Procs \ {p} : (q \in Reading' <=> q \in Reading) /\ (Going(q)' <=> Going(q))
  BY <1>1 DEF Reading, Going
<1>4. Users'
  <2>. SUFFICES ASSUME NEW q \in Reading'  PROVE  ReadOK(rd[q])'
    BY <1>1 DEF Users
  <2>1. CASE q = p
    <3>1. \A r : r = rd'[p] /\ ReadOK(r)' => ReadOK(rd[p])'
      OBVIOUS
    <3>2. ReadOK(s)'
      BY <1>2, <2>1, SameRead DEF Fits
    <3>. QED  BY <1>1, <2>1, <3>1, <3>2
  <2>2. CASE q # p
    <3>1. q \in Procs \ {p} /\ q \in Reading
      BY <1>3, <2>2 DEF Reading
    <3>2. ReadOK(rd[q])
      BY <3>1 DEF IInv, Users
    <3>3. \A r : r = rd'[q] /\ ReadOK(r)' => ReadOK(rd[q])'
      OBVIOUS
    <3>4. \A r : ReadOK(r) => ReadOK(r)'
      BY SameRead
    <3>. QED  BY <1>1, <3>1, <3>2, <3>3, <3>4
  <2>. QED  BY <2>1, <2>2
<1>5. Fetches'
  <2>. SUFFICES ASSUME NEW q \in Procs, Going(q)', ~rd'[q].own, NEW j \in DOMAIN rd'[q].buf
                PROVE  rd'[q].buf[j] = Register(j)
    BY SameRegister DEF Fetches
  <2>1. CASE q = p
    BY <1>1, <1>2, <2>1 DEF Going, Fits
  <2>2. CASE q # p
    BY <1>1, <1>3, <2>2 DEF IInv, Fetches
  <2>. QED  BY <2>1, <2>2
<1>6. Overlaps'
  <2>. SUFFICES ASSUME NEW q \in Procs, NEW r \in Procs, Going(q)', Going(r)', rd'[r].own
                PROVE  rd'[q].moved
    BY DEF Overlaps
  <2>1. CASE q = p
    <3>1. Fits(p, s, dev') /\ rd'[q] = s /\ s.val = None
      BY <1>1, <1>2, <2>1 DEF Going
    <3>2. CASE r = p
      BY <1>1, <3>1, <3>2 DEF Fits
    <3>3. CASE r # p
      BY <1>1, <1>3, <3>1, <3>3 DEF Fits
    <3>. QED  BY <3>2, <3>3
  <2>2. CASE q # p
    <3>1. Going(q) /\ rd'[q] = rd[q] /\ q \in Procs \ {p}
      BY <1>1, <1>3, <2>2
    <3>2. CASE r = p
      <4>1. Fits(p, s, dev') /\ s.val = None /\ s.own
        BY <1>1, <1>2, <3>2 DEF Going
      <4>. QED  BY <3>1, <4>1 DEF Fits
    <3>3. CASE r # p
      BY <1>1, <1>3, <3>1, <3>3 DEF IInv, Overlaps
    <3>. QED  BY <3>2, <3>3
  <2>. QED  BY <2>1, <2>2
<1>7. Stores'
  <2>. SUFFICES ASSUME NEW q \in Procs, Going(q)', kind = "icm", ~rd'[q].moved, NEW i \in 1 .. rd'[q].stored
                PROVE  dev'[rd'[q].dev][i] = meas[Axes[i]]
    BY DEF Stores, SameDriver
  <2>1. CASE q = p
    BY <1>1, <1>2, <2>1 DEF Going, Fits
  <2>2. CASE q # p
    BY <1>1, <1>3, <2>2
  <2>. QED  BY <2>1, <2>2
<1>8. ReadExact'
  <2>. SUFFICES ASSUME NEW q \in Reading'
                PROVE  /\ rd'[q].val = Error => rd'[q].failed \/ rd'[q].chan = "temp"
                       /\ rd'[q].val \notin {None, Error} =>
                            /\ ~rd'[q].failed
                            /\ ~(IF kind = "ap" THEN rd'[q].own ELSE rd'[q].moved) => rd'[q].val = Truth(rd'[q].chan)
    BY SameRegister DEF ReadExact, SameDriver
  <2>1. CASE q = p
    BY <1>1, <1>2, <2>1 DEF Fits
  <2>2. CASE q # p
    <3>1. q \in Reading /\ rd'[q] = rd[q]
      BY <1>1, <1>3, <2>2 DEF Reading
    <3>. QED  BY <3>1, NoneAssumption DEF IInv, ReadExact
  <2>. QED  BY <2>1, <2>2
<1>. QED  BY <1>4, <1>5, <1>6, <1>7, <1>8

LEMMA SameBind ==
  ASSUME IInv, SameDriver, UNCHANGED <<dev, fault>>
  PROVE  (Bind /\ Made /\ Chip /\ NoFault)'
BY DEF IInv, SameDriver, Bind, Rung, Made, Chip, NoFault, Measurements, Zero

LEMMA GoesOn ==
  ASSUME IInv, SameDriver, UNCHANGED <<dev, fault>>, NEW p \in Procs, NEW s,
         rd' = [rd EXCEPT ![p] = s], s = None \/ Fits(p, s, dev)
  PROVE  IInv'
<1>1. s = None \/ Fits(p, s, dev')
  OBVIOUS
<1>2. \A q \in Procs : Going(q) /\ kind = "icm" /\ ~rd[q].moved =>
        \A i \in 1 .. rd[q].stored : dev'[rd[q].dev][i] = meas[Axes[i]]
  BY DEF IInv, Stores
<1>. QED  BY <1>1, <1>2, OneRead, SameBind DEF IInv

LEMMA ReadBegins ==
  ASSUME IInv, SameDriver, NEW p \in Procs, ReadBegin(p)
  PROVE  IInv'
<1>1. PICK g \in 1 .. made :
        rd' = [rd EXCEPT ![p] =
          [dev |-> g, chan |-> None, buf |-> <<>>, stored |-> 0, val |-> None,
           own |-> FALSE, moved |-> \E q \in Reading : rd[q].own /\ rd[q].val = None, failed |-> FALSE]]
  BY DEF ReadBegin
<1>. DEFINE late == \E q \in Reading : rd[q].own /\ rd[q].val = None
            s == [dev |-> g, chan |-> None, buf |-> <<>>, stored |-> 0, val |-> None,
                  own |-> FALSE, moved |-> late, failed |-> FALSE]
<1>2. ReadOK(s)
  <2>1. late \in BOOLEAN
    OBVIOUS
  <2>2. Len(Axes) \in Nat /\ Registers \in Nat
    BY AxesAssumption DEF Registers
  <2>. HIDE DEF late
  <2>. QED  BY <2>1, <2>2 DEF ReadOK
<1>3. \A q \in Procs \ {p} : Going(q) /\ rd[q].own => s.moved
  BY DEF Going
<1>4. Fits(p, s, dev)
  <2>1. s.val = None /\ s.own = FALSE /\ s.buf = <<>> /\ s.stored = 0
    OBVIOUS
  <2>. HIDE DEF s
  <2>. QED  BY <1>2, <1>3, <2>1, NoneAssumption DEF Fits
<1>. HIDE DEF s
<1>. QED  BY <1>1, <1>4, GoesOn DEF ReadBegin, s

LEMMA ReadEnds ==
  ASSUME IInv, SameDriver, NEW p \in Procs, ReadEnd(p)
  PROVE  IInv'
BY GoesOn DEF ReadEnd

LEMMA ModValues ==
  IInv => /\ mod \in {"going", "gone", "coming", "live"}
          /\ at \in {<<"init", 3>>, <<"init", 4>>, <<"on", 0>>, <<"exit", 1>>} => mod # "gone" /\ "regmap" \in held
<1>. SUFFICES ASSUME Bind
              PROVE  /\ mod \in {"going", "gone", "coming", "live"}
                     /\ at \in {<<"init", 3>>, <<"init", 4>>, <<"on", 0>>, <<"exit", 1>>} =>
                          mod # "gone" /\ "regmap" \in held
  BY DEF IInv
<1>1. at[1] \in {"off", "init", "on", "exit"}
  BY DEF Bind, Places
<1>2. /\ at[1] = "init" => mod \in {"coming", "live"}
      /\ at[1] = "on" => mod = "live"
      /\ at[1] = "exit" => mod = "going" \/ mod = "live"
      /\ at[1] = "off" => mod \in {"gone", "live"}
  BY DEF Bind
<1>3. at \in {<<"init", 3>>, <<"init", 4>>, <<"on", 0>>, <<"exit", 1>>} =>
        at[1] \in {"init", "on", "exit"} /\ "regmap" \in held
  BY DEF Bind, Rung
<1>. QED  BY <1>1, <1>2, <1>3

\* Only a read of the ICM20608's may find that something has gone.
LEMMA ReadsFault ==
  ASSUME IInv, SameDriver, NEW p \in Procs, ReadFaults(p)
  PROVE  IInv'
<1>1. UNCHANGED dev /\ rd' = [rd EXCEPT ![p] = None] /\ p \in Reading /\ fault' = "read" /\ ~HasRegmap(p)
  BY DEF ReadFaults, Fetching, Fetched, HasRegmap, Reading
<1>2. (Users /\ Fetches /\ Overlaps /\ Stores /\ ReadExact)'
  <2>1. \A q \in Procs : Going(q) /\ kind = "icm" /\ ~rd[q].moved =>
          \A i \in 1 .. rd[q].stored : dev'[rd[q].dev][i] = meas[Axes[i]]
    BY <1>1 DEF IInv, Stores
  <2>. QED  BY <1>1, <2>1, OneRead
<1>3. rd[p].dev \in 1 .. made /\ made \in Nat /\ oldest \in Nat \ {0} /\ made > 0
  <2>1. rd[p].dev \in 1 .. made
    BY <1>1 DEF IInv, Users, ReadOK
  <2>2. made \in Nat /\ oldest \in Nat \ {0}
    BY MadeNat
  <2>. QED  BY <2>1, <2>2
<1>4. ~(made = 1 /\ oldest = 1 /\ mod # "gone" /\ "regmap" \in held /\ at # <<"init", 2>>)
  BY <1>1, <1>3 DEF HasRegmap, HasCode, Unregistered
<1>5. kind = "icm"
  <2>1. CASE kind = "ap"
    <3>1. made = 1 /\ oldest = 1 /\ at \in {<<"on", 0>>, <<"exit", 1>>}
      BY <1>3, <2>1 DEF IInv, Made
    <3>2. mod # "gone" /\ "regmap" \in held
      BY <3>1, ModValues
    <3>. QED  BY <1>4, <3>1, <3>2
  <2>. QED  BY <2>1 DEF IInv, Bind, Kinds
<1>6. byHand \/ oldest > 1 \/ mod \in {"going", "gone"}
  <2>1. SUFFICES ASSUME ~byHand, oldest = 1, mod \in {"coming", "live"}
                 PROVE  FALSE
    <3>1. mod \in {"going", "gone", "coming", "live"}
      BY ModValues
    <3>. QED  BY <1>3, <3>1
  <2>2. made = 1 /\ at \in {<<"init", 3>>, <<"init", 4>>, <<"on", 0>>}
    BY <1>3, <2>1 DEF IInv, Made
  <2>3. mod # "gone" /\ "regmap" \in held
    BY <2>2, ModValues
  <2>. QED  BY <1>4, <2>1, <2>2, <2>3
<1>7. Bind' /\ Chip'
  BY <1>1 DEF IInv, SameDriver, Bind, Rung, Chip, Measurements, Zero
<1>8. Made' /\ NoFault'
  BY <1>1, <1>3, <1>5, <1>6 DEF IInv, SameDriver, Made, NoFault
<1>. QED  BY <1>2, <1>7, <1>8 DEF IInv

-----------------------------------------------------------------------------
(* What the registers hold. *)

LEMMA AxesFacts ==
  /\ Len(Axes) \in Nat /\ DOMAIN Axes = 1 .. Len(Axes)
  /\ \A i \in DOMAIN Axes : Axes[i] \in Range(Axes) /\ Axes[i] \notin {"als", "ir", "ps"}
<1>1. Len(Axes) \in Nat /\ DOMAIN Axes = 1 .. Len(Axes)
  BY AxesAssumption
<1>2. \A i \in DOMAIN Axes : Axes[i] \in Range(Axes)
  BY DEF Range
<1>. QED  BY <1>1, <1>2, AxesAssumption

LEMMA MeasuredAp ==
  ASSUME IInv, kind = "ap"
  PROVE  meas \in [ir : Bits10, als : Word, ps : Bits10, over : BOOLEAN, near : BOOLEAN]
<1>1. CASE meas \in Light
  BY <1>1, MeasureAssumption
<1>2. CASE meas = [ir |-> 0, als |-> 0, ps |-> 0, over |-> FALSE, near |-> FALSE]
  <2>1. 0 \in Bits10 /\ 0 \in Word
    BY Widths
  <2>. QED  BY <1>2, <2>1
<1>. QED  BY <1>1, <1>2 DEF IInv, Chip, Measurements, Zero

LEMMA MeasuredIcm ==
  ASSUME IInv, kind = "icm", NEW i \in DOMAIN Axes
  PROVE  meas[Axes[i]] \in Signed16
<1>1. meas \in Motion \/ meas = [a \in Range(Axes) |-> 0]
  BY DEF IInv, Chip, Measurements, Zero
<1>2. Motion \subseteq [Range(Axes) -> Signed16]
  BY MeasureAssumption
<1>3. meas \in [Range(Axes) -> Signed16]
  <2>1. 0 \in Signed16
    BY Widths
  <2>. QED  BY <1>1, <1>2, <2>1
<1>4. Axes[i] \in Range(Axes)
  BY AxesFacts
<1>. QED  BY <1>3, <1>4

\* The two registers of a quantity of the ICM20608's ...
LEMMA RegistersIcm ==
  ASSUME kind = "icm", NEW i \in Nat \ {0}
  PROVE  /\ Register(2 * i - 1) = AxisBytes(meas[Axes[i]])[1]
         /\ Register(2 * i) = AxisBytes(meas[Axes[i]])[2]
<1>1. /\ ((2 * i - 1) + 1) \div 2 = i /\ (2 * i - 1) % 2 = 1
      /\ (2 * i + 1) \div 2 = i /\ (2 * i) % 2 = 0
  OBVIOUS
<1>2. \A n : Register(n) = AxisBytes(meas[Axes[(n + 1) \div 2]])[IF n % 2 = 1 THEN 1 ELSE 2]
  BY DEF Register
<1>3. Register(2 * i - 1) = AxisBytes(meas[Axes[i]])[1]
  BY <1>1, <1>2, Zenon
<1>4. Register(2 * i) = AxisBytes(meas[Axes[i]])[2]
  <2>1. (2 * i) % 2 # 1
    BY <1>1
  <2>. QED  BY <1>1, <1>2, <2>1, Zenon
<1>. QED  BY <1>3, <1>4

\* ... and the six of the AP3216C.
LEMMA RegistersAp ==
  ASSUME kind = "ap"
  PROVE  /\ Register(1) = IrBytes(meas.ir, meas.over)[1] /\ Register(2) = IrBytes(meas.ir, meas.over)[2]
         /\ Register(3) = AlsBytes(meas.als)[1] /\ Register(4) = AlsBytes(meas.als)[2]
         /\ Register(5) = PsBytes(meas.ps, meas.over, meas.near)[1]
         /\ Register(6) = PsBytes(meas.ps, meas.over, meas.near)[2]
<1>1. /\ (1 + 1) \div 2 = 1 /\ (2 + 1) \div 2 = 1 /\ (3 + 1) \div 2 = 2
      /\ (4 + 1) \div 2 = 2 /\ (5 + 1) \div 2 = 3 /\ (6 + 1) \div 2 = 3
      /\ 1 % 2 = 1 /\ 2 % 2 = 0 /\ 3 % 2 = 1 /\ 4 % 2 = 0 /\ 5 % 2 = 1 /\ 6 % 2 = 0
      /\ 0 # 1 /\ 1 # 2 /\ 1 # 3 /\ 2 # 3
  OBVIOUS
<1>2. kind # "icm"
  OBVIOUS
<1>. QED  BY <1>1, <1>2 DEF Register

LEMMA RegisterByte ==
  ASSUME IInv, NEW n \in 1 .. Registers
  PROVE  Register(n) \in Byte
<1>1. CASE kind = "ap"
  <2>1. n \in {1, 2, 3, 4, 5, 6}
    BY <1>1 DEF Registers
  <2>2. /\ meas.ir \in Bits10 /\ meas.als \in Word /\ meas.ps \in Bits10
        /\ meas.over \in BOOLEAN /\ meas.near \in BOOLEAN
    BY <1>1, MeasuredAp
  <2>3. \A j \in {1, 2} : /\ IrBytes(meas.ir, meas.over)[j] \in Byte
                          /\ AlsBytes(meas.als)[j] \in Byte
                          /\ PsBytes(meas.ps, meas.over, meas.near)[j] \in Byte
    <3>1. 1 .. 2 = {1, 2}
      OBVIOUS
    <3>. QED  BY <2>2, <3>1, IrRoundTrip, AlsRoundTrip, PsRoundTrip, Zenon
  <2>. QED  BY <1>1, <2>1, <2>3, RegistersAp
<1>2. CASE kind = "icm"
  <2>1. n \in 1 .. 2 * Len(Axes) /\ Len(Axes) \in Nat
    BY <1>2, AxesFacts DEF Registers
  <2>2. PICK i \in 1 .. Len(Axes) : n = 2 * i - 1 \/ n = 2 * i
    <3>1. (n + 1) \div 2 \in 1 .. Len(Axes) /\ (n = 2 * ((n + 1) \div 2) - 1 \/ n = 2 * ((n + 1) \div 2))
      BY <2>1
    <3>. QED  BY <3>1
  <2>3. i \in DOMAIN Axes /\ i \in Nat \ {0}
    BY <2>1, AxesFacts
  <2>4. AxisBytes(meas[Axes[i]])[1] \in Byte /\ AxisBytes(meas[Axes[i]])[2] \in Byte
    BY <1>2, <2>3, MeasuredIcm, AxisRoundTrip
  <2>. QED  BY <1>2, <2>2, <2>3, <2>4, RegistersIcm
<1>. QED  BY <1>1, <1>2 DEF IInv, Bind, Kinds

-----------------------------------------------------------------------------
(* Fetching and converting. *)

LEMMA Fitting ==
  ASSUME IInv, NEW p \in Procs, Going(p)
  PROVE  Fits(p, rd[p], dev)
<1>1. p \in Reading /\ rd[p].val = None /\ ReadOK(rd[p])
  BY DEF Going, IInv, Users
<1>2. /\ ~rd[p].own => \A j \in DOMAIN rd[p].buf : rd[p].buf[j] = Register(j)
      /\ rd[p].own => rd[p].moved /\ \A q \in Procs \ {p} : Going(q) => rd[q].moved
      /\ \A q \in Procs \ {p} : Going(q) /\ rd[q].own => rd[p].moved
  BY DEF IInv, Fetches, Overlaps
<1>3. kind = "icm" /\ ~rd[p].moved => \A i \in 1 .. rd[p].stored : dev[rd[p].dev][i] = meas[Axes[i]]
  BY DEF IInv, Stores
<1>. QED  BY <1>1, <1>2, <1>3, NoneAssumption DEF Fits

LEMMA FetchesReg ==
  ASSUME IInv, SameDriver, NEW p \in Procs, FetchReg(p)
  PROVE  IInv'
<1>1. /\ Going(p) /\ Len(rd[p].buf) < Registers /\ UNCHANGED <<dev, fault>>
      /\ rd' = [rd EXCEPT ![p].buf = Append(@, Register(Len(@) + 1))]
  BY DEF FetchReg, Fetching, Going, Reading
<1>2. Fits(p, rd[p], dev)
  BY <1>1, Fitting
<1>. DEFINE r == rd[p]
            n == Len(r.buf) + 1
            b == Append(r.buf, Register(n))
            s == [r EXCEPT !.buf = b]
<1>3. ReadOK(r) /\ r.val = None /\ r.buf \in Seq(Byte)
  BY <1>1, <1>2 DEF Fits, ReadOK, Going
<1>4. Register(n) \in Byte /\ n <= Registers /\ n \in Nat
  <2>1. Registers \in Nat /\ Len(r.buf) \in Nat
    BY <1>3, AxesFacts DEF Registers
  <2>2. n \in 1 .. Registers
    BY <1>1, <2>1
  <2>. QED  BY <2>1, <2>2, RegisterByte
<1>5. /\ b \in Seq(Byte) /\ Len(b) = n /\ DOMAIN b = 1 .. n /\ b[n] = Register(n)
      /\ DOMAIN r.buf = 1 .. n - 1 /\ \A j \in DOMAIN r.buf : b[j] = r.buf[j]
  <2>. HIDE DEF r
  <2>. QED  BY <1>3, <1>4
<1>6. /\ s.buf = b /\ s.val = r.val /\ s.own = r.own /\ s.moved = r.moved /\ s.stored = r.stored
      /\ s.dev = r.dev /\ s.chan = r.chan /\ s.failed = r.failed
      /\ s \in [dev : 1 .. made, chan : Channels[kind] \cup {None}, buf : Seq(Byte), stored : 0 .. Len(Axes),
                val : Values \cup {None, Error}, own : BOOLEAN, moved : BOOLEAN, failed : BOOLEAN]
  <2>. HIDE DEF b, r
  <2>. QED  BY <1>3, <1>5 DEF ReadOK
<1>7. \A j \in DOMAIN b : j = n \/ j \in DOMAIN r.buf
  <2>. HIDE DEF b, r
  <2>. QED  BY <1>4, <1>5
<1>8. rd' = [rd EXCEPT ![p] = s]
  BY <1>1
<1>. HIDE DEF s, b, n, r
<1>9. r = rd[p]
  BY DEF r
<1>10. ReadOK(s)
  BY <1>3, <1>4, <1>5, <1>6 DEF ReadOK
<1>11. ~s.own => \A j \in DOMAIN s.buf : s.buf[j] = Register(j)
  BY <1>2, <1>3, <1>5, <1>6, <1>7, <1>9 DEF Fits
<1>12. Fits(p, s, dev)
  BY <1>2, <1>3, <1>6, <1>9, <1>10, <1>11, NoneAssumption DEF Fits
<1>. QED  BY <1>1, <1>8, <1>12, GoesOn

LEMMA FetchesFail ==
  ASSUME IInv, SameDriver, NEW p \in Procs, FetchFails(p)
  PROVE  IInv'
<1>1. /\ Going(p) /\ UNCHANGED <<dev, fault>>
      /\ rd' = [rd EXCEPT ![p].val = Error, ![p].failed = TRUE]
  BY DEF FetchFails, Fetching, Going, Reading
<1>. DEFINE r == rd[p]
            s == [r EXCEPT !.val = Error, !.failed = TRUE]
<1>2. ReadOK(r)
  BY <1>1, Fitting DEF Fits
<1>3. /\ s.val = Error /\ s.failed = TRUE /\ s.buf = r.buf
      /\ s \in [dev : 1 .. made, chan : Channels[kind] \cup {None}, buf : Seq(Byte), stored : 0 .. Len(Axes),
                val : Values \cup {None, Error}, own : BOOLEAN, moved : BOOLEAN, failed : BOOLEAN]
  <2>. HIDE DEF r
  <2>. QED  BY <1>2 DEF ReadOK
<1>4. rd' = [rd EXCEPT ![p] = s]
  <2>1. \A q \in DOMAIN rd : rd'[q] = IF q = p THEN s ELSE rd[q]
    BY <1>1
  <2>2. rd' = [q \in DOMAIN rd |-> rd'[q]]
    BY <1>1
  <2>. HIDE DEF s
  <2>. QED  BY <2>1, <2>2
<1>. HIDE DEF s, r
<1>5. Fits(p, s, dev)
  BY <1>2, <1>3, NoneAssumption DEF Fits, ReadOK
<1>. QED  BY <1>1, <1>4, <1>5, GoesOn

\* What readdata takes from a buffer.
LEMMA Pairs ==
  ASSUME NEW b \in Seq(Byte), NEW m \in Nat, NEW n \in Nat, 1 <= m, n = m + 1, n <= Len(b)
  PROVE  /\ SubSeq(b, m, n)[1] = b[m] /\ SubSeq(b, m, n)[2] = b[n]
         /\ b[m] \in Byte /\ b[n] \in Byte
<1>1. Len(b) \in Nat /\ DOMAIN b = 1 .. Len(b)
  OBVIOUS
<1>2. m \in 1 .. Len(b) /\ n \in 1 .. Len(b)
  BY <1>1
<1>3. b[m] \in Byte /\ b[n] \in Byte
  BY <1>1, <1>2
<1>4. Len(SubSeq(b, m, n)) = 2 /\ \A i \in 1 .. 2 : SubSeq(b, m, n)[i] = b[m + i - 1]
  BY <1>1, <1>2, SubSeqProperties
<1>5. SubSeq(b, m, n)[1] = b[m + 1 - 1] /\ SubSeq(b, m, n)[2] = b[m + 2 - 1]
  BY <1>4
<1>6. m + 1 - 1 = m /\ m + 2 - 1 = n
  OBVIOUS
<1>. QED  BY <1>3, <1>5, <1>6

LEMMA ValueOf ==
  ASSUME NEW b, b[1] \in Byte, b[2] \in Byte
  PROVE  IrValue(b) \in Word /\ AlsValue(b) \in Word /\ PsValue(b) \in Word /\ AxisValue(b) \in Signed16
<1>1. PICK x \in Int, y \in Int : x = b[1] /\ y = b[2] /\ 0 <= x /\ x <= 255 /\ 0 <= y /\ y <= 255
  <2>1. \A v \in Byte : v \in Int /\ 0 <= v /\ v <= 255
    BY Widths
  <2>. b[1] \in Int /\ b[2] \in Int
    BY <2>1
  <2>. WITNESS b[1] \in Int, b[2] \in Int
  <2>. QED  BY <2>1
<1>2. 0 <= 4 * y + (x % 4) /\ 4 * y + (x % 4) <= 65535 /\ 4 * y + (x % 4) \in Int /\ 0 \in Int
  BY <1>1
<1>3. 0 <= 256 * y + x /\ 256 * y + x <= 65535 /\ 256 * y + x \in Int
  BY <1>1
<1>4. 0 <= 16 * (y % 64) + (x % 16) /\ 16 * (y % 64) + (x % 16) <= 65535 /\ 16 * (y % 64) + (x % 16) \in Int
  BY <1>1
<1>5. \E u \in Int : u = 256 * x + y /\ 0 <= u /\ u <= 65535
  BY <1>1
<1>6. IrValue(b) \in Word
  BY <1>1, <1>2, Widths DEF IrValue
<1>7. AlsValue(b) \in Word
  BY <1>1, <1>3, Widths DEF AlsValue
<1>8. PsValue(b) \in Word
  BY <1>1, <1>2, <1>4, Widths DEF PsValue
<1>9. AxisValue(b) \in Signed16
  <2>1. PICK u \in Int : u = 256 * x + y /\ 0 <= u /\ u <= 65535
    BY <1>5
  <2>2. AxisValue(b) = IF u < 32768 THEN u ELSE u - 65536
    BY <1>1, <2>1 DEF AxisValue
  <2>3. CASE u < 32768
    BY <2>1, <2>2, <2>3, Widths
  <2>4. CASE ~(u < 32768)
    <3>1. u - 65536 \in Int /\ -32768 <= u - 65536 /\ u - 65536 < 32768
      BY <2>1, <2>4
    <3>. QED  BY <2>2, <2>4, <3>1, Widths
  <2>. QED  BY <2>3, <2>4
<1>. QED  BY <1>6, <1>7, <1>8, <1>9

LEMMA SamePair ==
  ASSUME NEW b, NEW c, b[1] = c[1], b[2] = c[2]
  PROVE  /\ IrValue(b) = IrValue(c) /\ AlsValue(b) = AlsValue(c)
         /\ PsValue(b) = PsValue(c) /\ AxisValue(b) = AxisValue(c)
BY DEF IrValue, AlsValue, PsValue, AxisValue

\* The value of a read whose bytes are the registers' is the chip's.
LEMMA ConvertsAp ==
  ASSUME IInv, kind = "ap", NEW b \in Seq(Byte), Len(b) = 6
  PROVE  /\ IrValue(SubSeq(b, 1, 2)) \in Word /\ AlsValue(SubSeq(b, 3, 4)) \in Word
         /\ PsValue(SubSeq(b, 5, 6)) \in Word
         /\ (\A j \in DOMAIN b : b[j] = Register(j)) =>
              /\ IrValue(SubSeq(b, 1, 2)) = Truth("ir")
              /\ AlsValue(SubSeq(b, 3, 4)) = Truth("als")
              /\ PsValue(SubSeq(b, 5, 6)) = Truth("ps")
<1>1. /\ SubSeq(b, 1, 2)[1] = b[1] /\ SubSeq(b, 1, 2)[2] = b[2] /\ b[1] \in Byte /\ b[2] \in Byte
      /\ SubSeq(b, 3, 4)[1] = b[3] /\ SubSeq(b, 3, 4)[2] = b[4] /\ b[3] \in Byte /\ b[4] \in Byte
      /\ SubSeq(b, 5, 6)[1] = b[5] /\ SubSeq(b, 5, 6)[2] = b[6] /\ b[5] \in Byte /\ b[6] \in Byte
  BY Pairs
<1>2. /\ IrValue(SubSeq(b, 1, 2)) \in Word /\ AlsValue(SubSeq(b, 3, 4)) \in Word
      /\ PsValue(SubSeq(b, 5, 6)) \in Word
  BY <1>1, ValueOf
<1>3. ASSUME \A j \in DOMAIN b : b[j] = Register(j)
      PROVE  /\ IrValue(SubSeq(b, 1, 2)) = Truth("ir")
             /\ AlsValue(SubSeq(b, 3, 4)) = Truth("als")
             /\ PsValue(SubSeq(b, 5, 6)) = Truth("ps")
  <2>1. /\ meas.ir \in Bits10 /\ meas.als \in Word /\ meas.ps \in Bits10
        /\ meas.over \in BOOLEAN /\ meas.near \in BOOLEAN
    BY MeasuredAp
  <2>2. {1, 2, 3, 4, 5, 6} \subseteq DOMAIN b
    OBVIOUS
  <2>3. IrValue(SubSeq(b, 1, 2)) = IrValue(IrBytes(meas.ir, meas.over))
    BY <1>1, <1>3, <2>2, RegistersAp, SamePair
  <2>4. AlsValue(SubSeq(b, 3, 4)) = AlsValue(AlsBytes(meas.als))
    BY <1>1, <1>3, <2>2, RegistersAp, SamePair
  <2>5. PsValue(SubSeq(b, 5, 6)) = PsValue(PsBytes(meas.ps, meas.over, meas.near))
    BY <1>1, <1>3, <2>2, RegistersAp, SamePair
  <2>6. IrValue(SubSeq(b, 1, 2)) = IF meas.over THEN 0 ELSE meas.ir
    BY <2>1, <2>3, IrRoundTrip
  <2>7. AlsValue(SubSeq(b, 3, 4)) = meas.als
    BY <2>1, <2>4, AlsRoundTrip
  <2>8. PsValue(SubSeq(b, 5, 6)) = IF meas.over THEN 0 ELSE meas.ps
    BY <2>1, <2>5, PsRoundTrip
  <2>. QED  BY <2>6, <2>7, <2>8 DEF Truth
<1>. QED  BY <1>2, <1>3

LEMMA ConvertsIcm ==
  ASSUME IInv, kind = "icm", NEW b \in Seq(Byte), Len(b) = 2 * Len(Axes), NEW i \in DOMAIN Axes
  PROVE  /\ AxisValue(SubSeq(b, 2 * i - 1, 2 * i)) \in Signed16
         /\ (\A j \in DOMAIN b : b[j] = Register(j)) => AxisValue(SubSeq(b, 2 * i - 1, 2 * i)) = meas[Axes[i]]
<1>1. /\ i \in Nat \ {0} /\ 2 * i - 1 \in Nat /\ 2 * i \in Nat /\ 1 <= 2 * i - 1
      /\ 2 * i = (2 * i - 1) + 1 /\ 2 * i <= Len(b) /\ 2 * i - 1 \in DOMAIN b /\ 2 * i \in DOMAIN b
  BY AxesFacts
<1>2. /\ SubSeq(b, 2 * i - 1, 2 * i)[1] = b[2 * i - 1] /\ SubSeq(b, 2 * i - 1, 2 * i)[2] = b[2 * i]
      /\ b[2 * i - 1] \in Byte /\ b[2 * i] \in Byte
  BY <1>1, Pairs
<1>3. AxisValue(SubSeq(b, 2 * i - 1, 2 * i)) \in Signed16
  BY <1>2, ValueOf
<1>4. ASSUME \A j \in DOMAIN b : b[j] = Register(j)
      PROVE  AxisValue(SubSeq(b, 2 * i - 1, 2 * i)) = meas[Axes[i]]
  <2>1. /\ b[2 * i - 1] = AxisBytes(meas[Axes[i]])[1] /\ b[2 * i] = AxisBytes(meas[Axes[i]])[2]
    BY <1>1, <1>4, RegistersIcm
  <2>2. AxisValue(SubSeq(b, 2 * i - 1, 2 * i)) = AxisValue(AxisBytes(meas[Axes[i]]))
    BY <1>2, <2>1, SamePair
  <2>. QED  BY <2>2, MeasuredIcm, AxisRoundTrip
<1>. QED  BY <1>3, <1>4

LEMMA ValuesFacts ==
  /\ kind = "ap" => Values = Word
  /\ kind = "icm" => Values = Signed16
  /\ \A v \in Word \cup Signed16 : v # None /\ v # Error
<1>1. (kind = "ap" => Values = Word) /\ (kind = "icm" => Values = Signed16)
  BY DEF Values
<1>2. \A v \in Word \cup Signed16 : v \in Int
  BY Widths
<1>. QED  BY <1>1, <1>2, NoneAssumption

LEMMA ConvertsAps ==
  ASSUME IInv, SameDriver, NEW p \in Procs, ConvertAp(p)
  PROVE  IInv'
<1>. DEFINE r == rd[p]
            b == r.buf
            Value(c) == CASE c = "ir"  -> IrValue(SubSeq(b, 1, 2))
                          [] c = "als" -> AlsValue(SubSeq(b, 3, 4))
                          [] c = "ps"  -> PsValue(SubSeq(b, 5, 6))
            S(c) == [r EXCEPT !.chan = c, !.val = Value(c)]
<1>1. /\ kind = "ap" /\ Going(p) /\ Len(b) = Registers /\ UNCHANGED <<dev, fault>>
      /\ Fits(p, r, dev)
  BY Fitting DEF ConvertAp, Fetched, Going, Reading
<1>2. PICK c \in {"als", "ir", "ps"} : rd' = [rd EXCEPT ![p].chan = c, ![p].val = Value(c)]
  BY DEF ConvertAp, Channels
<1>3. ReadOK(r) /\ r.val = None /\ b \in Seq(Byte) /\ Len(b) = 6 /\ ~r.failed
  BY <1>1 DEF Fits, ReadOK, Going, Registers
<1>4. Value(c) \in Word /\ ((\A j \in DOMAIN b : b[j] = Register(j)) => Value(c) = Truth(c))
  <2>. HIDE DEF b
  <2>. QED  BY <1>1, <1>2, <1>3, ConvertsAp
<1>. HIDE DEF Value
<1>5. Value(c) # None /\ Value(c) # Error /\ Value(c) \in Values
  BY <1>1, <1>4, ValuesFacts
<1>. DEFINE s == S(c)
<1>6. /\ s.val = Value(c) /\ s.chan = c /\ s.own = r.own /\ s.failed = r.failed /\ s.buf = b
      /\ s \in [dev : 1 .. made, chan : Channels[kind] \cup {None}, buf : Seq(Byte), stored : 0 .. Len(Axes),
                val : Values \cup {None, Error}, own : BOOLEAN, moved : BOOLEAN, failed : BOOLEAN]
  <2>1. c \in Channels[kind] \cup {None}
    BY <1>1, <1>2 DEF Channels
  <2>. HIDE DEF r
  <2>. QED  BY <1>3, <1>5, <2>1 DEF ReadOK
<1>7. rd' = [rd EXCEPT ![p] = s]
  <2>1. \A q \in DOMAIN rd : rd'[q] = IF q = p THEN s ELSE rd[q]
    BY <1>2
  <2>2. rd' = [q \in DOMAIN rd |-> rd'[q]]
    BY <1>2
  <2>. HIDE DEF s
  <2>. QED  BY <2>1, <2>2
<1>. HIDE DEF s, S
<1>8. ReadOK(s)
  BY <1>3, <1>5, <1>6 DEF ReadOK
<1>9. ~s.own => s.val = Truth(s.chan)
  BY <1>1, <1>3, <1>4, <1>6 DEF Fits
<1>10. Fits(p, s, dev)
  BY <1>1, <1>3, <1>5, <1>6, <1>8, <1>9 DEF Fits
<1>. QED  BY <1>1, <1>7, <1>10, GoesOn

LEMMA LoadsAxis ==
  ASSUME IInv, SameDriver, NEW p \in Procs, LoadAxis(p)
  PROVE  IInv'
<1>. DEFINE r == rd[p]
<1>1. kind = "icm" /\ Going(p) /\ r.stored = Len(Axes) /\ UNCHANGED <<dev, fault>> /\ Fits(p, r, dev)
  BY Fitting DEF LoadAxis, Fetched, Going, Reading
<1>2. ReadOK(r) /\ r.val = None /\ ~r.failed
  BY <1>1 DEF Fits, ReadOK, Going
<1>3. ASSUME NEW c \in Channels["icm"], NEW v \in Values \cup {Error}, rd' = [rd EXCEPT ![p].chan = c, ![p].val = v],
             v = Error => c = "temp", v # Error /\ ~r.moved => v = Truth(c)
      PROVE  IInv'
  <2>. DEFINE s == [r EXCEPT !.chan = c, !.val = v]
  <2>1. /\ s.val = v /\ s.chan = c /\ s.moved = r.moved /\ s.failed = r.failed /\ s.buf = r.buf
        /\ s \in [dev : 1 .. made, chan : Channels[kind] \cup {None}, buf : Seq(Byte), stored : 0 .. Len(Axes),
                  val : Values \cup {None, Error}, own : BOOLEAN, moved : BOOLEAN, failed : BOOLEAN]
    <3>. HIDE DEF r
    <3>. QED  BY <1>1, <1>2, <1>3 DEF ReadOK
  <2>2. rd' = [rd EXCEPT ![p] = s]
    <3>1. \A q \in DOMAIN rd : rd'[q] = IF q = p THEN s ELSE rd[q]
      BY <1>3
    <3>2. rd' = [q \in DOMAIN rd |-> rd'[q]]
      BY <1>3
    <3>. HIDE DEF s
    <3>. QED  BY <3>1, <3>2
  <2>. HIDE DEF s
  <2>3. v # None
    BY <1>1, Widths, NoneAssumption DEF Values
  <2>4. ReadOK(s)
    BY <1>2, <2>1, <2>3 DEF ReadOK
  <2>5. Fits(p, s, dev)
    BY <1>1, <1>2, <1>3, <2>1, <2>3, <2>4 DEF Fits
  <2>. QED  BY <1>1, <2>2, <2>5, GoesOn
<1>4. CASE rd' = [rd EXCEPT ![p].chan = "temp", ![p].val = Error]
  <2>1. "temp" \in Channels["icm"]
    BY DEF Channels
  <2>. QED  BY <1>3, <1>4, <2>1
<1>5. ASSUME NEW i \in DOMAIN Axes, rd' = [rd EXCEPT ![p].chan = Axes[i], ![p].val = dev[r.dev][i]]
      PROVE  IInv'
  <2>1. Axes[i] \in Channels["icm"] /\ Axes[i] \notin {"ir", "ps"}
    BY AxesFacts DEF Channels
  <2>2. dev[r.dev][i] \in Signed16
    <3>1. dev \in [1 .. Devices -> [DOMAIN Axes -> Signed16]] /\ made \in 0 .. Devices /\ Devices \in Nat
      BY BoundAssumption DEF IInv, Chip, Made
    <3>2. r.dev \in 1 .. made
      BY <1>2 DEF ReadOK
    <3>3. r.dev \in 1 .. Devices
      <4>. HIDE DEF r
      <4>. QED  BY <3>1, <3>2
    <3>. QED  BY <3>1, <3>3
  <2>3. dev[r.dev][i] \in Values /\ dev[r.dev][i] # Error
    BY <1>1, <2>2, ValuesFacts
  <2>4. ~r.moved => dev[r.dev][i] = Truth(Axes[i])
    <3>1. i \in 1 .. r.stored
      BY <1>1, AxesFacts
    <3>2. ~r.moved => dev[r.dev][i] = meas[Axes[i]]
      BY <1>1, <1>2, <3>1 DEF Fits
    <3>. QED  BY <2>1, <3>2 DEF Truth
  <2>. QED  BY <1>3, <1>5, <2>1, <2>3, <2>4
<1>. QED  BY <1>4, <1>5 DEF LoadAxis

\* One value is stored in the structure that the reads share.
LEMMA StoresAxis ==
  ASSUME IInv, SameDriver, NEW p \in Procs, StoreAxis(p)
  PROVE  IInv'
<1>. DEFINE r == rd[p]
            i == r.stored + 1
            v == AxisValue(SubSeq(r.buf, 2 * i - 1, 2 * i))
            s == [r EXCEPT !.stored = i]
<1>1. /\ kind = "icm" /\ Going(p) /\ Len(r.buf) = Registers /\ r.stored < Len(Axes)
      /\ dev' = [dev EXCEPT ![r.dev][i] = v] /\ rd' = [rd EXCEPT ![p].stored = i]
      /\ UNCHANGED fault /\ Fits(p, r, dev)
  BY Fitting DEF StoreAxis, Fetched, Going, Reading
<1>2. ReadOK(r) /\ r.val = None /\ ~r.failed
  BY <1>1 DEF Fits, ReadOK, Going
<1>3. /\ r.buf \in Seq(Byte) /\ Len(r.buf) = 2 * Len(Axes) /\ i \in DOMAIN Axes /\ i \in 1 .. Len(Axes)
      /\ r.stored \in Nat /\ r.dev \in 1 .. made
  <2>1. r.buf \in Seq(Byte) /\ r.stored \in 0 .. Len(Axes) /\ r.dev \in 1 .. made
    BY <1>2 DEF ReadOK
  <2>2. Len(r.buf) = 2 * Len(Axes)
    BY <1>1 DEF Registers
  <2>. HIDE DEF r
  <2>. QED  BY <1>1, <2>1, <2>2, AxesFacts
<1>4. v \in Signed16 /\ (~r.moved => v = meas[Axes[i]])
  <2>1. ~r.moved => \A j \in DOMAIN r.buf : r.buf[j] = Register(j)
    BY <1>1, <1>2 DEF Fits
  <2>. HIDE DEF r, i
  <2>. QED  BY <1>1, <1>3, <2>1, ConvertsIcm
<1>. HIDE DEF v
<1>5. /\ dev' \in [1 .. Devices -> [DOMAIN Axes -> Signed16]]
      /\ dev'[r.dev][i] = v
      /\ \A g \in 1 .. Devices, j \in DOMAIN Axes : g # r.dev \/ j # i => dev'[g][j] = dev[g][j]
  <2>1. dev \in [1 .. Devices -> [DOMAIN Axes -> Signed16]]
    BY DEF IInv, Chip
  <2>2. r.dev \in 1 .. Devices
    <3>1. made \in 0 .. Devices /\ Devices \in Nat
      BY BoundAssumption DEF IInv, Made
    <3>. HIDE DEF r
    <3>. QED  BY <1>3, <3>1
  <2>. HIDE DEF r, i
  <2>. QED  BY <1>1, <1>3, <1>4, <2>1, <2>2
<1>6. /\ s.stored = i /\ s.val = r.val /\ s.own = r.own /\ s.moved = r.moved /\ s.buf = r.buf
      /\ s.dev = r.dev /\ s.chan = r.chan /\ s.failed = r.failed
      /\ s \in [dev : 1 .. made, chan : Channels[kind] \cup {None}, buf : Seq(Byte), stored : 0 .. Len(Axes),
                val : Values \cup {None, Error}, own : BOOLEAN, moved : BOOLEAN, failed : BOOLEAN]
  <2>1. i \in 0 .. Len(Axes)
    BY <1>3, AxesFacts
  <2>. HIDE DEF r, i
  <2>. QED  BY <1>2, <2>1 DEF ReadOK
<1>7. rd' = [rd EXCEPT ![p] = s]
  BY <1>1
<1>. HIDE DEF s
<1>8. ReadOK(s)
  BY <1>2, <1>6 DEF ReadOK
\* Had a register moved under this read, the others would know.
<1>9. \A q \in Procs : Going(q) /\ ~rd[q].moved => v = meas[Axes[i]]
  <2>1. \A q \in Procs : Going(q) /\ ~rd[q].moved => ~r.own
    BY <1>1 DEF IInv, Overlaps
  <2>2. ~r.own => v = meas[Axes[i]]
    <3>1. ~r.own => \A j \in DOMAIN r.buf : r.buf[j] = Register(j)
      BY <1>1, <1>2 DEF Fits
    <3>. HIDE DEF r, i
    <3>. QED  BY <1>1, <1>3, <3>1, ConvertsIcm DEF v
  <2>. QED  BY <2>1, <2>2
<1>10. \A q \in Procs \ {p} : Going(q) /\ ~rd[q].moved =>
         \A j \in 1 .. rd[q].stored : dev'[rd[q].dev][j] = meas[Axes[j]]
  <2>. SUFFICES ASSUME NEW q \in Procs \ {p}, Going(q), ~rd[q].moved, NEW j \in 1 .. rd[q].stored
                PROVE  dev'[rd[q].dev][j] = meas[Axes[j]]
    OBVIOUS
  <2>1. dev[rd[q].dev][j] = meas[Axes[j]]
    BY <1>1 DEF IInv, Stores
  <2>2. rd[q].dev \in 1 .. Devices /\ j \in DOMAIN Axes
    <3>1. rd[q].dev \in 1 .. made /\ rd[q].stored \in 0 .. Len(Axes)
      BY DEF IInv, Users, ReadOK, Going
    <3>2. made \in 0 .. Devices /\ Devices \in Nat
      BY BoundAssumption DEF IInv, Made
    <3>. QED  BY <3>1, <3>2, AxesFacts
  <2>3. CASE rd[q].dev = r.dev /\ j = i
    BY <1>5, <1>9, <2>3
  <2>4. CASE rd[q].dev # r.dev \/ j # i
    BY <1>5, <2>1, <2>2, <2>4
  <2>. QED  BY <2>3, <2>4
<1>11. ~r.moved => \A j \in 1 .. i : dev'[r.dev][j] = meas[Axes[j]]
  <2>. SUFFICES ASSUME ~r.moved, NEW j \in 1 .. i
                PROVE  dev'[r.dev][j] = meas[Axes[j]]
    OBVIOUS
  <2>1. CASE j = i
    BY <1>4, <1>5, <2>1
  <2>2. CASE j # i
    <3>1. j \in 1 .. r.stored /\ j \in DOMAIN Axes
      <4>. HIDE DEF r
      <4>. QED  BY <1>3, <2>2, AxesFacts
    <3>2. dev[r.dev][j] = meas[Axes[j]]
      BY <1>1, <1>2, <3>1 DEF Fits
    <3>3. r.dev \in 1 .. Devices
      <4>1. made \in 0 .. Devices /\ Devices \in Nat
        BY BoundAssumption DEF IInv, Made
      <4>. HIDE DEF r
      <4>. QED  BY <1>3, <4>1
    <3>. QED  BY <1>5, <2>2, <3>1, <3>2, <3>3
  <2>. QED  BY <2>1, <2>2
<1>12. Fits(p, s, dev')
  <2>. HIDE DEF i
  <2>. QED  BY <1>1, <1>2, <1>6, <1>8, <1>11, NoneAssumption DEF Fits
<1>13. (Users /\ Fetches /\ Overlaps /\ Stores /\ ReadExact)'
  BY <1>7, <1>10, <1>12, OneRead
<1>14. (Bind /\ Made /\ Chip /\ NoFault)'
  BY <1>1, <1>5 DEF IInv, SameDriver, Bind, Rung, Made, Chip, NoFault, Measurements, Zero
<1>. QED  BY <1>13, <1>14 DEF IInv

-----------------------------------------------------------------------------
(* The theorems. *)

LEMMA Initially == Init => IInv
<1>. SUFFICES ASSUME Init PROVE IInv
  OBVIOUS
<1>1. at = <<"off", 0>> /\ held = {} /\ mod = "gone" /\ byHand = FALSE /\ kind \in Kinds
  BY DEF Init, Core!DriverInit, Core!Init
<1>2. Bind
  BY <1>1 DEF Bind, Places, Rung
<1>3. Made /\ NoFault
  <2>1. 0 \in 0 .. Devices /\ 1 \in 1 .. 0 + 1
    BY BoundAssumption
  <2>. QED  BY <1>1, <2>1 DEF Init, Made, NoFault
<1>4. Chip
  <2>1. 0 \in 0 .. Changes /\ 0 \in Signed16
    BY BoundAssumption, Widths
  <2>. QED  BY <2>1 DEF Init, Chip
<1>5. Users /\ Fetches /\ Overlaps /\ Stores /\ ReadExact
  <2>1. DOMAIN rd = Procs /\ Reading = {}
    BY DEF Init, Reading
  <2>. QED  BY <2>1 DEF Users, Fetches, Overlaps, Stores, ReadExact, Going
<1>. QED  BY <1>2, <1>3, <1>4, <1>5 DEF IInv, Init

LEMMA Inductive == IInv /\ [Next]_vars => IInv'
<1>. SUFFICES ASSUME IInv, [Next]_vars PROVE IInv'
  OBVIOUS
<1>1. CASE UNCHANGED vars
  <2>1. SameDriver /\ UNCHANGED <<dev, fault, rd>>
    BY <1>1 DEF vars, SameDriver
  <2>2. UNCHANGED <<kind, dev, rd, meas>> /\ made' \in Nat /\ made <= made'
    BY <2>1, MadeNat DEF SameDriver
  <2>. QED  BY <2>1, <2>2, SameBind, UsersKept DEF IInv
<1>2. CASE Measure /\ UNCHANGED kind
  BY <1>2, Measures
<1>3. ASSUME NEW k \in Kinds, kind = k, UNCHANGED kind,
             \/ Insmod(k) \/ Rebind(k) \/ InitRegmap(k) \/ RegisterIio(k)
             \/ Reset(k) \/ Enable(k) \/ RemoveIcm(k)
      PROVE  IInv'
  BY <1>3, Insmods, Rebinds, Regmaps, Registrations, Inits, Removes
<1>4. CASE RemoveAp /\ UNCHANGED kind
  BY <1>4, Dies
<1>5. ASSUME NEW p \in Procs, Read(p), UNCHANGED kind  PROVE IInv'
  <2>1. SameDriver
    BY <1>5 DEF Read, SameDriver
  <2>. QED  BY <1>5, <2>1, ReadBegins, FetchesReg, FetchesFail, ReadsFault, ConvertsAps, StoresAxis, LoadsAxis, ReadEnds
            DEF Read
<1>. QED  BY <1>1, <1>2, <1>3, <1>4, <1>5 DEF Next

LEMMA Invariant == Spec => []IInv
BY Initially, Inductive, PTL DEF Spec

\* Every variable has its type, for any number of processes, of devices and of
\* quantities.
THEOREM IioTypes == Spec => []TypeOK
<1>1. IInv => TypeOK
  <2>. SUFFICES ASSUME IInv PROVE TypeOK
    OBVIOUS
  <2>1. ASSUME NEW k \in Kinds, kind = k PROVE Core(k)!DriverTypeOK
    <3>1. Rung /\ mod \in {"gone", "coming", "live", "going"} /\ byHand \in BOOLEAN /\ at \in Places(k)
      BY <2>1, ModValues DEF IInv, Bind
    <3>2. /\ DOMAIN Acquired[k] = IF k = "icm" THEN 1 .. 4 ELSE 1 .. 2
          /\ DOMAIN Released[k] = 1 .. 1 /\ Acquired[k][1] = "regmap"
      BY Tables DEF Kinds
    <3>3. /\ 1 \in DOMAIN Acquired[k] /\ 2 \in DOMAIN Acquired[k] /\ 1 \in DOMAIN Released[k]
          /\ k = "icm" => 3 \in DOMAIN Acquired[k] /\ 4 \in DOMAIN Acquired[k]
      BY <3>2
    <3>4. "regmap" \in Core(k)!Resources
      BY <3>2, <3>3 DEF Core!Resources
    <3>. QED  BY <3>1, <3>3, <3>4 DEF Rung, Places, Core!DriverTypeOK, Core!TypeOK
  <2>2. ASSUME NEW p \in Procs, rd[p] # None
        PROVE  /\ rd[p].dev \in 1 .. made /\ rd[p].chan \in Channels[kind] \cup {None}
               /\ rd[p].buf \in Seq(Byte) /\ Len(rd[p].buf) <= Registers
               /\ rd[p].stored \in 0 .. Len(Axes)
               /\ rd[p].val \in Values \cup {None, Error}
               /\ {rd[p].own, rd[p].moved, rd[p].failed} \subseteq BOOLEAN
    <3>1. ReadOK(rd[p])
      BY <2>2 DEF IInv, Users, Reading
    <3>. QED  BY <3>1 DEF ReadOK
  <2>. QED  BY <2>1, <2>2 DEF TypeOK, IInv, Bind, Made, Chip, Values
<1>. QED  BY Invariant, <1>1, PTL

\* The kernel uses a bad pointer in the two ways that NoFault names and in no
\* other, however reads, probe and remove interleave.
THEOREM IioNoFault == Spec => []NoFault
<1>1. IInv => NoFault
  BY DEF IInv
<1>. QED  BY Invariant, <1>1, PTL

\* What read_raw returns is what the chip holds, unless a register moved while
\* it, or a read it overlaps, was under way: for any number of readers that
\* share the structure without a lock.
THEOREM IioReadExact == Spec => []ReadExact
<1>1. IInv => ReadExact
  BY DEF IInv
<1>. QED  BY Invariant, <1>1, PTL
=============================================================================
