------------------------- MODULE MiscSensorsProofs --------------------------
(***************************************************************************)
(* What the misc drivers of the sensors guarantee although they lock       *)
(* nothing: for any number of processes, of quantities that a read         *)
(* returns, of measurements and of failures of the bus.                    *)
(***************************************************************************)
EXTENDS MiscSensors, WellFoundedInduction, TLAPS

-----------------------------------------------------------------------------
(* The inductive invariant. *)

\* Where probe or remove of driver k is says what the driver holds: the node is
\* there after the regmap and before it goes.
Rung(k) ==
  \/ at \in {<<"off", 0>>, <<"init", 1>>} /\ held = {}
  \/ /\ k = "demo"
     /\ at \in {<<"init", 2>>, <<"on", 0>>, <<"exit", 1>>} /\ held = {"node"}
  \/ /\ k # "demo"
     /\ at \in {<<"init", 2>>, <<"exit", 2>>} /\ held = {"regmap"}
  \/ /\ k # "demo"
     /\ \/ at \in {<<"on", 0>>, <<"exit", 1>>}
        \/ k = "icm" /\ at \in {<<"init", 3>>, <<"init", 4>>}
     /\ held = {"regmap", "node"}

Bind ==
  /\ kind \in Kinds /\ Rung(kind)
  /\ mod \in {"gone", "coming", "live", "going"}
  /\ byHand \in BOOLEAN /\ client \in BOOLEAN
  /\ at[1] = "exit" /\ ~byHand => mod = "going"

\* A file keeps the module, and with it what private_data was set to; as long
\* as nobody unbinds the device by hand, it keeps what probe has acquired.
Files ==
  /\ fd \in [Procs -> {"closed", "opening", "open"}]
  /\ fault \in {"none", "open", "read"}
  /\ \A p \in Procs : fd[p] # "closed" =>
       /\ mod \in {"coming", "live"}
       /\ kind = "demo" => client
       /\ ~byHand => "node" \in held

\* The chip is enabled unless somebody is about to do it.
Chip ==
  /\ chip \in {"reset", "on"} /\ lost \in BOOLEAN
  /\ now \in 0 .. Conversions /\ reg \in {0, now}
  /\ failed \in 0 .. Failures
  /\ ~lost /\ chip # "on" =>
       IF kind = "icm" THEN at # <<"on", 0>>
       ELSE (\E p \in Procs : fd[p] = "opening") \/ ~ \E p \in Procs : fd[p] = "open"

Reads ==
  [buf : Seq(Bytes), stored : 0 .. Channels, data : Seq(Bytes \X Bytes),
   since : Nat, floor : Nat, spoilt : BOOLEAN]

ReadOK(r) ==
  /\ r \in Reads
  /\ Len(r.buf) <= 2 * Channels /\ Len(r.data) <= Channels
  /\ r.floor <= r.since /\ r.since <= now

Users ==
  /\ dev \in [1 .. Channels -> Bytes \X Bytes]
  /\ DOMAIN rd = Procs
  /\ \A p \in Reading : ReadOK(rd[p]) /\ fd[p] = "open"

\* A byte is no older than measurement n, or spoilt says that it may be bad.
Fresh(b, n, spoilt) == IF b = Bad THEN spoilt ELSE b \in {0} \cup (n .. now)
FreshFor(p, b) == Fresh(b, rd[p].floor, rd[p].spoilt)

\* What a read has fetched is no older than itself, and good enough for every
\* read it overlaps; so is what any of them has stored.
Buffers ==
  \A q \in Reading : \A j \in DOMAIN rd[q].buf :
    /\ Fresh(rd[q].buf[j], rd[q].since, TRUE)
    /\ \A p \in Reading : FreshFor(p, rd[q].buf[j])
Shared == \A p \in Reading : \A i \in 1 .. rd[p].stored : \A j \in {1, 2} : FreshFor(p, dev[i][j])
Returned == \A p \in Reading : \A i \in DOMAIN rd[p].data : \A j \in {1, 2} : FreshFor(p, rd[p].data[i][j])

IInv == Bind /\ Files /\ Chip /\ NoFault /\ Users /\ Buffers /\ Shared /\ Returned

-----------------------------------------------------------------------------
(* One step of probe or remove, from rung to rung. *)

\* The tables of the three drivers, entry by entry.
LEMMA Tables ==
  /\ Acquired["demo"] = <<"node", "client">>
  /\ Acquired["regmap"] = <<"regmap", "node">>
  /\ Acquired["icm"] = <<"regmap", "node", "reset", "enable">>
  /\ UndoneBy["demo"] = [node |-> {}]
  /\ \A k \in Kinds : k # "demo" => UndoneBy[k] = [regmap |-> {}, node |-> {"regmap"}]
  /\ Released["demo"] = <<"node">>
  /\ \A k \in Kinds : k # "demo" => Released[k] = <<"node", "regmap">>
BY DEF Acquired, UndoneBy, Released, Kinds

LEMMA Lengths ==
  /\ Len(Acquired["demo"]) = 2 /\ Len(Acquired["regmap"]) = 2 /\ Len(Acquired["icm"]) = 4
  /\ Len(Released["demo"]) = 1
  /\ \A k \in Kinds : k # "demo" => Len(Released[k]) = 2
BY Tables

\* What Settle makes of the module.
Settled(m, a) ==
  IF a \notin {<<"on", 0>>, <<"off", 0>>} THEN m
  ELSE IF m = "coming" THEN "live" ELSE IF m = "going" THEN "gone" ELSE m

LEMMA SettleEffect ==
  ASSUME NEW k \in Kinds, Core(k)!Settle
  PROVE  mod' = Settled(mod, at') /\ byHand' = byHand
BY DEF Core!Settle, Settled

LEMMA AcquiresRegmap ==
  ASSUME NEW k \in Kinds, Rung(k), Core(k)!Acquires("regmap") \/ Core(k)!Fails("regmap")
  PROVE  /\ k # "demo" /\ held = {} /\ Rung(k)' /\ at' \in {<<"init", 2>>, <<"off", 0>>}
         /\ mod' = Settled(mod, at') /\ byHand' = byHand
<1>1. k # "demo"
  BY Tables DEF Core!Acquires, Core!Fails
<1>2. ASSUME NEW i \in DOMAIN Acquired[k], Acquired[k][i] = "regmap" PROVE i = 1 /\ Len(Acquired[k]) # 1
  BY <1>1, <1>2, Tables, Lengths DEF Kinds
<1>3. CASE Core(k)!Acquires("regmap")
  <2>1. PICK i \in DOMAIN Acquired[k] : Acquired[k][i] = "regmap" /\ Core(k)!Acquire(i) /\ Core(k)!Settle
    BY <1>3 DEF Core!Acquires
  <2>2. at = <<"init", 1>> /\ at' = <<"init", 2>> /\ held' = held \cup {"regmap"}
    <3>1. i = 1 /\ i # Len(Acquired[k])
      <4>1. Acquired[k][i] = "regmap"
        BY <2>1
      <4>. QED  BY <1>2, <4>1
    <3>2. i + 1 = 2
      BY <3>1
    <3>. QED  BY <2>1, <3>1, <3>2 DEF Core!Acquire
  <2>. QED  BY <1>1, <2>1, <2>2, SettleEffect DEF Rung
<1>4. CASE Core(k)!Fails("regmap")
  <2>1. PICK i \in DOMAIN Acquired[k] : Acquired[k][i] = "regmap" /\ Core(k)!Fail(i) /\ Core(k)!Settle
    BY <1>4 DEF Core!Fails
  <2>2. at = <<"init", 1>> /\ at' = <<"off", 0>> /\ held' \subseteq held
    BY <1>2, <2>1 DEF Core!Fail
  <2>. QED  BY <1>1, <2>1, <2>2, SettleEffect DEF Rung
<1>. QED  BY <1>3, <1>4

LEMMA AcquiresNode ==
  ASSUME NEW k \in Kinds, Rung(k), Core(k)!Acquires("node") \/ Core(k)!Fails("node")
  PROVE  /\ "node" \notin held /\ Rung(k)'
         /\ at[1] # "exit" /\ at'[1] # "exit" /\ (k = "icm" => at' # <<"on", 0>>)
         /\ mod' = Settled(mod, at') /\ byHand' = byHand
<1>1. ASSUME NEW i \in DOMAIN Acquired[k], Acquired[k][i] = "node"
      PROVE  i = IF k = "demo" THEN 1 ELSE 2
  BY <1>1, Tables DEF Kinds
<1>3. CASE Core(k)!Acquires("node")
  <2>1. PICK i \in DOMAIN Acquired[k] : Acquired[k][i] = "node" /\ Core(k)!Acquire(i) /\ Core(k)!Settle
    BY <1>3 DEF Core!Acquires
  <2>2. /\ at = <<"init", IF k = "demo" THEN 1 ELSE 2>>
        /\ at' = CASE k = "demo" -> <<"init", 2>> [] k = "regmap" -> <<"on", 0>> [] k = "icm" -> <<"init", 3>>
        /\ held' = held \cup {"node"}
    <3>1. CASE k = "demo"
      <4>1. i = 1 /\ i + 1 = 2 /\ i # Len(Acquired[k])
        BY <1>1, <2>1, <3>1, Lengths
      <4>. QED  BY <2>1, <3>1, <4>1 DEF Core!Acquire
    <3>2. CASE k = "regmap"
      <4>1. i = 2 /\ i = Len(Acquired[k])
        BY <1>1, <2>1, <3>2, Lengths
      <4>. QED  BY <2>1, <3>2, <4>1 DEF Core!Acquire
    <3>3. CASE k = "icm"
      <4>1. i = 2 /\ i + 1 = 3 /\ i # Len(Acquired[k])
        BY <1>1, <2>1, <3>3, Lengths
      <4>. QED  BY <2>1, <3>3, <4>1 DEF Core!Acquire
    <3>. QED  BY <3>1, <3>2, <3>3 DEF Kinds
  <2>. QED  BY <2>1, <2>2, SettleEffect DEF Rung, Kinds
<1>4. CASE Core(k)!Fails("node")
  <2>1. PICK i \in DOMAIN Acquired[k] : Acquired[k][i] = "node" /\ Core(k)!Fail(i) /\ Core(k)!Settle
    BY <1>4 DEF Core!Fails
  <2>2. /\ at = <<"init", IF k = "demo" THEN 1 ELSE 2>> /\ at' = <<"off", 0>>
        /\ held' = held \ UndoneBy[k]["node"]
    BY <1>1, <2>1 DEF Core!Fail
  <2>3. held' = {} /\ "node" \notin held
    BY <2>2, Tables DEF Rung
  <2>. QED  BY <2>1, <2>2, <2>3, SettleEffect DEF Rung
<1>. QED  BY <1>3, <1>4

LEMMA DoesClient ==
  ASSUME NEW k \in Kinds, Rung(k), Core(k)!Does("client")
  PROVE  /\ k = "demo" /\ at = <<"init", 2>> /\ at' = <<"on", 0>> /\ held' = held
         /\ mod' = Settled(mod, at') /\ byHand' = byHand
<1>1. PICK i \in DOMAIN Acquired[k] : Acquired[k][i] = "client" /\ Core(k)!Pass(i) /\ Core(k)!Settle
  BY DEF Core!Does
<1>2. k = "demo" /\ i = 2
  BY <1>1, Tables DEF Kinds
<1>3. i = Len(Acquired[k])
  BY <1>2, Lengths
<1>. QED  BY <1>1, <1>2, <1>3, SettleEffect DEF Core!Pass

LEMMA DoesInit ==
  ASSUME NEW k \in Kinds, Rung(k), NEW r \in {"reset", "enable"}, Core(k)!Does(r)
  PROVE  /\ k = "icm" /\ Rung(k)' /\ held' = held /\ at[1] # "exit" /\ at'[1] # "exit"
         /\ at' = IF r = "reset" THEN <<"init", 4>> ELSE <<"on", 0>>
         /\ mod' = Settled(mod, at') /\ byHand' = byHand
<1>1. PICK i \in DOMAIN Acquired[k] : Acquired[k][i] = r /\ Core(k)!Pass(i) /\ Core(k)!Settle
  BY DEF Core!Does
<1>2. k = "icm" /\ i = IF r = "reset" THEN 3 ELSE 4
  BY <1>1, Tables DEF Kinds
<1>3. Len(Acquired[k]) = 4
  BY <1>2, Lengths
<1>4. /\ at = <<"init", IF r = "reset" THEN 3 ELSE 4>> /\ held' = held
      /\ at' = IF r = "reset" THEN <<"init", 4>> ELSE <<"on", 0>>
  <2>1. CASE r = "reset"
    <3>1. i = 3 /\ i + 1 = 4 /\ i # Len(Acquired[k])
      BY <1>2, <1>3, <2>1
    <3>. QED  BY <1>1, <2>1, <3>1 DEF Core!Pass
  <2>2. CASE r = "enable"
    <3>1. i = 4 /\ i = Len(Acquired[k])
      BY <1>2, <1>3, <2>2
    <3>. QED  BY <1>1, <2>2, <3>1 DEF Core!Pass
  <2>. QED  BY <2>1, <2>2
<1>. QED  BY <1>1, <1>2, <1>4, SettleEffect DEF Rung

LEMMA ReleasesNode ==
  ASSUME NEW k \in Kinds, Rung(k), Core(k)!Releases("node")
  PROVE  /\ Rung(k)' /\ at[1] = "exit" /\ at' # <<"on", 0>>
         /\ mod' = Settled(mod, at') /\ byHand' = byHand
<1>1. PICK i \in DOMAIN Released[k] : Released[k][i] = "node" /\ Core(k)!Release(i) /\ Core(k)!Settle
  BY DEF Core!Releases
<1>2. i = 1 /\ i + 1 = 2
  BY <1>1, Tables DEF Kinds
<1>3. (Len(Released[k]) = 1 <=> k = "demo") /\ (k # "demo" => Len(Released[k]) = 2)
  BY Lengths DEF Kinds
<1>4. /\ at = <<"exit", 1>> /\ held' = held \ {"node"}
      /\ at' = IF k = "demo" THEN <<"off", 0>> ELSE <<"exit", 2>>
  BY <1>1, <1>2, <1>3 DEF Core!Release
<1>. QED  BY <1>1, <1>4, SettleEffect DEF Rung

LEMMA ReleasesRegmap ==
  ASSUME NEW k \in Kinds, Rung(k), Core(k)!Releases("regmap")
  PROVE  /\ Rung(k)' /\ at[1] = "exit" /\ at' # <<"on", 0>>
         /\ mod' = Settled(mod, at') /\ byHand' = byHand
<1>1. PICK i \in DOMAIN Released[k] : Released[k][i] = "regmap" /\ Core(k)!Release(i) /\ Core(k)!Settle
  BY DEF Core!Releases
<1>2. i = 2 /\ k # "demo"
  BY <1>1, Tables DEF Kinds
<1>3. i = Len(Released[k])
  BY <1>2, Lengths
<1>4. /\ at = <<"exit", 2>> /\ held' = held \ {"regmap"} /\ at' = <<"off", 0>>
  BY <1>1, <1>2, <1>3 DEF Core!Release
<1>. QED  BY <1>1, <1>4, SettleEffect DEF Rung

\* The driver core begins a probe ...
LEMMA Begins ==
  ASSUME NEW k \in Kinds, Rung(k), Core(k)!Insmod \/ Core(k)!SysfsBind
  PROVE  /\ Rung(k)' /\ at = <<"off", 0>> /\ at' = <<"init", 1>> /\ byHand' = byHand
         /\ IF mod = "gone" THEN mod' = "coming" ELSE mod' = mod
BY DEF Core!Insmod, Core!SysfsBind, Core!Begin, Rung

\* ... or a remove, which rmmod does not ask for while a file is open.
LEMMA Quits ==
  ASSUME NEW k \in Kinds, Rung(k), Core(k)!Rmmod(InUse) \/ Core(k)!SysfsUnbind
  PROVE  /\ Rung(k)' /\ at' # <<"on", 0>> /\ held' = held /\ mod = "live"
         /\ \/ ~InUse /\ mod' \in {"going", "gone"} /\ byHand' = byHand
               /\ (at'[1] = "exit" => mod' = "going")
            \/ mod' = mod /\ byHand'
<1>1. CASE Core(k)!SysfsUnbind
  BY <1>1 DEF Core!SysfsUnbind, Core!Quit, Rung
<1>2. CASE Core(k)!Rmmod(InUse)
  BY <1>2 DEF Core!Rmmod, Core!Quit, Core!Unbound, Rung
<1>. QED  BY <1>1, <1>2

-----------------------------------------------------------------------------
(* The steps of probe, of remove and of who calls them keep the invariant. *)

LEMMA UsersKept ==
  IInv /\ UNCHANGED <<dev, rd, now>> /\ (\A p \in Reading : fd'[p] = fd[p]) => (Users /\ Buffers /\ Shared /\ Returned)'
BY DEF IInv, Users, Buffers, Shared, Returned, Reading, ReadOK, Fresh, FreshFor

\* A step of probe or remove that Settle ends.
LEMMA SettledKeeps ==
  ASSUME IInv, mod' = Settled(mod, at'), byHand' = byHand, kind' = kind, fd' = fd, fault' = fault,
         Rung(kind)', client' \in BOOLEAN, kind = "demo" /\ client => client',
         at'[1] = "exit" => at[1] = "exit",
         at[1] = "exit" \/ "node" \notin held \/ held \subseteq held'
  PROVE  Bind' /\ Files' /\ NoFault'
<1>1. Bind'
  <2>1. mod' \in {"gone", "coming", "live", "going"}
    BY DEF IInv, Bind, Settled
  <2>2. ASSUME at'[1] = "exit", ~byHand PROVE mod' = "going"
    <3>1. mod = "going"
      BY <2>2 DEF IInv, Bind
    <3>2. at' \notin {<<"on", 0>>, <<"off", 0>>}
      BY <2>2
    <3>. QED  BY <3>1, <3>2 DEF Settled
  <2>. QED  BY <2>1, <2>2 DEF IInv, Bind
<1>2. Files'
  <2>1. ASSUME NEW p \in Procs, fd[p] # "closed"
        PROVE  mod' \in {"coming", "live"} /\ (~byHand => "node" \in held')
    <3>1. mod \in {"coming", "live"} /\ (~byHand => "node" \in held)
      BY <2>1 DEF IInv, Files
    <3>2. ~byHand => at[1] # "exit"
      BY <3>1 DEF IInv, Bind
    <3>. QED  BY <3>1, <3>2 DEF Settled
  <2>. QED  BY <2>1 DEF IInv, Files
<1>3. NoFault'
  BY DEF IInv, NoFault
<1>. QED  BY <1>1, <1>2, <1>3

\* A step that leaves the chip alone and does not end the ICM20608's probe.
LEMMA ChipKept ==
  IInv /\ UNCHANGED <<kind, chip, now, reg, lost, failed, fd>> /\ (at' # <<"on", 0>> \/ at' = at \/ kind # "icm")
    => Chip'
BY DEF IInv, Chip

LEMMA DriverStep ==
  ASSUME IInv, kind' = kind, NEW k \in Kinds, kind = k,
         \/ Load(k) \/ Rebind(k) \/ InitRegmap(k) \/ RegisterMisc(k)
         \/ SetClient(k) \/ RegInit(k) \/ Remove(k) \/ FreeRegmap(k)
  PROVE  IInv'
<1>1. Rung(k) /\ client \in BOOLEAN
  BY DEF IInv, Bind
<1>. USE DEF chipVars, userVars
<1>2. CASE Load(k) \/ (Core(k)!SysfsBind /\ Rebind(k))
  <2>1. Core(k)!Insmod \/ Core(k)!SysfsBind
    BY <1>2 DEF Load
  <2>2. /\ Rung(k)' /\ at = <<"off", 0>> /\ at' = <<"init", 1>> /\ byHand' = byHand
        /\ IF mod = "gone" THEN mod' = "coming" ELSE mod' = mod
    BY <1>1, <2>1, Begins
  <2>3. UNCHANGED <<chipVars, userVars, failed, fault>> /\ client' \in BOOLEAN /\ (mod # "gone" => client' = client)
    BY <1>1, <1>2 DEF Load, Rebind, Core!Insmod
  <2>4. held = {}
    BY <1>1, <2>2 DEF Rung
  <2>5. Bind'
    BY <2>2, <2>3 DEF IInv, Bind
  <2>6. Files'
    BY <2>2, <2>3, <2>4 DEF IInv, Files
  <2>7. NoFault'
    BY <2>2, <2>3 DEF IInv, NoFault
  <2>8. Chip'
    BY <2>2, <2>3, ChipKept
  <2>. QED  BY <2>3, <2>5, <2>6, <2>7, <2>8, UsersKept DEF IInv
<1>3. CASE Rebind(k) /\ ~Core(k)!SysfsBind
  <2>1. /\ Rung(k)' /\ at' # <<"on", 0>> /\ held' = held /\ mod = "live"
        /\ \/ ~InUse /\ mod' \in {"going", "gone"} /\ byHand' = byHand
              /\ (at'[1] = "exit" => mod' = "going")
           \/ mod' = mod /\ byHand'
    BY <1>1, <1>3, Quits DEF Rebind
  <2>2. UNCHANGED <<client, chipVars, userVars, failed, fault>>
    BY <1>3 DEF Rebind
  <2>3. byHand' \in BOOLEAN
    BY <2>1, <1>3 DEF IInv, Bind, Rebind, Core!Rmmod, Core!SysfsUnbind
  <2>4. Bind'
    BY <2>1, <2>2, <2>3 DEF IInv, Bind
  <2>5. Files'
    BY <2>1, <2>2 DEF IInv, Files, InUse
  <2>6. NoFault'
    BY <2>1, <2>2 DEF IInv, NoFault
  <2>7. Chip'
    BY <2>1, <2>2, ChipKept
  <2>. QED  BY <2>2, <2>4, <2>5, <2>6, <2>7, UsersKept DEF IInv
<1>4. CASE InitRegmap(k)
  <2>1. /\ k # "demo" /\ held = {} /\ Rung(k)' /\ at' \in {<<"init", 2>>, <<"off", 0>>}
        /\ mod' = Settled(mod, at') /\ byHand' = byHand
    BY <1>1, <1>4, AcquiresRegmap DEF InitRegmap
  <2>2. UNCHANGED <<client, chipVars, userVars, failed, fault>>
    BY <1>4 DEF InitRegmap
  <2>3. Bind' /\ Files' /\ NoFault'
    BY <1>1, <2>1, <2>2, SettledKeeps
  <2>. QED  BY <2>1, <2>2, <2>3, ChipKept, UsersKept DEF IInv
<1>5. CASE RegisterMisc(k)
  <2>1. /\ "node" \notin held /\ Rung(k)'
        /\ at[1] # "exit" /\ at'[1] # "exit" /\ (k = "icm" => at' # <<"on", 0>>)
        /\ mod' = Settled(mod, at') /\ byHand' = byHand
    BY <1>1, <1>5, AcquiresNode DEF RegisterMisc
  <2>2. UNCHANGED <<client, chipVars, userVars, failed, fault>>
    BY <1>5 DEF RegisterMisc
  <2>3. Bind' /\ Files' /\ NoFault'
    BY <1>1, <2>1, <2>2, SettledKeeps
  <2>. QED  BY <2>1, <2>2, <2>3, ChipKept, UsersKept DEF IInv
<1>6. CASE SetClient(k)
  <2>1. /\ k = "demo" /\ at = <<"init", 2>> /\ at' = <<"on", 0>> /\ held' = held
        /\ mod' = Settled(mod, at') /\ byHand' = byHand
    BY <1>1, <1>6, DoesClient DEF SetClient
  <2>2. UNCHANGED <<chipVars, userVars, failed, fault>> /\ client' = TRUE
    BY <1>6 DEF SetClient
  <2>3. Rung(k)'
    BY <1>1, <2>1 DEF Rung
  <2>4. Bind' /\ Files' /\ NoFault'
    BY <1>1, <2>1, <2>2, <2>3, SettledKeeps
  <2>. QED  BY <2>1, <2>2, <2>4, ChipKept, UsersKept DEF IInv
<1>7. CASE RegInit(k)
  <2>. PICK r \in {"reset", "enable"} :
         Core(k)!Does(r) /\ (WriteReg(IF r = "reset" THEN "reset" ELSE "on") \/ WriteFails)
    BY <1>7 DEF RegInit
  <2>1. /\ k = "icm" /\ Rung(k)' /\ held' = held /\ at[1] # "exit" /\ at'[1] # "exit"
        /\ at' = IF r = "reset" THEN <<"init", 4>> ELSE <<"on", 0>>
        /\ mod' = Settled(mod, at') /\ byHand' = byHand
    BY <1>1, DoesInit
  <2>2. UNCHANGED <<client, userVars, fault>>
    BY <1>7 DEF RegInit
  <2>3. Bind' /\ Files' /\ NoFault'
    BY <1>1, <2>1, <2>2, SettledKeeps
  <2>4. now' = now /\ failed' \in 0 .. Failures /\ reg' \in {0, now}
    BY SensorAssumption DEF WriteReg, WriteFails, BusFails, IInv, Chip
  <2>5. chip' \in {"reset", "on"} /\ lost' \in BOOLEAN /\ (at' = <<"on", 0>> => lost' \/ chip' = "on")
    BY <2>1 DEF WriteReg, WriteFails, IInv, Chip
  <2>6. Chip'
    BY <2>1, <2>4, <2>5 DEF Chip, IInv
  <2>. QED  BY <2>2, <2>3, <2>4, <2>6, UsersKept DEF IInv
<1>8. CASE Remove(k) \/ FreeRegmap(k)
  <2>1. /\ Rung(k)' /\ at[1] = "exit" /\ at' # <<"on", 0>>
        /\ mod' = Settled(mod, at') /\ byHand' = byHand
    BY <1>1, <1>8, ReleasesNode, ReleasesRegmap DEF Remove, FreeRegmap
  <2>2. UNCHANGED <<client, chipVars, userVars, failed, fault>>
    BY <1>8 DEF Remove, FreeRegmap
  <2>3. Bind' /\ Files' /\ NoFault'
    BY <1>1, <2>1, <2>2, SettledKeeps
  <2>. QED  BY <2>1, <2>2, <2>3, ChipKept, UsersKept DEF IInv
<1>. QED  BY <1>2, <1>3, <1>4, <1>5, <1>6, <1>7, <1>8

-----------------------------------------------------------------------------
(* open and close. *)

LEMMA FileMoves ==
  ASSUME IInv, NEW p \in Procs, NEW s \in {"closed", "opening", "open"}, fd' = [fd EXCEPT ![p] = s],
         UNCHANGED <<kind, at, held, mod, byHand, client, dev, rd, now, fault>>, rd[p] = NoRead, Chip',
         s # "closed" => /\ mod \in {"coming", "live"}
                         /\ kind = "demo" => client
                         /\ ~byHand => "node" \in held
  PROVE  IInv'
<1>1. Bind' /\ NoFault'
  BY DEF IInv, Bind, Rung, NoFault
<1>2. \A q \in Procs : fd'[q] = IF q = p THEN s ELSE fd[q]
  BY DEF IInv, Files
<1>3. Files'
  BY <1>2 DEF IInv, Files
<1>4. \A q \in Reading : fd'[q] = fd[q]
  BY <1>2 DEF Reading
<1>. QED  BY <1>1, <1>3, <1>4, UsersKept DEF IInv

LEMMA Opening ==
  ASSUME IInv, NEW p \in Procs, MiscOpen(p), kind = "demo" => client
  PROVE  /\ rd[p] = NoRead /\ mod \in {"coming", "live"} /\ "node" \in held
         /\ ~ \E q \in Procs : fd[q] = "opening"
BY DEF IInv, Users, Reading, MiscOpen, MutexFree

LEMMA Writing ==
  ASSUME IInv, NEW c \in {"reset", "on"}, WriteReg(c) \/ WriteFails
  PROVE  /\ now' = now /\ now' \in 0 .. Conversions /\ reg' \in {0, now'} /\ failed' \in 0 .. Failures
         /\ chip' \in {"reset", "on"} /\ lost' \in BOOLEAN /\ (lost' \/ chip' = c)
<1>1. now' = now /\ now \in 0 .. Conversions /\ reg' \in {0, now}
  BY DEF WriteReg, WriteFails, IInv, Chip
<1>2. failed' \in 0 .. Failures
  <2>1. failed' = failed \/ (failed < Failures /\ failed' = failed + 1)
    BY DEF WriteReg, WriteFails, BusFails
  <2>. QED  BY <2>1, SensorAssumption DEF IInv, Chip
<1>3. chip' \in {"reset", "on"} /\ lost' \in BOOLEAN /\ (lost' \/ chip' = c)
  BY DEF WriteReg, WriteFails, IInv, Chip
<1>. QED  BY <1>1, <1>2, <1>3

LEMMA OpenCloseStep ==
  ASSUME IInv, kind' = kind, NEW p \in Procs, OpenClose(p)
  PROVE  IInv'
<1>1. UNCHANGED <<at, held, mod, byHand, client, dev, rd>>
  BY DEF OpenClose
<1>2. \A s : fd' = [fd EXCEPT ![p] = s] => \A q \in Procs : fd'[q] = IF q = p THEN s ELSE fd[q]
  BY DEF IInv, Files
<1>. USE DEF chipVars
<1>3. CASE OpenIcm(p)
  <2>1. /\ fd' = [fd EXCEPT ![p] = "open"] /\ UNCHANGED <<chipVars, failed, fault>>
        /\ MiscOpen(p) /\ kind = "icm"
    BY <1>3 DEF OpenIcm
  <2>2. Chip'
    BY <1>1, <2>1 DEF IInv, Chip
  <2>. QED  BY <1>1, <2>1, <2>2, FileMoves, Opening
<1>4. CASE OpenFaults(p)
  <2>1. /\ kind # "icm" /\ MiscOpen(p) /\ ~HasChip /\ fault' = "open" /\ UNCHANGED <<chipVars, fd, failed>>
    BY <1>4 DEF OpenFaults
  <2>2. kind = "demo"
    BY <2>1 DEF HasChip, MiscOpen, IInv, Bind, Rung, Kinds
  <2>3. Bind'
    BY <1>1 DEF IInv, Bind, Rung
  <2>4. Files' /\ NoFault'
    BY <1>1, <2>1, <2>2 DEF IInv, Files, NoFault
  <2>. QED  BY <1>1, <2>1, <2>3, <2>4, ChipKept, UsersKept DEF IInv
<1>5. CASE OpenDemo(p)
  <2>1. /\ kind = "demo" /\ MiscOpen(p) /\ client /\ (WriteReg("reset") \/ WriteFails)
        /\ fd' = [fd EXCEPT ![p] = "opening"] /\ fault' = fault
    BY <1>5 DEF OpenDemo, HasChip
  <2>2. Chip'
    BY <1>2, <2>1, Writing DEF Chip
  <2>. QED  BY <1>1, <2>1, <2>2, FileMoves, Opening, Writing
<1>6. CASE OpenRegmap(p)
  <2>1. kind = "regmap" /\ MiscOpen(p) /\ fault' = fault
    BY <1>6 DEF OpenRegmap
  <2>2. CASE WriteReg("reset") /\ fd' = [fd EXCEPT ![p] = "opening"]
    <3>1. Chip'
      BY <1>2, <2>1, <2>2, Writing DEF Chip
    <3>. QED  BY <1>1, <2>1, <2>2, <3>1, FileMoves, Opening, Writing
  <2>3. CASE WriteFails /\ fd' = fd
    <3>1. lost' = TRUE
      BY <2>3 DEF WriteFails
    <3>2. Chip'
      BY <2>3, <3>1, Writing DEF Chip
    <3>3. now' = now
      BY <2>3, Writing
    <3>4. Bind' /\ Files' /\ NoFault'
      BY <1>1, <2>1, <2>3 DEF IInv, Bind, Rung, Files, NoFault
    <3>. QED  BY <1>1, <2>3, <3>2, <3>3, <3>4, UsersKept DEF IInv
  <2>. QED  BY <1>6, <2>2, <2>3 DEF OpenRegmap
<1>7. CASE EnableDemo(p) \/ EnableRegmap(p)
  <2>1. /\ fd[p] = "opening" /\ fault' = fault /\ kind # "icm"
        /\ \/ WriteReg("on") /\ fd' = [fd EXCEPT ![p] = "open"]
           \/ WriteFails /\ (\E s \in {"open", "closed"} : fd' = [fd EXCEPT ![p] = s])
    BY <1>7 DEF EnableDemo, EnableRegmap
  <2>2. WriteReg("on") \/ WriteFails
    BY <2>1
  <2>3. PICK s \in {"open", "closed"} : fd' = [fd EXCEPT ![p] = s]
    BY <2>1
  <2>4. WriteFails => lost'
    BY DEF WriteFails
  <2>5. ~lost' => chip' = "on"
    BY <2>2, <2>4, Writing
  <2>6. Chip'
    BY <2>2, <2>5, Writing DEF Chip
  <2>7. rd[p] = NoRead
    BY <2>1 DEF IInv, Users, Reading
  <2>8. mod \in {"coming", "live"} /\ (kind = "demo" => client) /\ (~byHand => "node" \in held)
    BY <2>1 DEF IInv, Files
  <2>. QED  BY <1>1, <2>1, <2>2, <2>3, <2>6, <2>7, <2>8, FileMoves, Writing
<1>8. CASE Close(p)
  <2>1. /\ fd[p] = "open" /\ rd[p] = NoRead /\ fd' = [fd EXCEPT ![p] = "closed"]
        /\ UNCHANGED <<chipVars, failed, fault>>
    BY <1>8 DEF Close
  <2>2. Chip'
    BY <1>1, <1>2, <2>1 DEF IInv, Chip
  <2>. QED  BY <1>1, <2>1, <2>2, FileMoves
<1>. QED  BY <1>3, <1>4, <1>5, <1>6, <1>7, <1>8 DEF OpenClose

-----------------------------------------------------------------------------
(* The lowest of the measurements at which the overlapping reads began. *)

LEMMA MinIsLeast ==
  ASSUME NEW S \in SUBSET Nat, S # {}
  PROVE  Min(S) \in S /\ \A n \in S : Min(S) <= n
<1>. DEFINE Below == {s \in Nat \X Nat : s[1] < s[2]}
<1>1. IsWellFoundedOn(Below, Nat)
  BY NatLessThanWellFounded DEF OpToRel
<1>2. PICK m \in S : \A n \in S : <<n, m>> \notin Below
  <2>. HIDE DEF Below
  <2>. QED  BY <1>1, WFMin
<1>3. ASSUME NEW n \in S PROVE m <= n
  <2>1. <<n, m>> \in Nat \X Nat /\ ~(n < m)
    BY <1>2
  <2>. QED  BY <2>1
<1>4. \E x \in S : \A y \in S : x =< y
  BY <1>3
<1>. QED  BY <1>4 DEF Min

-----------------------------------------------------------------------------
(* The chip measures. *)

LEMMA ConvertStep == IInv /\ kind' = kind /\ Convert => IInv'
<1>. SUFFICES ASSUME IInv, kind' = kind, Convert PROVE IInv'
  OBVIOUS
<1>1. /\ now \in Nat /\ now' = now + 1 /\ reg' = now + 1 /\ now' \in 0 .. Conversions
      /\ UNCHANGED <<at, held, mod, byHand, client, chip, lost, dev, fd, rd, failed, fault>>
  BY SensorAssumption DEF Convert, userVars, IInv, Chip
<1>2. Bind' /\ Files' /\ NoFault'
  BY <1>1 DEF IInv, Bind, Rung, Files, NoFault
<1>3. Chip'
  BY <1>1 DEF IInv, Chip
<1>4. ASSUME NEW b, NEW n, NEW s, Fresh(b, n, s) PROVE Fresh(b, n, s)'
  BY <1>1, <1>4 DEF Fresh
<1>5. Users'
  <2>1. \A r : ReadOK(r) => ReadOK(r)'
    BY <1>1 DEF ReadOK, Reads
  <2>. QED  BY <1>1, <2>1 DEF IInv, Users, Reading
<1>6. Buffers' /\ Shared' /\ Returned'
  BY <1>1, <1>4 DEF IInv, Buffers, Shared, Returned, FreshFor, Reading
<1>. QED  BY <1>2, <1>3, <1>5, <1>6 DEF IInv

-----------------------------------------------------------------------------
(* read. *)

LEMMA Appended ==
  ASSUME NEW T, NEW s \in Seq(T), NEW e \in T
  PROVE  /\ Append(s, e) \in Seq(T) /\ Len(Append(s, e)) = Len(s) + 1
         /\ \A j \in DOMAIN Append(s, e) :
              Append(s, e)[j] = e \/ (j \in DOMAIN s /\ Append(s, e)[j] = s[j])
OBVIOUS

LEMMA Fetching ==
  ASSUME IInv, NEW p \in Reading, NEW b \in Bytes, Len(rd[p].buf) < 2 * Channels
  PROVE  LET r == [rd[p] EXCEPT !.buf = Append(@, b)]
         IN  /\ ReadOK(r) /\ r.stored = rd[p].stored /\ r.data = rd[p].data /\ r.spoilt = rd[p].spoilt
             /\ r.since = rd[p].since /\ r.floor = rd[p].floor
             /\ \A j \in DOMAIN r.buf : r.buf[j] = b \/ (j \in DOMAIN rd[p].buf /\ r.buf[j] = rd[p].buf[j])
<1>. DEFINE o == rd[p]
            r == [o EXCEPT !.buf = Append(@, b)]
<1>1. ReadOK(o)
  BY DEF IInv, Users
<1>. HIDE DEF o
<1>2. o \in Reads /\ o.buf \in Seq(Bytes)
  BY <1>1 DEF ReadOK, Reads
<1>3. /\ Append(o.buf, b) \in Seq(Bytes) /\ Len(Append(o.buf, b)) = Len(o.buf) + 1
      /\ \A j \in DOMAIN Append(o.buf, b) :
           Append(o.buf, b)[j] = b \/ (j \in DOMAIN o.buf /\ Append(o.buf, b)[j] = o.buf[j])
  BY <1>2, Appended
<1>4. r.buf = Append(o.buf, b)
  BY <1>2 DEF Reads
<1>5. r \in Reads
  BY <1>2, <1>3 DEF Reads
<1>6. /\ r.stored = o.stored /\ r.data = o.data /\ r.spoilt = o.spoilt
      /\ r.since = o.since /\ r.floor = o.floor
  OBVIOUS
<1>7. Len(r.buf) <= 2 * Channels
  <2>1. Len(o.buf) \in Nat /\ Len(o.buf) < 2 * Channels /\ Channels \in Nat
    BY <1>2, SensorAssumption DEF o
  <2>. QED  BY <1>3, <1>4, <2>1
<1>8. ReadOK(r)
  BY <1>1, <1>5, <1>6, <1>7 DEF ReadOK
<1>. QED  BY <1>3, <1>4, <1>6, <1>8 DEF o

\* What a step of read leaves alone, and what is then left to show.
LEMMA ReadKeeps ==
  ASSUME IInv, UNCHANGED <<kind, at, held, mod, byHand, client, chipVars, fd, fault>>,
         failed' \in 0 .. Failures, Users', Buffers', Shared', Returned'
  PROVE  IInv'
<1>1. Bind' /\ Files' /\ NoFault'
  BY DEF IInv, Bind, Rung, Files, NoFault
<1>2. Chip'
  BY DEF IInv, Chip, chipVars
<1>. QED  BY <1>1, <1>2 DEF IInv

\* What is left to show of the bytes, when the chip has not measured.
LEMMA FreshNext ==
  ASSUME now' = now
  PROVE  /\ (\A q \in Reading' : \A j \in DOMAIN rd'[q].buf :
                /\ Fresh(rd'[q].buf[j], rd'[q].since, TRUE)
                /\ \A k \in Reading' : Fresh(rd'[q].buf[j], rd'[k].floor, rd'[k].spoilt)) => Buffers'
         /\ (\A q \in Reading' : \A i \in 1 .. rd'[q].stored : \A j \in {1, 2} :
                Fresh(dev'[i][j], rd'[q].floor, rd'[q].spoilt)) => Shared'
         /\ (\A q \in Reading' : \A i \in DOMAIN rd'[q].data : \A j \in {1, 2} :
                Fresh(rd'[q].data[i][j], rd'[q].floor, rd'[q].spoilt)) => Returned'
<1>1. \A b, n, s : Fresh(b, n, s)' <=> Fresh(b, n, s)
  BY DEF Fresh
<1>. QED  BY <1>1 DEF Buffers, Shared, Returned, FreshFor

LEMMA ReadBeginStep ==
  ASSUME IInv, NEW p \in Procs, ReadBegin(p), UNCHANGED <<kind, at, held, mod, byHand, client, chipVars>>
  PROVE  IInv'
<1>. DEFINE S == {now} \cup {rd[q].since : q \in Reading}
            r == [buf |-> <<>>, stored |-> 0, data |-> <<>>, since |-> now, floor |-> Min(S),
                  spoilt |-> \E q \in Reading : Bad \in Range(rd[q].buf)]
<1>1. /\ fd[p] = "open" /\ rd' = [rd EXCEPT ![p] = r] /\ UNCHANGED <<dev, fd, failed, fault>>
      /\ now' = now
  BY DEF ReadBegin, chipVars
<1>2. S \in SUBSET Nat /\ now \in S
  BY SensorAssumption DEF IInv, Chip, Users, ReadOK, Reads
<1>3. Min(S) \in Nat /\ Min(S) <= now /\ \A q \in Reading : Min(S) <= rd[q].since
  <2>1. Min(S) \in S /\ \A n \in S : Min(S) <= n
    <3>. HIDE DEF S
    <3>. QED  BY <1>2, MinIsLeast
  <2>2. \A q \in Reading : rd[q].since \in S
    OBVIOUS
  <2>. HIDE DEF S
  <2>. QED  BY <1>2, <2>1, <2>2
<1>. HIDE DEF S
<1>4. ReadOK(r)
  <2>1. r \in Reads
    BY <1>2, <1>3, SensorAssumption DEF Reads
  <2>. QED  BY <1>2, <1>3, <2>1, SensorAssumption DEF ReadOK
<1>5. /\ DOMAIN r.buf = {} /\ r.stored = 0 /\ DOMAIN r.data = {} /\ r.floor = Min(S)
      /\ \A q \in Reading : Bad \in Range(rd[q].buf) => r.spoilt
  OBVIOUS
<1>. HIDE DEF r
<1>6. /\ rd'[p] = r /\ \A q \in Procs : q # p => rd'[q] = rd[q]
      /\ DOMAIN rd' = Procs
  BY <1>1 DEF IInv, Users
<1>7. \A q \in Reading' : q = p \/ (q \in Reading /\ rd'[q] = rd[q])
  BY <1>6 DEF Reading
<1>8. Users'
  BY <1>1, <1>4, <1>6, <1>7 DEF IInv, Users, ReadOK, Reading
<1>9. Buffers'
  <2>1. ASSUME NEW q \in Reading', NEW j \in DOMAIN rd'[q].buf
        PROVE  /\ Fresh(rd'[q].buf[j], rd'[q].since, TRUE)
               /\ \A k \in Reading' : Fresh(rd'[q].buf[j], rd'[k].floor, rd'[k].spoilt)
    <3>. DEFINE b == rd[q].buf[j]
    <3>1. q \in Reading /\ rd'[q] = rd[q]
      BY <1>5, <1>6, <1>7, <2>1
    <3>2. Fresh(b, rd[q].since, TRUE) /\ \A k \in Reading : Fresh(b, rd[k].floor, rd[k].spoilt)
      BY <2>1, <3>1 DEF IInv, Buffers, FreshFor
    <3>3. Fresh(b, r.floor, r.spoilt)
      <4>1. CASE b = Bad
        <5>1. Bad \in Range(rd[q].buf)
          BY <2>1, <3>1, <4>1 DEF Range
        <5>. QED  BY <1>5, <3>1, <4>1, <5>1 DEF Fresh
      <4>2. CASE b # Bad
        <5>1. rd[q].since \in Nat
          BY <3>1 DEF IInv, Users, ReadOK, Reads
        <5>2. b \in {0} \cup (rd[q].since .. now)
          BY <3>2, <4>2 DEF Fresh
        <5>3. b \in {0} \cup (r.floor .. now)
          BY <1>2, <1>3, <1>5, <3>1, <5>1, <5>2
        <5>. QED  BY <4>2, <5>3 DEF Fresh
      <4>. QED  BY <4>1, <4>2
    <3>. HIDE DEF b
    <3>4. \A k \in Reading' : Fresh(b, rd'[k].floor, rd'[k].spoilt)
      BY <1>6, <1>7, <3>2, <3>3
    <3>. QED  BY <3>1, <3>2, <3>4 DEF b
  <2>. QED  BY <1>1, <2>1, FreshNext
<1>10. Shared'
  <2>1. ASSUME NEW q \in Reading', NEW i \in 1 .. rd'[q].stored, NEW j \in {1, 2}
        PROVE  Fresh(dev'[i][j], rd'[q].floor, rd'[q].spoilt)
    <3>1. q \in Reading /\ rd'[q] = rd[q]
      BY <1>5, <1>6, <1>7, <2>1
    <3>. QED  BY <1>1, <2>1, <3>1 DEF IInv, Shared, FreshFor
  <2>. QED  BY <1>1, <2>1, FreshNext
<1>11. Returned'
  <2>1. ASSUME NEW q \in Reading', NEW i \in DOMAIN rd'[q].data, NEW j \in {1, 2}
        PROVE  Fresh(rd'[q].data[i][j], rd'[q].floor, rd'[q].spoilt)
    <3>1. q \in Reading /\ rd'[q] = rd[q]
      BY <1>5, <1>6, <1>7, <2>1
    <3>. QED  BY <2>1, <3>1 DEF IInv, Returned, FreshFor
  <2>. QED  BY <1>1, <2>1, FreshNext
<1>. QED  BY <1>1, <1>8, <1>9, <1>10, <1>11, ReadKeeps DEF IInv, Chip

\* All later steps of read: the bytes that a reader fetches, that the structure
\* holds and that a read returns come from one another, but for one byte that
\* has just been fetched.
LEMMA BytesFlow ==
  ASSUME IInv, now' = now, NEW b \in {0, now, Bad},
         \A q \in Reading' :
           /\ q \in Reading /\ rd'[q].since = rd[q].since /\ rd'[q].floor = rd[q].floor
           /\ rd[q].spoilt \/ b = Bad => rd'[q].spoilt,
         \A q \in Reading' : \A j \in DOMAIN rd'[q].buf :
           rd'[q].buf[j] = b \/ (j \in DOMAIN rd[q].buf /\ rd'[q].buf[j] = rd[q].buf[j]),
         \A q \in Reading' : \A i \in 1 .. rd'[q].stored : \A j \in {1, 2} :
           \/ i \in 1 .. rd[q].stored /\ dev'[i][j] = dev[i][j]
           \/ \E k \in Reading : \E m \in DOMAIN rd[k].buf : dev'[i][j] = rd[k].buf[m],
         \A q \in Reading' : \A i \in DOMAIN rd'[q].data : \A j \in {1, 2} :
           \/ i \in DOMAIN rd[q].data /\ rd'[q].data[i][j] = rd[q].data[i][j]
           \/ \E m \in 1 .. rd[q].stored : rd'[q].data[i][j] = dev[m][j]
  PROVE  Buffers' /\ Shared' /\ Returned'
<1>1. ASSUME NEW x, NEW q \in Reading', FreshFor(q, x)
      PROVE  Fresh(x, rd'[q].floor, rd'[q].spoilt)
  BY <1>1 DEF FreshFor, Fresh
<1>2. ASSUME NEW q \in Reading'
      PROVE  /\ Fresh(b, rd'[q].since, TRUE)
             /\ Fresh(b, rd'[q].floor, rd'[q].spoilt)
  <2>1. ReadOK(rd[q]) /\ rd'[q].since = rd[q].since /\ rd'[q].floor = rd[q].floor /\ now \in Nat
    BY <1>2, SensorAssumption DEF IInv, Users, Chip
  <2>2. rd'[q].since \in 0 .. now /\ rd'[q].floor \in 0 .. now
    BY <2>1 DEF ReadOK, Reads
  <2>3. b # Bad => b \in {0} \cup (rd'[q].since .. now) /\ b \in {0} \cup (rd'[q].floor .. now)
    BY <2>1, <2>2
  <2>4. b = Bad => rd'[q].spoilt
    BY <1>2
  <2>. QED  BY <2>3, <2>4 DEF Fresh
<1>3. Buffers'
  <2>1. ASSUME NEW q \in Reading', NEW j \in DOMAIN rd'[q].buf
        PROVE  /\ Fresh(rd'[q].buf[j], rd'[q].since, TRUE)
               /\ \A k \in Reading' : Fresh(rd'[q].buf[j], rd'[k].floor, rd'[k].spoilt)
    <3>1. CASE rd'[q].buf[j] = b
      BY <1>2, <2>1, <3>1
    <3>2. CASE j \in DOMAIN rd[q].buf /\ rd'[q].buf[j] = rd[q].buf[j]
      <4>1. Fresh(rd[q].buf[j], rd[q].since, TRUE) /\ \A k \in Reading : FreshFor(k, rd[q].buf[j])
        BY <2>1, <3>2 DEF IInv, Buffers
      <4>2. \A k \in Reading' : Fresh(rd[q].buf[j], rd'[k].floor, rd'[k].spoilt)
        BY <1>1, <4>1
      <4>. QED  BY <2>1, <3>2, <4>1, <4>2
    <3>. QED  BY <2>1, <3>1, <3>2
  <2>. QED  BY <2>1, FreshNext
<1>4. Shared'
  <2>1. ASSUME NEW q \in Reading', NEW i \in 1 .. rd'[q].stored, NEW j \in {1, 2}
        PROVE  Fresh(dev'[i][j], rd'[q].floor, rd'[q].spoilt)
    <3>1. FreshFor(q, dev'[i][j])
      <4>1. CASE i \in 1 .. rd[q].stored /\ dev'[i][j] = dev[i][j]
        BY <2>1, <4>1 DEF IInv, Shared
      <4>2. CASE \E k \in Reading : \E m \in DOMAIN rd[k].buf : dev'[i][j] = rd[k].buf[m]
        BY <2>1, <4>2 DEF IInv, Buffers
      <4>. QED  BY <2>1, <4>1, <4>2
    <3>. QED  BY <1>1, <2>1, <3>1
  <2>. QED  BY <2>1, FreshNext
<1>5. Returned'
  <2>1. ASSUME NEW q \in Reading', NEW i \in DOMAIN rd'[q].data, NEW j \in {1, 2}
        PROVE  Fresh(rd'[q].data[i][j], rd'[q].floor, rd'[q].spoilt)
    <3>1. FreshFor(q, rd'[q].data[i][j])
      <4>1. CASE i \in DOMAIN rd[q].data /\ rd'[q].data[i][j] = rd[q].data[i][j]
        BY <2>1, <4>1 DEF IInv, Returned
      <4>2. CASE \E m \in 1 .. rd[q].stored : rd'[q].data[i][j] = dev[m][j]
        BY <2>1, <4>2 DEF IInv, Shared
      <4>. QED  BY <2>1, <4>1, <4>2
    <3>. QED  BY <1>1, <2>1, <3>1
  <2>. QED  BY <2>1, FreshNext
<1>. QED  BY <1>3, <1>4, <1>5

\* What a step of read makes of the other reads is known; its own is left.
LEMMA UsersNext ==
  ASSUME IInv, now' = now, DOMAIN rd' = Procs, dev' \in [1 .. Channels -> Bytes \X Bytes],
         \A q \in Reading' : q \in Reading /\ ReadOK(rd'[q]) /\ fd'[q] = fd[q]
  PROVE  Users'
<1>1. \A r : ReadOK(r)' <=> ReadOK(r)
  BY DEF ReadOK, Reads
<1>. QED  BY <1>1 DEF IInv, Users

LEMMA FetchRegStep ==
  ASSUME IInv, NEW p \in Procs, FetchReg(p), UNCHANGED <<kind, at, held, mod, byHand, client, chipVars>>
  PROVE  IInv'
<1>. DEFINE r == [rd[p] EXCEPT !.buf = Append(@, reg)]
<1>1. /\ p \in Reading /\ Len(rd[p].buf) < 2 * Channels /\ rd' = [rd EXCEPT ![p] = r]
      /\ UNCHANGED <<dev, fd, failed, fault>> /\ now' = now
  BY DEF FetchReg, Registers, Reading, chipVars
<1>2. reg \in {0, now, Bad} /\ reg \in Bytes /\ reg # Bad
  BY SensorAssumption DEF IInv, Chip, Bytes
<1>3. /\ ReadOK(r) /\ r.stored = rd[p].stored /\ r.data = rd[p].data /\ r.spoilt = rd[p].spoilt
      /\ r.since = rd[p].since /\ r.floor = rd[p].floor
      /\ \A j \in DOMAIN r.buf : r.buf[j] = reg \/ (j \in DOMAIN rd[p].buf /\ r.buf[j] = rd[p].buf[j])
  BY <1>1, <1>2, Fetching
<1>. HIDE DEF r
<1>4. /\ DOMAIN rd' = Procs /\ rd'[p] = r /\ \A q \in Procs : q # p => rd'[q] = rd[q]
      /\ \A q \in Reading' : q \in Reading /\ (q = p \/ rd'[q] = rd[q])
  BY <1>1 DEF IInv, Users, Reading
<1>5. Users'
  BY <1>1, <1>3, <1>4, UsersNext DEF IInv, Users
<1>6. Buffers' /\ Shared' /\ Returned'
  <2>1. \A q \in Reading' :
          /\ q \in Reading /\ rd'[q].since = rd[q].since /\ rd'[q].floor = rd[q].floor
          /\ rd[q].spoilt \/ reg = Bad => rd'[q].spoilt
    BY <1>2, <1>3, <1>4
  <2>2. \A q \in Reading' : \A j \in DOMAIN rd'[q].buf :
          rd'[q].buf[j] = reg \/ (j \in DOMAIN rd[q].buf /\ rd'[q].buf[j] = rd[q].buf[j])
    BY <1>3, <1>4
  <2>3. \A q \in Reading' : rd'[q].stored = rd[q].stored /\ rd'[q].data = rd[q].data
    BY <1>3, <1>4
  <2>. QED  BY <1>1, <1>2, <2>1, <2>2, <2>3, BytesFlow
<1>. QED  BY <1>1, <1>5, <1>6, ReadKeeps DEF IInv, Chip

LEMMA FetchFailsStep ==
  ASSUME IInv, NEW p \in Procs, FetchFails(p), UNCHANGED <<kind, at, held, mod, byHand, client, chipVars>>
  PROVE  IInv'
<1>. DEFINE r == [rd[p] EXCEPT !.buf = Append(@, Bad)]
            t == [r EXCEPT !.spoilt = TRUE]
<1>1. /\ p \in Reading /\ Len(rd[p].buf) < 2 * Channels
      /\ UNCHANGED <<dev, fd, fault>> /\ now' = now
      /\ DOMAIN rd' = Procs /\ rd'[p] = t
      /\ \A q \in Procs : q # p => rd'[q] = IF rd[q] = NoRead THEN NoRead ELSE [rd[q] EXCEPT !.spoilt = TRUE]
  BY DEF FetchFails, Registers, Reading, chipVars
<1>2. failed' \in 0 .. Failures
  <2>1. failed < Failures /\ failed' = failed + 1
    BY DEF FetchFails, BusFails
  <2>. QED  BY <2>1, SensorAssumption DEF IInv, Chip
<1>3. /\ ReadOK(r) /\ r.stored = rd[p].stored /\ r.data = rd[p].data
      /\ r.since = rd[p].since /\ r.floor = rd[p].floor
      /\ \A j \in DOMAIN r.buf : r.buf[j] = Bad \/ (j \in DOMAIN rd[p].buf /\ r.buf[j] = rd[p].buf[j])
  <2>1. Bad \in Bytes
    BY DEF Bytes
  <2>. QED  BY <1>1, <2>1, Fetching
<1>4. ASSUME NEW o, ReadOK(o), NEW u, u = [o EXCEPT !.spoilt = TRUE]
      PROVE  /\ ReadOK(u) /\ u.spoilt /\ u.stored = o.stored /\ u.data = o.data /\ u.buf = o.buf
             /\ u.since = o.since /\ u.floor = o.floor
  BY <1>4 DEF ReadOK, Reads
<1>5. ASSUME NEW q \in Reading'
      PROVE  /\ q \in Reading /\ rd'[q].since = rd[q].since /\ rd'[q].floor = rd[q].floor
             /\ rd'[q].stored = rd[q].stored /\ rd'[q].data = rd[q].data
             /\ rd'[q].spoilt /\ ReadOK(rd'[q])
             /\ q # p => rd'[q].buf = rd[q].buf
             /\ q = p => rd'[q].buf = r.buf
  <2>1. q \in Reading
    BY <1>1, <1>5 DEF Reading
  <2>2. CASE q = p
    <3>. HIDE DEF r
    <3>. QED  BY <1>1, <1>3, <1>4, <2>1, <2>2
  <2>3. CASE q # p
    <3>1. rd'[q] = [rd[q] EXCEPT !.spoilt = TRUE] /\ ReadOK(rd[q])
      BY <1>1, <2>1, <2>3 DEF Reading, IInv, Users
    <3>. QED  BY <1>4, <2>1, <2>3, <3>1
  <2>. QED  BY <2>2, <2>3
<1>. HIDE DEF r, t
<1>6. Users'
  BY <1>1, <1>5, UsersNext DEF IInv, Users
<1>7. Buffers' /\ Shared' /\ Returned'
  <2>1. \A q \in Reading' : \A j \in DOMAIN rd'[q].buf :
          rd'[q].buf[j] = Bad \/ (j \in DOMAIN rd[q].buf /\ rd'[q].buf[j] = rd[q].buf[j])
    BY <1>3, <1>5
  <2>. QED  BY <1>1, <1>5, <2>1, BytesFlow
<1>. QED  BY <1>1, <1>2, <1>6, <1>7, ReadKeeps

LEMMA StoreChannelStep ==
  ASSUME IInv, NEW p \in Procs, StoreChannel(p), UNCHANGED <<kind, at, held, mod, byHand, client, chipVars>>
  PROVE  IInv'
<1>. DEFINE o == rd[p]
            n == o.stored + 1
            r == [o EXCEPT !.stored = n]
<1>1. /\ p \in Reading /\ Len(o.buf) = 2 * Channels /\ o.stored < Channels
      /\ dev' = [dev EXCEPT ![n] = <<o.buf[2 * n - 1], o.buf[2 * n]>>]
      /\ rd' = [rd EXCEPT ![p] = r] /\ UNCHANGED <<fd, failed, fault>> /\ now' = now
  BY DEF StoreChannel, Registers, Reading, chipVars
<1>2. ReadOK(o) /\ o \in Reads /\ o.buf \in Seq(Bytes) /\ o.stored \in Nat
  BY <1>1, SensorAssumption DEF IInv, Users, ReadOK, Reads
<1>3. /\ n \in 1 .. Channels /\ 2 * n - 1 \in DOMAIN o.buf /\ 2 * n \in DOMAIN o.buf
      /\ 1 .. n = (1 .. o.stored) \cup {n}
  <2>1. DOMAIN o.buf = 1 .. 2 * Channels
    BY <1>1, <1>2
  <2>. HIDE DEF o
  <2>2. n \in 1 .. Channels /\ 1 .. n = (1 .. o.stored) \cup {n}
    BY <1>1, <1>2, SensorAssumption
  <2>. HIDE DEF n
  <2>3. 2 * n - 1 \in 1 .. 2 * Channels /\ 2 * n \in 1 .. 2 * Channels
    BY <2>2, SensorAssumption
  <2>. QED  BY <2>1, <2>2, <2>3
<1>. HIDE DEF o
<1>4. ReadOK(r) /\ r.stored = n /\ r.buf = o.buf /\ r.data = o.data /\ r.since = o.since
      /\ r.floor = o.floor /\ r.spoilt = o.spoilt
  <2>1. n \in 0 .. Channels
    BY <1>3
  <2>. HIDE DEF n
  <2>. QED  BY <1>2, <2>1 DEF ReadOK, Reads
<1>. HIDE DEF n, r
<1>5. /\ DOMAIN rd' = Procs /\ rd'[p] = r /\ \A q \in Procs : q # p => rd'[q] = rd[q]
      /\ \A q \in Reading' : q \in Reading /\ (q = p \/ rd'[q] = rd[q])
  BY <1>1 DEF IInv, Users, Reading
<1>6. /\ \A j \in {1, 2} : dev'[n][j] \in {o.buf[2 * n - 1], o.buf[2 * n]}
      /\ \A i \in 1 .. Channels : i # n => dev'[i] = dev[i]
      /\ dev' \in [1 .. Channels -> Bytes \X Bytes]
  <2>1. o.buf[2 * n - 1] \in Bytes /\ o.buf[2 * n] \in Bytes
    BY <1>2, <1>3
  <2>. QED  BY <1>1, <1>3, <2>1 DEF IInv, Users
<1>7. Users'
  BY <1>1, <1>4, <1>5, <1>6, UsersNext DEF IInv, Users
<1>8. Buffers' /\ Shared' /\ Returned'
  <2>1. \A q \in Reading' :
          /\ q \in Reading /\ rd'[q].since = rd[q].since /\ rd'[q].floor = rd[q].floor
          /\ rd'[q].spoilt = rd[q].spoilt /\ rd'[q].buf = rd[q].buf /\ rd'[q].data = rd[q].data
    BY <1>4, <1>5 DEF o
  <2>2. ASSUME NEW q \in Reading', NEW i \in 1 .. rd'[q].stored, NEW j \in {1, 2}
        PROVE  \/ i \in 1 .. rd[q].stored /\ dev'[i][j] = dev[i][j]
               \/ \E k \in Reading : \E m \in DOMAIN rd[k].buf : dev'[i][j] = rd[k].buf[m]
    <3>1. CASE i = n
      <4>1. \E m \in DOMAIN o.buf : dev'[n][j] = o.buf[m]
        BY <1>3, <1>6, <2>2
      <4>. QED  BY <1>1, <3>1, <4>1 DEF o
    <3>2. CASE i # n
      <4>1. i \in 1 .. rd[q].stored
        BY <1>3, <1>4, <1>5, <2>2, <3>2 DEF o
      <4>2. ReadOK(rd[q])
        BY <2>1, <2>2 DEF IInv, Users
      <4>3. i \in 1 .. Channels
        BY <4>1, <4>2, SensorAssumption DEF ReadOK, Reads
      <4>. QED  BY <1>6, <3>2, <4>1, <4>3
    <3>. QED  BY <3>1, <3>2
  <2>3. 0 \in {0, now, Bad} /\ 0 # Bad
    BY SensorAssumption
  <2>. QED  BY <1>1, <2>1, <2>2, <2>3, BytesFlow
<1>. QED  BY <1>1, <1>7, <1>8, ReadKeeps DEF IInv, Chip

LEMMA LoadChannelStep ==
  ASSUME IInv, NEW p \in Procs, LoadChannel(p), UNCHANGED <<kind, at, held, mod, byHand, client, chipVars>>
  PROVE  IInv'
<1>. DEFINE o == rd[p]
            n == Len(o.data) + 1
            r == [o EXCEPT !.data = Append(@, dev[n])]
<1>1. /\ p \in Reading /\ o.stored = Channels /\ Len(o.data) < Channels
      /\ rd' = [rd EXCEPT ![p] = r] /\ UNCHANGED <<dev, fd, failed, fault>> /\ now' = now
  BY DEF LoadChannel, Stored, Reading, chipVars
<1>2. ReadOK(o) /\ o \in Reads /\ o.data \in Seq(Bytes \X Bytes) /\ Len(o.data) \in Nat
  BY <1>1 DEF IInv, Users, ReadOK, Reads
<1>3. n \in 1 .. Channels /\ dev[n] \in Bytes \X Bytes
  BY <1>1, <1>2, SensorAssumption DEF IInv, Users
<1>. HIDE DEF n, o
<1>4. /\ Append(o.data, dev[n]) \in Seq(Bytes \X Bytes) /\ Len(Append(o.data, dev[n])) = Len(o.data) + 1
      /\ \A i \in DOMAIN Append(o.data, dev[n]) :
           \/ Append(o.data, dev[n])[i] = dev[n]
           \/ i \in DOMAIN o.data /\ Append(o.data, dev[n])[i] = o.data[i]
  BY <1>2, <1>3, Appended
<1>5. /\ r.data = Append(o.data, dev[n]) /\ r.stored = o.stored /\ r.buf = o.buf /\ r.since = o.since
      /\ r.floor = o.floor /\ r.spoilt = o.spoilt /\ r \in Reads
  BY <1>2, <1>4 DEF Reads
<1>6. ReadOK(r)
  <2>1. Len(r.data) <= Channels
    BY <1>1, <1>2, <1>4, <1>5, SensorAssumption
  <2>. QED  BY <1>2, <1>5, <2>1 DEF ReadOK
<1>. HIDE DEF r
<1>7. /\ DOMAIN rd' = Procs /\ rd'[p] = r /\ \A q \in Procs : q # p => rd'[q] = rd[q]
      /\ \A q \in Reading' : q \in Reading /\ (q = p \/ rd'[q] = rd[q])
  BY <1>1 DEF IInv, Users, Reading
<1>8. Users'
  BY <1>1, <1>6, <1>7, UsersNext DEF IInv, Users
<1>9. Buffers' /\ Shared' /\ Returned'
  <2>1. \A q \in Reading' :
          /\ q \in Reading /\ rd'[q].since = rd[q].since /\ rd'[q].floor = rd[q].floor
          /\ rd'[q].spoilt = rd[q].spoilt /\ rd'[q].buf = rd[q].buf /\ rd'[q].stored = rd[q].stored
    BY <1>5, <1>7 DEF o
  <2>2. ASSUME NEW q \in Reading', NEW i \in DOMAIN rd'[q].data, NEW j \in {1, 2}
        PROVE  \/ i \in DOMAIN rd[q].data /\ rd'[q].data[i][j] = rd[q].data[i][j]
               \/ \E m \in 1 .. rd[q].stored : rd'[q].data[i][j] = dev[m][j]
    <3>1. CASE q = p
      <4>1. rd'[q].data = Append(o.data, dev[n]) /\ n \in 1 .. rd[q].stored /\ rd[q].data = o.data
        BY <1>1, <1>3, <1>5, <1>7, <3>1 DEF o
      <4>. QED  BY <1>4, <2>2, <4>1
    <3>2. CASE q # p
      BY <1>7, <2>2, <3>2
    <3>. QED  BY <3>1, <3>2
  <2>3. 0 \in {0, now, Bad} /\ 0 # Bad
    BY SensorAssumption
  <2>. QED  BY <1>1, <2>1, <2>2, <2>3, BytesFlow
<1>. QED  BY <1>1, <1>8, <1>9, ReadKeeps DEF IInv, Chip

\* A read that ends, or whose process is killed: at a bad pointer in read only
\* after an unbind by hand, and never in the demo driver.
LEMMA ReadLeavesStep ==
  ASSUME IInv, NEW p \in Procs, ReadEnd(p) \/ FetchFaults(p),
         UNCHANGED <<kind, at, held, mod, byHand, client, chipVars>>
  PROVE  IInv'
<1>1. /\ p \in Reading /\ rd' = [rd EXCEPT ![p] = NoRead] /\ now' = now /\ UNCHANGED <<dev, failed>>
      /\ \/ UNCHANGED <<fd, fault>>
         \/ ~HasChip /\ fault' = "read" /\ fd' = [fd EXCEPT ![p] = "closed"]
  BY DEF ReadEnd, FetchFaults, Reading, chipVars
<1>2. DOMAIN rd' = Procs /\ \A q \in Reading' : q \in Reading /\ q # p /\ rd'[q] = rd[q]
  BY <1>1 DEF IInv, Users, Reading
<1>3. \A q \in Procs : fd'[q] = fd[q] \/ (q = p /\ fd'[q] = "closed")
  BY <1>1 DEF IInv, Files
<1>4. Users'
  BY <1>1, <1>2, <1>3, UsersNext DEF IInv, Users, Reading
<1>5. Buffers' /\ Shared' /\ Returned'
  BY <1>1, <1>2, <1>4, FreshNext DEF IInv, Buffers, Shared, Returned, FreshFor
<1>6. Bind'
  BY DEF IInv, Bind, Rung
<1>7. Files'
  BY <1>1, <1>3 DEF IInv, Files
<1>8. fd[p] = "open"
  BY <1>1 DEF IInv, Users
<1>9. Chip'
  BY <1>1, <1>3, <1>8 DEF IInv, Chip, chipVars
<1>10. NoFault'
  <2>1. ~HasChip => kind # "demo" /\ byHand
    BY <1>8 DEF HasChip, IInv, Bind, Rung, Files, Reading
  <2>. QED  BY <1>1, <2>1 DEF IInv, NoFault
<1>. QED  BY <1>4, <1>5, <1>6, <1>7, <1>9, <1>10 DEF IInv

-----------------------------------------------------------------------------
(* The invariant holds. *)

LEMMA Initially == Init => IInv
<1>. SUFFICES ASSUME Init PROVE IInv
  OBVIOUS
<1>1. at = <<"off", 0>> /\ held = {} /\ mod = "gone" /\ byHand = FALSE /\ kind \in Kinds
  BY DEF Init, Core!DriverInit, Core!Init
<1>2. Bind
  BY <1>1 DEF Init, Bind, Rung
<1>3. Files /\ NoFault
  BY DEF Init, Files, NoFault
<1>4. Chip
  <2>1. 0 \in 0 .. Conversions /\ 0 \in 0 .. Failures
    BY SensorAssumption
  <2>2. at # <<"on", 0>> /\ \A p \in Procs : fd[p] = "closed"
    BY <1>1 DEF Init
  <2>. QED  BY <2>1, <2>2 DEF Init, Chip
<1>5. dev \in [1 .. Channels -> Bytes \X Bytes]
  BY SensorAssumption DEF Init, Bytes
<1>6. Users /\ Buffers /\ Shared /\ Returned
  BY <1>5 DEF Init, Users, Buffers, Shared, Returned, Reading
<1>. QED  BY <1>2, <1>3, <1>4, <1>6 DEF IInv

LEMMA Inductive == IInv /\ [Next]_vars => IInv'
<1>. SUFFICES ASSUME IInv, [Next]_vars PROVE IInv'
  OBVIOUS
<1>1. CASE UNCHANGED vars
  <2>1. UNCHANGED <<kind, at, held, mod, byHand, client, chipVars, dev, rd, fd, failed, fault>>
    BY <1>1 DEF vars, chipVars, userVars
  <2>2. Bind' /\ Files' /\ NoFault'
    BY <2>1 DEF IInv, Bind, Rung, Files, NoFault
  <2>. QED  BY <2>1, <2>2, ChipKept, UsersKept DEF IInv, chipVars
<1>2. CASE Convert /\ kind' = kind
  BY <1>2, ConvertStep
<1>3. ASSUME NEW k \in Kinds, kind = k, kind' = kind,
             \/ Load(k) \/ Rebind(k) \/ InitRegmap(k) \/ RegisterMisc(k)
             \/ SetClient(k) \/ RegInit(k) \/ Remove(k) \/ FreeRegmap(k)
      PROVE  IInv'
  BY <1>3, DriverStep
<1>4. ASSUME NEW p \in Procs, App(p), kind' = kind PROVE IInv'
  <2>1. CASE OpenClose(p)
    BY <1>4, <2>1, OpenCloseStep
  <2>2. CASE Read(p)
    <3>1. UNCHANGED <<kind, at, held, mod, byHand, client, chipVars>>
      BY <1>4, <2>2 DEF Read
    <3>2. CASE ReadBegin(p)
      BY <3>1, <3>2, ReadBeginStep
    <3>3. CASE FetchReg(p)
      BY <3>1, <3>3, FetchRegStep
    <3>4. CASE FetchFails(p)
      BY <3>1, <3>4, FetchFailsStep
    <3>5. CASE StoreChannel(p)
      BY <3>1, <3>5, StoreChannelStep
    <3>6. CASE LoadChannel(p)
      BY <3>1, <3>6, LoadChannelStep
    <3>7. CASE ReadEnd(p) \/ FetchFaults(p)
      BY <3>1, <3>7, ReadLeavesStep
    <3>. QED  BY <2>2, <3>2, <3>3, <3>4, <3>5, <3>6, <3>7 DEF Read
  <2>. QED  BY <1>4, <2>1, <2>2 DEF App
<1>5. CASE Hung
  BY <1>1, <1>5 DEF Hung
<1>. QED  BY <1>1, <1>2, <1>3, <1>4, <1>5 DEF Next

LEMMA Invariant == Spec => []IInv
BY Initially, Inductive, PTL DEF Spec

\* Every variable has its type, for any number of processes and of quantities.
THEOREM MiscTypes == Spec => []TypeOK
<1>1. IInv => TypeOK
  <2>. SUFFICES ASSUME IInv PROVE TypeOK
    OBVIOUS
  <2>1. ASSUME NEW k \in Kinds, kind = k PROVE Core(k)!DriverTypeOK
    <3>1. Rung(k) /\ mod \in {"gone", "coming", "live", "going"} /\ byHand \in BOOLEAN
      BY <2>1 DEF IInv, Bind
    <3>2. CASE k = "demo"
      <4>1. DOMAIN Acquired[k] = 1 .. 2 /\ DOMAIN Released[k] = 1 .. 1 /\ Acquired[k][1] = "node"
        BY <3>2, Tables
      <4>2. /\ 1 \in DOMAIN Acquired[k] /\ 2 \in DOMAIN Acquired[k] /\ 1 \in DOMAIN Released[k]
            /\ "node" \in Core(k)!Resources
        BY <4>1 DEF Core!Resources
      <4>. QED  BY <3>1, <3>2, <4>2 DEF Rung, Core!DriverTypeOK, Core!TypeOK
    <3>3. CASE k # "demo"
      <4>1. /\ DOMAIN Acquired[k] = IF k = "icm" THEN 1 .. 4 ELSE 1 .. 2
            /\ DOMAIN Released[k] = 1 .. 2 /\ Acquired[k][1] = "regmap" /\ Acquired[k][2] = "node"
        BY <3>3, Tables DEF Kinds
      <4>2. /\ 1 \in DOMAIN Acquired[k] /\ 2 \in DOMAIN Acquired[k]
            /\ 1 \in DOMAIN Released[k] /\ 2 \in DOMAIN Released[k]
            /\ k = "icm" => 3 \in DOMAIN Acquired[k] /\ 4 \in DOMAIN Acquired[k]
        BY <4>1
      <4>3. "regmap" \in Core(k)!Resources /\ "node" \in Core(k)!Resources
        BY <4>1, <4>2 DEF Core!Resources
      <4>. QED  BY <3>1, <3>3, <4>2, <4>3 DEF Rung, Core!DriverTypeOK, Core!TypeOK
    <3>. QED  BY <3>2, <3>3
  <2>2. ASSUME NEW p \in Procs, rd[p] # NoRead
        PROVE  /\ rd[p].buf \in Seq(Bytes) /\ Len(rd[p].buf) <= 2 * Channels
               /\ rd[p].data \in Seq(Bytes \X Bytes) /\ Len(rd[p].data) <= Channels
               /\ rd[p].stored \in 0 .. Channels
               /\ rd[p].floor \in 0 .. rd[p].since /\ rd[p].since \in 0 .. now
               /\ rd[p].spoilt \in BOOLEAN
    <3>1. ReadOK(rd[p]) /\ now \in Nat
      BY <2>2, SensorAssumption DEF IInv, Users, Reading, Chip
    <3>2. rd[p].floor \in 0 .. rd[p].since /\ rd[p].since \in 0 .. now
      BY <3>1 DEF ReadOK, Reads
    <3>. QED  BY <3>1, <3>2 DEF ReadOK, Reads
  <2>3. reg \in 0 .. now
    BY SensorAssumption DEF IInv, Chip
  <2>. QED  BY <2>1, <2>2, <2>3 DEF TypeOK, IInv, Bind, Files, Chip, Users
<1>. QED  BY Invariant, <1>1, PTL

\* The kernel uses a bad pointer in the two ways that NoFault names and in no
\* other, however opens, reads, probe and remove interleave.
THEOREM MiscNoFault == Spec => []NoFault
<1>1. IInv => NoFault
  BY DEF IInv
<1>. QED  BY Invariant, <1>1, PTL

\* As long as a process has the sensor open, it is enabled, whoever opens and
\* closes it besides, unless the last write to its configuration failed.
THEOREM MiscSensorOn == Spec => []SensorOn
<1>1. IInv => SensorOn
  BY DEF IInv, Chip, SensorOn, MutexFree
<1>. QED  BY Invariant, <1>1, PTL

\* Readers that overwrite each other's values never return a byte older than
\* the oldest read they overlap: for any number of readers and of quantities.
THEOREM MiscNotStale == Spec => []NotStale
<1>1. IInv => NotStale
  BY DEF IInv, Returned, NotStale, FreshFor, Fresh
<1>. QED  BY Invariant, <1>1, PTL
=============================================================================
