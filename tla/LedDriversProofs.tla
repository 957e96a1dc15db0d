-------------------------- MODULE LedDriversProofs --------------------------
(***************************************************************************)
(* What the probe labels, the order of remove and the modules' use counts  *)
(* guarantee of the three LED drivers, for any number of processes.        *)
(***************************************************************************)
EXTENDS LedDrivers, TLAPS

\* What probe has acquired before its step i, what remove has left before its.
Before(d, i) == {Acquired[d][j] : j \in 1 .. i - 1}
Left(d, i) == {Released[d][j] : j \in i .. Len(Released[d])}
Steps(d) == 1 .. Len(Acquired[d])
Exits(d) == 1 .. Len(Released[d])

\* Probe in its order: the pin is requested and driven before the node is made,
\* the node before the timer, and a label releases all that has been acquired
\* before its step.
LEMMA ProbeOrder ==
  ASSUME NEW d \in Drivers
  PROVE  /\ Len(Acquired[d]) \in Nat \ {0}
         /\ DOMAIN Acquired[d] = Steps(d)
         /\ \A i \in Steps(d) :
              /\ Acquired[d][i] \in DOMAIN UndoneBy[d] =>
                   Before(d, i) \subseteq UndoneBy[d][Acquired[d][i]] /\ Node[d] \notin Before(d, i)
              /\ Before(d, i) \cup {Acquired[d][i]} = Before(d, i + 1)
              /\ Node[d] \in Before(d, i + 1) => {"gpio", "led"} \subseteq Before(d, i + 1)
              /\ "timer" \in Before(d, i + 1) => Node[d] \in Before(d, i + 1)
<1>1. CASE d = "gpioled"
  <2>1. Len(Acquired[d]) = 6 /\ DOMAIN Acquired[d] = 1 .. 6 /\ Node[d] = "device"
    BY <1>1 DEF Acquired, Node
  <2>. QED  BY <1>1, <2>1 DEF Acquired, Steps, Before, UndoneBy, Labels
<1>2. CASE d = "misc"
  <2>1. Len(Acquired[d]) = 3 /\ DOMAIN Acquired[d] = 1 .. 3 /\ Node[d] = "miscdev"
    BY <1>2 DEF Acquired, Node
  <2>. QED  BY <1>2, <2>1 DEF Acquired, Steps, Before, UndoneBy, Labels
<1>3. CASE d = "tasklet"
  <2>1. Len(Acquired[d]) = 7 /\ DOMAIN Acquired[d] = 1 .. 7 /\ Node[d] = "device"
    BY <1>3 DEF Acquired, Node
  <2>. QED  BY <1>3, <2>1 DEF Acquired, Steps, Before, UndoneBy, Labels
<1>. QED  BY <1>1, <1>2, <1>3 DEF Drivers

\* Remove in its order: it releases all, the node before the pin, the timer and
\* the node before the LED has been turned off for good.
LEMMA RemoveOrder ==
  ASSUME NEW d \in Drivers
  PROVE  /\ Len(Released[d]) \in Nat \ {0}
         /\ DOMAIN Released[d] = Exits(d)
         /\ Left(d, 1) = Before(d, Len(Acquired[d]) + 1)
         /\ "led" \in Left(d, 1)
         /\ \A i \in Exits(d) :
              /\ Left(d, i) \ {Released[d][i]} = Left(d, i + 1)
              /\ i = Len(Released[d]) => Left(d, i + 1) = {}
              /\ Node[d] \in Left(d, i) => "gpio" \in Left(d, i)
              /\ "timer" \in Left(d, i) => "led" \in Left(d, i)
<1>1. CASE d = "gpioled"
  <2>1. Len(Released[d]) = 6 /\ DOMAIN Released[d] = 1 .. 6 /\ Node[d] = "device" /\ Len(Acquired[d]) = 6
    BY <1>1 DEF Released, Node, Acquired
  <2>. QED  BY <1>1, <2>1 DEF Released, Acquired, Exits, Left, Before
<1>2. CASE d = "misc"
  <2>1. Len(Released[d]) = 3 /\ DOMAIN Released[d] = 1 .. 3 /\ Node[d] = "miscdev" /\ Len(Acquired[d]) = 3
    BY <1>2 DEF Released, Node, Acquired
  <2>. QED  BY <1>2, <2>1 DEF Released, Acquired, Exits, Left, Before
<1>3. CASE d = "tasklet"
  <2>1. Len(Released[d]) = 7 /\ DOMAIN Released[d] = 1 .. 7 /\ Node[d] = "device" /\ Len(Acquired[d]) = 7
    BY <1>3 DEF Released, Node, Acquired
  <2>. QED  BY <1>3, <2>1 DEF Released, Acquired, Exits, Left, Before
<1>. QED  BY <1>1, <1>2, <1>3 DEF Drivers

-----------------------------------------------------------------------------
(* The inductive invariant. *)

\* Where probe or remove of driver d is says what the driver holds.
Rung(d) ==
  \/ at = <<"off", 0>> /\ held = {}
  \/ \E i \in Steps(d) : at = <<"init", i>> /\ held = Before(d, i)
  \/ at = <<"on", 0>> /\ held = Before(d, Len(Acquired[d]) + 1)
  \/ \E i \in Exits(d) : at = <<"exit", i>> /\ held = Left(d, i)

\* The drivers in turn.
Turns ==
  /\ mod \in [Drivers -> {"gone", "coming", "live", "going"}]
  /\ driver \in Drivers \cup {None}
  /\ driver = None => at = <<"off", 0>> /\ held = {}
  /\ \A d \in Drivers : driver = d => Rung(d)

\* As long as the use count decides about unloading, the files that are open
\* are those of the driver that is bound, and keep it from being removed.
Files ==
  /\ file \in [Procs -> Drivers \cup {None}]
  /\ \A p \in Procs : file[p] # None /\ ~byHand =>
        file[p] = driver /\ Node[driver] \in held /\ at[1] # "exit"
  /\ at[1] = "exit" /\ ~byHand => mod[driver] = "going"

\* Nobody can turn the LED on: probe has not made the node yet, or remove has
\* turned it off already.
Dark ==
  \/ at[1] = "off"
  \/ at[1] = "init" /\ Node[driver] \notin held
  \/ at[1] = "exit" /\ "led" \notin held

\* What a driver has driven is an output, and stays one; all but led_misc make
\* the pin an output before their nodes.
Pin ==
  /\ level \in {0, 1}
  /\ output \in BOOLEAN
  /\ set \in {0, 1, None}
  /\ byHand \in BOOLEAN
  /\ set # None => output
  /\ driver \notin {None, "misc"} /\ ("led" \in held \/ Node[driver] \in held) => output
  /\ set # None /\ ~byHand => level = set /\ (Dark => set = 1)

IInv == Turns /\ Files /\ Pin

-----------------------------------------------------------------------------
(* One step of a probe or a remove, from rung to rung. *)

LEMMA BeginClimbs ==
  ASSUME NEW d \in Drivers, Life(d)!Begin, held = {}
  PROVE  Rung(d)' /\ at = <<"off", 0>> /\ at' = <<"init", 1>> /\ held' = {}
<1>1. 1 \in Steps(d) /\ Before(d, 1) = {}
  BY ProbeOrder DEF Steps, Before
<1>. QED  BY <1>1 DEF Rung, Life!Begin

LEMMA AcquireClimbs ==
  ASSUME NEW d \in Drivers, Rung(d), NEW i \in DOMAIN Acquired[d], Life(d)!Acquire(i)
  PROVE  /\ Rung(d)'
         /\ i \in Steps(d)
         /\ at = <<"init", i>> /\ held = Before(d, i) /\ held' = Before(d, i + 1)
         /\ at' = <<"on", 0>> \/ at' = <<"init", i + 1>>
<1>1. i \in Steps(d) /\ Len(Acquired[d]) \in Nat
  BY ProbeOrder
<1>2. at = <<"init", i>> /\ held = Before(d, i)
  BY DEF Rung, Life!Acquire
<1>3. held' = Before(d, i + 1)
  BY <1>1, <1>2, ProbeOrder DEF Life!Acquire
<1>4. CASE i = Len(Acquired[d])
  BY <1>1, <1>2, <1>3, <1>4 DEF Rung, Life!Acquire
<1>5. CASE i # Len(Acquired[d])
  <2>1. i + 1 \in Steps(d)
    BY <1>1, <1>5 DEF Steps
  <2>. QED  BY <1>1, <1>2, <1>3, <1>5, <2>1 DEF Rung, Life!Acquire
<1>. QED  BY <1>4, <1>5

LEMMA FailDescends ==
  ASSUME NEW d \in Drivers, Rung(d), NEW i \in DOMAIN Acquired[d], Life(d)!Fail(i)
  PROVE  /\ Rung(d)'
         /\ at = <<"init", i>> /\ Node[d] \notin held
         /\ at' = <<"off", 0>> /\ held' = {}
<1>1. i \in Steps(d) /\ Acquired[d][i] \in DOMAIN UndoneBy[d]
  BY ProbeOrder DEF Life!Fail
<1>2. at = <<"init", i>> /\ held = Before(d, i)
  BY DEF Rung, Life!Fail
<1>3. held \subseteq UndoneBy[d][Acquired[d][i]] /\ Node[d] \notin held
  BY <1>1, <1>2, ProbeOrder
<1>4. at' = <<"off", 0>> /\ held' = {}
  BY <1>3 DEF Life!Fail
<1>. QED  BY <1>2, <1>3, <1>4 DEF Rung

LEMMA QuitDescends ==
  ASSUME NEW d \in Drivers, Rung(d), Life(d)!Quit
  PROVE  Rung(d)' /\ at = <<"on", 0>> /\ at' = <<"exit", 1>> /\ "led" \in held /\ held' = held
<1>1. held = Left(d, 1) /\ 1 \in Exits(d) /\ "led" \in Left(d, 1)
  BY RemoveOrder DEF Rung, Life!Quit, Exits
<1>. QED  BY <1>1 DEF Rung, Life!Quit

LEMMA ReleaseDescends ==
  ASSUME NEW d \in Drivers, Rung(d), NEW i \in DOMAIN Released[d], Life(d)!Release(i)
  PROVE  /\ Rung(d)'
         /\ i \in Exits(d)
         /\ at = <<"exit", i>> /\ held = Left(d, i) /\ held' = held \ {Released[d][i]}
         /\ at' = <<"off", 0>> \/ at' = <<"exit", i + 1>>
<1>1. i \in Exits(d) /\ Len(Released[d]) \in Nat
  BY RemoveOrder
<1>2. at = <<"exit", i>> /\ held = Left(d, i) /\ held' = held \ {Released[d][i]}
  BY DEF Rung, Life!Release
<1>3. held' = Left(d, i + 1)
  BY <1>1, <1>2, RemoveOrder
<1>4. CASE i = Len(Released[d])
  BY <1>1, <1>2, <1>3, <1>4, RemoveOrder DEF Rung, Life!Release
<1>5. CASE i # Len(Released[d])
  <2>1. i + 1 \in Exits(d)
    BY <1>1, <1>5 DEF Exits
  <2>. QED  BY <1>1, <1>2, <1>3, <1>5, <2>1 DEF Rung, Life!Release
<1>. QED  BY <1>4, <1>5

\* A node that exists leads to a pin that is requested, and a timer that runs
\* finds the node made and the LED not yet turned off for good.
LEMMA NodeOnPin ==
  ASSUME NEW d \in Drivers, Rung(d), Node[d] \in held
  PROVE  "gpio" \in held
<1>1. ASSUME NEW i \in Steps(d) \cup {Len(Acquired[d]) + 1}, held = Before(d, i) PROVE "gpio" \in held
  <2>1. i # 1
    BY <1>1 DEF Before
  <2>2. i - 1 \in Steps(d) /\ i = (i - 1) + 1
    BY <2>1, ProbeOrder DEF Steps
  <2>. QED  BY <1>1, <2>2, ProbeOrder
<1>. QED  BY <1>1, RemoveOrder DEF Rung

LEMMA TimerLit ==
  ASSUME NEW d \in Drivers, Rung(d), "timer" \in held
  PROVE  at[1] # "off" /\ (at[1] = "init" => Node[d] \in held) /\ (at[1] = "exit" => "led" \in held)
<1>1. ASSUME NEW i \in Steps(d), held = Before(d, i) PROVE Node[d] \in held
  <2>1. i # 1
    BY <1>1 DEF Before
  <2>2. i - 1 \in Steps(d) /\ i = (i - 1) + 1
    BY <2>1, ProbeOrder DEF Steps
  <2>. QED  BY <1>1, <2>2, ProbeOrder
<1>. QED  BY <1>1, RemoveOrder DEF Rung

-----------------------------------------------------------------------------
(* The steps of the system. *)

LEMMA InitIInv == Init => IInv
<1>. SUFFICES ASSUME Init PROVE IInv
  OBVIOUS
<1>1. Turns
  BY NoneAssumption DEF Init, Turns
<1>2. Files
  <2>1. at = <<"off", 0>> /\ file = [p \in Procs |-> None]
    BY DEF Init
  <2>. QED  BY <2>1 DEF Files
<1>3. Pin
  BY DEF Init, Pin
<1>. QED  BY <1>1, <1>2, <1>3 DEF IInv

LEMMA Settled ==
  ASSUME NEW d \in Drivers, Turns, Settle(d)
  PROVE  /\ mod' \in [Drivers -> {"gone", "coming", "live", "going"}]
         /\ \A i : at' = <<"exit", i>> => mod' = mod
<1>1. ASSUME NEW i, at' = <<"exit", i>> PROVE mod' = mod
  <2>1. at'[1] = "exit" /\ <<"on", 0>>[1] = "on" /\ <<"off", 0>>[1] = "off"
    BY <1>1
  <2>2. at' \notin {<<"on", 0>>, <<"off", 0>>}
    BY <2>1
  <2>. QED  BY <2>2 DEF Settle
<1>. QED  BY <1>1 DEF Turns, Settle

\* A device that nobody has bound to a driver gets one.
LEMMA BeginIInv ==
  ASSUME NEW d \in Drivers, IInv, Life(d)!Begin, driver' = d,
         mod' \in [Drivers -> {"gone", "coming", "live", "going"}],
         UNCHANGED <<file, pinVars, byHand>>
  PROVE  IInv'
<1>1. at = <<"off", 0>> /\ held = {}
  BY DEF IInv, Turns, Rung, Life!Begin
<1>2. Rung(d)' /\ at' = <<"init", 1>> /\ held' = {}
  BY <1>1, BeginClimbs
<1>3. Turns'
  BY <1>2, NoneAssumption DEF IInv, Turns
<1>4. Files'
  BY <1>1, <1>2 DEF IInv, Files
<1>5. Pin'
  BY <1>1, <1>2 DEF IInv, Pin, Dark, pinVars
<1>. QED  BY <1>3, <1>4, <1>5 DEF IInv

LEMMA QuitIInv ==
  ASSUME NEW d \in Drivers, IInv, driver = d, Life(d)!Quit,
         mod' \in [Drivers -> {"gone", "coming", "live", "going"}],
         \/ byHand' = TRUE
         \/ byHand' = byHand /\ ~InUse(d) /\ mod'[d] = "going",
         UNCHANGED <<driver, file, pinVars>>
  PROVE  IInv'
<1>1. Rung(d)' /\ at = <<"on", 0>> /\ at' = <<"exit", 1>> /\ "led" \in held /\ held' = held
  BY QuitDescends DEF IInv, Turns
<1>2. Turns'
  BY <1>1, NoneAssumption DEF IInv, Turns
<1>3. Files'
  BY <1>1 DEF IInv, Files, InUse
<1>4. Pin'
  BY <1>1 DEF IInv, Pin, Dark, pinVars
<1>. QED  BY <1>2, <1>3, <1>4 DEF IInv

LEMMA InsmodIInv ==
  ASSUME IInv, NEW d \in Drivers, Insmod(d)
  PROVE  IInv'
<1>1. mod' \in [Drivers -> {"gone", "coming", "live", "going"}] /\ UNCHANGED <<file, pinVars, byHand>>
  BY DEF Insmod, IInv, Turns
<1>2. CASE Unbound
  BY <1>1, <1>2, BeginIInv DEF Insmod
<1>3. CASE ~Unbound
  <2>1. UNCHANGED <<driver, at, held>> /\ at = <<"on", 0>>
    BY <1>3 DEF Insmod, Bound
  <2>. QED  BY <1>1, <2>1 DEF IInv, Turns, Rung, Files, Pin, Dark, pinVars
<1>. QED  BY <1>2, <1>3

LEMMA RmmodIInv ==
  ASSUME IInv, NEW d \in Drivers, Rmmod(d)
  PROVE  IInv'
<1>1. mod' \in [Drivers -> {"gone", "coming", "live", "going"}] /\ UNCHANGED <<driver, file, pinVars, byHand>>
  BY DEF Rmmod, IInv, Turns
<1>2. CASE Bound /\ driver = d
  <2>1. Life(d)!Quit /\ ~InUse(d) /\ mod'[d] = "going" /\ byHand \in BOOLEAN
    BY <1>2 DEF Rmmod, IInv, Turns, Pin
  <2>. QED  BY <1>1, <1>2, <2>1, QuitIInv
<1>3. CASE ~(Bound /\ driver = d)
  <2>1. UNCHANGED <<at, held>> /\ at[1] # "exit"
    BY <1>3 DEF Rmmod, Bound, Unbound
  <2>. QED  BY <1>1, <2>1 DEF IInv, Turns, Rung, Files, Pin, Dark, pinVars
<1>. QED  BY <1>2, <1>3

LEMMA SysfsIInv ==
  ASSUME IInv, NEW d \in Drivers, SysfsBind(d) \/ SysfsUnbind(d)
  PROVE  IInv'
<1>1. CASE SysfsBind(d)
  BY <1>1, BeginIInv DEF SysfsBind, IInv, Turns
<1>2. CASE SysfsUnbind(d)
  <2>1. mod' \in [Drivers -> {"gone", "coming", "live", "going"}] /\ UNCHANGED <<driver, file, pinVars>>
    BY <1>2 DEF SysfsUnbind, IInv, Turns
  <2>2. driver = d /\ Life(d)!Quit
    BY <1>2 DEF SysfsUnbind
  <2>3. byHand' = TRUE
    BY <1>2 DEF SysfsUnbind
  <2>. QED  BY <2>1, <2>2, <2>3, QuitIInv
<1>. QED  BY <1>1, <1>2

LEMMA ProbeStepIInv ==
  ASSUME IInv, NEW d \in Drivers, ProbeStep(d)
  PROVE  IInv'
<1>1. PICK i \in DOMAIN Acquired[d] :
        /\ Life(d)!Acquire(i)
        /\ \/ UNCHANGED pinVars /\ (Acquired[d][i] = "led" => d = "misc")
           \/ Acquired[d][i] = "led" /\ output' = TRUE /\ level' = 1 /\ set' = 1
  <2>1. "led" \notin DOMAIN UndoneBy[d] => d = "misc"
    BY DEF UndoneBy, Labels, Drivers
  <2>. QED  BY <2>1 DEF ProbeStep
<1>2. driver = d /\ Rung(d) /\ UNCHANGED <<driver, file, byHand>>
  BY DEF ProbeStep, IInv, Turns
<1>3. /\ Rung(d)' /\ i \in Steps(d) /\ at = <<"init", i>>
      /\ held = Before(d, i) /\ held' = Before(d, i + 1)
      /\ at' = <<"on", 0>> \/ at' = <<"init", i + 1>>
  BY <1>1, <1>2, AcquireClimbs
<1>4. /\ held' = held \cup {Acquired[d][i]} /\ at'[1] \in {"on", "init"}
      /\ Node[d] \in held' => "led" \in held'
  BY <1>3, ProbeOrder
<1>5. Turns'
  BY <1>2, <1>3, Settled, NoneAssumption DEF ProbeStep, IInv, Turns
<1>6. Files'
  BY <1>2, <1>4 DEF IInv, Files
<1>7. Pin'
  <2>1. driver' \notin {None, "misc"} /\ ("led" \in held' \/ Node[driver'] \in held') => output'
    BY <1>1, <1>2, <1>4 DEF IInv, Pin, pinVars
  <2>2. level' \in {0, 1} /\ output' \in BOOLEAN /\ set' \in {0, 1, None} /\ (set' # None => output')
    <3>1. CASE UNCHANGED pinVars
      <4>1. level' = level /\ output' = output /\ set' = set
        BY <3>1 DEF pinVars
      <4>. QED  BY <4>1, Zenon DEF IInv, Pin
    <3>2. CASE output' = TRUE /\ level' = 1 /\ set' = 1
      BY <3>2
    <3>. QED  BY <1>1, <3>1, <3>2
  <2>3. ASSUME set' # None, ~byHand' PROVE level' = set' /\ (Dark' => set' = 1)
    <3>1. CASE UNCHANGED pinVars
      <4>1. at[1] = "init" /\ driver' = driver /\ byHand' = byHand
        BY <1>2, <1>3
      <4>2. Dark' => Dark
        BY <1>4, <4>1 DEF Dark
      <4>. QED  BY <2>3, <3>1, <4>1, <4>2 DEF IInv, Pin, pinVars
    <3>2. CASE level' = 1 /\ set' = 1
      BY <3>2
    <3>. QED  BY <1>1, <3>1, <3>2
  <2>. QED  BY <1>2, <2>1, <2>2, <2>3 DEF IInv, Pin
<1>. QED  BY <1>5, <1>6, <1>7 DEF IInv

LEMMA ProbeFailsIInv ==
  ASSUME IInv, NEW d \in Drivers, ProbeFails(d)
  PROVE  IInv'
<1>1. PICK i \in DOMAIN Acquired[d] : Life(d)!Fail(i)
  BY DEF ProbeFails
<1>2. driver = d /\ Rung(d) /\ UNCHANGED <<driver, file, pinVars, byHand>>
  BY DEF ProbeFails, IInv, Turns
<1>3. Rung(d)' /\ at = <<"init", i>> /\ Node[d] \notin held /\ at' = <<"off", 0>> /\ held' = {}
  BY <1>1, <1>2, FailDescends
<1>4. Turns'
  BY <1>2, <1>3, Settled, NoneAssumption DEF ProbeFails, IInv, Turns
<1>5. Files'
  BY <1>2, <1>3 DEF IInv, Files
<1>6. Pin'
  BY <1>2, <1>3 DEF IInv, Pin, Dark, pinVars
<1>. QED  BY <1>4, <1>5, <1>6 DEF IInv

LEMMA RemoveStepIInv ==
  ASSUME IInv, NEW d \in Drivers, RemoveStep(d)
  PROVE  IInv'
<1>1. PICK i \in DOMAIN Released[d] :
        /\ Life(d)!Release(i)
        /\ \/ Released[d][i] = "led" /\ Drive(1)
           \/ Released[d][i] # "led" /\ UNCHANGED pinVars
  BY DEF RemoveStep
<1>2. driver = d /\ Rung(d) /\ UNCHANGED <<driver, file, byHand>>
  BY DEF RemoveStep, IInv, Turns
<1>3. /\ Rung(d)' /\ i \in Exits(d) /\ at = <<"exit", i>>
      /\ held = Left(d, i) /\ held' = held \ {Released[d][i]}
      /\ (at' = <<"off", 0>> /\ held' = {}) \/ at' = <<"exit", i + 1>>
  BY <1>1, <1>2, ReleaseDescends DEF Rung
<1>4. at'[1] \in {"off", "exit"} /\ at[1] = "exit"
  BY <1>3
<1>5. Turns' /\ (at'[1] = "exit" => mod' = mod)
  BY <1>2, <1>3, Settled, NoneAssumption DEF RemoveStep, IInv, Turns
<1>6. Files'
  BY <1>2, <1>4, <1>5 DEF IInv, Files
<1>7. Pin'
  BY <1>1, <1>2, <1>3, <1>4, NoneAssumption DEF IInv, Pin, Dark, pinVars, Drive, GpioSet
<1>. QED  BY <1>5, <1>6, <1>7 DEF IInv

LEMMA FileIInv ==
  ASSUME IInv, NEW p \in Procs, LedRelease(p) \/ LedWrite(p) \/ \E d \in Drivers : LedOpen(p, d)
  PROVE  IInv'
<1>1. /\ file \in [Procs -> Drivers \cup {None}] /\ level \in {0, 1}
      /\ mod \in [Drivers -> {"gone", "coming", "live", "going"}]
  BY DEF IInv, Turns, Files, Pin
<1>2. CASE LedRelease(p)
  <2>1. UNCHANGED <<mod, driver, at, held, pinVars, byHand>> /\ file' = [file EXCEPT ![p] = None]
    BY <1>2 DEF LedRelease, bindVars
  <2>. QED  BY <1>1, <2>1 DEF IInv, Turns, Rung, Files, Pin, Dark, pinVars
<1>3. CASE LedWrite(p)
  <2>1. /\ UNCHANGED <<mod, driver, at, held, file, byHand>>
        /\ \E v \in Levels : IF file[p] = driver /\ "gpio" \in held
                              THEN Drive(v) ELSE GpioSet(v) /\ UNCHANGED set
    BY <1>3 DEF LedWrite, bindVars
  <2>2. Turns' /\ Files'
    BY <2>1 DEF IInv, Turns, Rung, Files
  <2>3. ASSUME byHand PROVE Pin'
    BY <2>1, <2>3 DEF IInv, Pin, Drive, GpioSet, Levels
  <2>4. ASSUME ~byHand PROVE Pin'
    <3>1. file[p] = driver /\ driver \in Drivers /\ Node[driver] \in held /\ at[1] # "exit"
      BY <1>1, <1>3, <2>4, NoneAssumption DEF LedWrite, IInv, Files
    <3>2. "gpio" \in held /\ at[1] # "off"
      BY <3>1, NodeOnPin DEF IInv, Turns, Rung
    <3>. QED  BY <2>1, <3>1, <3>2 DEF IInv, Pin, Dark, Drive, GpioSet, Levels
  <2>. QED  BY <2>2, <2>3, <2>4 DEF IInv
<1>4. ASSUME NEW d \in Drivers, LedOpen(p, d) PROVE IInv'
  <2>1. /\ UNCHANGED <<mod, driver, at, held, pinVars, byHand>> /\ file' = [file EXCEPT ![p] = d]
        /\ driver = d /\ Node[d] \in held /\ mod[d] # "going"
    BY <1>4 DEF LedOpen, bindVars
  <2>. QED  BY <1>1, <2>1 DEF IInv, Turns, Rung, Files, Pin, Dark, pinVars
<1>. QED  BY <1>2, <1>3, <1>4

LEMMA BlinkIInv ==
  ASSUME IInv, Blink
  PROVE  IInv'
<1>1. /\ UNCHANGED <<mod, driver, at, held, file, byHand>> /\ \E v \in {0, 1} : Drive(v)
      /\ driver = "tasklet" /\ "timer" \in held
  BY DEF Blink, bindVars
<1>2. Turns' /\ Files'
  BY <1>1 DEF IInv, Turns, Rung, Files
<1>3. ~Dark
  BY <1>1, TimerLit DEF IInv, Turns, Rung, Dark, Drivers
<1>. QED  BY <1>1, <1>2, <1>3 DEF IInv, Pin, Dark, Drive, GpioSet

LEMMA NextIInv == IInv /\ [Next]_vars => IInv'
<1>. SUFFICES ASSUME IInv, [Next]_vars PROVE IInv'
  OBVIOUS
<1>1. CASE UNCHANGED vars
  BY <1>1 DEF IInv, Turns, Rung, Files, Pin, Dark, pinVars, vars, bindVars
<1>2. CASE Next
  BY <1>2, InsmodIInv, RmmodIInv, SysfsIInv, ProbeStepIInv, ProbeFailsIInv, RemoveStepIInv,
     FileIInv, BlinkIInv DEF Next
<1>. QED  BY <1>1, <1>2

LEMMA Inductive == Spec => []IInv
BY InitIInv, NextIInv, PTL DEF Spec

-----------------------------------------------------------------------------
(* The properties. *)

\* The types of all variables, and of the ladder of the driver that is bound.
THEOREM LedTypes == Spec => []TypeOK
<1>1. ASSUME NEW d \in Drivers, Rung(d) PROVE Life(d)!TypeOK
  <2>1. Before(d, Len(Acquired[d]) + 1) \subseteq Life(d)!Resources
    BY ProbeOrder DEF Before, Life!Resources, Steps
  <2>2. \A i \in Steps(d) : Before(d, i) \subseteq Life(d)!Resources
    BY ProbeOrder DEF Before, Life!Resources, Steps
  <2>3. \A i \in Exits(d) : Left(d, i) \subseteq Left(d, 1)
    BY DEF Left, Exits
  <2>. QED  BY <1>1, <2>1, <2>2, <2>3, ProbeOrder, RemoveOrder DEF Rung, Life!TypeOK
<1>2. IInv => TypeOK
  BY <1>1 DEF IInv, Turns, Files, Pin, TypeOK
<1>. QED  BY <1>2, Inductive, PTL

\* Whichever step of a probe fails, and after every remove, the driver holds
\* nothing.
THEOREM LedLeaksNothing == Spec => []NothingLeaked
<1>1. IInv => NothingLeaked
  BY DEF IInv, Turns, Rung, NothingLeaked, Life!Balanced
<1>. QED  BY <1>1, Inductive, PTL

\* Through all of probe and remove, a node that exists leads to a pin that its
\* driver has requested, and unless it is led_misc's, to one that a write drives.
THEOREM LedNodeHasPin == Spec => []NodeHasPin
<1>1. IInv => NodeHasPin
  BY NodeOnPin, NoneAssumption DEF IInv, Turns, Pin, NodeHasPin
<1>. QED  BY <1>1, Inductive, PTL

\* Without sysfs, the pin has the level that the driver that holds it gave it,
\* whatever files the processes opened, and of whichever driver.
THEOREM LedPinObeysDriver == Spec => []ExclusiveUnlessByHand
<1>1. IInv => ExclusiveUnlessByHand
  BY DEF IInv, Pin, ExclusiveUnlessByHand, ExclusiveAccess
<1>. QED  BY <1>1, Inductive, PTL

\* Without sysfs, a remove and a probe that fails leave the LED off once a driver
\* has been able to drive the pin, even if led_misc then failed to set its
\* direction.
THEOREM LedOffWhenUnbound == Spec => []OffWhenUnbound
<1>1. IInv => OffWhenUnbound
  BY DEF IInv, Pin, Dark, pinVars, OffWhenUnbound, Unbound
<1>. QED  BY <1>1, Inductive, PTL
=============================================================================
