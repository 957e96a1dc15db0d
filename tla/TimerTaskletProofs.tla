------------------------- MODULE TimerTaskletProofs -------------------------
(***************************************************************************)
(* Proofs about the blinking-LED driver, for any set of processes.  Each   *)
(* theorem names what it needs of the platform: ~Smp says that a softirq   *)
(* handler runs to completion before any process does.                     *)
(***************************************************************************)
EXTENDS TimerTasklet, TLAPS

\* Probe and remove are sequences of such steps.
USE DEF Step

\* The steps that probe and remove follow, and what they acquire and release.
LEMMA Tables ==
  /\ \A s \in DOMAIN Acquires :
       /\ s \in ProbeSteps \ {"start_timer"}
       /\ AfterProbeStep[s] \in ProbeSteps \ {"gpio_request"}
       /\ Acquires[s] \subseteq Resources
  /\ \A s \in DOMAIN Releases :
       /\ s \in RemoveSteps \ {"del_timer", "tasklet_kill", "led_off"}
       /\ AfterRemoveStep[s] \in {"unbound"} \cup DOMAIN Releases
  BY DEF Acquires, Releases, AfterProbeStep, AfterRemoveStep, ProbeSteps, RemoveSteps,
         Resources

\* A process in the middle of led_write has a command.
Commands == \A p \in Procs : file[p] \in InWrite => cmd[p] \in {LEDOFF, LEDON}

TypeInv == TypeOK /\ Commands

\* Type correctness is inductive: every step keeps every variable in its range.
LEMMA TypeInductive == TypeInv /\ [Next]_vars => TypeInv'
<1> SUFFICES ASSUME TypeInv, [Next]_vars PROVE TypeInv'
  OBVIOUS
<1> USE DEF TypeInv, TypeOK, Commands, LEDOFF, LEDON, coreVars, userVars, irqVars,
            ledVars, history, ledHist
<1>1. CASE Softirq
  <2>1. Toggled(led_status) \in {0, 1}
    BY DEF Toggled
  <2>2. CASE TimerCallback BY <2>2 DEF TimerCallback
  <2>3. CASE TimerRearm    BY <2>3 DEF TimerRearm
  <2>4. CASE TaskletToggle BY <2>1, <2>4 DEF TaskletToggle
  <2>5. CASE TaskletSetGpio BY <2>5 DEF TaskletSetGpio
  <2> QED BY <1>1, <2>2, <2>3, <2>4, <2>5 DEF Softirq
<1>2. ASSUME NEW p \in Procs, User(p) PROVE TypeInv'
  <2> USE DEF InWrite
  <2>1. CASE Open(p)    BY <2>1 DEF Open
  <2>2. CASE Release(p) BY <2>2 DEF Release
  <2>3. ASSUME NEW c \in {LEDOFF, LEDON}, WriteGpio(p, c) PROVE TypeInv'
    BY <2>3 DEF WriteGpio, LevelOf
  <2>4. CASE WriteStatus(p) BY <2>4 DEF WriteStatus
  <2>5. CASE WriteDelTimer(p)
    <3>1. cmd[p] \in {0, 1} /\ LevelOf(cmd[p]) \in {0, 1}
      BY <2>5 DEF WriteDelTimer, LevelOf
    <3> QED BY <2>5, <3>1 DEF WriteDelTimer
  <2> QED BY <1>2, <2>1, <2>2, <2>3, <2>4, <2>5 DEF User, WriteStep
<1>3. CASE DriverCore
  <2>1. ASSUME NEW s \in DOMAIN Acquires, ProbeStep(s) PROVE TypeInv'
    BY <2>1, Tables, ZenonT(40) DEF ProbeStep
  <2>2. ASSUME NEW s \in DOMAIN Acquires, ProbeFails(s) PROVE TypeInv'
    BY <2>2 DEF ProbeFails
  <2>3. CASE StartTimer BY <2>3 DEF StartTimer
  <2>4. CASE RemoveDelTimer BY <2>4 DEF RemoveDelTimer, RemoveSteps
  <2>5. CASE RemoveTaskletKill BY <2>5 DEF RemoveTaskletKill, RemoveSteps
  <2>6. CASE RemoveLedOff BY <2>6 DEF RemoveLedOff, RemoveSteps
  <2>7. ASSUME NEW s \in DOMAIN Releases, RemoveRelease(s) PROVE TypeInv'
    BY <2>7, Tables DEF RemoveRelease
  <2>8. CASE Unloaded BY <2>8 DEF Unloaded
  <2>9. CASE Insmod BY <2>9 DEF Insmod, ProbeSteps
  <2>10. CASE Rmmod BY <2>10 DEF Rmmod, RemoveSteps
  <2>11. CASE SysfsUnbind BY <2>11 DEF SysfsUnbind, RemoveSteps
  <2>12. CASE SysfsBind BY <2>12 DEF SysfsBind, ProbeSteps
  <2> QED BY <1>3, <2>1, <2>2, <2>3, <2>4, <2>5, <2>6, <2>7, <2>8, <2>9, <2>10,
             <2>11, <2>12 DEF DriverCore, ProbeOrRemove
<1>4. CASE UNCHANGED vars
  BY <1>4 DEF vars
<1> QED BY <1>1, <1>2, <1>3, <1>4 DEF Next

\* The model is well typed for every choice of the constants.
THEOREM TypeCorrect == Spec => []TypeOK
<1>1. Init => TypeInv
  BY DEF Init, TypeInv, TypeOK, Commands, InWrite
<1>2. TypeInv => TypeOK
  BY DEF TypeInv
<1> QED BY <1>1, <1>2, TypeInductive, PTL DEF Spec

-----------------------------------------------------------------------------
(* The ladder of resources. *)

\* The tables of what is held, acquired, undone and released agree.
LEMMA LadderTables ==
  /\ \A s \in DOMAIN Acquires :
       /\ HeldAt[AfterProbeStep[s]] = HeldAt[s] \cup Acquires[s]
       /\ HeldAt[s] \ UndoneBy[s] = HeldAt["unbound"]
  /\ \A s \in DOMAIN Releases : HeldAt[AfterRemoveStep[s]] = HeldAt[s] \ Releases[s]
<1>1. ASSUME NEW s \in DOMAIN Acquires
      PROVE  /\ HeldAt[AfterProbeStep[s]] = HeldAt[s] \cup Acquires[s]
             /\ HeldAt[s] \ UndoneBy[s] = HeldAt["unbound"]
  <2>1. CASE s = "gpio_request"
    BY <2>1 DEF HeldAt, AfterProbeStep, Acquires, UndoneBy, Resources
  <2>2. CASE s = "direction_output"
    BY <2>2 DEF HeldAt, AfterProbeStep, Acquires, UndoneBy, Resources
  <2>3. CASE s = "chrdev_region"
    BY <2>3 DEF HeldAt, AfterProbeStep, Acquires, UndoneBy, Resources
  <2>4. CASE s = "cdev_add"
    BY <2>4 DEF HeldAt, AfterProbeStep, Acquires, UndoneBy, Resources
  <2>5. CASE s = "class_create"
    BY <2>5 DEF HeldAt, AfterProbeStep, Acquires, UndoneBy, Resources
  <2>6. CASE s = "device_create"
    BY <2>6 DEF HeldAt, AfterProbeStep, Acquires, UndoneBy, Resources
  <2> QED BY <2>1, <2>2, <2>3, <2>4, <2>5, <2>6 DEF Acquires
<1>2. ASSUME NEW s \in DOMAIN Releases
      PROVE  HeldAt[AfterRemoveStep[s]] = HeldAt[s] \ Releases[s]
  <2>1. CASE s = "device_destroy"
    BY <2>1 DEF HeldAt, AfterRemoveStep, Releases, Resources
  <2>2. CASE s = "class_destroy" BY <2>2 DEF HeldAt, AfterRemoveStep, Releases
  <2>3. CASE s = "cdev_del"      BY <2>3 DEF HeldAt, AfterRemoveStep, Releases
  <2>4. CASE s = "unregister_chrdev" BY <2>4 DEF HeldAt, AfterRemoveStep, Releases
  <2>5. CASE s = "gpio_free"     BY <2>5 DEF HeldAt, AfterRemoveStep, Releases
  <2> QED BY <2>1, <2>2, <2>3, <2>4, <2>5 DEF Releases
<1> QED BY <1>1, <1>2

\* The module is loaded whenever the driver core is at work in it.
Loaded == modstate = "gone" => core = "unbound"

LadderInv == Ladder /\ Loaded

LEMMA LadderInductive == LadderInv /\ [Next]_vars => LadderInv'
<1> SUFFICES ASSUME LadderInv, [Next]_vars PROVE LadderInv'
  OBVIOUS
<1> USE DEF LadderInv, Ladder, Loaded, coreVars
<1>1. CASE Softirq
  BY <1>1 DEF Softirq, TimerCallback, TimerRearm, TaskletToggle, TaskletSetGpio
<1>2. ASSUME NEW p \in Procs, User(p) PROVE LadderInv'
  BY <1>2 DEF User, Open, Release, WriteGpio, WriteStep, WriteStatus, WriteDelTimer
<1>3. CASE DriverCore
  <2>1. ASSUME NEW s \in DOMAIN Acquires, ProbeStep(s) PROVE LadderInv'
    <3>1. s # "unbound"
      BY Tables DEF ProbeSteps
    <3> QED BY <2>1, <3>1, LadderTables DEF ProbeStep
  <2>2. ASSUME NEW s \in DOMAIN Acquires, ProbeFails(s) PROVE LadderInv'
    BY <2>2, LadderTables DEF ProbeFails
  <2>3. CASE StartTimer BY <2>3 DEF StartTimer, HeldAt
  <2>4. CASE RemoveDelTimer \/ RemoveTaskletKill \/ RemoveLedOff
    BY <2>4 DEF RemoveDelTimer, RemoveTaskletKill, RemoveLedOff, HeldAt
  <2>5. ASSUME NEW s \in DOMAIN Releases, RemoveRelease(s) PROVE LadderInv'
    <3>1. s # "unbound"
      BY Tables DEF RemoveSteps
    <3> QED BY <2>5, <3>1, LadderTables DEF RemoveRelease
  <2>6. CASE Unloaded BY <2>6 DEF Unloaded
  <2>7. CASE Insmod BY <2>7 DEF Insmod, HeldAt
  <2>8. CASE Rmmod BY <2>8 DEF Rmmod, HeldAt
  <2>9. CASE SysfsUnbind \/ SysfsBind BY <2>9 DEF SysfsUnbind, SysfsBind, HeldAt
  <2> QED BY <1>3, <2>1, <2>2, <2>3, <2>4, <2>5, <2>6, <2>7, <2>8, <2>9
          DEF DriverCore, ProbeOrRemove
<1>4. CASE UNCHANGED vars
  BY <1>4 DEF vars
<1> QED BY <1>1, <1>2, <1>3, <1>4 DEF Next

\* Whichever step of probe fails, and wherever remove is, the driver holds
\* exactly the resources that its place in the code says: nothing leaks.
THEOREM NothingLeaks == Spec => []Ladder
<1>1. Init => LadderInv
  BY DEF Init, LadderInv, Ladder, Loaded, HeldAt
<1>2. LadderInv => Ladder
  BY DEF LadderInv
<1> QED BY <1>1, <1>2, LadderInductive, PTL DEF Spec

-----------------------------------------------------------------------------
(* The timer chain of a driver that nobody writes to. *)

\* From the initialisation of the LED on, led_status mirrors the pin.
Mirror ==
  ~manual /\ core \in (ProbeSteps \ {"gpio_request", "direction_output"}) \cup {"bound"} =>
    (softirq # "set_gpio" => gpio = led_status)

Chain == core = "bound" /\ ~manual => timer \/ softirq = "rearm"

ChainInv == Mirror /\ Chain

LEMMA ChainInductive == ChainInv /\ [Next]_vars => ChainInv'
<1> SUFFICES ASSUME ChainInv, [Next]_vars PROVE ChainInv'
  OBVIOUS
<1> USE DEF ChainInv, Mirror, Chain, ProbeSteps, coreVars, userVars, irqVars, ledVars,
            history, ledHist
<1>1. CASE Softirq
  BY <1>1 DEF Softirq, TimerCallback, TimerRearm, TaskletToggle, TaskletSetGpio
<1>2. ASSUME NEW p \in Procs, User(p) PROVE ChainInv'
  BY <1>2 DEF User, Open, Release, WriteGpio, WriteStep, WriteStatus, WriteDelTimer
<1>3. CASE DriverCore
  <2>1. ASSUME NEW s \in DOMAIN Acquires, ProbeStep(s) PROVE ChainInv'
    <3>1. AfterProbeStep[s] # "bound"
      BY Tables
    <3>2. CASE s = "gpio_request"
      BY <2>1, <3>2 DEF ProbeStep, AfterProbeStep
    <3>3. CASE s = "direction_output"
      BY <2>1, <3>1, <3>3 DEF ProbeStep
    <3>4. CASE s \notin {"gpio_request", "direction_output"}
      BY <2>1, <3>1, <3>4, Tables DEF ProbeStep
    <3> QED BY <3>2, <3>3, <3>4
  <2>2. ASSUME NEW s \in DOMAIN Acquires, ProbeFails(s) PROVE ChainInv'
    BY <2>2 DEF ProbeFails
  <2>3. CASE StartTimer BY <2>3 DEF StartTimer
  <2>4. CASE RemoveDelTimer \/ RemoveTaskletKill \/ RemoveLedOff
    BY <2>4 DEF RemoveDelTimer, RemoveTaskletKill, RemoveLedOff
  <2>5. ASSUME NEW s \in DOMAIN Releases, RemoveRelease(s) PROVE ChainInv'
    <3>1. AfterRemoveStep[s] \notin ProbeSteps \cup {"bound"}
      BY Tables DEF RemoveSteps
    <3> QED BY <2>5, <3>1 DEF RemoveRelease
  <2>6. CASE Unloaded \/ Insmod \/ Rmmod \/ SysfsUnbind \/ SysfsBind
    BY <2>6 DEF Unloaded, Insmod, Rmmod, SysfsUnbind, SysfsBind
  <2> QED BY <1>3, <2>1, <2>2, <2>3, <2>4, <2>5, <2>6 DEF DriverCore, ProbeOrRemove
<1>4. CASE UNCHANGED vars
  BY <1>4 DEF vars
<1> QED BY <1>1, <1>2, <1>3, <1>4 DEF Next

\* The chain timer - tasklet - timer of a bound driver never breaks, and
\* led_status mirrors the pin, as long as nobody writes; on any platform.
THEOREM ChainUnbroken == Spec => []AutoChain
<1>1. Init => ChainInv
  BY DEF Init, ChainInv, Mirror, Chain, ProbeSteps
<1>2. ChainInv => AutoChain
  BY DEF ChainInv, Mirror, Chain, AutoChain
<1> QED BY <1>1, <1>2, ChainInductive, PTL DEF Spec

-----------------------------------------------------------------------------
(* Teardown. *)

\* tasklet_kill runs when del_timer has returned: nothing re-arms any more.
TimerDeleted == core = "tasklet_kill" => ~timer /\ softirq # "rearm"

TeardownInv == Quiesced /\ TimerDeleted /\ Loaded

LEMMA TeardownInductive == ASSUME ~Smp PROVE TeardownInv /\ [Next]_vars => TeardownInv'
<1> SUFFICES ASSUME TeardownInv, [Next]_vars PROVE TeardownInv'
  OBVIOUS
<1> USE DEF TeardownInv, Quiesced, TimerDeleted, Loaded, PastKill, ProbeSteps, Ready,
            coreVars, userVars, irqVars, ledVars, history, ledHist
<1>. {"bound", "del_timer", "tasklet_kill"} \cap PastKill = {}
  BY Tables DEF RemoveSteps
<1>1. CASE Softirq
  BY <1>1 DEF Softirq, TimerCallback, TimerRearm, TaskletToggle, TaskletSetGpio
<1>2. ASSUME NEW p \in Procs, User(p) PROVE TeardownInv'
  BY <1>2 DEF User, Open, Release, WriteGpio, WriteStep, WriteStatus, WriteDelTimer
<1>3. CASE DriverCore
  <2>1. ASSUME NEW s \in DOMAIN Acquires, ProbeStep(s) \/ ProbeFails(s)
        PROVE  TeardownInv'
    BY <2>1, Tables DEF ProbeStep, ProbeFails
  <2>2. CASE StartTimer BY <2>2 DEF StartTimer
  <2>3. CASE RemoveDelTimer BY <2>3 DEF RemoveDelTimer
  <2>4. CASE RemoveTaskletKill BY <2>4 DEF RemoveTaskletKill, TaskletGone
  <2>5. CASE RemoveLedOff BY <2>5 DEF RemoveLedOff
  <2>6. ASSUME NEW s \in DOMAIN Releases, RemoveRelease(s) PROVE TeardownInv'
    <3>1. s # "unbound" /\ AfterRemoveStep[s] # "tasklet_kill"
      BY Tables DEF RemoveSteps
    <3> QED BY <2>6, <3>1 DEF RemoveRelease
  <2>7. CASE Unloaded \/ Insmod \/ Rmmod \/ SysfsUnbind \/ SysfsBind
    BY <2>7 DEF Unloaded, Insmod, Rmmod, SysfsUnbind, SysfsBind
  <2> QED BY <1>3, <2>1, <2>2, <2>3, <2>4, <2>5, <2>6, <2>7 DEF DriverCore, ProbeOrRemove
<1>4. CASE UNCHANGED vars
  BY <1>4 DEF vars
<1> QED BY <1>1, <1>2, <1>3, <1>4 DEF Next

\* On one core, del_timer followed by tasklet_kill leaves nothing behind: when
\* remove goes on to release the pin, no timer, tasklet or handler is left.
THEOREM TeardownIsQuiet == ASSUME ~Smp PROVE Spec => []Quiesced
<1>1. Init => TeardownInv
  BY DEF Init, TeardownInv, Quiesced, TimerDeleted, Loaded
<1>2. TeardownInv => Quiesced
  BY DEF TeardownInv
<1> QED BY <1>1, <1>2, TeardownInductive, PTL DEF Spec

-----------------------------------------------------------------------------
(* Manual control. *)

\* While a led_write is undisturbed it leaves its trace, part by part, and no
\* tasklet is half-way.
WriteInProgress ==
  writer # None =>
    /\ softirq # "set_gpio"
    /\ file[writer] \in InWrite
    /\ gpio = LevelOf(cmd[writer])
    /\ file[writer] = "del_timer" => led_status = cmd[writer]

\* After it, a tasklet that is still scheduled is harmless: led_write records
\* the complement of the level it drove, so one toggle restores that level.
LeftoverHarmless ==
  shown # None =>
    /\ gpio = shown
    /\ ~timer
    /\ softirq # "rearm"
    /\ tasklet => led_status = 1 - shown /\ softirq # "set_gpio"
    /\ softirq = "set_gpio" => led_status = shown

WriteInv == TypeInv /\ WriteInProgress /\ LeftoverHarmless

LEMMA Levels == \A c \in {LEDOFF, LEDON} : LevelOf(c) \in {0, 1} /\ LevelOf(c) = 1 - c
  BY DEF LEDOFF, LEDON, LevelOf

LEMMA WriteInductive ==
  ASSUME ~Smp PROVE WriteInv /\ [Next]_vars => WriteInProgress' /\ LeftoverHarmless'
<1> SUFFICES ASSUME WriteInv, [Next]_vars
             PROVE  WriteInProgress' /\ LeftoverHarmless'
  OBVIOUS
<1> USE ConstantsAssumption
    DEF WriteInv, WriteInProgress, LeftoverHarmless, Ready, coreVars, userVars,
        irqVars, ledVars, history, ledHist
<1>t. TypeOK /\ Commands
  BY DEF TypeInv
<1>1. CASE Softirq
  <2>1. CASE TimerCallback BY <2>1 DEF TimerCallback
  <2>2. CASE TimerRearm    BY <2>2 DEF TimerRearm
  <2>3. CASE TaskletToggle
    <3>1. shown # None => Toggled(led_status) = shown
      BY <1>t, <2>3 DEF TaskletToggle, Toggled, TypeOK
    <3> QED BY <2>3, <3>1 DEF TaskletToggle
  <2>4. CASE TaskletSetGpio BY <2>4 DEF TaskletSetGpio
  <2> QED BY <1>1, <2>1, <2>2, <2>3, <2>4 DEF Softirq
<1>2. ASSUME NEW p \in Procs, User(p) PROVE WriteInProgress' /\ LeftoverHarmless'
  <2> USE <1>t DEF TypeOK, InWrite
  <2>1. CASE Open(p)    BY <2>1 DEF Open
  <2>2. CASE Release(p) BY <2>2 DEF Release
  <2>3. ASSUME NEW c \in {LEDOFF, LEDON}, WriteGpio(p, c)
        PROVE  WriteInProgress' /\ LeftoverHarmless'
    BY <2>3 DEF WriteGpio
  <2>4. CASE WriteStatus(p)
    BY <2>4 DEF WriteStatus
  <2>5. CASE WriteDelTimer(p)
    <3>1. CASE writer = p
      <4>1. cmd[p] \in {LEDOFF, LEDON} /\ file[p] = "del_timer"
        BY <2>5 DEF WriteDelTimer, Commands
      <4>2. shown' = gpio /\ led_status = 1 - gpio /\ gpio # None
        BY <2>5, <3>1, <4>1, Levels DEF WriteDelTimer, LEDOFF, LEDON
      <4> QED BY <2>5, <3>1, <4>1, <4>2 DEF WriteDelTimer
    <3>2. CASE writer # p
      BY <2>5, <3>2 DEF WriteDelTimer
    <3> QED BY <3>1, <3>2
  <2> QED BY <1>2, <2>1, <2>2, <2>3, <2>4, <2>5 DEF User, WriteStep
<1>3. CASE DriverCore
  <2>1. ASSUME NEW s \in DOMAIN Acquires, ProbeStep(s) \/ ProbeFails(s)
        PROVE  WriteInProgress' /\ LeftoverHarmless'
    BY <2>1 DEF ProbeStep, ProbeFails
  <2>2. CASE StartTimer \/ RemoveDelTimer \/ RemoveTaskletKill \/ RemoveLedOff
    BY <2>2 DEF StartTimer, RemoveDelTimer, RemoveTaskletKill, RemoveLedOff
  <2>3. ASSUME NEW s \in DOMAIN Releases, RemoveRelease(s)
        PROVE  WriteInProgress' /\ LeftoverHarmless'
    BY <2>3 DEF RemoveRelease
  <2>4. CASE Unloaded \/ Insmod \/ Rmmod \/ SysfsUnbind \/ SysfsBind
    BY <2>4 DEF Unloaded, Insmod, Rmmod, SysfsUnbind, SysfsBind
  <2> QED BY <1>3, <2>1, <2>2, <2>3, <2>4 DEF DriverCore, ProbeOrRemove
<1>4. CASE UNCHANGED vars
  BY <1>4 DEF vars
<1> QED BY <1>1, <1>2, <1>3, <1>4 DEF Next

\* On one core a led_write that nothing interrupted stays in force: LED as
\* written and timer stopped, until the next write, probe or remove.
THEOREM ManualControl == ASSUME ~Smp PROVE Spec => []WriteSticks
<1>1. Init => WriteInv
  BY DEF Init, WriteInv, WriteInProgress, LeftoverHarmless, TypeInv, TypeOK, Commands,
         InWrite
<1>2. WriteInv => WriteSticks
  BY DEF WriteInv, LeftoverHarmless, WriteSticks
<1>3. WriteInv /\ [Next]_vars => WriteInv'
  BY TypeInductive, WriteInductive DEF WriteInv
<1> QED BY <1>1, <1>2, <1>3, PTL DEF Spec

-----------------------------------------------------------------------------
(* Open files and the pin. *)

\* The state of the module says where the core can be, and (unless it was
\* unbound by hand) where a file can be open.
ModuleState ==
  /\ modstate = "coming" => core \in ProbeSteps /\ ~byHand
  /\ modstate = "live"   => core \in {"bound", "unbound"} \cup ProbeSteps \/ byHand
  /\ modstate = "going"  => core \in RemoveSteps \cup {"unbound"}

\* A file exists only between device_create and the module's exit.
FileBound ==
  \A p \in Procs : file[p] # "closed" =>
    modstate \in {"coming", "live"} /\ (byHand \/ core \in {"start_timer", "bound"})

PinInv == TypeInv /\ LadderInv /\ ModuleState /\ FileBound

\* Where the device node exists, and where the pin is requested.
LEMMA HeldWhere ==
  /\ \A s \in ProbeSteps \cup {"bound", "unbound"} :
       "device" \in HeldAt[s] => s \in {"start_timer", "bound"}
  /\ \A s \in {"start_timer", "bound", "del_timer", "tasklet_kill", "led_off",
               "direction_output"} : "gpio" \in HeldAt[s]
  BY DEF HeldAt, ProbeSteps, Resources

LEMMA PinInductive ==
  PinInv /\ [Next]_vars => ModuleState' /\ FileBound'
<1> SUFFICES ASSUME PinInv, [Next]_vars PROVE ModuleState' /\ FileBound'
  OBVIOUS
<1> USE DEF PinInv, ModuleState, FileBound, coreVars, userVars, irqVars, ledVars,
            history, ledHist
<1>1. CASE Softirq
  BY <1>1 DEF Softirq, TimerCallback, TimerRearm, TaskletToggle, TaskletSetGpio
<1>2. ASSUME NEW p \in Procs, User(p) PROVE ModuleState' /\ FileBound'
  <2> USE DEF TypeInv, TypeOK, InWrite
  <2>1. CASE Open(p)
    <3>1. byHand \/ core \in {"start_timer", "bound"}
      BY <2>1, HeldWhere DEF Open, LadderInv, Ladder
    <3> QED BY <2>1, <3>1 DEF Open
  <2>2. CASE Release(p) BY <2>2 DEF Release
  <2>3. ASSUME NEW c \in {LEDOFF, LEDON}, WriteGpio(p, c)
        PROVE  ModuleState' /\ FileBound'
    BY <2>3 DEF WriteGpio
  <2>4. CASE WriteStep(p) BY <2>4 DEF WriteStep, WriteStatus, WriteDelTimer
  <2> QED BY <1>2, <2>1, <2>2, <2>3, <2>4 DEF User
<1>3. CASE DriverCore
  <2> USE DEF ProbeSteps, RemoveSteps, LadderInv, Loaded
  <2>0. /\ modstate \in {"gone", "coming", "live", "going"}
       /\ file \in [Procs -> {"closed", "open"} \cup InWrite]
    BY DEF TypeInv, TypeOK
  <2>1. ASSUME NEW s \in DOMAIN Acquires, ProbeStep(s) \/ ProbeFails(s)
        PROVE  ModuleState' /\ FileBound'
    <3>1. s \in ProbeSteps \ {"start_timer"} /\ AfterProbeStep[s] \in ProbeSteps
      BY Tables
    <3>2. modstate \in {"coming", "live"}
      BY <2>0, <2>1, <3>1 DEF ProbeStep, ProbeFails
    <3>3. byHand \/ \A p \in Procs : file[p] = "closed"
      BY <2>0, <2>1, <3>1 DEF ProbeStep, ProbeFails
    <3> QED BY <2>1, <3>1, <3>2, <3>3 DEF ProbeStep, ProbeFails
  <2>2. CASE StartTimer BY <2>0, <2>2 DEF StartTimer
  <2>3. CASE RemoveDelTimer \/ RemoveTaskletKill \/ RemoveLedOff
    BY <2>0, <2>3 DEF RemoveDelTimer, RemoveTaskletKill, RemoveLedOff
  <2>4. ASSUME NEW s \in DOMAIN Releases, RemoveRelease(s)
        PROVE  ModuleState' /\ FileBound'
    <3>1. s \in RemoveSteps /\ AfterRemoveStep[s] \in RemoveSteps \cup {"unbound"}
      BY Tables
    <3>2. modstate \in {"live", "going"} /\ (modstate = "live" => byHand)
      <4>1. core = s /\ core \notin ProbeSteps \cup {"unbound", "bound"}
        BY <2>4, <3>1 DEF RemoveRelease
      <4> QED BY <2>0, <4>1
    <3>3. byHand \/ \A p \in Procs : file[p] = "closed"
      BY <2>0, <2>4, <3>1 DEF RemoveRelease
    <3> QED BY <2>4, <3>1, <3>2, <3>3 DEF RemoveRelease
  <2>5. CASE Rmmod BY <2>5 DEF Rmmod, InUse
  <2>6. CASE Insmod BY <2>6 DEF Insmod
  <2>7. CASE Unloaded BY <2>7 DEF Unloaded
  <2>8. CASE SysfsUnbind \/ SysfsBind BY <2>8 DEF SysfsUnbind, SysfsBind
  <2> QED BY <1>3, <2>1, <2>2, <2>3, <2>4, <2>5, <2>6, <2>7, <2>8
          DEF DriverCore, ProbeOrRemove
<1>4. CASE UNCHANGED vars
  BY <1>4 DEF vars
<1> QED BY <1>1, <1>2, <1>3, <1>4 DEF Next

LEMMA PinInvariant == Spec => []PinInv
<1>1. Init => PinInv
  <2>1. Init => TypeInv
    BY DEF Init, TypeInv, TypeOK, Commands, InWrite
  <2>2. Init => LadderInv /\ ModuleState /\ FileBound
    BY DEF Init, LadderInv, Ladder, Loaded, HeldAt, ModuleState, FileBound
  <2> QED BY <2>1, <2>2 DEF PinInv
<1>2. PinInv /\ [Next]_vars => PinInv'
  BY TypeInductive, LadderInductive, PinInductive DEF PinInv
<1> QED BY <1>1, <1>2, PTL DEF Spec

\* An open file keeps the module in memory, and whoever writes finds the pin
\* requested as long as nobody unbinds the driver by hand; on any platform.
THEOREM FilesPinTheDriver == Spec => []FilePinsDriver
<1>1. PinInv => FilePinsDriver
  BY HeldWhere DEF PinInv, FileBound, LadderInv, Ladder, FilePinsDriver
<1> QED BY <1>1, PinInvariant, PTL

\* On one core, the driver never changes the level of a pin that it has not
\* requested or has already freed, but for a write after an unbind by hand.
THEOREM PinIsOwned == ASSUME ~Smp PROVE Spec => DrivesOwnedPin
<1>1. PinInv /\ TeardownInv /\ [Next]_vars =>
        [gpio' # gpio => "gpio" \in held \/ (byHand /\ file' # file)]_vars
  <2> SUFFICES ASSUME PinInv, TeardownInv, Next, gpio' # gpio, ~byHand \/ file' = file
               PROVE  "gpio" \in held
    OBVIOUS
  <2>. held = HeldAt[core]
    BY DEF PinInv, LadderInv, Ladder
  <2> USE DEF coreVars, userVars, irqVars, ledVars
  <2>1. CASE Softirq
    <3>1. TaskletSetGpio
      BY <2>1 DEF Softirq, TimerCallback, TimerRearm, TaskletToggle
    <3>2. core \in {"bound", "del_timer", "tasklet_kill"}
      <4>1. core \notin PastKill
        BY <3>1 DEF TaskletSetGpio, TeardownInv, Quiesced
      <4>2. RemoveSteps = {"del_timer", "tasklet_kill", "led_off"} \cup DOMAIN Releases
        BY DEF RemoveSteps, Releases
      <4> QED BY <4>1, <4>2 DEF PinInv, TypeInv, TypeOK, PastKill
    <3> QED BY <3>2, HeldWhere
  <2>2. ASSUME NEW p \in Procs, User(p) PROVE "gpio" \in held
    <3>1. file[p] = "open" /\ file' # file
      BY <2>2 DEF User, Open, Release, WriteGpio, WriteStep, WriteStatus, WriteDelTimer,
                  PinInv, TypeInv, TypeOK
    <3> QED BY <3>1, HeldWhere DEF PinInv, FileBound
  <2>3. CASE DriverCore
    <3>1. core \in {"direction_output", "led_off"}
      BY <2>3 DEF DriverCore, ProbeOrRemove, ProbeStep, ProbeFails, StartTimer,
                  RemoveDelTimer, RemoveTaskletKill, RemoveLedOff, RemoveRelease,
                  Unloaded, Insmod, Rmmod, SysfsUnbind, SysfsBind
    <3> QED BY <3>1, HeldWhere
  <2> QED BY <2>1, <2>2, <2>3 DEF Next
<1>2. Init => TeardownInv
  BY DEF Init, TeardownInv, Quiesced, TimerDeleted, Loaded
<1> QED BY <1>1, <1>2, TeardownInductive, PinInvariant, PTL DEF Spec, DrivesOwnedPin
=============================================================================
