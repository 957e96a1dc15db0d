---------------------------- MODULE TimerTasklet ----------------------------
(***************************************************************************)
(* The blinking-LED driver platform_driver/Timer_Tasklet: a kernel timer   *)
(* whose callback schedules a tasklet and re-arms itself, a tasklet that   *)
(* toggles the LED, led_write() that takes manual control, and the probe   *)
(* and remove functions that the driver core runs.                         *)
(*                                                                         *)
(* Contexts.  Probe, remove and the file operations run in process context *)
(* and can be interleaved between any two statements that touch shared     *)
(* state.  The timer callback and the tasklet run in softirq context: they *)
(* interrupt a process anywhere, and on the single-core board no process   *)
(* runs until they are finished (Ready).  Smp = TRUE drops that guarantee, *)
(* as a multi-core build does.                                             *)
(***************************************************************************)
EXTENDS Naturals

CONSTANTS
  Procs,   \* processes that use /dev/tasklet-led
  None,    \* a value that is neither a process nor a level
  Smp      \* does a softirq handler overlap process context?

ASSUME ConstantsAssumption ==
  /\ None \notin Procs
  /\ None \notin {0, 1}
  /\ Smp \in BOOLEAN

VARIABLES
  modstate,    \* state of the kernel module
  core,        \* where the driver core is in probe/remove
  held,        \* resources the driver has acquired and not released
  file,        \* per process: its descriptor, and where it is in led_write
  cmd,         \* per process: the last databuf[0] it wrote through this file
  timer,       \* is dev->timer pending?
  tasklet,     \* is dev->tasklet scheduled?
  softirq,     \* where the running softirq handler is
  led_status,  \* dev->led_status
  gpio,        \* level of the LED pin; the LED is active low
  \* History variables: no guard reads them.
  manual,      \* has led_write touched the LED since it was initialised?
  writer,      \* the process whose led_write nothing has interfered with yet
  shown,       \* level left by the last led_write, if nothing has interfered since:
               \* no other write, no mod_timer in probe, no LED turned off by remove
  byHand       \* has the driver been unbound through sysfs since it was loaded?

coreVars == <<modstate, core, held>>
userVars == <<file, cmd>>
irqVars  == <<timer, tasklet, softirq>>
ledVars  == <<led_status, gpio>>
ledHist  == <<manual, writer, shown>>
history  == <<ledHist, byHand>>
vars     == <<coreVars, userVars, irqVars, ledVars, history>>

LEDOFF == 0
LEDON  == 1

\* What probe acquires, in the order in which it does.
Resources == {"gpio", "chrdev", "cdev", "class", "device"}

ProbeSteps  == {"gpio_request", "direction_output", "chrdev_region", "cdev_add",
                "class_create", "device_create", "start_timer"}
RemoveSteps == {"del_timer", "tasklet_kill", "led_off", "device_destroy",
                "class_destroy", "cdev_del", "unregister_chrdev", "gpio_free"}

\* led_write in three parts: about to store led_status, about to del_timer.
InWrite == {"status", "del_timer"}

TypeOK ==
  /\ modstate \in {"gone", "coming", "live", "going"}
  /\ core \in {"unbound", "bound"} \cup ProbeSteps \cup RemoveSteps
  /\ held \subseteq Resources
  /\ file \in [Procs -> {"closed", "open"} \cup InWrite]
  /\ cmd \in [Procs -> {LEDOFF, LEDON, None}]
  /\ timer \in BOOLEAN /\ tasklet \in BOOLEAN
  /\ softirq \in {"idle", "rearm", "set_gpio"}
  /\ led_status \in {0, 1} /\ gpio \in {0, 1}
  /\ manual \in BOOLEAN /\ byHand \in BOOLEAN
  /\ writer \in Procs \cup {None}
  /\ shown \in {0, 1, None}

Init ==
  /\ modstate = "gone" /\ core = "unbound" /\ held = {}
  /\ file = [p \in Procs |-> "closed"]
  /\ cmd = [p \in Procs |-> None]
  /\ timer = FALSE /\ tasklet = FALSE /\ softirq = "idle"
  /\ led_status = 0
  /\ gpio \in {0, 1}      \* whatever the boot loader left
  /\ manual = FALSE /\ writer = None /\ shown = None /\ byHand = FALSE

(* An operator X_Slip beside an operator X reads X as a plausible programming  *)
(* slip would have left it.  Nothing refers to it: it shows what the           *)
(* properties catch.                                                           *)

\* The level led_write gives the pin for a command (active low).
LevelOf_ActiveHigh(c) == c
LevelOf(c) == IF c = LEDON THEN 0 ELSE 1

\* led_status after the tasklet has run.
Toggled_Increment(s) == s + 1
Toggled_Constant(s) == 0
Toggled(s) == 1 - s

\* Does an open file hold a reference on the module (fops->owner)?
InUse_NoOwner == FALSE
InUse == \E p \in Procs : file[p] # "closed"

\* What tasklet_kill waits for: neither scheduled nor running.
TaskletGone_NoWait == TRUE
TaskletGone == ~tasklet /\ softirq # "set_gpio"

\* On one core a process runs only when no softirq handler does.
Ready == Smp \/ softirq = "idle"

\* Probe or remove goes on.
Step(from, to) == Ready /\ core = from /\ core' = to

-----------------------------------------------------------------------------
(* Softirq context: the timer callback and the tasklet. *)

\* The timer expires: timer_callback schedules the tasklet.
TimerCallback ==
  /\ timer
  /\ softirq = "idle"
  /\ timer' = FALSE
  /\ tasklet' = TRUE
  /\ softirq' = "rearm"
  /\ UNCHANGED <<coreVars, userVars, ledVars, history>>

\* ... and re-arms the timer for another period.
TimerRearm_Forgotten ==
  /\ softirq = "rearm" /\ softirq' = "idle"
  /\ UNCHANGED <<coreVars, userVars, timer, tasklet, ledVars, history>>

TimerRearm ==
  /\ softirq = "rearm"
  /\ timer' = TRUE
  /\ softirq' = "idle"
  /\ UNCHANGED <<coreVars, userVars, tasklet, ledVars, history>>

\* The tasklet is taken off its list and flips led_status.  A write that was
\* under way is no longer undisturbed.
TaskletToggle ==
  /\ tasklet
  /\ softirq = "idle"
  /\ tasklet' = FALSE
  /\ led_status' = Toggled(led_status)
  /\ softirq' = "set_gpio"
  /\ writer' = None
  /\ UNCHANGED <<coreVars, userVars, timer, gpio, manual, shown, byHand>>

\* The tasklet drives the pin with the new led_status.
TaskletSetGpio ==
  /\ softirq = "set_gpio"
  /\ gpio' = led_status
  /\ softirq' = "idle"
  /\ UNCHANGED <<coreVars, userVars, timer, tasklet, led_status, history>>

Softirq == TimerCallback \/ TimerRearm \/ TaskletToggle \/ TaskletSetGpio

-----------------------------------------------------------------------------
(* Process context: the file operations. *)

Open(p) ==
  /\ Ready
  /\ file[p] = "closed"
  /\ "device" \in held
  /\ modstate \in {"coming", "live"}   \* fops->owner: try_module_get
  /\ file' = [file EXCEPT ![p] = "open"]
  /\ cmd' = [cmd EXCEPT ![p] = None]
  /\ UNCHANGED <<coreVars, irqVars, ledVars, history>>

Release(p) ==
  /\ Ready
  /\ file[p] = "open"
  /\ file' = [file EXCEPT ![p] = "closed"]
  /\ cmd' = [cmd EXCEPT ![p] = None]
  /\ UNCHANGED <<coreVars, irqVars, ledVars, history>>

\* led_write(c): drive the pin.  A byte that is neither LEDON nor LEDOFF
\* changes nothing; a faulting or empty buffer leaves some byte in databuf.
WriteGpio(p, c) ==
  /\ Ready
  /\ file[p] = "open"
  /\ gpio' = LevelOf(c)
  /\ file' = [file EXCEPT ![p] = "status"]
  /\ cmd' = [cmd EXCEPT ![p] = c]
  /\ writer' = p
  /\ shown' = None
  /\ manual' = TRUE
  /\ UNCHANGED <<coreVars, irqVars, led_status, byHand>>

\* ... record the command in led_status ...
WriteStatus(p) ==
  /\ Ready
  /\ file[p] = "status"
  /\ led_status' = cmd[p]
  /\ file' = [file EXCEPT ![p] = "del_timer"]
  /\ writer' = IF writer = p THEN p ELSE None
  /\ shown' = None
  /\ manual' = TRUE
  /\ UNCHANGED <<coreVars, cmd, irqVars, gpio, byHand>>

\* ... and stop the timer.
WriteDelTimer(p) ==
  /\ Ready
  /\ file[p] = "del_timer"
  /\ timer' = FALSE
  /\ file' = [file EXCEPT ![p] = "open"]
  /\ writer' = IF writer = p THEN None ELSE writer
  /\ shown' = IF writer = p THEN LevelOf(cmd[p]) ELSE shown
  /\ manual' = TRUE
  /\ UNCHANGED <<coreVars, cmd, tasklet, softirq, ledVars, byHand>>

WriteStep(p) == WriteStatus(p) \/ WriteDelTimer(p)

User(p) ==
  \/ Open(p)
  \/ Release(p)
  \/ \E c \in {LEDOFF, LEDON} : WriteGpio(p, c)
  \/ WriteStep(p)

-----------------------------------------------------------------------------
(* Process context: the driver core. *)

Insmod ==
  /\ Ready
  /\ modstate = "gone"
  /\ modstate' = "coming"
  /\ core' = "gpio_request"
  /\ byHand' = FALSE
  /\ UNCHANGED <<held, userVars, irqVars, ledVars, ledHist>>

\* delete_module refuses a module in use; the exit function then unregisters
\* the driver, which removes it from the device if it is bound.
Rmmod ==
  /\ Ready
  /\ modstate = "live"
  /\ core \in {"bound", "unbound"}
  /\ ~InUse
  /\ modstate' = "going"
  /\ core' = IF core = "bound" THEN "del_timer" ELSE core
  /\ UNCHANGED <<held, userVars, irqVars, ledVars, history>>

Unloaded ==
  /\ Ready
  /\ modstate = "going"
  /\ core = "unbound"
  /\ modstate' = "gone"
  /\ UNCHANGED <<core, held, userVars, irqVars, ledVars, history>>

\* echo <dev> > .../unbind and .../bind do not look at the use count.
SysfsUnbind ==
  /\ Ready
  /\ modstate = "live"
  /\ core = "bound"
  /\ core' = "del_timer"
  /\ byHand' = TRUE
  /\ UNCHANGED <<modstate, held, userVars, irqVars, ledVars, ledHist>>

SysfsBind ==
  /\ Ready
  /\ modstate = "live"
  /\ core = "unbound"
  /\ core' = "gpio_request"
  /\ UNCHANGED <<modstate, held, userVars, irqVars, ledVars, history>>

\* The step of probe that follows a successful one, and what it acquires.
AfterProbeStep ==
  [gpio_request |-> "direction_output", direction_output |-> "chrdev_region",
   chrdev_region |-> "cdev_add",        cdev_add |-> "class_create",
   class_create |-> "device_create",    device_create |-> "start_timer"]

Acquires ==
  [gpio_request |-> {"gpio"}, direction_output |-> {}, chrdev_region |-> {"chrdev"},
   cdev_add |-> {"cdev"}, class_create |-> {"class"}, device_create |-> {"device"}]

\* What the goto labels at the end of probe release when a step fails.
UndoneBy_LeaksRegion ==
  [gpio_request     |-> {},
   direction_output |-> {"gpio"},
   chrdev_region    |-> {"gpio"},
   cdev_add         |-> {"gpio"},
   class_create     |-> {"gpio", "cdev"},
   device_create    |-> {"gpio", "cdev", "class"}]

UndoneBy ==
  [gpio_request     |-> {},
   direction_output |-> {"gpio"},
   chrdev_region    |-> {"gpio"},
   cdev_add         |-> {"gpio", "chrdev"},
   class_create     |-> {"gpio", "chrdev", "cdev"},
   device_create    |-> {"gpio", "chrdev", "cdev", "class"}]

\* gpio_direction_output also turns the LED off, and led_status follows.
ProbeStep(s) ==
  /\ Step(s, AfterProbeStep[s])
  /\ held' = held \cup Acquires[s]
  /\ IF s = "direction_output"
       THEN /\ gpio' = 1
            /\ led_status' = 1
            /\ manual' = FALSE /\ writer' = None /\ shown' = None
       ELSE UNCHANGED <<ledVars, ledHist>>
  /\ UNCHANGED <<modstate, userVars, irqVars, byHand>>

\* A step of probe returns an error: unwind, and stay unbound.
ProbeFails(s) ==
  /\ Step(s, "unbound")
  /\ held' = held \ UndoneBy[s]
  /\ modstate' = "live"
  /\ UNCHANGED <<userVars, irqVars, ledVars, history>>

\* init_timer, tasklet_init and mod_timer; probe has succeeded.  A write that
\* came before finds its del_timer undone (shown).
StartTimer ==
  /\ Step("start_timer", "bound")
  /\ modstate' = "live"
  /\ timer' = TRUE
  /\ tasklet' = FALSE
  /\ shown' = None
  /\ UNCHANGED <<held, userVars, softirq, ledVars, manual, writer, byHand>>

\* remove without its del_timer.
RemoveDelTimer_Skipped ==
  /\ Step("del_timer", "tasklet_kill")
  /\ UNCHANGED <<modstate, held, userVars, irqVars, ledVars, history>>

\* del_timer: the timer is dequeued, a running callback is not waited for.
RemoveDelTimer ==
  /\ Step("del_timer", "tasklet_kill")
  /\ timer' = FALSE
  /\ UNCHANGED <<modstate, held, userVars, tasklet, softirq, ledVars, history>>

RemoveTaskletKill ==
  /\ Step("tasklet_kill", "led_off")
  /\ TaskletGone
  /\ UNCHANGED <<modstate, held, userVars, irqVars, ledVars, history>>

RemoveLedOff ==
  /\ Step("led_off", "device_destroy")
  /\ gpio' = 1
  /\ writer' = None
  /\ shown' = None
  /\ UNCHANGED <<modstate, held, userVars, irqVars, led_status, manual, byHand>>

AfterRemoveStep ==
  [device_destroy |-> "class_destroy", class_destroy |-> "cdev_del",
   cdev_del |-> "unregister_chrdev",   unregister_chrdev |-> "gpio_free",
   gpio_free |-> "unbound"]

Releases ==
  [device_destroy |-> {"device"}, class_destroy |-> {"class"}, cdev_del |-> {"cdev"},
   unregister_chrdev |-> {"chrdev"}, gpio_free |-> {"gpio"}]

RemoveRelease(s) ==
  /\ Step(s, AfterRemoveStep[s])
  /\ held' = held \ Releases[s]
  /\ UNCHANGED <<modstate, userVars, irqVars, ledVars, history>>

ProbeOrRemove ==
  \/ \E s \in DOMAIN Acquires : ProbeStep(s) \/ ProbeFails(s)
  \/ StartTimer
  \/ RemoveDelTimer
  \/ RemoveTaskletKill
  \/ RemoveLedOff
  \/ \E s \in DOMAIN Releases : RemoveRelease(s)
  \/ Unloaded

DriverCore == ProbeOrRemove \/ Insmod \/ Rmmod \/ SysfsUnbind \/ SysfsBind

Next == Softirq \/ DriverCore \/ \E p \in Procs : User(p)

Spec == Init /\ [][Next]_vars

(***************************************************************************)
(* Fairness.  A pending timer expires and a running handler goes on.  The  *)
(* timer fires every ten seconds only, so a scheduled tasklet, and a       *)
(* process inside probe, remove or led_write, gets the processor between   *)
(* two expirations: strong fairness.  tasklet_kill is the exception: it    *)
(* asks again and again whether the tasklet is scheduled, and nothing      *)
(* makes it ask between two expirations, so its return takes a tasklet     *)
(* that stays away: weak fairness.  Nobody is obliged to open, write, load *)
(* or unload.                                                              *)
(***************************************************************************)
FairSpec ==
  /\ Spec
  /\ WF_vars(TimerCallback \/ TimerRearm \/ TaskletSetGpio)
  /\ SF_vars(TaskletToggle)
  /\ SF_vars(core # "tasklet_kill" /\ ProbeOrRemove)
  /\ WF_vars(RemoveTaskletKill)
  /\ \A p \in Procs : SF_vars(WriteStep(p))

-----------------------------------------------------------------------------
(* Properties. *)

\* What the driver holds at each point of probe and remove: in particular
\* nothing when it is unbound, whichever step of probe failed (the goto labels
\* and the release calls of remove undo exactly what was done).
HeldAt ==
  LET cdev  == {"gpio", "chrdev", "cdev"}
      class == cdev \cup {"class"}
  IN  [unbound |-> {}, gpio_request |-> {}, direction_output |-> {"gpio"},
       chrdev_region |-> {"gpio"}, cdev_add |-> {"gpio", "chrdev"},
       class_create |-> cdev, device_create |-> class, start_timer |-> Resources,
       bound |-> Resources, del_timer |-> Resources, tasklet_kill |-> Resources,
       led_off |-> Resources, device_destroy |-> Resources,
       class_destroy |-> class, cdev_del |-> cdev,
       unregister_chrdev |-> {"gpio", "chrdev"}, gpio_free |-> {"gpio"}]

Ladder == held = HeldAt[core]

\* From the moment tasklet_kill has returned until the next probe starts the
\* timer, nothing of the driver runs in softirq context: no timer is pending,
\* no tasklet is scheduled, no handler is half-way (remove, lines 243-244).
PastKill == {"led_off", "unbound"} \cup DOMAIN Releases \cup ProbeSteps

Quiesced == core \in PastKill => ~timer /\ ~tasklet /\ softirq = "idle"

\* The driver drives the pin only while it owns it: every change of the level
\* happens between gpio_request and gpio_free.  The exception is led_write
\* through a file that an unbind by hand has left open.
DrivesOwnedPin ==
  [][gpio' # gpio => "gpio" \in held \/ (byHand /\ file' # file)]_vars

\* A file keeps the module in memory, and (unless the driver is unbound by
\* hand) a process that is in led_write finds the pin requested: fops->owner
\* and the order of remove.
FilePinsDriver ==
  \A p \in Procs : file[p] # "closed" =>
    modstate \in {"coming", "live"} /\ (byHand \/ "gpio" \in held)

\* While nobody has written, the bound driver keeps its timer chain alive, and
\* led_status is the level of the pin whenever the tasklet is not half-way.
AutoChain ==
  core = "bound" /\ ~manual =>
    /\ timer \/ softirq = "rearm"
    /\ softirq # "set_gpio" => gpio = led_status

\* A led_write that ran without a tasklet or another write in the middle has
\* its way: the LED stays as written and the timer stays stopped, even if a
\* tasklet that was already scheduled runs after it.  That ends with the next
\* write and with remove, and with the mod_timer of a probe that is still to
\* come to it (WriteStopsTimer).
WriteSticks == shown # None => gpio = shown /\ ~timer

\* "LED blinks automatically" (header): a bound driver that nobody writes to
\* switches the LED on and off for ever.
Blinks ==
  <>[](core = "bound" /\ ~manual) => []<>(gpio = 0) /\ []<>(gpio = 1)

\* Probe and remove return.  Remove is not stuck in tasklet_kill: the timer that
\* would schedule the tasklet again and again has been deleted before (lines
\* 243-244), so that the tasklet runs out and the wait ends.
CoreReturns ==
  core \in ProbeSteps \cup RemoveSteps ~> core \in {"bound", "unbound"}

\* What the comment of led_write (lines 114-115) says: after writing '1' the
\* LED is on, after writing '0' it is off ...
WriteTurnsLed ==
  \A p \in Procs : core = "bound" /\ file[p] = "open" /\ cmd[p] # None =>
    gpio = LevelOf(cmd[p])

\* ... and the timer is stopped.
WriteStopsTimer ==
  \A p \in Procs : core = "bound" /\ file[p] = "open" /\ cmd[p] # None => ~timer
=============================================================================
