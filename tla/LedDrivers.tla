----------------------------- MODULE LedDrivers -----------------------------
(***************************************************************************)
(* The three LED drivers, Toggle_GPIO/gpioled_platform.c,                  *)
(* led_misc/misc_platform.c and Timer_Tasklet/timer_tasklet_platform.c.    *)
(* All match the one device tree node "atkalpha-gpioled": the driver core  *)
(* binds the device to one of them at a time, and lets the user change     *)
(* that through sysfs, while processes keep the files that they have       *)
(* opened.  How timer and tasklet work is the subject of TimerTasklet.     *)
(***************************************************************************)
EXTENDS Naturals, Sequences

CONSTANTS
  Procs,  \* processes that run ledApp or hold a file of it open
  None    \* no driver, no file, no level

VARIABLES
  mod,      \* per driver: the state of its module
  driver,   \* the driver that the device is, or was last, bound to
  at, held, \* where its probe or remove is, what it holds (module Ladder)
  file,     \* per process: the driver whose node it has open
  level,    \* of the LED pin; the LED is active low
  output,   \* is the pin an output?
  \* History variables: no guard reads them.
  set,      \* level that a driver last gave the pin while it held it
  byHand    \* has the device been unbound through sysfs?

bindVars == <<mod, driver, at, held>>
pinVars == <<level, output, set>>
vars == <<bindVars, file, pinVars, byHand>>

Drivers == {"gpioled", "misc", "tasklet"}

ASSUME NoneAssumption == None \notin Drivers /\ None \notin {0, 1}

\* "led" stands for gpio_direction_output in probe, which makes the pin an output
\* at its off level, and for the gpio_set_value in remove that turns the LED off.
Acquired ==
  [gpioled |-> <<"gpio", "led", "chrdev", "cdev", "class", "device">>,
   misc    |-> <<"gpio", "led", "miscdev">>,
   tasklet |-> <<"gpio", "led", "chrdev", "cdev", "class", "device", "timer">>]

\* destroy_class without its fall-through.
Labels_LeakCdev ==
  [gpio |-> {}, led |-> {"gpio"}, chrdev |-> {"led", "gpio"},
   cdev |-> {"chrdev", "led", "gpio"}, class |-> {"cdev", "chrdev", "led", "gpio"},
   device |-> {"class", "chrdev", "led", "gpio"}]

\* What a failure undoes, by the labels of the drivers with a character device.
Labels ==
  [gpio |-> {}, led |-> {"gpio"}, chrdev |-> {"led", "gpio"},
   cdev |-> {"chrdev", "led", "gpio"}, class |-> {"cdev", "chrdev", "led", "gpio"},
   device |-> {"class", "cdev", "chrdev", "led", "gpio"}]

\* led_misc ignores a failure of gpio_direction_output; mod_timer cannot fail.
UndoneBy ==
  [gpioled |-> Labels, tasklet |-> Labels, misc |-> [gpio |-> {}, miscdev |-> {"led", "gpio"}]]

\* gpio_free and the rest in the order of probe; the LED left as it is.
Released_PinFirst ==
  [gpioled |-> <<"led", "gpio", "device", "class", "cdev", "chrdev">>,
   misc    |-> <<"miscdev", "led", "gpio">>,
   tasklet |-> <<"timer", "led", "device", "class", "cdev", "chrdev", "gpio">>]
Released_StaysLit ==
  [gpioled |-> <<"led", "device", "class", "cdev", "chrdev", "gpio">>,
   misc    |-> <<"miscdev", "gpio">>,
   tasklet |-> <<"timer", "led", "device", "class", "cdev", "chrdev", "gpio">>]

\* gpioled_remove, led_remove and taskletled_remove.
Released ==
  [gpioled |-> <<"led", "device", "class", "cdev", "chrdev", "gpio">>,
   misc    |-> <<"miscdev", "led", "gpio">>,
   tasklet |-> <<"timer", "led", "device", "class", "cdev", "chrdev", "gpio">>]

Node == [gpioled |-> "device", misc |-> "miscdev", tasklet |-> "device"]

Life(d) == INSTANCE Ladder WITH
  Acquired <- Acquired[d], UndoneBy <- UndoneBy[d], Released <- Released[d]

TypeOK ==
  /\ mod \in [Drivers -> {"gone", "coming", "live", "going"}]
  /\ driver \in Drivers \cup {None}
  /\ driver = None => at = <<"off", 0>> /\ held = {}
  /\ \A d \in Drivers : driver = d => Life(d)!TypeOK
  /\ file \in [Procs -> Drivers \cup {None}]
  /\ level \in {0, 1}
  /\ output \in BOOLEAN
  /\ set \in {0, 1, None}
  /\ byHand \in BOOLEAN

Init ==
  /\ mod = [d \in Drivers |-> "gone"]
  /\ driver = None
  /\ at = <<"off", 0>>
  /\ held = {}
  /\ file = [p \in Procs |-> None]
  /\ level \in {0, 1}      \* whatever the boot loader left,
  /\ output \in BOOLEAN    \* and who drives the pin
  /\ set = None
  /\ byHand = FALSE

Bound == at = <<"on", 0>>
Unbound == at = <<"off", 0>>

-----------------------------------------------------------------------------
(* The driver core; it handles the device under the device's lock. *)

\* insmod: the new driver is offered the device if that is free.
Insmod(d) ==
  /\ mod[d] = "gone"
  /\ Bound \/ Unbound
  /\ mod' = [mod EXCEPT ![d] = IF Unbound THEN "coming" ELSE "live"]
  /\ IF Unbound THEN driver' = d /\ Life(d)!Begin ELSE UNCHANGED <<driver, at, held>>
  /\ UNCHANGED <<file, pinVars, byHand>>

\* Files without .owner.
InUse_NoOwner(d) == FALSE

\* An open file holds a reference on the module (led_fops.owner).
InUse(d) == \E p \in Procs : file[p] = d

\* rmmod: refused while in use; the driver that is bound is removed first.
Rmmod(d) ==
  /\ mod[d] = "live"
  /\ Bound \/ Unbound
  /\ ~InUse(d)
  /\ IF Bound /\ driver = d
       THEN mod' = [mod EXCEPT ![d] = "going"] /\ Life(d)!Quit
       ELSE mod' = [mod EXCEPT ![d] = "gone"] /\ UNCHANGED <<at, held>>
  /\ UNCHANGED <<driver, file, pinVars, byHand>>

\* The driver's bind and unbind files in sysfs.
SysfsBind(d) ==
  /\ mod[d] = "live"
  /\ driver' = d
  /\ Life(d)!Begin
  /\ UNCHANGED <<mod, file, pinVars, byHand>>

SysfsUnbind(d) ==
  /\ driver = d
  /\ Life(d)!Quit
  /\ byHand' = TRUE
  /\ UNCHANGED <<mod, driver, file, pinVars>>

\* The module settles when its probe or remove has ended.
Settle(d) ==
  mod' = IF at' \notin {<<"on", 0>>, <<"off", 0>>} THEN mod
         ELSE [mod EXCEPT ![d] = CASE @ = "coming" -> "live"
                                   [] @ = "going" -> "gone"
                                   [] OTHER -> @]

\* gpio_set_value: a pin that is an input keeps the level it is driven to from
\* outside, and neither gpio_request nor gpio_free changes the direction.
GpioSet(v) ==
  /\ level' = IF output THEN v ELSE level
  /\ UNCHANGED output

\* The driver that holds the pin drives it.
Drive(v) ==
  /\ GpioSet(v)
  /\ set' = IF output THEN v ELSE set

\* A step of probe succeeds.  led_misc goes on if gpio_direction_output failed:
\* the pin stays what it was.
ProbeStep(d) ==
  /\ driver = d
  /\ \E i \in DOMAIN Acquired[d] :
       /\ Life(d)!Acquire(i)
       /\ IF Acquired[d][i] # "led" THEN UNCHANGED pinVars
          ELSE \/ output' = TRUE /\ level' = 1 /\ set' = 1
               \/ "led" \notin DOMAIN UndoneBy[d] /\ UNCHANGED pinVars
  /\ Settle(d)
  /\ UNCHANGED <<driver, file, byHand>>

ProbeFails(d) ==
  /\ driver = d
  /\ \E i \in DOMAIN Acquired[d] : Life(d)!Fail(i)
  /\ Settle(d)
  /\ UNCHANGED <<driver, file, pinVars, byHand>>

RemoveStep(d) ==
  /\ driver = d
  /\ \E i \in DOMAIN Released[d] :
       /\ Life(d)!Release(i)
       /\ IF Released[d][i] = "led" THEN Drive(1) ELSE UNCHANGED pinVars
  /\ Settle(d)
  /\ UNCHANGED <<driver, file, byHand>>

-----------------------------------------------------------------------------
(* The file operations, as ledApp calls them. *)

LedOpen(p, d) ==
  /\ file[p] = None
  /\ driver = d
  /\ Node[d] \in held
  /\ mod[d] \in {"coming", "live"}   \* fops->owner: try_module_get
  /\ file' = [file EXCEPT ![p] = d]
  /\ UNCHANGED <<bindVars, pinVars, byHand>>

LedRelease(p) ==
  /\ file[p] # None
  /\ file' = [file EXCEPT ![p] = None]
  /\ UNCHANGED <<bindVars, pinVars, byHand>>

\* The byte itself given to the pin.
Levels_Raw == 0 .. 255

\* The levels that led_write gives the pin: on for LEDON, off for LEDOFF.  led_misc
\* takes another byte for off, and the others ignore it, which is no step.  If
\* the copy fails, led_misc does nothing, and the others go by what is on the stack.
Levels == {0, 1}

LedWrite(p) ==
  /\ file[p] # None
  /\ \E v \in Levels :
       IF file[p] = driver /\ "gpio" \in held THEN Drive(v) ELSE GpioSet(v) /\ UNCHANGED set
  /\ UNCHANGED <<bindVars, file, byHand>>

\* The tasklet toggles the LED until remove has killed it.
Blink ==
  /\ driver = "tasklet"
  /\ "timer" \in held
  /\ \E v \in {0, 1} : Drive(v)
  /\ UNCHANGED <<bindVars, file, byHand>>

Next ==
  \/ Blink
  \/ \E d \in Drivers :
       \/ Insmod(d) \/ Rmmod(d) \/ SysfsBind(d) \/ SysfsUnbind(d)
       \/ ProbeStep(d) \/ ProbeFails(d) \/ RemoveStep(d)
  \/ \E p \in Procs :
       \/ \E d \in Drivers : LedOpen(p, d)
       \/ LedRelease(p) \/ LedWrite(p)

Spec == Init /\ [][Next]_vars

-----------------------------------------------------------------------------
(* Properties. *)

\* A driver that is not bound holds nothing, whichever step of probe failed.
NothingLeaked == \A d \in Drivers : driver = d => Life(d)!Balanced

\* A node that can be opened belongs to a driver that has the pin, as an output:
\* through all of probe and remove, no file can be opened that leads to a pin not
\* requested, or one that a write cannot drive.  The exception is led_misc, which
\* makes its node although gpio_direction_output failed.
NodeHasPin ==
  \A d \in Drivers : driver = d /\ Node[d] \in held =>
    "gpio" \in held /\ (output \/ d = "misc")

\* gpioled_platform.c:103, "requesting ensures exclusive resource access": while
\* a driver holds the pin, nobody else changes it.  It keeps the level that a
\* driver gave it last while it held the pin, this one or the one before.
ExclusiveAccess == "gpio" \in held /\ set # None => level = set

\* It does as long as nobody has taken a device from its driver through sysfs.
ExclusiveUnlessByHand == ~byHand => ExclusiveAccess

\* gpioled_platform.c:177, "Turn off LED before exiting": rmmod, or a probe that
\* fails, leaves the LED off, whatever processes wrote before.  This is said of a
\* pin that some driver has been able to drive: led_misc on a pin that it could
\* not make an output leaves the LED as it was, which may be lit.
OffWhenUnbound == Unbound /\ ~byHand /\ set # None => level = 1
=============================================================================
