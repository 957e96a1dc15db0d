------------------------------- MODULE Driver -------------------------------
(***************************************************************************)
(* A driver module with one device, as the module loader and the driver    *)
(* core run it: insmod offers the device to probe, rmmod makes the driver  *)
(* remove it, and so do the driver's bind and unbind files in sysfs.  The  *)
(* steps of probe and remove are those of module Ladder; the core holds    *)
(* the device's lock through them.                                         *)
(***************************************************************************)
EXTENDS Ladder

VARIABLES
  mod,     \* "gone", "coming", "live" or "going"
  byHand   \* history: has the device been unbound through sysfs?

driverVars == <<at, held, mod, byHand>>

Bound == at = <<"on", 0>>
Unbound == at = <<"off", 0>>

DriverTypeOK ==
  /\ TypeOK
  /\ mod \in {"gone", "coming", "live", "going"}
  /\ byHand \in BOOLEAN

DriverInit ==
  /\ Init
  /\ mod = "gone"
  /\ byHand = FALSE

Insmod ==
  /\ mod = "gone"
  /\ Begin
  /\ mod' = "coming"
  /\ UNCHANGED byHand

\* rmmod is refused while a file is open.
Rmmod(inUse) ==
  /\ mod = "live"
  /\ ~inUse
  /\ \/ Quit /\ mod' = "going"
     \/ Unbound /\ mod' = "gone" /\ UNCHANGED <<at, held>>
  /\ UNCHANGED byHand

SysfsBind ==
  /\ mod = "live"
  /\ Begin
  /\ UNCHANGED <<mod, byHand>>

SysfsUnbind ==
  /\ mod = "live"
  /\ Quit
  /\ byHand' = TRUE
  /\ UNCHANGED mod

\* The module settles when its probe or remove has ended.
Settle ==
  /\ mod' = IF at' \notin {<<"on", 0>>, <<"off", 0>>} THEN mod
            ELSE CASE mod = "coming" -> "live"
                   [] mod = "going" -> "gone"
                   [] OTHER -> mod
  /\ UNCHANGED byHand

\* The step of probe that acquires r, or does r, or fails to; the step of
\* remove that releases r.
Acquires(r) == \E i \in DOMAIN Acquired : Acquired[i] = r /\ Acquire(i) /\ Settle
Does(r)     == \E i \in DOMAIN Acquired : Acquired[i] = r /\ Pass(i) /\ Settle
Fails(r)    == \E i \in DOMAIN Acquired : Acquired[i] = r /\ Fail(i) /\ Settle
Releases(r) == \E i \in DOMAIN Released : Released[i] = r /\ Release(i) /\ Settle
=============================================================================
