------------------------------ MODULE KeyInput ------------------------------
(***************************************************************************)
(* The key driver InputSubsystem/key_input: both edges of the key raise an *)
(* interrupt, the handler (re)arms a debounce timer, and the timer function *)
(* samples the pin and reports KEY_0 to the input core; probe and remove   *)
(* build and take down that chain; evtest reads the events one by one.     *)
(*                                                                         *)
(* Contexts (one core).  The interrupt handler preempts everything, so it  *)
(* runs with the edge that raises it (Edge).  The timer function preempts  *)
(* probe and remove, and may itself be preempted by an edge between        *)
(* sampling the pin and reporting (handler).  The reader runs in between.  *)
(***************************************************************************)
EXTENDS Naturals, Sequences

CONSTANTS
  Delay,    \* jiffies in msecs_to_jiffies(10)
  Buffer,   \* events in the buffer of a descriptor (64 in the kernel; a power of 2)
  None      \* a value that is not a number

ASSUME KeyAssumption ==
  /\ Delay \in Nat \ {0}
  /\ None \notin Nat
  /\ Buffer \in Nat /\ Buffer > 3

VARIABLES
  core,     \* where probe or remove is; "unloaded" when there is no module
  level,    \* level of the pin: 0 while the key is held down
  irq,      \* is the interrupt requested?
  timerfn,  \* keydev.timer.function: "null" until init_timer has run once
  timer,    \* jiffies until keydev.timer expires; None when it is not pending
  handler,  \* the value key_timer_function has sampled and not yet reported
  input,    \* the input device
  key,      \* KEY_0 in the input core
  client,   \* evtest's descriptor of /dev/input/eventX
  queue,    \* the events it has not read yet
  ev,       \* evtest's ev: the event read last
  shown,    \* the EV_KEY event evtest printed last
  fault,    \* the first illegal use of kernel memory, if any
  \* History variables: no guard reads them.
  since,    \* jiffies since the last interrupt, up to Delay
  seen,     \* has the handler run since the interrupt was requested?
  window,   \* has it ever run in one of the two Windows?
  news      \* was the last event sent to the reader queued ("told") or dropped?

keyVars   == <<level, irq, timerfn, timer, handler, since, seen, window>>
reader    == <<client, queue, ev, shown, news>>
inputVars == <<input, key, reader>>
vars      == <<core, keyVars, inputVars, fault>>

KeyEvents == {"up", "down", "repeat"}               \* EV_KEY with value 0, 1, 2
Events    == KeyEvents \cup {"sync", "dropped"}     \* SYN_REPORT, SYN_DROPPED

ProbeSteps  == {"allocate", "gpio_request", "request_irq", "init_timer", "register",
                "fail_irq", "fail_timer"}
RemoveSteps == {"free_irq", "unregister", "gpio_free"}

TypeOK ==
  /\ core \in {"unloaded", "unbound", "bound"} \cup ProbeSteps \cup RemoveSteps
  /\ level \in {0, 1}
  /\ irq \in BOOLEAN /\ seen \in BOOLEAN /\ window \in BOOLEAN
  /\ timerfn \in {"null", "set"}
  /\ timer \in 0 .. Delay \cup {None}
  /\ handler \in {0, 1, None}
  /\ input \in {"none", "allocated", "registered", "unregistered", "freed"}
  /\ key \in {"up", "down"}
  /\ client \in {"closed", "open"}
  /\ queue \in Seq(Events) /\ Len(queue) < Buffer
  /\ ev \in Events \cup {"undefined"}
  /\ shown \in KeyEvents \cup {"none", "undefined"}
  /\ news \in {"none", "told", "missed"}
  /\ fault \in {"none", "null_timer", "timer_reinit", "use_after_free", "unloaded_timer"}
  /\ since \in 0 .. Delay

\* A descriptor c that has read nothing yet, in the next state.
NoReader(c) ==
  client' = c /\ queue' = <<>> /\ ev' = "undefined" /\ shown' = "none" /\ news' = "none"

Init ==
  /\ core = "unloaded" /\ fault = "none"
  /\ level \in {0, 1}
  /\ irq = FALSE /\ seen = FALSE /\ window = FALSE
  /\ timerfn = "null" /\ timer = None /\ handler = None /\ since = 0
  /\ input = "none" /\ key = "up"
  /\ client = "closed" /\ queue = <<>> /\ ev = "undefined" /\ shown = "none" /\ news = "none"

\* The first illegal use is the one that counts.
Blame(f) == fault' = IF fault = "none" THEN f ELSE fault

\* Where the interrupt is on and the timer is not in order: in probe between
\* request_irq and init_timer, in remove between del_timer and free_irq.
ProbeWindow == "init_timer"
RemoveWindow == "free_irq"
Windows == {ProbeWindow, RemoveWindow}

-----------------------------------------------------------------------------
(* Interrupt and timer context. *)

\* The key is pressed, released or bounces.  key_irq_handler (re)arms the
\* timer; mod_timer stops the kernel at a timer that has no function.
Rearmed_OnlyIfIdle == IF timer = None THEN Delay ELSE timer
Rearmed_Late == Delay + 1
Rearmed_Never == timer
Rearmed == Delay

Edge ==
  /\ level' = 1 - level
  /\ IF irq
       THEN /\ timer' = Rearmed
            /\ since' = 0
            /\ seen' = TRUE
            /\ window' = (window \/ core \in Windows)
            /\ IF timerfn = "null" THEN Blame("null_timer") ELSE UNCHANGED fault
       ELSE UNCHANGED <<timer, since, seen, window, fault>>
  /\ UNCHANGED <<core, irq, timerfn, handler, inputVars>>

\* A jiffy passes; a timer that has expired, or runs, runs first.
Tick ==
  /\ handler = None
  /\ timer # 0
  /\ timer' = IF timer = None THEN None ELSE timer - 1
  /\ since' = IF since < Delay THEN since + 1 ELSE since
  /\ UNCHANGED <<core, level, irq, timerfn, handler, seen, window, inputVars, fault>>

\* key_timer_function samples the pin ...
TimerSample ==
  /\ timer = 0
  /\ handler = None
  /\ timer' = None
  /\ handler' = level
  /\ UNCHANGED <<core, level, irq, timerfn, since, seen, window, inputVars, fault>>

\* An event that fills the buffer drops all others but a note of that.
Queued(q, e) ==
  IF Len(q) + 1 = Buffer THEN <<"dropped", e>> ELSE Append(q, e)

\* What the reader can read after an event e and the sync that ends it.
Packet(e) == Queued(Queued(queue, e), "sync")

\* A reader learns of e, unless its sync was what filled the buffer.
Heard(q) ==
  /\ queue' = q
  /\ news' = IF q = <<"dropped", "sync">> THEN "missed" ELSE "told"
  /\ UNCHANGED <<client, ev, shown>>

\* ... and reports what it sampled.  The input core keeps the state of the key
\* and tells the reader when it changes.  Without input_sync it would not.
Pressed_ActiveHigh(v) == v = 1
Pressed(v) == v = 0

Sent_Unsynced(e) == queue
Sent(e) == Packet(e)

TimerReport ==
  /\ handler # None
  /\ handler' = None
  /\ IF input \in {"none", "freed"}
       THEN Blame("use_after_free") /\ UNCHANGED <<key, reader>>
       ELSE /\ key' = IF Pressed(handler) THEN "down" ELSE "up"
            /\ IF key' # key /\ input = "registered" /\ client = "open"
                 THEN Heard(Sent(key'))
                 ELSE UNCHANGED reader
            /\ UNCHANGED fault
  /\ UNCHANGED <<core, level, irq, timerfn, timer, since, seen, window, input>>

\* EV_REP: a key that is down may be reported again, by the input core's timer.
Repeat ==
  /\ handler = None
  /\ key = "down" /\ input = "registered" /\ client = "open"
  /\ Heard(Packet("repeat"))
  /\ UNCHANGED <<core, keyVars, input, key, fault>>

-----------------------------------------------------------------------------
(* evtest.  Its descriptor keeps the input device in memory, but neither   *)
(* the driver bound nor its module loaded.                                  *)

ClientOpen ==
  /\ handler = None
  /\ client = "closed"
  /\ input = "registered"
  /\ NoReader("open")
  /\ UNCHANGED <<core, keyVars, input, key, fault>>

\* One turn of the loop.  read takes an event, and sleeps while there is none.
\* When the device is gone it fails, which evtest does not notice: it looks at
\* ev again, which is undefined before the first event.
ClientRead ==
  /\ handler = None
  /\ client = "open"
  /\ IF input = "registered"
       THEN queue # <<>> /\ ev' = Head(queue) /\ queue' = Tail(queue)
       ELSE UNCHANGED <<queue, ev>>
  /\ shown' = IF ev' \in KeyEvents \cup {"undefined"} THEN ev' ELSE shown
  /\ UNCHANGED <<core, keyVars, input, key, client, news, fault>>

\* The loop has no end: evtest is killed.
ClientClose ==
  /\ handler = None
  /\ client = "open"
  /\ NoReader("closed")
  /\ input' = IF input = "unregistered" THEN "freed" ELSE input
  /\ UNCHANGED <<core, keyVars, key, fault>>

-----------------------------------------------------------------------------
(* Process context: probe, remove, loading and unloading.                   *)

\* A process runs only when no timer function does; probe or remove goes on.
Process == handler = None
Step(from, to) == Process /\ core = from /\ core' = to

\* A freshly loaded module has a zeroed keydev; the driver core binds at once.
Load ==
  /\ Step("unloaded", "allocate")
  /\ timerfn' = "null"
  /\ UNCHANGED <<level, irq, timer, handler, since, seen, window, inputVars, fault>>

\* echo <dev> > .../bind: keydev is as the last remove left it.
Bind ==
  /\ Step("unbound", "allocate")
  /\ UNCHANGED <<keyVars, inputVars, fault>>

\* The module's memory goes, and keydev with it.
Unload ==
  /\ Step("unbound", "unloaded")
  /\ IF timer # None THEN Blame("unloaded_timer") ELSE UNCHANGED fault
  /\ UNCHANGED <<keyVars, inputVars>>

\* The new device has no reader yet; one that still reads the device of an
\* earlier binding is not followed any further.
Allocate ==
  /\ \/ Step("allocate", "gpio_request") /\ input' = "allocated"
     \/ Step("allocate", "unbound") /\ input' = "none"
  /\ key' = "up" /\ NoReader("closed")
  /\ UNCHANGED <<keyVars, fault>>

RequestGpio ==
  /\ \/ Step("gpio_request", "request_irq") /\ UNCHANGED input
     \/ Step("gpio_request", "unbound") /\ input' = "freed"
  /\ UNCHANGED <<keyVars, key, reader, fault>>

RequestIrq ==
  /\ \/ Step("request_irq", "init_timer") /\ irq' = TRUE /\ seen' = FALSE /\ UNCHANGED input
     \/ Step("request_irq", "unbound") /\ input' = "freed" /\ UNCHANGED <<irq, seen>>
  /\ UNCHANGED <<level, timerfn, timer, handler, since, window, key, reader, fault>>

\* init_timer forgets a timer that is pending.
InitTimer ==
  /\ Step("init_timer", "register")
  /\ timerfn' = "set"
  /\ timer' = None
  /\ IF timer # None THEN Blame("timer_reinit") ELSE UNCHANGED fault
  /\ UNCHANGED <<level, irq, handler, since, seen, window, inputVars>>

Register ==
  /\ \/ Step("register", "bound") /\ input' = "registered"
     \/ Step("register", "fail_irq") /\ UNCHANGED input
  /\ UNCHANGED <<keyVars, key, reader, fault>>

FreeIrqAfter_Kept(step, next) ==
  /\ Step(step, next)
  /\ UNCHANGED <<keyVars, inputVars, fault>>

\* free_irq, in the error path of probe (step "fail_irq") and in remove.
FreeIrqAfter(step, next) ==
  /\ Step(step, next)
  /\ irq' = FALSE
  /\ UNCHANGED <<level, timerfn, timer, handler, since, seen, window, inputVars, fault>>

\* The error path goes on: del_timer, gpio_free, input_free_device.
FailTimer ==
  /\ Step("fail_timer", "unbound")
  /\ timer' = None
  /\ input' = "freed"
  /\ UNCHANGED <<level, irq, timerfn, handler, since, seen, window, key, reader, fault>>

\* Remove starts with del_timer.
RemoveDelTimer_Skipped ==
  /\ Step("bound", "free_irq")
  /\ UNCHANGED <<keyVars, inputVars, fault>>

RemoveDelTimer ==
  /\ Step("bound", "free_irq")
  /\ timer' = None
  /\ UNCHANGED <<level, irq, timerfn, handler, since, seen, window, inputVars, fault>>

\* input_unregister_device releases a key that is down and drops the device;
\* it is freed unless a descriptor holds it, which can read no more of it.
Unregister ==
  /\ Step("unregister", "gpio_free")
  /\ key' = "up"
  /\ input' = IF client = "open" THEN "unregistered" ELSE "freed"
  /\ queue' = <<>>
  /\ UNCHANGED <<keyVars, client, ev, shown, news, fault>>

GpioFree ==
  /\ Step("gpio_free", "unbound")
  /\ UNCHANGED <<keyVars, inputVars, fault>>

ProbeOrRemove ==
  \/ Allocate \/ RequestGpio \/ RequestIrq \/ InitTimer \/ Register
  \/ FreeIrqAfter("fail_irq", "fail_timer") \/ FailTimer
  \/ FreeIrqAfter("free_irq", "unregister") \/ Unregister \/ GpioFree

Next ==
  \/ Edge \/ Tick \/ TimerSample \/ TimerReport
  \/ Repeat \/ ClientOpen \/ ClientRead \/ ClientClose
  \/ Load \/ Bind \/ Unload \/ RemoveDelTimer \/ ProbeOrRemove

Spec == Init /\ [][Next]_vars

\* Time passes, an expired timer runs to its end, probe and remove go on, and so
\* does a reader that has something to read.
FairSpec ==
  /\ Spec
  /\ WF_vars(Tick)
  /\ WF_vars(TimerSample \/ TimerReport)
  /\ WF_vars(ProbeOrRemove)
  /\ WF_vars(ClientRead)

-----------------------------------------------------------------------------
(* Properties. *)

\* When the chain has come to rest after an edge, the input core has the state
\* of the key, whatever bounced and however edges interrupted the report.
Settled ==
  fault = "none" /\ core = "bound" /\ seen /\ timer = None /\ handler = None =>
    (key = "down") = (level = 0)

\* Debouncing: the pin is sampled only when Delay jiffies have begun since the
\* last interrupt, not in the middle of a bounce.
Debounced ==
  [][handler = None /\ handler' # None => since = Delay]_vars

\* The two Windows are the only way for the driver to make the kernel use a
\* timer without function, clobber a pending one, or use freed memory.
NoFault == fault # "none" => window

\* When the driver is unbound, nothing of it is left: no interrupt, no pending
\* or running timer, no registered device (the goto labels and remove).
NothingLeft ==
  core \in {"unbound", "unloaded"} =>
    /\ ~irq
    /\ ~window => timer = None /\ handler = None
    /\ input \notin {"allocated", "registered"}

Agrees(e) == IF key = "down" THEN e \in {"down", "repeat"} ELSE e = "up"

\* evtest, once it has read what there is, shows the key as the input core knows
\* it, whatever it missed or was repeated before.  The one exception is an event
\* that went when the buffer was full: evtest takes the note of that for a sync.
CaughtUp ==
  input = "registered" /\ client = "open" /\ queue = <<>> /\ news = "told" =>
    Agrees(shown)

\* A key that stays as it is gets reported, and evtest goes on to show it unless
\* its buffer overflows.
StableKeyShown ==
  \A l \in {0, 1} :
    <>[](fault = "none" /\ core = "bound" /\ seen /\ level = l) =>
      /\ <>[]((key = "down") = (l = 0))
      /\ <>[](client = "open" /\ news = "told") => <>[]Agrees(shown)

\* README, lines 38-41: an interrupt leads to the timer function.
IrqArmsTimer == fault # "null_timer"

\* Comment in remove, line 135: input_unregister_device has freed the device;
\* nothing may report to it any more.
NoReportAfterFree == fault # "use_after_free"
=============================================================================
