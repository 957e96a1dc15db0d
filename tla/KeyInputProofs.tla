--------------------------- MODULE KeyInputProofs ---------------------------
(***************************************************************************)
(* Proofs about the key driver, for every debounce delay.                  *)
(***************************************************************************)
EXTENDS KeyInput, TLAPS

\* Probe and remove are sequences of such steps.
USE DEF Step

\* The bounds of the two counters are in their range.
LEMMA DelayRange == 0 \in 0 .. Delay /\ Rearmed \in 0 .. Delay
  BY KeyAssumption DEF Rearmed

\* What the variables of the driver hold ...
DriverTypeOK ==
  /\ core \in {"unloaded", "unbound", "bound"} \cup ProbeSteps \cup RemoveSteps
  /\ level \in {0, 1}
  /\ irq \in BOOLEAN
  /\ timerfn \in {"null", "set"}
  /\ timer \in 0 .. Delay \cup {None}
  /\ handler \in {0, 1, None}
  /\ input \in {"none", "allocated", "registered", "unregistered", "freed"}
  /\ key \in {"up", "down"}
  /\ fault \in {"none", "null_timer", "timer_reinit", "use_after_free", "unloaded_timer"}
  /\ since \in 0 .. Delay
  /\ seen \in BOOLEAN
  /\ window \in BOOLEAN

\* ... and those of the reader.
ReaderTypeOK ==
  /\ client \in {"closed", "open"}
  /\ queue \in Seq(Events) /\ Len(queue) < Buffer
  /\ ev \in Events \cup {"undefined"}
  /\ shown \in KeyEvents \cup {"none", "undefined"}
  /\ news \in {"none", "told", "missed"}

\* An event never fills the buffer: there it is queued with a note alone.
LEMMA QueuedFits ==
  ASSUME NEW q \in Seq(Events), Len(q) < Buffer, NEW e \in Events
  PROVE  Queued(q, e) \in Seq(Events) /\ Len(Queued(q, e)) < Buffer
<1>1. CASE Len(q) + 1 = Buffer
  <2>1. Queued(q, e) = <<"dropped", e>>
    BY <1>1 DEF Queued
  <2>2. "dropped" \in Events
    BY DEF Events
  <2> QED BY <2>1, <2>2, KeyAssumption
<1>2. CASE Len(q) + 1 # Buffer
  <2>1. Queued(q, e) = Append(q, e)
    BY <1>2 DEF Queued
  <2> QED BY <2>1, <1>2, KeyAssumption
<1> QED BY <1>1, <1>2

LEMMA HeardKeepsType ==
  ASSUME ReaderTypeOK, NEW e \in KeyEvents, Heard(Packet(e))
  PROVE  ReaderTypeOK'
<1>1. e \in Events /\ "sync" \in Events
  BY DEF Events
<1>2. Queued(queue, e) \in Seq(Events) /\ Len(Queued(queue, e)) < Buffer
  BY <1>1, QueuedFits DEF ReaderTypeOK
<1>3. Packet(e) \in Seq(Events) /\ Len(Packet(e)) < Buffer
  BY <1>1, <1>2, QueuedFits DEF Packet
<1>4. news' \in {"none", "told", "missed"}
  BY DEF Heard
<1> QED BY <1>3, <1>4 DEF Heard, ReaderTypeOK

LEMMA NoReaderType ==
  ASSUME NEW c \in {"closed", "open"}, NoReader(c)
  PROVE  ReaderTypeOK'
<1>1. <<>> \in Seq(Events) /\ Len(<<>>) = 0
  OBVIOUS
<1> QED BY <1>1, KeyAssumption DEF NoReader, ReaderTypeOK

\* Every step keeps the types of the reader's variables.
LEMMA ReaderTypeInductive == TypeOK /\ [Next]_vars => ReaderTypeOK'
<1> SUFFICES ASSUME TypeOK, [Next]_vars PROVE ReaderTypeOK'
  OBVIOUS
<1>0. ReaderTypeOK
  BY DEF TypeOK, ReaderTypeOK
<1>a. UNCHANGED reader => ReaderTypeOK'
  BY <1>0 DEF reader, ReaderTypeOK
<1>1. CASE TimerReport
  <2>1. CASE UNCHANGED reader
    BY <2>1, <1>a
  <2>2. CASE ~UNCHANGED reader
    <3>1. Heard(Packet(key')) /\ key' \in KeyEvents
      BY <1>1, <2>2 DEF TimerReport, Sent, KeyEvents
    <3> QED BY <3>1, <1>0, HeardKeepsType
  <2> QED BY <2>1, <2>2
<1>2. CASE Repeat
  <2>1. Heard(Packet("repeat")) /\ "repeat" \in KeyEvents
    BY <1>2 DEF Repeat, KeyEvents
  <2> QED BY <2>1, <1>0, HeardKeepsType
<1>3. CASE ClientOpen \/ ClientClose \/ Allocate
  BY <1>3, NoReaderType DEF ClientOpen, ClientClose, Allocate
<1>4. CASE ClientRead
  <2>1. queue' \in Seq(Events) /\ Len(queue') < Buffer
    BY <1>0, <1>4, KeyAssumption DEF ClientRead, ReaderTypeOK
  <2>2. ev' \in Events \cup {"undefined"}
    BY <1>0, <1>4 DEF ClientRead, ReaderTypeOK
  <2>3. shown' \in KeyEvents \cup {"none", "undefined"}
    BY <1>0, <1>4 DEF ClientRead, ReaderTypeOK
  <2> QED BY <1>0, <1>4, <2>1, <2>2, <2>3 DEF ClientRead, ReaderTypeOK
<1>5. CASE Unregister
  <2>1. <<>> \in Seq(Events) /\ Len(<<>>) = 0
    OBVIOUS
  <2> QED BY <1>0, <1>5, <2>1, KeyAssumption DEF Unregister, ReaderTypeOK
<1>6. CASE Edge \/ Tick \/ TimerSample \/ Load \/ Bind \/ Unload \/ RemoveDelTimer
  BY <1>6, <1>a DEF Edge, Tick, TimerSample, Load, Bind, Unload, RemoveDelTimer, inputVars
<1>7. CASE RequestGpio \/ RequestIrq \/ InitTimer \/ Register
           \/ FreeIrqAfter("fail_irq", "fail_timer") \/ FailTimer
           \/ FreeIrqAfter("free_irq", "unregister") \/ GpioFree
  BY <1>7, <1>a DEF RequestGpio, RequestIrq, InitTimer, Register, FreeIrqAfter, FailTimer,
                    GpioFree, inputVars
<1>8. CASE UNCHANGED vars
  BY <1>8, <1>a DEF vars, inputVars
<1> QED BY <1>1, <1>2, <1>3, <1>4, <1>5, <1>6, <1>7, <1>8 DEF Next, ProbeOrRemove

\* Type correctness is inductive.
LEMMA KeyTypeInductive == TypeOK /\ [Next]_vars => TypeOK'
<1> SUFFICES ASSUME TypeOK, [Next]_vars, DriverTypeOK PROVE DriverTypeOK'
  BY ReaderTypeInductive DEF TypeOK, DriverTypeOK, ReaderTypeOK
<1> USE DEF DriverTypeOK, keyVars, inputVars, Blame
<1>1. CASE Edge
  <2>1. 1 - level \in {0, 1}
    OBVIOUS
  <2>2. CASE irq
    BY <1>1, <2>1, <2>2, DelayRange DEF Edge
  <2>3. CASE ~irq
    BY <1>1, <2>1, <2>3 DEF Edge
  <2> QED BY <2>2, <2>3
<1>2. CASE Tick
  <2>1. timer # None /\ timer # 0 => timer - 1 \in 0 .. Delay
    BY KeyAssumption
  <2>2. since < Delay => since + 1 \in 0 .. Delay
    BY KeyAssumption
  <2> QED BY <1>2, <2>1, <2>2 DEF Tick
<1>3. CASE TimerSample BY <1>3 DEF TimerSample
<1>4. CASE TimerReport BY <1>4 DEF TimerReport
<1>5. CASE Repeat \/ ClientOpen BY <1>5 DEF Repeat, ClientOpen
<1>6. CASE ClientRead \/ ClientClose BY <1>6 DEF ClientRead, ClientClose
<1>7. CASE Load \/ Bind \/ Unload BY <1>7 DEF Load, Bind, Unload, ProbeSteps
<1>8. CASE RemoveDelTimer BY <1>8 DEF RemoveDelTimer, RemoveSteps
<1>9. CASE ProbeOrRemove
  <2> USE DEF ProbeSteps, RemoveSteps
  <2>1. CASE Allocate \/ RequestGpio BY <2>1 DEF Allocate, RequestGpio
  <2>2. CASE RequestIrq
    <3>1. irq' \in BOOLEAN /\ seen' \in BOOLEAN
      BY <2>2 DEF RequestIrq
    <3>2. core' \in {"unbound"} \cup ProbeSteps
      BY <2>2 DEF RequestIrq
    <3> QED BY <2>2, <3>1, <3>2 DEF RequestIrq
  <2>3. CASE InitTimer BY <2>3 DEF InitTimer
  <2>4. CASE Register BY <2>4 DEF Register
  <2>5. CASE FreeIrqAfter("fail_irq", "fail_timer")
    <3>1. irq' = FALSE /\ irq' \in BOOLEAN
      BY <2>5 DEF FreeIrqAfter
    <3> QED BY <2>5, <3>1 DEF FreeIrqAfter
  <2>6. CASE FailTimer BY <2>6 DEF FailTimer
  <2>7. CASE FreeIrqAfter("free_irq", "unregister")
    <3>1. irq' = FALSE /\ irq' \in BOOLEAN
      BY <2>7 DEF FreeIrqAfter
    <3> QED BY <2>7, <3>1 DEF FreeIrqAfter
  <2>8. CASE Unregister \/ GpioFree BY <2>8 DEF Unregister, GpioFree
  <2> QED BY <1>9, <2>1, <2>2, <2>3, <2>4, <2>5, <2>6, <2>7, <2>8 DEF ProbeOrRemove
<1>10. CASE UNCHANGED vars BY <1>10 DEF vars
<1> QED BY <1>1, <1>2, <1>3, <1>4, <1>5, <1>6, <1>7, <1>8, <1>9, <1>10 DEF Next

LEMMA InitTypeOK == Init => TypeOK
<1>1. Init => DriverTypeOK
  BY DelayRange DEF Init, DriverTypeOK
<1>2. Init => ReaderTypeOK
  <2>1. <<>> \in Seq(Events) /\ Len(<<>>) = 0
    OBVIOUS
  <2> QED BY <2>1, KeyAssumption DEF Init, ReaderTypeOK
<1> QED BY <1>1, <1>2 DEF TypeOK, DriverTypeOK, ReaderTypeOK

\* The model is well typed for every choice of the constants.
THEOREM KeyTypeCorrect == Spec => []TypeOK
<1> QED BY InitTypeOK, KeyTypeInductive, PTL DEF Spec

-----------------------------------------------------------------------------
(* Debouncing. *)

\* The timer counts down from the last interrupt.
CountsDown == timer # None => since = Delay - timer

LEMMA CountsDownInductive == TypeOK /\ CountsDown /\ [Next]_vars => CountsDown'
<1> SUFFICES ASSUME TypeOK, CountsDown, [Next]_vars PROVE CountsDown'
  OBVIOUS
<1> USE KeyAssumption DEF CountsDown, keyVars
<1>1. CASE Edge BY <1>1 DEF Edge, Rearmed
<1>2. CASE Tick
  <2>1. timer # None => timer \in 1 .. Delay
    BY <1>2 DEF Tick, TypeOK
  <2> QED BY <1>2, <2>1 DEF Tick
<1>3. CASE TimerSample \/ TimerReport \/ Repeat \/ ClientOpen \/ ClientRead \/ ClientClose
  BY <1>3 DEF TimerSample, TimerReport, Repeat, ClientOpen, ClientRead, ClientClose
<1>4. CASE Load \/ Bind \/ Unload \/ RemoveDelTimer
  BY <1>4 DEF Load, Bind, Unload, RemoveDelTimer
<1>5. CASE ProbeOrRemove
  BY <1>5 DEF ProbeOrRemove, Allocate, RequestGpio, RequestIrq, InitTimer, Register,
              FreeIrqAfter, FailTimer, Unregister, GpioFree
<1>6. CASE UNCHANGED vars BY <1>6 DEF vars
<1> QED BY <1>1, <1>2, <1>3, <1>4, <1>5, <1>6 DEF Next

\* For every delay, the pin is sampled only after that delay has passed since
\* the last interrupt, and so never in the middle of a bounce.
THEOREM DebounceHolds == Spec => Debounced
<1>1. Init => TypeOK /\ CountsDown
  BY InitTypeOK DEF Init, CountsDown
<1>2. TypeOK /\ CountsDown /\ [Next]_vars =>
        [handler = None /\ handler' # None => since = Delay]_vars
  <2> SUFFICES ASSUME TypeOK, CountsDown, Next, handler = None, handler' # None
               PROVE  since = Delay
    OBVIOUS
  <2>1. TimerSample
    BY DEF Next, ProbeOrRemove, Edge, Tick, TimerReport, Repeat,
           ClientOpen, ClientRead, ClientClose, Load, Bind, Unload, RemoveDelTimer, Allocate, RequestGpio,
           RequestIrq, InitTimer, Register, FreeIrqAfter, FailTimer, Unregister,
           GpioFree, keyVars
  <2> QED BY <2>1, KeyAssumption DEF TimerSample, CountsDown
<1> QED BY <1>1, <1>2, KeyTypeInductive, CountsDownInductive, PTL DEF Spec, Debounced

-----------------------------------------------------------------------------
(* Accuracy of what is reported. *)

\* From request_irq to remove the interrupt is on, and its device exists.
Wired ==
  /\ core \in {"gpio_request", "request_irq"} => input = "allocated"
  /\ core \in {"init_timer", "register", "bound"} =>
       irq /\ input \in {"allocated", "registered"}

\* In that stretch, once an edge was handled, either another report is on its
\* way or what is (being) reported is the level of the pin.
Tracks ==
  fault = "none" /\ core \in {"init_timer", "register", "bound"} /\ seen /\ timer = None =>
    IF handler = None THEN (key = "down") = (level = 0) ELSE handler = level

\* Before init_timer a handled edge leaves the timer pending, or a fault.
SettledInv == TypeOK /\ Wired /\ Tracks

LEMMA SettledInductive == SettledInv /\ [Next]_vars => Wired' /\ Tracks'
<1> SUFFICES ASSUME SettledInv, [Next]_vars PROVE Wired' /\ Tracks'
  OBVIOUS
<1> USE KeyAssumption DEF SettledInv, Wired, Tracks, keyVars, inputVars, Blame
<1>0. None # Delay /\ None \notin {0, 1} /\ \A i \in Nat : i # None
  OBVIOUS
<1>1. CASE Edge
  BY <1>0, <1>1 DEF Edge, Rearmed
<1>2. CASE Tick
  <2>1. timer # None => timer - 1 # None
    BY <1>2 DEF Tick, TypeOK
  <2> QED BY <1>2, <2>1 DEF Tick
<1>3. CASE TimerSample
  BY <1>0, <1>3 DEF TimerSample, TypeOK
<1>4. CASE TimerReport
  <2>1. CASE input \in {"none", "freed"}
    BY <1>4, <2>1 DEF TimerReport
  <2>2. CASE input \notin {"none", "freed"}
    <3>1. (key' = "down") = Pressed(handler)
      BY <1>4, <2>2 DEF TimerReport, Pressed, TypeOK
    <3> QED BY <1>4, <2>2, <3>1 DEF TimerReport, Pressed
  <2> QED BY <2>1, <2>2
<1>5. CASE Repeat \/ ClientOpen \/ ClientRead \/ ClientClose
  BY <1>5 DEF Repeat, ClientOpen, ClientRead, ClientClose
<1>6. CASE Load \/ Bind \/ Unload \/ RemoveDelTimer
  BY <1>6 DEF Load, Bind, Unload, RemoveDelTimer
<1>7. CASE ProbeOrRemove
  <2>1. CASE Allocate \/ RequestGpio BY <2>1 DEF Allocate, RequestGpio
  <2>2. CASE RequestIrq
    BY <2>2 DEF RequestIrq
  <2>3. CASE InitTimer BY <2>3 DEF InitTimer
  <2>4. CASE Register BY <2>4 DEF Register
  <2>5. CASE FreeIrqAfter("fail_irq", "fail_timer") \/ FailTimer
    BY <2>5 DEF FreeIrqAfter, FailTimer
  <2>6. CASE FreeIrqAfter("free_irq", "unregister") \/ Unregister \/ GpioFree
    BY <2>6 DEF FreeIrqAfter, Unregister, GpioFree
  <2> QED BY <1>7, <2>1, <2>2, <2>3, <2>4, <2>5, <2>6 DEF ProbeOrRemove
<1>8. CASE UNCHANGED vars BY <1>8 DEF vars
<1> QED BY <1>1, <1>2, <1>3, <1>4, <1>5, <1>6, <1>7, <1>8 DEF Next

\* Whenever edges come, in whatever number: when the debounce timer has come to
\* rest, the input core knows whether the key is down.
THEOREM ReportsSettle == Spec => []Settled
<1>1. Init => Wired /\ Tracks
  BY DEF Init, Wired, Tracks
<1>2. SettledInv => Settled
  BY DEF SettledInv, Tracks, Settled
<1>3. Init => TypeOK
  BY InitTypeOK
<1>4. SettledInv /\ [Next]_vars => SettledInv'
  BY KeyTypeInductive, SettledInductive DEF SettledInv
<1> QED BY <1>1, <1>2, <1>3, <1>4, PTL DEF Spec, SettledInv

-----------------------------------------------------------------------------
(* The two windows are the only ones. *)

\* Where the timer may be pending or running, and then everything it uses is
\* there: the timer function and the input device.
TimerLife == {"register", "bound", "fail_irq", "fail_timer"}

Contained ==
  ~window =>
    /\ fault = "none"
    /\ core \notin TimerLife => timer = None /\ handler = None
    /\ core \in TimerLife => timerfn = "set"

\* Where the interrupt is on, and the stages of the input device.
Devices ==
  /\ irq => core \in {"init_timer", "register", "bound", "fail_irq", "free_irq"}
  /\ core \in {"gpio_request", "request_irq", "init_timer", "register", "fail_irq",
               "fail_timer"} => input = "allocated"
  /\ core \in {"bound", "free_irq", "unregister"} => input = "registered"
  /\ core \in {"gpio_free", "unbound", "unloaded", "allocate"} =>
       input \notin {"allocated", "registered"}

LEMMA ContainedInductive == Contained /\ Devices /\ [Next]_vars => Contained' /\ Devices'
<1> SUFFICES ASSUME Contained, Devices, [Next]_vars PROVE Contained' /\ Devices'
  OBVIOUS
<1> USE DEF Contained, Devices, TimerLife, keyVars, inputVars, Process, Blame
<1>1. CASE Edge BY <1>1 DEF Edge, Windows, ProbeWindow, RemoveWindow
<1>2. CASE Tick \/ TimerSample
  <2>1. 0 # None
    BY KeyAssumption
  <2> QED BY <1>2, <2>1 DEF Tick, TimerSample
<1>3. CASE TimerReport BY <1>3 DEF TimerReport
<1>4. CASE Repeat \/ ClientOpen \/ ClientRead \/ ClientClose
  BY <1>4 DEF Repeat, ClientOpen, ClientRead, ClientClose
<1>5. CASE Load \/ Bind \/ Unload \/ RemoveDelTimer
  BY <1>5 DEF Load, Bind, Unload, RemoveDelTimer
<1>6. CASE ProbeOrRemove
  <2>1. CASE Allocate BY <2>1 DEF Allocate
  <2>2. CASE RequestGpio BY <2>2 DEF RequestGpio
  <2>3. CASE RequestIrq BY <2>3 DEF RequestIrq
  <2>4. CASE InitTimer BY <2>4 DEF InitTimer
  <2>5. CASE Register BY <2>5 DEF Register
  <2>6. CASE FreeIrqAfter("fail_irq", "fail_timer") BY <2>6 DEF FreeIrqAfter
  <2>7. CASE FailTimer BY <2>7 DEF FailTimer
  <2>8. CASE FreeIrqAfter("free_irq", "unregister") BY <2>8 DEF FreeIrqAfter
  <2>9. CASE Unregister \/ GpioFree BY <2>9 DEF Unregister, GpioFree
  <2> QED BY <1>6, <2>1, <2>2, <2>3, <2>4, <2>5, <2>6, <2>7, <2>8, <2>9
          DEF ProbeOrRemove
<1>7. CASE UNCHANGED vars BY <1>7 DEF vars
<1> QED BY <1>1, <1>2, <1>3, <1>4, <1>5, <1>6, <1>7 DEF Next

LEMMA ContainedInvariant == Spec => [](Contained /\ Devices)
<1>1. Init => Contained /\ Devices
  BY DEF Init, Contained, Devices, TimerLife
<1> QED BY <1>1, ContainedInductive, PTL DEF Spec

\* Unless an edge falls into one of the two Windows, the kernel never uses
\* freed or uninitialised memory on behalf of the driver.
THEOREM WindowsAreAll == Spec => []NoFault
<1>1. Contained /\ Devices => NoFault
  BY DEF Contained, NoFault
<1> QED BY <1>1, ContainedInvariant, PTL

\* ... and an unbound driver leaves no interrupt, timer or device behind.
THEOREM UnboundIsQuiet == Spec => []NothingLeft
<1>1. Contained /\ Devices => NothingLeft
  BY DEF Contained, Devices, NothingLeft, TimerLife
<1> QED BY <1>1, ContainedInvariant, PTL

-----------------------------------------------------------------------------
(* What the reader shows. *)

\* The last packet in the buffer, or what is shown when it has been read up to
\* its sync, agrees with the input core.
Ends(q, s) ==
  IF Len(q) < 2
    THEN Agrees(s) /\ (Len(q) = 1 => q[1] = "sync")
    ELSE Agrees(q[Len(q) - 1]) /\ q[Len(q)] = "sync"

Following ==
  /\ input = "allocated" => client = "closed"
  /\ input = "registered" /\ client = "open" /\ news = "told" => Ends(queue, shown)

\* A packet is whole in the buffer, unless its sync was what filled that.
LEMMA PacketEnds ==
  ASSUME ReaderTypeOK, NEW e \in KeyEvents, NEW q, q = Packet(e),
         q # <<"dropped", "sync">>
  PROVE  q \in Seq(Events) /\ Len(q) > 1 /\ q[Len(q) - 1] = e /\ q[Len(q)] = "sync"
<1> DEFINE r == Queued(queue, e)
<1>0. e \in Events /\ "sync" \in Events /\ "dropped" \in Events
  BY DEF Events
<1>1. r \in Seq(Events) /\ Len(r) < Buffer /\ Len(r) > 0 /\ r[Len(r)] = e
  <2>1. CASE Len(queue) + 1 = Buffer
    <3>1. r = <<"dropped", e>>
      BY <2>1 DEF Queued
    <3> QED BY <3>1, <1>0, KeyAssumption
  <2>2. CASE Len(queue) + 1 # Buffer
    <3>1. r = Append(queue, e)
      BY <2>2 DEF Queued
    <3> QED BY <3>1, <2>2, <1>0, KeyAssumption DEF ReaderTypeOK
  <2> QED BY <2>1, <2>2
<1>2. q = Queued(r, "sync")
  BY DEF Packet
<1>3. q = Append(r, "sync")
  BY <1>2 DEF Queued
<1> HIDE DEF r
<1> QED BY <1>0, <1>1, <1>3

LEMMA FollowingInductive == TypeOK /\ Devices /\ Following /\ [Next]_vars => Following'
<1> SUFFICES ASSUME TypeOK, Devices, Following, [Next]_vars PROVE Following'
  OBVIOUS
<1>c. (input = "allocated" => client = "closed")'
  <2>1. CASE TimerReport
    BY <2>1 DEF TimerReport, Following, Heard, reader
  <2>2. CASE Repeat \/ ClientOpen \/ ClientRead \/ ClientClose
    BY <2>2 DEF Repeat, ClientOpen, ClientRead, ClientClose, Following, Heard, NoReader
  <2>3. CASE Edge \/ Tick \/ TimerSample \/ Load \/ Bind \/ Unload \/ RemoveDelTimer
    BY <2>3 DEF Edge, Tick, TimerSample, Load, Bind, Unload, RemoveDelTimer, inputVars, reader,
                Following
  <2>4. CASE ProbeOrRemove
    BY <2>4 DEF ProbeOrRemove, Allocate, RequestGpio, RequestIrq, InitTimer, Register,
                FreeIrqAfter, FailTimer, Unregister, GpioFree, inputVars, reader, NoReader,
                Following
  <2>5. CASE UNCHANGED vars
    BY <2>5 DEF vars, inputVars, reader, Following
  <2> QED BY <2>1, <2>2, <2>3, <2>4, <2>5 DEF Next
<1> SUFFICES ASSUME input' = "registered", client' = "open", news' = "told"
             PROVE  Ends(queue, shown)'
  BY <1>c DEF Following
<1>0. ReaderTypeOK
  BY DEF TypeOK, ReaderTypeOK
<1>a. input = "registered" /\ UNCHANGED <<reader, key>> => Ends(queue, shown)'
  BY DEF reader, Following, Ends, Agrees
<1>b. ASSUME NEW e \in KeyEvents, Heard(Packet(e)),
             IF key' = "down" THEN e \in {"down", "repeat"} ELSE e = "up"
      PROVE  Ends(queue, shown)'
  <2>1. queue' = Packet(e) /\ queue' # <<"dropped", "sync">>
    BY <1>b DEF Heard
  <2>2. queue' \in Seq(Events) /\ Len(queue') > 1 /\ queue'[Len(queue') - 1] = e
        /\ queue'[Len(queue')] = "sync"
    BY <1>0, <2>1, PacketEnds
  <2>3. ~(Len(queue') < 2)
    BY <2>2
  <2> QED BY <1>b, <2>2, <2>3 DEF Ends, Agrees
<1>1. CASE TimerReport
  <2>1. CASE UNCHANGED <<reader, key>>
    BY <1>1, <2>1, <1>a DEF TimerReport
  <2>2. CASE ~UNCHANGED <<reader, key>>
    <3>1. key' \in {"up", "down"}
      BY <1>1, <2>2 DEF TimerReport
    <3>2. client = "open" /\ input = "registered"
      BY <1>1 DEF TimerReport, Heard, reader
    <3>3. Heard(Packet(key'))
      BY <1>1, <2>2, <3>2 DEF TimerReport, Sent
    <3> QED BY <1>b, <3>1, <3>3 DEF KeyEvents
  <2> QED BY <2>1, <2>2
<1>2. CASE Repeat
  <2>1. Heard(Packet("repeat")) /\ key' = "down" /\ "repeat" \in KeyEvents
    BY <1>2 DEF Repeat, KeyEvents
  <2> QED BY <2>1, <1>b
<1>3. CASE ClientOpen \/ ClientClose \/ Allocate \/ Unregister
  BY <1>3 DEF ClientOpen, ClientClose, Allocate, Unregister, NoReader
<1>4. CASE ClientRead
  <2>1. Ends(queue, shown) /\ queue # <<>> /\ ev' = Head(queue) /\ queue' = Tail(queue)
        /\ key' = key
    BY <1>4 DEF ClientRead, Following
  <2>2. shown' = IF ev' \in KeyEvents \cup {"undefined"} THEN ev' ELSE shown
    BY <1>4 DEF ClientRead
  <2>3. CASE Len(queue) = 1
    <3>1. Len(queue') = 0 /\ ev' = "sync"
      BY <1>0, <2>1, <2>3 DEF Ends, ReaderTypeOK
    <3>2. shown' = shown
      BY <3>1, <2>2 DEF KeyEvents
    <3>3. Agrees(shown) /\ key' = key
      BY <2>1, <2>3 DEF Ends
    <3>4. Len(queue') < 2 /\ Len(queue') # 1
      BY <3>1
    <3> QED BY <3>2, <3>3, <3>4 DEF Ends, Agrees
  <2>4. CASE Len(queue) = 2
    <3>1. Len(queue') = 1 /\ queue'[1] = queue[2] /\ ev' = queue[1]
      BY <1>0, <2>1, <2>4 DEF ReaderTypeOK
    <3>2. Agrees(queue[1]) /\ queue[2] = "sync"
      BY <2>1, <2>4 DEF Ends
    <3>3. queue[1] \in KeyEvents
      BY <3>2 DEF Agrees, KeyEvents
    <3>4. shown' = queue[1]
      BY <3>1, <3>3, <2>2
    <3> QED BY <2>1, <3>1, <3>2, <3>4 DEF Ends, Agrees
  <2>5. CASE Len(queue) > 2
    <3>1. Len(queue') = Len(queue) - 1 /\ ~(Len(queue') < 2)
          /\ queue'[Len(queue')] = queue[Len(queue)]
          /\ queue'[Len(queue') - 1] = queue[Len(queue) - 1]
      BY <1>0, <2>1, <2>5 DEF ReaderTypeOK
    <3> QED BY <2>1, <2>5, <3>1 DEF Ends, Agrees
  <2>6. Len(queue) = 1 \/ Len(queue) = 2 \/ Len(queue) > 2
    <3>1. queue \in Seq(Events) /\ queue # <<>>
      BY <1>0, <2>1 DEF ReaderTypeOK
    <3> DEFINE n == Len(queue)
    <3>2. n \in Nat /\ n # 0
      BY <3>1
    <3> HIDE DEF n
    <3>3. n = 1 \/ n = 2 \/ n > 2
      BY <3>2
    <3> QED BY <3>3 DEF n
  <2> QED BY <2>3, <2>4, <2>5, <2>6
<1>5. CASE Edge \/ Tick \/ TimerSample \/ Load \/ Bind \/ Unload \/ RemoveDelTimer
  BY <1>5, <1>a DEF Edge, Tick, TimerSample, Load, Bind, Unload, RemoveDelTimer, inputVars
<1>6. CASE RequestGpio \/ RequestIrq \/ InitTimer \/ FreeIrqAfter("fail_irq", "fail_timer")
           \/ FailTimer \/ FreeIrqAfter("free_irq", "unregister") \/ GpioFree
  BY <1>6, <1>a DEF RequestGpio, RequestIrq, InitTimer, FreeIrqAfter, FailTimer, GpioFree,
                    inputVars
<1>7. CASE Register
  BY <1>7 DEF Register, Devices, Following, reader
<1>8. CASE UNCHANGED vars
  BY <1>8, <1>a DEF vars, inputVars
<1> QED BY <1>1, <1>2, <1>3, <1>4, <1>5, <1>6, <1>7, <1>8 DEF Next, ProbeOrRemove

\* For a buffer of any size: when evtest has read all events, what it shows is
\* the state of the key, unless the last of them did not fit.
THEOREM ReaderCatchesUp == Spec => []CaughtUp
<1>1. Init => Following
  BY DEF Init, Following
<1>2. Following => CaughtUp
  <2>1. queue = <<>> => Len(queue) < 2
    OBVIOUS
  <2> QED BY <2>1 DEF Following, Ends, CaughtUp
<1> QED BY <1>1, <1>2, InitTypeOK, KeyTypeInductive, ContainedInvariant, FollowingInductive,
           PTL DEF Spec
=============================================================================
