--------------------------- MODULE UsbHostProofs ----------------------------
(***************************************************************************)
(* Proofs about UsbHost for any number of table entries, any settle time,  *)
(* and clock, and for plugs and reset echoes without end.                                          *)
(***************************************************************************)
EXTENDS UsbHost, TLAPS

(***************************************************************************)
(* The inductive invariant                                                 *)
(***************************************************************************)
\* What a probe of the bus leaves, and the handler after it.
ProbedStates ==
  {DETACHED_INITIALIZE, DETACHED_WAIT_FOR_DEVICE, DETACHED_ILLEGAL,
   ATTACHED, ATTACHED_WAIT_RESET_COMPLETE}
HandledStates == ProbedStates \cup Uncased \cup {ATTACHED_SETTLE, ATTACHED_WAIT_SOF}

\* A session that is being ended or started again is not a running one.
PlaceInv ==
  /\ pc \in {"init", "init_probe"} => usb_task_state # RUNNING
  /\ pc = "init_ack" => usb_task_state \in ProbedStates
  /\ pc = "ack" => usb_task_state \in HandledStates
  /\ pc \notin {"probe", "ack"} => hirq = {}

\* A machine that was running is seen by the branch of main.c before USB_Task
\* can take it anywhere near running again.
FlagInv ==
  runningdebugflag =>
    \/ usb_task_state = RUNNING
    \/ pc \in {"ack", "usb"} /\ usb_task_state \in HandledStates
    \/ /\ pc = "main"
       /\ usb_task_state \in HandledStates \cup
            {ATTACHED_RESET_DEVICE, ATTACHED_GET_DEVICE_DESCRIPTOR_SIZE}

\* A bus event is of the last reset, so the one it adds to the state never
\* skips a reset that is not over.
ResetInv ==
  /\ BUSRST => "BUSEVENT" \notin HIRQ /\ "BUSEVENT" \notin hirq
  /\ BUSRST => usb_task_state \notin
                 {ATTACHED_WAIT_SOF, ATTACHED_GET_DEVICE_DESCRIPTOR_SIZE,
                  ADDRESSING, CONFIGURING, RUNNING}

\* The first n entries of the table are taken.
Taken(n) == \A i \in Addresses : devtable[i].epinfo # "NULL" <=> i <= n

\* Entries are taken in order and given back all at once; the last one taken is
\* the device's that is being configured, or runs.
TableInv ==
  /\ \E n \in 0 .. USB_NUMDEVICES - 1 :
       /\ Taken(n)
       /\ usb_task_state \in {CONFIGURING, RUNNING} => n >= 1 /\ tmp_addr = n
  /\ pc \notin {"init", "init_probe", "init_ack"} => devtable[0].epinfo = "dev0ep"
  /\ usb_task_state = RUNNING => hid_addr = tmp_addr

IInv == HostTypeOK /\ PlaceInv /\ FlagInv /\ ResetInv /\ TableInv /\ RightDriver /\ NoGhost
-----------------------------------------------------------------------------
(***************************************************************************)
(* The table                                                               *)
(***************************************************************************)
LEMMA LeastOfRest ==
  ASSUME NEW N \in Nat, NEW n \in Nat, NEW S,
         \A i : i \in S <=> i \in 1 .. N /\ i > n, n < N
  PROVE  Min(S) = n + 1
<1>1. n + 1 \in S /\ \A y \in S : n + 1 <= y
  OBVIOUS
<1>2. Min(S) \in S /\ \A y \in S : Min(S) <= y
  BY <1>1 DEF Min
<1>3. Min(S) \in Nat /\ Min(S) <= n + 1 /\ n + 1 <= Min(S)
  BY <1>1, <1>2
<1>. QED BY <1>3

LEMMA GreatestOfFirst ==
  ASSUME NEW N \in Nat, NEW n \in 1 .. N, NEW S,
         \A i : i \in S <=> i \in 1 .. N /\ i <= n
  PROVE  Max(S) = n
<1>1. n \in S /\ \A y \in S : n >= y
  OBVIOUS
<1>2. Max(S) \in S /\ \A y \in S : Max(S) >= y
  BY <1>1 DEF Max
<1>3. Max(S) \in Nat /\ Max(S) <= n /\ n <= Max(S)
  BY <1>1, <1>2
<1>. QED BY <1>3

\* transfer.c:337: the first free entry is the one after the last taken.
LEMMA FirstFree ==
  ASSUME NEW n \in 0 .. USB_NUMDEVICES - 1, Taken(n)
  PROVE  /\ FreeAddresses = {} <=> n = USB_NUMDEVICES - 1
         /\ FreeAddresses # {} => Min(FreeAddresses) = n + 1
<1>1. \A i : i \in FreeAddresses <=> i \in 1 .. USB_NUMDEVICES - 1 /\ i > n
  BY HostAssumption DEF Taken, FreeAddresses, Addresses
<1>2. CASE n = USB_NUMDEVICES - 1
  BY <1>1, <1>2, HostAssumption
<1>3. CASE n < USB_NUMDEVICES - 1
  <2>1. Min(FreeAddresses) = n + 1
    BY <1>1, <1>3, HostAssumption, LeastOfRest
  <2>2. n + 1 \in FreeAddresses
    BY <1>1, <1>3, HostAssumption
  <2>. QED BY <2>1, <2>2, <1>3, HostAssumption
<1>. QED BY <1>2, <1>3, HostAssumption

\* main.c:33-40: the class found is that of the last entry taken.
LEMMA LastClass ==
  ASSUME NEW n \in 0 .. USB_NUMDEVICES - 1, Taken(n)
  PROVE  FoundClass = IF n = 0 THEN 255 ELSE devtable[n].devclass
<1>. DEFINE found == {i \in Addresses : devtable[i].epinfo # "NULL"}
<1>1. \A i : i \in found <=> i \in 1 .. USB_NUMDEVICES - 1 /\ i <= n
  BY HostAssumption DEF Taken, Addresses
<1>2. CASE n = 0
  <2>1. found = {}
    BY <1>1, <1>2
  <2>. QED BY <2>1, <1>2 DEF FoundClass
<1>3. CASE n # 0
  <2>1. n \in found
    BY <1>1, <1>3, HostAssumption
  <2>2. Max(found) = n
    <3>. HIDE DEF found
    <3>. QED BY <1>1, <1>3, HostAssumption, GreatestOfFirst
  <2>. QED BY <2>1, <2>2, <1>3 DEF FoundClass
<1>. QED BY <1>2, <1>3
-----------------------------------------------------------------------------
(***************************************************************************)
(* Where the firmware is                                                   *)
(***************************************************************************)
LEMMA ProbedIn ==
  ASSUME NEW sample
  PROVE  Probed(sample) \in ProbedStates /\ Probed(sample) + 1 \in HandledStates
BY DEF Probed, ProbedStates, HandledStates, Uncased, DETACHED_INITIALIZE, DETACHED_WAIT_FOR_DEVICE,
       DETACHED_ILLEGAL, ATTACHED, ATTACHED_SETTLE, ATTACHED_WAIT_RESET_COMPLETE,
       ATTACHED_WAIT_SOF

LEMMA RunningIsNotHandled == RUNNING \notin HandledStates /\ ERROR \notin HandledStates
BY DEF HandledStates, Uncased, ProbedStates, RUNNING, ERROR, DETACHED_INITIALIZE,
       DETACHED_WAIT_FOR_DEVICE, DETACHED_ILLEGAL, ATTACHED, ATTACHED_SETTLE,
       ATTACHED_WAIT_RESET_COMPLETE, ATTACHED_WAIT_SOF

LEMMA HandlerProbeSteps ==
  HandlerProbe =>
    /\ pc = "probe" /\ pc' = "ack" /\ UNCHANGED <<chip, hirq, table, clock, main>>
    /\ usb_task_state' \in HandledStates
    /\ usb_task_state' = ATTACHED_WAIT_SOF => "BUSEVENT" \in hirq
<1>. SUFFICES ASSUME HandlerProbe
              PROVE  /\ usb_task_state' \in HandledStates
                     /\ usb_task_state' = ATTACHED_WAIT_SOF => "BUSEVENT" \in hirq
  BY DEF HandlerProbe
<1>1. PICK sample : usb_task_state' = Probed(sample) + (IF "BUSEVENT" \in hirq THEN 1 ELSE 0)
  BY DEF HandlerProbe
<1>2. CASE "BUSEVENT" \in hirq
  BY <1>1, <1>2, ProbedIn
<1>3. CASE "BUSEVENT" \notin hirq
  <2>1. Probed(sample) \in ProbedStates
    BY ProbedIn
  <2>2. Probed(sample) + 0 = Probed(sample)
    BY <2>1 DEF ProbedStates, DETACHED_INITIALIZE, DETACHED_WAIT_FOR_DEVICE,
                DETACHED_ILLEGAL, ATTACHED, ATTACHED_WAIT_RESET_COMPLETE
  <2>3. ATTACHED_WAIT_SOF \notin ProbedStates
    BY DEF ProbedStates, DETACHED_INITIALIZE, DETACHED_WAIT_FOR_DEVICE, DETACHED_ILLEGAL,
           ATTACHED, ATTACHED_WAIT_RESET_COMPLETE, ATTACHED_WAIT_SOF
  <2>. QED BY <1>1, <1>3, <2>1, <2>2, <2>3 DEF HandledStates
<1>. QED BY <1>2, <1>3

LEMMA UsbTaskFrame ==
  USB_Task => /\ pc = "usb" /\ pc' = "main"
              /\ UNCHANGED <<hirq, runningdebugflag, device>>
BY DEF USB_Task, Steps, DetachedInitialize, Attached, Settling, Settled, ResetDevice,
       ResetComplete, WaitSof, GetDescriptor, SetAddress, NoAddressLeft, Recognised,
       NoDriver, UsbIdle, main, chip

LEMMA PlaceKept == PlaceInv /\ [Next]_vars => PlaceInv'
<1>. SUFFICES ASSUME PlaceInv, [Next]_vars PROVE PlaceInv'
  OBVIOUS
<1>. USE DEF PlaceInv
<1>1. CASE Plug \/ Unplug \/ ResetEnds \/ UNCHANGED vars
  BY <1>1 DEF Plug, Unplug, ResetEnds, ResetDone, vars
<1>2. CASE ChipReset
  <2>1. usb_task_state # RUNNING
    BY <1>2 DEF ChipReset
  <2>. QED BY <1>2, <2>1 DEF ChipReset
<1>3. CASE InitProbe
  BY <1>3, ProbedIn DEF InitProbe
<1>4. CASE InitAck \/ MAX3421E_Task \/ HandlerAck
  BY <1>4 DEF InitAck, MAX3421E_Task, HandlerAck
<1>5. CASE HandlerProbe
  BY <1>5, HandlerProbeSteps
<1>6. CASE USB_Task
  BY <1>6, UsbTaskFrame
<1>7. CASE GetDriverandReport \/ MainContinue \/ MainRestart
  BY <1>7 DEF GetDriverandReport, MainContinue, MainRestart
<1>. QED BY <1>1, <1>2, <1>3, <1>4, <1>5, <1>6, <1>7 DEF Next, Firmware

\* What USB_Task makes of a state the handler has left.
LEMMA HandledSteps ==
  USB_Task /\ usb_task_state \in HandledStates =>
    usb_task_state' \in HandledStates \cup
      {ATTACHED_RESET_DEVICE, ATTACHED_GET_DEVICE_DESCRIPTOR_SIZE}
BY DEF USB_Task, Steps, DetachedInitialize, Attached, Settling, Settled, ResetDevice,
       ResetComplete, WaitSof, GetDescriptor, SetAddress, NoAddressLeft, Recognised,
       NoDriver, UsbIdle, HandledStates, Uncased, ProbedStates, DETACHED_INITIALIZE,
       DETACHED_WAIT_FOR_DEVICE, DETACHED_ILLEGAL, ATTACHED, ATTACHED_SETTLE,
       ATTACHED_RESET_DEVICE, ATTACHED_WAIT_RESET_COMPLETE, ATTACHED_WAIT_SOF,
       ATTACHED_GET_DEVICE_DESCRIPTOR_SIZE, ADDRESSING, CONFIGURING

LEMMA FlagKept == PlaceInv /\ FlagInv /\ [Next]_vars => FlagInv'
<1>. SUFFICES ASSUME PlaceInv, FlagInv, [Next]_vars PROVE FlagInv'
  OBVIOUS
<1>. USE DEF FlagInv
<1>1. CASE Plug \/ Unplug \/ ResetEnds \/ UNCHANGED vars
  BY <1>1 DEF Plug, Unplug, ResetEnds, ResetDone, vars, main
<1>2. CASE ChipReset \/ InitProbe \/ InitAck
  BY <1>2 DEF ChipReset, InitProbe, InitAck, PlaceInv, main, RUNNING
<1>3. CASE MAX3421E_Task \/ HandlerAck
  BY <1>3 DEF MAX3421E_Task, HandlerAck, main
<1>4. CASE HandlerProbe
  BY <1>4, HandlerProbeSteps DEF main
<1>5. CASE USB_Task
  <2>1. CASE usb_task_state = RUNNING
    <3>1. usb_task_state' = RUNNING
      BY <1>5, <2>1
         DEF USB_Task, Steps, DetachedInitialize, Attached, Settling, Settled, ResetDevice,
             ResetComplete, WaitSof, GetDescriptor, SetAddress, NoAddressLeft, Recognised,
             NoDriver, UsbIdle, DETACHED_INITIALIZE, ATTACHED, ATTACHED_SETTLE,
             ATTACHED_RESET_DEVICE, ATTACHED_WAIT_RESET_COMPLETE, ATTACHED_WAIT_SOF,
             ATTACHED_GET_DEVICE_DESCRIPTOR_SIZE, ADDRESSING, CONFIGURING, RUNNING
    <3>. QED BY <3>1
  <2>2. CASE usb_task_state # RUNNING
    BY <1>5, <2>2, UsbTaskFrame, HandledSteps
  <2>. QED BY <2>1, <2>2
<1>6. CASE GetDriverandReport
  BY <1>6 DEF GetDriverandReport
<1>7. CASE MainContinue
  <2>1. usb_task_state = ERROR => ~runningdebugflag
    <3>1. ERROR \notin HandledStates \cup
            {RUNNING, ATTACHED_RESET_DEVICE, ATTACHED_GET_DEVICE_DESCRIPTOR_SIZE}
      BY RunningIsNotHandled
         DEF ERROR, RUNNING, ATTACHED_RESET_DEVICE, ATTACHED_GET_DEVICE_DESCRIPTOR_SIZE
    <3>. QED BY <3>1
  <2>2. usb_task_state = RUNNING \/ usb_task_state = ERROR \/ ~runningdebugflag
    BY <1>7 DEF MainContinue
  <2>3. usb_task_state' = usb_task_state /\ runningdebugflag' = runningdebugflag
    BY <1>7 DEF MainContinue, main
  <2>. QED BY <2>1, <2>2, <2>3, Zenon
<1>8. CASE MainRestart
  BY <1>8 DEF MainRestart
<1>. QED BY <1>1, <1>2, <1>3, <1>4, <1>5, <1>6, <1>7, <1>8 DEF Next, Firmware

\* States the firmware is in only after a reset has come to its end.
LEMMA ResetKept == PlaceInv /\ ResetInv /\ [Next]_vars => ResetInv'
<1>. DEFINE After == {ATTACHED_WAIT_SOF, ATTACHED_GET_DEVICE_DESCRIPTOR_SIZE,
                      ADDRESSING, CONFIGURING, RUNNING}
<1>0. /\ \A s \in HandledStates : s \in After => s = ATTACHED_WAIT_SOF
      /\ \A s \in ProbedStates : s \notin After
  BY DEF HandledStates, Uncased, ProbedStates, DETACHED_INITIALIZE, DETACHED_WAIT_FOR_DEVICE,
         DETACHED_ILLEGAL, ATTACHED, ATTACHED_SETTLE, ATTACHED_WAIT_RESET_COMPLETE,
         ATTACHED_WAIT_SOF, ATTACHED_GET_DEVICE_DESCRIPTOR_SIZE, ADDRESSING, CONFIGURING,
         RUNNING
<1>. SUFFICES ASSUME PlaceInv, ResetInv, [Next]_vars,
                     BUSRST'
              PROVE  /\ "BUSEVENT" \notin HIRQ' /\ "BUSEVENT" \notin hirq'
                     /\ usb_task_state' \notin After
  BY DEF ResetInv
<1>. USE DEF ResetInv
<1>1. CASE Plug \/ Unplug \/ UNCHANGED vars
  BY <1>1 DEF Plug, Unplug, vars, chip
<1>2. CASE ResetEnds \/ ChipReset
  BY <1>2 DEF ResetEnds, ResetDone, ChipReset
<1>3. CASE InitProbe
  BY <1>3, <1>0, ProbedIn DEF InitProbe, chip
<1>4. CASE InitAck \/ MAX3421E_Task \/ HandlerAck
  BY <1>4 DEF InitAck, MAX3421E_Task, HandlerAck, chip
<1>5. CASE HandlerProbe
  BY <1>5, <1>0, HandlerProbeSteps DEF chip
<1>6. CASE USB_Task
  <2>1. CASE ResetDevice
    <3>1. hirq' = {} /\ "BUSEVENT" \notin HIRQ'
      BY <2>1 DEF ResetDevice, Steps, PlaceInv
    <3>2. usb_task_state' \notin After
      BY <2>1 DEF ResetDevice, Steps, ATTACHED_WAIT_RESET_COMPLETE, ATTACHED_WAIT_SOF,
                  ATTACHED_GET_DEVICE_DESCRIPTOR_SIZE, ADDRESSING, CONFIGURING, RUNNING
    <3>. QED BY <3>1, <3>2
  <2>2. CASE ResetComplete
    BY <2>2 DEF ResetComplete, chip
  <2>3. CASE ~ResetDevice /\ ~ResetComplete
    <3>1. UNCHANGED <<HIRQ, BUSRST, hirq>>
      BY <1>6, <2>3
         DEF USB_Task, DetachedInitialize, Attached, Settling, Settled, WaitSof,
             GetDescriptor, SetAddress, NoAddressLeft, Recognised, NoDriver, UsbIdle, chip
    <3>2. usb_task_state' \in After => usb_task_state \in After
      <4>1. CASE DetachedInitialize \/ Attached \/ Settling \/ Settled \/ WaitSof
        BY <4>1 DEF Steps, DetachedInitialize, Attached, Settling, Settled, WaitSof,
                    DETACHED_WAIT_FOR_DEVICE, ATTACHED_SETTLE, ATTACHED_RESET_DEVICE,
                    ATTACHED_WAIT_SOF, ATTACHED_GET_DEVICE_DESCRIPTOR_SIZE, ADDRESSING,
                    CONFIGURING, RUNNING
      <4>2. CASE GetDescriptor \/ SetAddress \/ NoAddressLeft \/ Recognised \/ NoDriver
        BY <4>2 DEF Steps, GetDescriptor, SetAddress, NoAddressLeft, Recognised, NoDriver
      <4>3. CASE UsbIdle
        BY <4>3 DEF Steps, UsbIdle
      <4>. QED BY <1>6, <2>3, <4>1, <4>2, <4>3 DEF USB_Task
    <3>. QED BY <3>1, <3>2
  <2>. QED BY <2>1, <2>2, <2>3
<1>7. CASE GetDriverandReport \/ MainContinue \/ MainRestart
  BY <1>7 DEF GetDriverandReport, MainContinue, MainRestart, chip
<1>. QED BY <1>1, <1>2, <1>3, <1>4, <1>5, <1>6, <1>7 DEF Next, Firmware
-----------------------------------------------------------------------------
(***************************************************************************)
(* The table, step by step                                                 *)
(***************************************************************************)
\* Every other step leaves the table, and reaches neither CONFIGURING nor RUNNING.
LEMMA TableFrame ==
  ASSUME [Next]_vars, ~InitAck, ~DetachedInitialize, ~SetAddress, ~Recognised
  PROVE  /\ UNCHANGED table
         /\ usb_task_state' \in {CONFIGURING, RUNNING} => usb_task_state' = usb_task_state
<1>1. CASE Plug \/ Unplug \/ ResetEnds \/ UNCHANGED vars
  BY <1>1 DEF Plug, Unplug, ResetEnds, ResetDone, vars
<1>2. CASE ChipReset \/ MAX3421E_Task \/ HandlerAck
  BY <1>2 DEF ChipReset, MAX3421E_Task, HandlerAck
<1>3. CASE InitProbe
  BY <1>3, ProbedIn, RunningIsNotHandled
     DEF InitProbe, HandledStates, Uncased, ProbedStates, CONFIGURING, DETACHED_INITIALIZE,
         DETACHED_WAIT_FOR_DEVICE, DETACHED_ILLEGAL, ATTACHED, ATTACHED_WAIT_RESET_COMPLETE
<1>4. CASE HandlerProbe
  BY <1>4, HandlerProbeSteps, RunningIsNotHandled
     DEF HandledStates, Uncased, ProbedStates, CONFIGURING, DETACHED_INITIALIZE,
         DETACHED_WAIT_FOR_DEVICE, DETACHED_ILLEGAL, ATTACHED, ATTACHED_SETTLE,
         ATTACHED_WAIT_RESET_COMPLETE, ATTACHED_WAIT_SOF
<1>5. CASE USB_Task
  <2>1. UNCHANGED table
    BY <1>5 DEF USB_Task, Attached, Settling, Settled, ResetDevice, ResetComplete, WaitSof,
                GetDescriptor, NoAddressLeft, NoDriver, UsbIdle
  <2>2. usb_task_state' \in {CONFIGURING, RUNNING} => usb_task_state' = usb_task_state
    BY <1>5 DEF USB_Task, Steps, Attached, Settling, Settled, ResetDevice, ResetComplete,
                WaitSof, GetDescriptor, NoAddressLeft, NoDriver, UsbIdle, ATTACHED_SETTLE,
                ATTACHED_RESET_DEVICE, ATTACHED_WAIT_RESET_COMPLETE, ATTACHED_WAIT_SOF,
                ATTACHED_GET_DEVICE_DESCRIPTOR_SIZE, ADDRESSING, CONFIGURING, RUNNING, ERROR
  <2>. QED BY <2>1, <2>2
<1>6. CASE GetDriverandReport \/ MainContinue \/ MainRestart
  BY <1>6 DEF GetDriverandReport, MainContinue, MainRestart
<1>. QED BY <1>1, <1>2, <1>3, <1>4, <1>5, <1>6 DEF Next, Firmware

\* USB_init is left by way of InitAck only.
LEMMA OutOfInit ==
  [Next]_vars /\ ~InitAck /\ pc' \notin {"init", "init_probe", "init_ack"} =>
    pc \notin {"init", "init_probe", "init_ack"}
<1>. SUFFICES ASSUME [Next]_vars, ~InitAck, pc' \notin {"init", "init_probe", "init_ack"}
              PROVE  pc \notin {"init", "init_probe", "init_ack"}
  OBVIOUS
<1>1. CASE Plug \/ Unplug \/ ResetEnds \/ UNCHANGED vars
  BY <1>1 DEF Plug, Unplug, ResetEnds, ResetDone, vars
<1>2. CASE USB_Task
  BY <1>2, UsbTaskFrame
<1>3. CASE HandlerProbe
  BY <1>3, HandlerProbeSteps
<1>. QED BY <1>1, <1>2, <1>3
       DEF Next, Firmware, ChipReset, InitProbe, MAX3421E_Task, HandlerAck,
           GetDriverandReport, MainContinue, MainRestart

LEMMA TableKept ==
  HostTypeOK /\ PlaceInv /\ TableInv /\ [Next]_vars => TableInv'
<1>. SUFFICES ASSUME HostTypeOK, PlaceInv, TableInv, [Next]_vars PROVE TableInv'
  OBVIOUS
<1>1. PICK n \in 0 .. USB_NUMDEVICES - 1 :
        /\ Taken(n)
        /\ usb_task_state \in {CONFIGURING, RUNNING} => n >= 1 /\ tmp_addr = n
  BY DEF TableInv
<1>2. DOMAIN devtable = 0 .. USB_NUMDEVICES /\ USB_NUMDEVICES \in Nat /\ USB_NUMDEVICES > 1
  BY HostAssumption DEF HostTypeOK
<1>3. ASSUME USB_init, usb_task_state' \notin {CONFIGURING, RUNNING} PROVE TableInv'
  <2>1. Taken(0)'
    BY <1>2, <1>3 DEF USB_init, Taken, NoRecord, Addresses
  <2>2. devtable'[0].epinfo = "dev0ep"
    BY <1>2, <1>3 DEF USB_init, NoRecord
  <2>. QED BY <1>2, <1>3, <2>1, <2>2 DEF TableInv
<1>4. CASE InitAck
  <2>1. usb_task_state' \notin {CONFIGURING, RUNNING}
    BY <1>4 DEF InitAck, PlaceInv, ProbedStates, CONFIGURING, RUNNING, DETACHED_INITIALIZE,
                DETACHED_WAIT_FOR_DEVICE, DETACHED_ILLEGAL, ATTACHED,
                ATTACHED_WAIT_RESET_COMPLETE
  <2>. QED BY <1>3, <1>4, <2>1 DEF InitAck
<1>5. CASE DetachedInitialize
  <2>1. usb_task_state' \notin {CONFIGURING, RUNNING}
    BY <1>5 DEF DetachedInitialize, Steps, CONFIGURING, RUNNING, DETACHED_WAIT_FOR_DEVICE
  <2>. QED BY <1>3, <1>5, <2>1 DEF DetachedInitialize
<1>6. CASE SetAddress
  <2>1. Min(FreeAddresses) = n + 1 /\ n + 1 \in Addresses
    BY <1>1, <1>2, <1>6, FirstFree DEF SetAddress, Addresses
  <2>2. devtable[0].epinfo = "dev0ep"
    BY <1>6 DEF SetAddress, Steps, TableInv
  <2>3. devtable' = [devtable EXCEPT ![n + 1].epinfo = "dev0ep"]
    BY <1>6, <2>1, <2>2 DEF SetAddress
  <2>4. /\ \A i \in 0 .. USB_NUMDEVICES : i # n + 1 => devtable'[i] = devtable[i]
        /\ devtable'[n + 1].epinfo = "dev0ep"
    <3>1. devtable[n + 1] \in [epinfo : {"NULL", "dev0ep", "hid_ep"}, devclass : 0 .. 2]
      BY <1>2, <2>1 DEF HostTypeOK, Addresses
    <3>. QED BY <1>2, <2>1, <2>3, <3>1 DEF Addresses
  <2>5. Taken(n + 1)'
    BY <1>1, <1>2, <2>1, <2>4 DEF Taken, Addresses
  <2>6. usb_task_state' \in {CONFIGURING, RUNNING} => tmp_addr' = n + 1
    BY <1>6, <2>1 DEF SetAddress, Steps, CONFIGURING, RUNNING, ERROR
  <2>7. usb_task_state' # RUNNING
    BY <1>6 DEF SetAddress, Steps, CONFIGURING, RUNNING, ERROR
  <2>8. devtable'[0].epinfo = "dev0ep"
    BY <1>1, <1>2, <2>2, <2>4
  <2>. QED BY <1>1, <1>2, <2>1, <2>5, <2>6, <2>7, <2>8 DEF TableInv, Addresses
<1>7. CASE Recognised
  <2>1. tmp_addr = n /\ n >= 1
    BY <1>1, <1>7 DEF Recognised, Steps, CONFIGURING
  <2>2. /\ \A i \in 0 .. USB_NUMDEVICES : i # n => devtable'[i] = devtable[i]
        /\ devtable'[n].epinfo = "hid_ep"
    BY <1>2, <1>7, <2>1 DEF Recognised
  <2>3. Taken(n)'
    BY <1>1, <1>2, <2>1, <2>2 DEF Taken, Addresses
  <2>4. devtable'[0].epinfo = "dev0ep"
    BY <1>2, <1>7, <2>1, <2>2 DEF Recognised, Steps, TableInv
  <2>5. tmp_addr' = n /\ hid_addr' = n
    BY <1>7, <2>1 DEF Recognised
  <2>. QED BY <2>1, <2>3, <2>4, <2>5 DEF TableInv
<1>8. CASE ~InitAck /\ ~DetachedInitialize /\ ~SetAddress /\ ~Recognised
  <2>1. /\ UNCHANGED <<devtable, tmp_addr, hid_addr>>
        /\ usb_task_state' \in {CONFIGURING, RUNNING} => usb_task_state' = usb_task_state
    BY <1>8, TableFrame DEF table
  <2>2. Taken(n)'
    BY <1>1, <2>1 DEF Taken
  <2>3. pc' \notin {"init", "init_probe", "init_ack"} => devtable'[0].epinfo = "dev0ep"
    BY <1>8, <2>1, OutOfInit DEF TableInv
  <2>. QED BY <1>1, <2>1, <2>2, <2>3 DEF TableInv
<1>. QED BY <1>4, <1>5, <1>6, <1>7, <1>8
-----------------------------------------------------------------------------
(***************************************************************************)
(* The running machine                                                     *)
(***************************************************************************)
\* A machine that runs after a step has either just been configured or has run
\* before it, on the same table.
LEMMA StillRunning ==
  ASSUME PlaceInv, [Next]_vars, usb_task_state' = RUNNING, ~Recognised
  PROVE  usb_task_state = RUNNING /\ UNCHANGED table /\ ~InitAck
<1>1. ~InitAck
  <2>. SUFFICES ASSUME InitAck PROVE FALSE
    OBVIOUS
  <2>1. usb_task_state \in HandledStates /\ usb_task_state' = usb_task_state
    BY DEF InitAck, PlaceInv, HandledStates
  <2>. QED BY <2>1, RunningIsNotHandled
<1>2. ~DetachedInitialize /\ ~SetAddress
  BY DEF DetachedInitialize, SetAddress, Steps, DETACHED_WAIT_FOR_DEVICE, CONFIGURING,
         RUNNING, ERROR
<1>. QED BY <1>1, <1>2, TableFrame

LEMMA RightDriverKept ==
  HostTypeOK /\ PlaceInv /\ FlagInv /\ TableInv /\ RightDriver /\ [Next]_vars => RightDriver'
<1>. SUFFICES ASSUME HostTypeOK, PlaceInv, FlagInv, TableInv, RightDriver, [Next]_vars,
                     usb_task_state' = RUNNING
              PROVE  /\ devtable'[1].epinfo # "NULL"
                     /\ devtable'[hid_addr'].epinfo = "hid_ep"
                     /\ runningdebugflag' => device' = devtable'[hid_addr'].devclass
  BY DEF RightDriver
<1>1. devtable'[1].epinfo # "NULL"
  <2>1. TableInv'
    BY TableKept
  <2>2. PICK n \in 0 .. USB_NUMDEVICES - 1 : Taken(n)' /\ n >= 1
    BY <2>1 DEF TableInv
  <2>. QED BY <2>2, HostAssumption DEF Taken, Addresses
<1>2. CASE Recognised
  <2>1. tmp_addr \in 0 .. USB_NUMDEVICES
    BY DEF HostTypeOK
  <2>2. devtable'[hid_addr'].epinfo = "hid_ep"
    BY <1>2, <2>1 DEF Recognised, HostTypeOK
  <2>3. ~runningdebugflag'
    <3>1. usb_task_state = CONFIGURING /\ pc = "usb" /\ runningdebugflag' = runningdebugflag
      BY <1>2 DEF Recognised, Steps, main
    <3>2. CONFIGURING \notin HandledStates \cup {RUNNING}
      BY DEF HandledStates, Uncased, ProbedStates, CONFIGURING, RUNNING, DETACHED_INITIALIZE,
             DETACHED_WAIT_FOR_DEVICE, DETACHED_ILLEGAL, ATTACHED, ATTACHED_SETTLE,
             ATTACHED_WAIT_RESET_COMPLETE, ATTACHED_WAIT_SOF
    <3>. QED BY <3>1, <3>2 DEF FlagInv
  <2>. QED BY <1>1, <2>2, <2>3
<1>3. CASE ~Recognised
  <2>1. usb_task_state = RUNNING /\ devtable' = devtable /\ hid_addr' = hid_addr
    BY <1>3, StillRunning DEF table
  <2>2. CASE GetDriverandReport
    <3>1. PICK n \in 0 .. USB_NUMDEVICES - 1 : Taken(n) /\ n >= 1 /\ hid_addr = n
      BY <2>1 DEF TableInv
    <3>2. FoundClass = devtable[n].devclass
      BY <3>1, LastClass
    <3>3. device' = FoundClass
      BY <2>2 DEF GetDriverandReport
    <3>. QED BY <1>1, <2>1, <3>1, <3>2, <3>3 DEF RightDriver
  <2>3. CASE ~GetDriverandReport
    <3>1. runningdebugflag' => runningdebugflag /\ device' = device
      BY <2>3, UsbTaskFrame
         DEF Next, Firmware, Plug, Unplug, ResetEnds, ResetDone, ChipReset, InitProbe, InitAck,
             MAX3421E_Task, HandlerProbe, HandlerAck, MainContinue, MainRestart, main, vars
    <3>. QED BY <1>1, <2>1, <3>1 DEF RightDriver
  <2>. QED BY <2>2, <2>3
<1>. QED BY <1>2, <1>3

LEMMA NoGhostKept ==
  HostTypeOK /\ PlaceInv /\ ResetInv /\ NoGhost /\ [Next]_vars => NoGhost'
<1>. SUFFICES ASSUME HostTypeOK, PlaceInv, ResetInv, NoGhost, [Next]_vars,
                     usb_task_state' = RUNNING, "CONDET" \notin HIRQ'
              PROVE  /\ Answers(hid_addr)' /\ dev'.conf
                     /\ Driver(dev'.kind) = devtable'[hid_addr'].devclass
  BY DEF NoGhost
<1>1. CASE Recognised
  <2>1. /\ dev' = [dev EXCEPT !.conf = TRUE] /\ hid_addr' = tmp_addr
        /\ BUSRST' = BUSRST /\ Answers(tmp_addr)
        /\ devtable' = [devtable EXCEPT ![tmp_addr] =
                           [epinfo |-> "hid_ep", devclass |-> Driver(dev.kind)]]
    BY <1>1 DEF Recognised, Steps, RUNNING, ERROR
  <2>2. dev'.kind = dev.kind /\ dev'.addr = dev.addr /\ dev'.conf
    BY <2>1 DEF HostTypeOK
  <2>3. devtable'[hid_addr'].devclass = Driver(dev.kind)
    BY <2>1 DEF HostTypeOK
  <2>. QED BY <2>1, <2>2, <2>3 DEF Answers
<1>2. CASE ~Recognised
  <2>1. usb_task_state = RUNNING /\ devtable' = devtable /\ hid_addr' = hid_addr /\ ~InitAck
    BY <1>2, StillRunning DEF table
  <2>2. UNCHANGED <<dev, HIRQ, BUSRST>>
    <3>1. ~Plug /\ ~Unplug
      BY DEF Plug, Unplug
    <3>2. ~ResetEnds
      BY <2>1 DEF ResetEnds, ResetDone, ResetInv
    <3>3. ~ChipReset /\ ~HandlerAck
      BY <2>1, RunningIsNotHandled DEF ChipReset, HandlerAck, PlaceInv
    <3>4. CASE USB_Task
      BY <1>2, <2>1, <3>4
         DEF USB_Task, Steps, DetachedInitialize, Attached, Settling, Settled, ResetDevice,
             ResetComplete, WaitSof, GetDescriptor, SetAddress, NoAddressLeft, NoDriver,
             UsbIdle, chip, DETACHED_INITIALIZE, ATTACHED, ATTACHED_SETTLE,
             ATTACHED_RESET_DEVICE, ATTACHED_WAIT_RESET_COMPLETE, ATTACHED_WAIT_SOF,
             ATTACHED_GET_DEVICE_DESCRIPTOR_SIZE, ADDRESSING, CONFIGURING, RUNNING
    <3>. QED BY <2>1, <3>1, <3>2, <3>3, <3>4
           DEF Next, Firmware, InitProbe, MAX3421E_Task, HandlerProbe, GetDriverandReport,
               MainContinue, MainRestart, chip, vars
  <2>. QED BY <2>1, <2>2 DEF NoGhost, Answers
<1>. QED BY <1>1, <1>2
-----------------------------------------------------------------------------
(***************************************************************************)
(* Types, a group of variables at a time                                   *)
(***************************************************************************)
LEMMA NumbersOfStates ==
  /\ HandledStates \subseteq StateNumbers
  /\ {DETACHED_WAIT_FOR_DEVICE, ATTACHED_SETTLE, ATTACHED_RESET_DEVICE,
      ATTACHED_WAIT_RESET_COMPLETE, ATTACHED_WAIT_SOF, ATTACHED_GET_DEVICE_DESCRIPTOR_SIZE,
      ADDRESSING, CONFIGURING, RUNNING, ERROR} \subseteq StateNumbers
BY DEF StateNumbers, HandledStates, Uncased, ProbedStates, DETACHED_INITIALIZE,
       DETACHED_WAIT_FOR_DEVICE, DETACHED_ILLEGAL, ATTACHED, ATTACHED_SETTLE,
       ATTACHED_RESET_DEVICE, ATTACHED_WAIT_RESET_COMPLETE, ATTACHED_WAIT_SOF,
       ATTACHED_GET_DEVICE_DESCRIPTOR_SIZE, ADDRESSING, CONFIGURING, RUNNING, ERROR

LEMMA StateTypeKept ==
  HostTypeOK /\ [Next]_vars =>
    /\ pc' \in {"init", "init_probe", "init_ack", "irq", "probe", "ack", "usb", "main"}
    /\ usb_task_state' \in StateNumbers
<1>. SUFFICES ASSUME HostTypeOK, [Next]_vars
              PROVE  /\ pc' \in {"init", "init_probe", "init_ack", "irq",
                                 "probe", "ack", "usb", "main"}
                     /\ usb_task_state' \in StateNumbers
  OBVIOUS
<1>0. usb_task_state \in StateNumbers
  BY DEF HostTypeOK, StateNumbers
<1>1. CASE Plug \/ Unplug \/ ResetEnds \/ UNCHANGED vars
  BY <1>0, <1>1 DEF Plug, Unplug, ResetEnds, ResetDone, vars, HostTypeOK
<1>2. CASE InitProbe
  BY <1>2, ProbedIn, NumbersOfStates DEF InitProbe, HandledStates
<1>3. CASE HandlerProbe
  BY <1>3, HandlerProbeSteps, NumbersOfStates
<1>4. CASE USB_Task
  <2>1. CASE UsbIdle
    BY <1>0, <2>1 DEF UsbIdle, Steps
  <2>2. CASE ~UsbIdle
    BY <1>4, <2>2, NumbersOfStates
       DEF USB_Task, Steps, DetachedInitialize, Attached, Settling, Settled, ResetDevice,
           ResetComplete, WaitSof, GetDescriptor, SetAddress, NoAddressLeft, Recognised,
           NoDriver
  <2>. QED BY <2>1, <2>2, <1>4, UsbTaskFrame
<1>5. CASE \/ ChipReset \/ InitAck \/ MAX3421E_Task \/ HandlerAck
           \/ GetDriverandReport \/ MainContinue \/ MainRestart
  BY <1>0, <1>5 DEF ChipReset, InitAck, MAX3421E_Task, HandlerAck, GetDriverandReport,
                    MainContinue, MainRestart
<1>. QED BY <1>1, <1>2, <1>3, <1>4, <1>5 DEF Next, Firmware

LEMMA TableTypeKept ==
  HostTypeOK /\ TableInv /\ [Next]_vars =>
    /\ devtable' \in [0 .. USB_NUMDEVICES ->
                        [epinfo : {"NULL", "dev0ep", "hid_ep"}, devclass : 0 .. 2]]
    /\ tmp_addr' \in 0 .. USB_NUMDEVICES /\ hid_addr' \in 0 .. USB_NUMDEVICES
<1>. DEFINE Record == [epinfo : {"NULL", "dev0ep", "hid_ep"}, devclass : 0 .. 2]
<1>. SUFFICES ASSUME HostTypeOK, TableInv, [Next]_vars
              PROVE  /\ devtable' \in [0 .. USB_NUMDEVICES -> Record]
                     /\ tmp_addr' \in 0 .. USB_NUMDEVICES
                     /\ hid_addr' \in 0 .. USB_NUMDEVICES
  OBVIOUS
<1>1. /\ devtable \in [0 .. USB_NUMDEVICES -> Record]
      /\ tmp_addr \in 0 .. USB_NUMDEVICES /\ hid_addr \in 0 .. USB_NUMDEVICES
      /\ USB_NUMDEVICES \in Nat
  BY HostAssumption DEF HostTypeOK
<1>2. CASE InitAck \/ DetachedInitialize
  BY <1>1, <1>2 DEF InitAck, DetachedInitialize, USB_init, NoRecord
<1>3. CASE SetAddress
  <2>1. PICK n \in 0 .. USB_NUMDEVICES - 1 : Taken(n)
    BY DEF TableInv
  <2>2. Min(FreeAddresses) = n + 1 /\ n + 1 \in 0 .. USB_NUMDEVICES
    BY <1>1, <1>3, <2>1, FirstFree DEF SetAddress
  <2>3. devtable' = [devtable EXCEPT ![n + 1].epinfo = devtable[0].epinfo]
    BY <1>3, <2>2 DEF SetAddress
  <2>4. devtable[0].epinfo \in {"NULL", "dev0ep", "hid_ep"} /\ devtable[n + 1] \in Record
    BY <1>1, <2>2
  <2>5. [devtable[n + 1] EXCEPT !.epinfo = devtable[0].epinfo] \in Record
    BY <2>4
  <2>6. devtable' \in [0 .. USB_NUMDEVICES -> Record]
    BY <1>1, <2>2, <2>3, <2>5
  <2>7. tmp_addr' \in {tmp_addr, n + 1} /\ hid_addr' = hid_addr
    BY <1>3, <2>2 DEF SetAddress
  <2>. QED BY <1>1, <2>2, <2>6, <2>7
<1>4. CASE Recognised
  <2>1. Driver(dev.kind) \in 0 .. 2
    BY DEF Driver, HID_K, HID_M
  <2>. QED BY <1>1, <1>4, <2>1 DEF Recognised
<1>5. CASE ~InitAck /\ ~DetachedInitialize /\ ~SetAddress /\ ~Recognised
  BY <1>1, <1>5, TableFrame DEF table
<1>. QED BY <1>2, <1>3, <1>4, <1>5

LEMMA DeviceTypeKept ==
  HostTypeOK /\ TableInv /\ [Next]_vars =>
    dev' \in [kind : Kinds \cup {"none"}, addr : 0 .. Unreset, conf : BOOLEAN]
<1>. DEFINE Devices == [kind : Kinds \cup {"none"}, addr : 0 .. Unreset, conf : BOOLEAN]
<1>. SUFFICES ASSUME HostTypeOK, TableInv, [Next]_vars PROVE dev' \in Devices
  OBVIOUS
<1>1. dev \in Devices /\ USB_NUMDEVICES \in Nat
  BY HostAssumption DEF HostTypeOK
<1>2. NoDevice \in Devices
  BY <1>1 DEF NoDevice, Unreset
<1>3. CASE Plug
  <2>1. PICK k \in Kinds : dev' = [NoDevice EXCEPT !.kind = k]
    BY <1>3 DEF Plug
  <2>. QED BY <1>2, <2>1
<1>4. CASE Unplug
  BY <1>2, <1>4 DEF Unplug
<1>5. CASE ResetEnds
  <2>1. dev' = dev \/ dev' = [dev EXCEPT !.addr = 0, !.conf = FALSE]
    BY <1>5 DEF ResetEnds, ResetDone
  <2>2. 0 \in 0 .. Unreset
    BY <1>1 DEF Unreset
  <2>. QED BY <1>1, <2>1, <2>2
<1>6. CASE SetAddress
  <2>1. PICK n \in 0 .. USB_NUMDEVICES - 1 : Taken(n)
    BY DEF TableInv
  <2>2. Min(FreeAddresses) \in 0 .. Unreset
    BY <1>1, <1>6, <2>1, FirstFree DEF SetAddress, Unreset
  <2>3. dev' = dev \/ dev' = [dev EXCEPT !.addr = Min(FreeAddresses)]
    BY <1>6 DEF SetAddress
  <2>. QED BY <1>1, <2>2, <2>3
<1>7. CASE Recognised
  <2>1. \E conf \in BOOLEAN : dev' = [dev EXCEPT !.conf = conf]
    BY <1>7 DEF Recognised
  <2>. QED BY <1>1, <2>1
<1>8. CASE ~Plug /\ ~Unplug /\ ~ResetEnds /\ ~SetAddress /\ ~Recognised
  <2>1. CASE USB_Task
    BY <1>1, <1>8, <2>1
       DEF USB_Task, DetachedInitialize, Attached, Settling, Settled, ResetDevice,
           ResetComplete, WaitSof, GetDescriptor, NoAddressLeft, NoDriver, UsbIdle, chip
  <2>2. CASE ~USB_Task
    BY <1>1, <1>8, <2>2
       DEF Next, Firmware, ChipReset, InitProbe, InitAck, MAX3421E_Task, HandlerProbe,
           HandlerAck, GetDriverandReport, MainContinue, MainRestart, chip, vars
  <2>. QED BY <2>1, <2>2
<1>. QED BY <1>3, <1>4, <1>5, <1>6, <1>7, <1>8

LEMMA ChipTypeKept ==
  HostTypeOK /\ [Next]_vars =>
    /\ HIRQ' \subseteq {"CONDET", "BUSEVENT"} /\ hirq' \subseteq {"CONDET", "BUSEVENT"}
    /\ BUSRST' \in BOOLEAN
<1>. DEFINE Bits == {"CONDET", "BUSEVENT"}
<1>. SUFFICES ASSUME HostTypeOK, [Next]_vars
              PROVE  /\ HIRQ' \subseteq Bits /\ hirq' \subseteq Bits
                     /\ BUSRST' \in BOOLEAN
  OBVIOUS
<1>1. HIRQ \subseteq Bits /\ hirq \subseteq Bits /\ BUSRST \in BOOLEAN
  BY HostAssumption DEF HostTypeOK
<1>2. CASE Plug
  <2>1. HIRQ' = HIRQ \cup {"CONDET"} /\ hirq' = hirq /\ BUSRST' = BUSRST
    BY <1>2 DEF Plug
  <2>. QED BY <1>1, <2>1
<1>3. CASE ResetEnds
  <2>1. HIRQ' \in {HIRQ \cup {"BUSEVENT"}, HIRQ \cup {"BUSEVENT", "CONDET"}}
        /\ hirq' = hirq /\ BUSRST' = FALSE
    BY <1>3 DEF ResetEnds, ResetDone
  <2>2. HIRQ' \subseteq Bits
    BY <1>1, <2>1
  <2>. QED BY <1>1, <2>1, <2>2
<1>4. CASE Unplug \/ ChipReset \/ InitAck \/ MAX3421E_Task \/ HandlerAck
  <2>1. BUSRST' \in {BUSRST, FALSE} /\ hirq' \in {hirq, HIRQ, {}}
    BY <1>4 DEF Unplug, ChipReset, InitAck, MAX3421E_Task, HandlerAck, chip
  <2>2. HIRQ' \in {HIRQ, {}, HIRQ \cup {"CONDET"}, HIRQ \ {"CONDET"}, HIRQ \ hirq}
    BY <1>4 DEF Unplug, ChipReset, InitAck, MAX3421E_Task, HandlerAck, chip
  <2>3. HIRQ' \subseteq Bits
    BY <1>1, <2>2
  <2>. QED BY <1>1, <2>1, <2>3
<1>5. CASE ResetDevice
  <2>1. HIRQ' = HIRQ \ {"BUSEVENT"} /\ BUSRST' = TRUE /\ hirq' = hirq
    BY <1>5 DEF ResetDevice
  <2>. QED BY <1>1, <2>1
<1>6. CASE InitProbe \/ HandlerProbe \/ (USB_Task /\ ~ResetDevice)
           \/ GetDriverandReport \/ MainContinue \/ MainRestart \/ UNCHANGED vars
  <2>1. HIRQ' = HIRQ /\ BUSRST' = BUSRST /\ hirq' = hirq
    BY <1>6
       DEF InitProbe, HandlerProbe, USB_Task, DetachedInitialize, Attached, Settling, Settled,
           ResetComplete, WaitSof, GetDescriptor, SetAddress, NoAddressLeft, Recognised,
           NoDriver, UsbIdle, GetDriverandReport, MainContinue, MainRestart, chip, vars
  <2>. QED BY <1>1, <2>1
<1>. QED BY <1>2, <1>3, <1>4, <1>5, <1>6 DEF Next, Firmware

LEMMA DelayBounded ==
  ASSUME NEW settle \in Nat, NEW top \in Nat, NEW t \in 0 .. top
  PROVE  t + settle \in 0 .. top + settle
OBVIOUS

LEMMA ClockTypeKept ==
  HostTypeOK /\ [Next]_vars => now' \in 0 .. Ms_Max /\ usb_delay' \in 0 .. Ms_Max + Settle_Time
<1>. SUFFICES ASSUME HostTypeOK, [Next]_vars
              PROVE  now' \in 0 .. Ms_Max /\ usb_delay' \in 0 .. Ms_Max + Settle_Time
  OBVIOUS
<1>. /\ now \in 0 .. Ms_Max /\ usb_delay \in 0 .. Ms_Max + Settle_Time
      /\ Times \subseteq 0 .. Ms_Max /\ Settle_Time \in Nat /\ Ms_Max \in Nat
  BY HostAssumption DEF HostTypeOK
<1>. HIDE HostAssumption
<1>1. CASE Attached
  <2>1. now' \in 0 .. Ms_Max /\ usb_delay' = now' + Settle_Time
    BY <1>1 DEF Attached
  <2>2. now' + Settle_Time \in 0 .. Ms_Max + Settle_Time
    BY <2>1, DelayBounded
  <2>. QED BY <2>1, <2>2, Zenon
<1>2. CASE Settling
  <2>1. now' \in 0 .. Ms_Max /\ usb_delay' = usb_delay
    BY <1>2 DEF Settling
  <2>. QED BY <2>1
<1>3. CASE ~Attached /\ ~Settling
  <2>1. CASE USB_Task
    BY <1>3, <2>1
       DEF USB_Task, DetachedInitialize, Settled, ResetDevice, ResetComplete, WaitSof,
           GetDescriptor, SetAddress, NoAddressLeft, Recognised, NoDriver, UsbIdle, clock
  <2>2. CASE ~USB_Task
    BY <2>2
       DEF Next, Firmware, Plug, Unplug, ResetEnds, ResetDone, ChipReset, InitProbe, InitAck,
           MAX3421E_Task, HandlerProbe, HandlerAck, GetDriverandReport, MainContinue,
           MainRestart, clock, vars
  <2>. QED BY <2>1, <2>2
<1>. QED BY <1>1, <1>2, <1>3

LEMMA MainTypeKept ==
  HostTypeOK /\ TableInv /\ [Next]_vars =>
    runningdebugflag' \in BOOLEAN /\ device' \in {0, HID_K, HID_M, 255}
<1>. SUFFICES ASSUME HostTypeOK, TableInv, [Next]_vars
              PROVE  runningdebugflag' \in BOOLEAN /\ device' \in {0, HID_K, HID_M, 255}
  OBVIOUS
<1>1. CASE GetDriverandReport
  <2>1. PICK n \in 0 .. USB_NUMDEVICES - 1 : Taken(n)
    BY DEF TableInv
  <2>2. n = 0 \/ devtable[n].devclass \in 0 .. 2
    BY <2>1, HostAssumption DEF HostTypeOK
  <2>3. FoundClass \in {0, HID_K, HID_M, 255}
    BY <2>1, <2>2, LastClass DEF HID_K, HID_M
  <2>. QED BY <1>1, <2>3 DEF GetDriverandReport
<1>2. CASE ~GetDriverandReport
  <2>1. runningdebugflag' \in {runningdebugflag, FALSE} /\ device' = device
    BY <1>2, UsbTaskFrame
       DEF Next, Firmware, Plug, Unplug, ResetEnds, ResetDone, ChipReset, InitProbe, InitAck,
           MAX3421E_Task, HandlerProbe, HandlerAck, MainContinue, MainRestart, main, vars
  <2>. QED BY <2>1 DEF HostTypeOK
<1>. QED BY <1>1, <1>2

LEMMA TypeKept == HostTypeOK /\ TableInv /\ [Next]_vars => HostTypeOK'
<1>. SUFFICES ASSUME HostTypeOK, TableInv, [Next]_vars PROVE HostTypeOK'
  OBVIOUS
<1>. QED BY StateTypeKept, TableTypeKept, DeviceTypeKept, ChipTypeKept, ClockTypeKept,
            MainTypeKept, Zenon
       DEF HostTypeOK, StateNumbers
-----------------------------------------------------------------------------
LEMMA Inductive == IInv /\ [Next]_vars => IInv'
BY TypeKept, PlaceKept, FlagKept, ResetKept, TableKept, RightDriverKept, NoGhostKept DEF IInv

LEMMA Initial == Init => IInv
<1>. SUFFICES ASSUME Init PROVE IInv
  OBVIOUS
<1>. USE DEF Init
<1>1. HostTypeOK
  <2>1. NoDevice \in [kind : Kinds \cup {"none"}, addr : 0 .. Unreset, conf : BOOLEAN]
    BY HostAssumption DEF NoDevice, Unreset
  <2>2. [i \in 0 .. USB_NUMDEVICES |-> NoRecord] \in
          [0 .. USB_NUMDEVICES -> [epinfo : {"NULL", "dev0ep", "hid_ep"}, devclass : 0 .. 2]]
    BY DEF NoRecord
  <2>3. DETACHED_INITIALIZE \in StateNumbers
    BY DEF StateNumbers
  <2>4. /\ 0 \in 0 .. USB_NUMDEVICES /\ 0 \in 0 .. Ms_Max
        /\ 0 \in 0 .. Ms_Max + Settle_Time
    BY HostAssumption
  <2>. QED BY <2>1, <2>2, <2>3, <2>4, Zenon DEF HostTypeOK
<1>2. DETACHED_INITIALIZE \notin {RUNNING, CONFIGURING}
  BY DEF DETACHED_INITIALIZE, RUNNING, CONFIGURING
<1>3. PlaceInv /\ FlagInv /\ ResetInv /\ RightDriver /\ NoGhost
  BY <1>2 DEF PlaceInv, FlagInv, ResetInv, RightDriver, NoGhost
<1>4. TableInv
  <2>1. Taken(0)
    BY HostAssumption DEF Taken, Addresses, NoRecord
  <2>. QED BY <1>2, <2>1, HostAssumption DEF TableInv
<1>. QED BY <1>1, <1>3, <1>4 DEF IInv

LEMMA Invariant == Spec => []IInv
BY Initial, Inductive, PTL DEF Spec

\* The machine never leaves the states its switches know, nor the table its
\* eight entries, whatever a bus event adds to the state (MAX3421E.c:233).
THEOREM HostTypes == Spec => []HostTypeOK
BY Invariant, PTL DEF IInv

\* However many enumerations have failed before it, a running device's entries
\* are there and the class main.c polls is its own (main.c:25-59).
THEOREM AlwaysRightDriver == Spec => []RightDriver
BY Invariant, PTL DEF IInv

\* No order of plugs, resets, reads and acknowledges leaves the firmware polling
\* a device that is gone without an interrupt to tell it so (MAX3421E.c:215-238).
THEOREM NeverAGhost == Spec => []NoGhost
BY Invariant, PTL DEF IInv

LEMMA SettleStays ==
  ASSUME HostTypeOK, [Next]_vars, NeverSettles, ~HandlerProbe, ~InitProbe
  PROVE  NeverSettles'
<1>1. usb_task_state = ATTACHED_SETTLE /\ usb_delay >= Ms_Max
  BY DEF NeverSettles
<1>2. ~(now > usb_delay)
  BY <1>1, HostAssumption DEF HostTypeOK
<1>3. UNCHANGED <<usb_task_state, usb_delay>>
  <2>1. CASE USB_Task
    BY <1>1, <1>2, <2>1
       DEF USB_Task, Steps, DetachedInitialize, Attached, Settling, Settled, ResetDevice,
           ResetComplete, WaitSof, GetDescriptor, SetAddress, NoAddressLeft, Recognised, NoDriver,
           UsbIdle, clock, DETACHED_INITIALIZE, ATTACHED, ATTACHED_SETTLE, ATTACHED_RESET_DEVICE,
           ATTACHED_WAIT_RESET_COMPLETE, ATTACHED_WAIT_SOF, ATTACHED_GET_DEVICE_DESCRIPTOR_SIZE,
           ADDRESSING, CONFIGURING
  <2>. QED BY <2>1
         DEF Next, Firmware, Plug, Unplug, ResetEnds, ResetDone, ChipReset, InitAck, MAX3421E_Task,
             HandlerAck, GetDriverandReport, MainContinue, MainRestart, clock, vars
<1>. QED BY <1>1, <1>3 DEF NeverSettles

\* The wait for the settle time ends by itself if and only if its deadline is
\* below the wrap of the clock, for any clock and any settle time
\* (transfer.c:274-284).
THEOREM SettleTrap == Spec => SettleCounts
<1>1. HostTypeOK /\ [Next]_vars =>
        [ usb_task_state = ATTACHED_SETTLE =>
            IF usb_delay < Ms_Max
            THEN Settling => now' = now + 1 /\ now' <= usb_delay + 1
            ELSE NeverSettles' \/ HandlerProbe \/ InitProbe ]_vars
  <2>. SUFFICES ASSUME HostTypeOK, [Next]_vars, usb_task_state = ATTACHED_SETTLE
                PROVE  IF usb_delay < Ms_Max
                       THEN Settling => now' = now + 1 /\ now' <= usb_delay + 1
                       ELSE NeverSettles' \/ HandlerProbe \/ InitProbe
    OBVIOUS
  <2>1. CASE usb_delay < Ms_Max
    BY <2>1, HostAssumption DEF HostTypeOK, Settling
  <2>2. CASE ~(usb_delay < Ms_Max)
    <3>1. NeverSettles
      BY <2>2, HostAssumption DEF NeverSettles, HostTypeOK
    <3>. QED BY <2>2, <3>1, SettleStays
  <2>. QED BY <2>1, <2>2
<1>. QED BY <1>1, HostTypes, PTL DEF Spec, SettleCounts
=============================================================================
