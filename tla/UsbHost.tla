------------------------------ MODULE UsbHost -------------------------------
(***************************************************************************)
(* Connection handling of the firmware: the main loop of main.c, the       *)
(* interrupt handler of MAX3421E.c and the state machine of transfer.c,    *)
(* against the MAX3421E chip and a device that is plugged in and pulled    *)
(* out at any moment.                                                      *)
(*                                                                         *)
(* The loop runs MAX3421E_Task, USB_Task and the branch on the state once  *)
(* around.  The firmware is interleaved with the chip at its SPI accesses: *)
(* the handler reads the pending interrupts, then the bus lines, then      *)
(* acknowledges what it read, and the chip may raise more in between.  A   *)
(* control transfer is one step that may fail at any time; the score and   *)
(* the report polling of the same loop are not part of this module.        *)
(***************************************************************************)
EXTENDS Naturals, FiniteSetsExt

CONSTANTS
  USB_NUMDEVICES,   \* transfer.h:8   8
  Settle_Time,      \* transfer.c:277   200 ms
  Ms_Max,           \* 4294967, after which (nticks * 1000) wraps the clock to 0
  Times,            \* when a device may be attached, on that clock
  Kinds             \* what may be plugged in

ASSUME HostAssumption ==
  /\ USB_NUMDEVICES \in Nat /\ USB_NUMDEVICES > 1
  /\ Kinds \subseteq {"keyboard", "mouse", "other", "faulty"}
  /\ Settle_Time \in Nat /\ Ms_Max \in Nat
  /\ Times # {} /\ Times \subseteq 0 .. Ms_Max

\* USB.h:34-103
DETACHED_INITIALIZE == 1
DETACHED_WAIT_FOR_DEVICE == 3
DETACHED_ILLEGAL == 4
ATTACHED == 16
ATTACHED_SETTLE == 17
ATTACHED_RESET_DEVICE == 18
ATTACHED_WAIT_RESET_COMPLETE == 19
ATTACHED_WAIT_SOF == 20
ATTACHED_GET_DEVICE_DESCRIPTOR_SIZE == 21
ADDRESSING == 32
CONFIGURING == 48
RUNNING == 64
ERROR == 255

\* What a bus event makes of a detached state (MAX3421E.c:233).  USB.h has no
\* such states, and no case of USB_Task takes them up.
Uncased == {DETACHED_INITIALIZE + 1, DETACHED_ILLEGAL + 1}

StateNumbers ==
  {DETACHED_INITIALIZE, DETACHED_WAIT_FOR_DEVICE, DETACHED_ILLEGAL} \cup Uncased
    \cup ATTACHED .. ATTACHED_GET_DEVICE_DESCRIPTOR_SIZE
    \cup {ADDRESSING, CONFIGURING, RUNNING, ERROR}

\* usb_task_state & USB_STATE_MASK
Major(s) == s - (s % 16)
Detached(s) == Major(s) = 0

HID_K == 1
HID_M == 2
Driver(kind) == IF kind = "keyboard" THEN HID_K ELSE HID_M

Addresses == 1 .. USB_NUMDEVICES - 1
Unreset == USB_NUMDEVICES      \* no address: the device awaits a bus reset
NoDevice == [kind |-> "none", addr |-> Unreset, conf |-> FALSE]
NoRecord == [epinfo |-> "NULL", devclass |-> 0]

VARIABLES
  dev,               \* the device on the bus, its address, configured or not
  HIRQ,              \* interrupt bits of the chip
  BUSRST,            \* the chip is resetting the bus
  pc,                \* where the firmware is in its loop
  hirq,              \* the handler's copy of HIRQ
  usb_task_state,
  now,               \* the millisecond clock, nticks*1000/ticks_per_second
  usb_delay,
  devtable,          \* index 0 is the device not yet addressed
  tmp_addr,
  hid_addr,          \* hid_device.addr
  runningdebugflag,
  device             \* the class main.c polls; 255 before it is known

chip == <<dev, HIRQ, BUSRST>>
table == <<devtable, tmp_addr, hid_addr>>
main == <<runningdebugflag, device>>
clock == <<now, usb_delay>>
vars == <<chip, pc, hirq, usb_task_state, clock, table, main>>

HostTypeOK ==
  /\ dev \in [kind : Kinds \cup {"none"}, addr : 0 .. Unreset, conf : BOOLEAN]
  /\ HIRQ \subseteq {"CONDET", "BUSEVENT"} /\ hirq \subseteq {"CONDET", "BUSEVENT"}
  /\ BUSRST \in BOOLEAN /\ runningdebugflag \in BOOLEAN
  /\ pc \in {"init", "init_probe", "init_ack", "irq", "probe", "ack", "usb", "main"}
  /\ usb_task_state \in StateNumbers
  /\ devtable \in [0 .. USB_NUMDEVICES ->
                     [epinfo : {"NULL", "dev0ep", "hid_ep"}, devclass : 0 .. 2]]
  /\ tmp_addr \in 0 .. USB_NUMDEVICES /\ hid_addr \in 0 .. USB_NUMDEVICES
  /\ device \in {0, HID_K, HID_M, 255}
  /\ now \in 0 .. Ms_Max /\ usb_delay \in 0 .. Ms_Max + Settle_Time

Init ==
  /\ dev = NoDevice /\ HIRQ = {} /\ BUSRST = FALSE
  /\ pc = "init" /\ hirq = {}
  /\ usb_task_state = DETACHED_INITIALIZE
  /\ now = 0 /\ usb_delay = 0
  /\ devtable = [i \in 0 .. USB_NUMDEVICES |-> NoRecord]
  /\ tmp_addr = 0 /\ hid_addr = 0
  /\ runningdebugflag = FALSE /\ device = 255
-----------------------------------------------------------------------------
(***************************************************************************)
(* The chip and the device, as the firmware relies on them.                *)
(***************************************************************************)
Plug ==
  /\ dev.kind = "none"
  /\ \E k \in Kinds : dev' = [NoDevice EXCEPT !.kind = k]
  /\ HIRQ' = HIRQ \cup {"CONDET"}
  /\ UNCHANGED <<BUSRST, pc, hirq, usb_task_state, table, clock, main>>

Unplug ==
  /\ dev.kind # "none"
  /\ dev' = NoDevice
  /\ HIRQ' = HIRQ \cup {"CONDET"}
  /\ UNCHANGED <<BUSRST, pc, hirq, usb_task_state, table, clock, main>>

\* A bus reset ends; "bus reset causes connection detect interrupt"
\* (MAX3421E.c:147), which it may do any number of times or never.
ResetDone(echo) ==
  /\ BUSRST /\ BUSRST' = FALSE
  /\ dev' = IF dev.kind = "none" THEN dev ELSE [dev EXCEPT !.addr = 0, !.conf = FALSE]
  /\ HIRQ' = HIRQ \cup {"BUSEVENT"} \cup echo
  /\ UNCHANGED <<pc, hirq, usb_task_state, table, clock, main>>

ResetEnds == \E echo \in {{}, {"CONDET"}} : ResetDone(echo)

\* The J and K status bits: the host drives both lines low while it resets.
BusSamples ==
  IF dev.kind = "none" THEN {"SE0"}
  ELSE IF dev.kind = "faulty" THEN {"SE1"}
  ELSE IF BUSRST THEN {"JK", "SE0"}
  ELSE {"JK"}

Answers(addr) ==
  dev.kind \notin {"none", "faulty"} /\ dev.addr = addr /\ ~BUSRST
-----------------------------------------------------------------------------
(***************************************************************************)
(* MAX3421E.c                                                              *)
(***************************************************************************)
\* Mutant: a running machine takes no notice of the connection.
ProbedRunningKept(sample) ==
  CASE sample = "JK" ->
         IF usb_task_state \in {ATTACHED_WAIT_RESET_COMPLETE, RUNNING}
         THEN usb_task_state ELSE ATTACHED
    [] sample = "SE1" -> DETACHED_ILLEGAL
    [] OTHER -> IF Detached(usb_task_state)
                THEN DETACHED_WAIT_FOR_DEVICE ELSE DETACHED_INITIALIZE

\* MAX_busprobe
Probed(sample) ==
  CASE sample = "JK" ->
         IF usb_task_state = ATTACHED_WAIT_RESET_COMPLETE
         THEN usb_task_state ELSE ATTACHED
    [] sample = "SE1" -> DETACHED_ILLEGAL
    [] OTHER -> IF Detached(usb_task_state)
                THEN DETACHED_WAIT_FOR_DEVICE ELSE DETACHED_INITIALIZE

\* MAX3421E_init: the reset of the chip, its bus probe, and the acknowledge,
\* after which main.c calls USB_init.
ChipReset ==
  /\ pc = "init" /\ pc' = "init_probe"
  /\ HIRQ' = {} /\ BUSRST' = FALSE
  /\ UNCHANGED <<dev, hirq, usb_task_state, table, clock, main>>

InitProbe ==
  /\ pc = "init_probe" /\ pc' = "init_ack"
  /\ \E sample \in BusSamples : usb_task_state' = Probed(sample)
  /\ UNCHANGED <<chip, hirq, table, clock, main>>

USB_init ==
  devtable' = [i \in 0 .. USB_NUMDEVICES |->
                 IF i = 0 THEN [NoRecord EXCEPT !.epinfo = "dev0ep"] ELSE NoRecord]

InitAck ==
  /\ pc = "init_ack" /\ pc' = "irq"
  /\ HIRQ' = HIRQ \ {"CONDET"}
  /\ USB_init
  /\ UNCHANGED <<dev, BUSRST, hirq, usb_task_state, tmp_addr, hid_addr, clock, main>>

\* Only CONDET is enabled to pull the interrupt pin.
MAX3421E_Task ==
  /\ pc = "irq"
  /\ IF "CONDET" \in HIRQ
     THEN pc' = "probe" /\ hirq' = HIRQ
     ELSE pc' = "usb" /\ UNCHANGED hirq
  /\ UNCHANGED <<chip, usb_task_state, table, clock, main>>

\* The handler adds one to whatever state the probe has left.
HandlerProbe ==
  /\ pc = "probe" /\ pc' = "ack"
  /\ \E sample \in BusSamples :
       usb_task_state' = Probed(sample) + (IF "BUSEVENT" \in hirq THEN 1 ELSE 0)
  /\ UNCHANGED <<chip, hirq, table, clock, main>>

HandlerAck ==
  /\ pc = "ack" /\ pc' = "usb"
  /\ HIRQ' = HIRQ \ hirq
  /\ hirq' = {}
  /\ UNCHANGED <<dev, BUSRST, usb_task_state, table, clock, main>>
-----------------------------------------------------------------------------
(***************************************************************************)
(* USB_Task, transfer.c: one action per state.                             *)
(***************************************************************************)
Steps(from, to) ==
  /\ pc = "usb" /\ pc' = "main"
  /\ usb_task_state = from /\ usb_task_state' = to

DetachedInitialize ==
  /\ Steps(DETACHED_INITIALIZE, DETACHED_WAIT_FOR_DEVICE)
  /\ USB_init
  /\ UNCHANGED <<chip, hirq, tmp_addr, hid_addr, clock, main>>

\* The clock is read in this state and the next only, so it may stand anywhere
\* when a device is attached.
Attached ==
  /\ Steps(ATTACHED, ATTACHED_SETTLE)
  /\ now' \in Times /\ usb_delay' = now' + Settle_Time
  /\ UNCHANGED <<chip, hirq, table, main>>

\* A millisecond between two looks at the clock.
Settling ==
  /\ Steps(ATTACHED_SETTLE, ATTACHED_SETTLE)
  /\ now <= usb_delay
  /\ now' = IF now = Ms_Max THEN 0 ELSE now + 1
  /\ UNCHANGED <<usb_delay, chip, hirq, table, main>>

Settled ==
  /\ Steps(ATTACHED_SETTLE, ATTACHED_RESET_DEVICE)
  /\ now > usb_delay
  /\ UNCHANGED <<chip, hirq, table, clock, main>>

ResetDevice ==
  /\ Steps(ATTACHED_RESET_DEVICE, ATTACHED_WAIT_RESET_COMPLETE)
  /\ HIRQ' = HIRQ \ {"BUSEVENT"}
  /\ BUSRST' = TRUE
  /\ UNCHANGED <<dev, hirq, table, clock, main>>

\* Mutant: the test for the end of the reset the wrong way round.
ResetNotComplete ==
  /\ Steps(ATTACHED_WAIT_RESET_COMPLETE, ATTACHED_WAIT_SOF)
  /\ BUSRST
  /\ UNCHANGED <<chip, hirq, table, clock, main>>

ResetComplete ==
  /\ Steps(ATTACHED_WAIT_RESET_COMPLETE, ATTACHED_WAIT_SOF)
  /\ ~BUSRST
  /\ UNCHANGED <<chip, hirq, table, clock, main>>

\* `HIRQ | bmFRAMEIRQ` is never zero: this state waits for nothing.
WaitSof ==
  /\ Steps(ATTACHED_WAIT_SOF, ATTACHED_GET_DEVICE_DESCRIPTOR_SIZE)
  /\ UNCHANGED <<chip, hirq, table, clock, main>>

\* Mutant: on to substate 0x16, which USB.h no longer has.
GetDescriptorOn ==
  /\ \/ Answers(0) /\ Steps(ATTACHED_GET_DEVICE_DESCRIPTOR_SIZE, 22)
     \/ Steps(ATTACHED_GET_DEVICE_DESCRIPTOR_SIZE, ERROR)
  /\ UNCHANGED <<chip, hirq, table, clock, main>>

\* Only the first of its transfers decides.
GetDescriptor ==
  /\ \/ Answers(0) /\ Steps(ATTACHED_GET_DEVICE_DESCRIPTOR_SIZE, ADDRESSING)
     \/ Steps(ATTACHED_GET_DEVICE_DESCRIPTOR_SIZE, ERROR)
  /\ UNCHANGED <<chip, hirq, table, clock, main>>

FreeAddresses == {i \in Addresses : devtable[i].epinfo = "NULL"}

\* The entry is taken before the request is sent; a request that failed for
\* the host may have reached the device.
SetAddress ==
  /\ FreeAddresses # {}
  /\ LET i == Min(FreeAddresses)
     IN  /\ devtable' = [devtable EXCEPT ![i].epinfo = devtable[0].epinfo]
         /\ \/ /\ Steps(ADDRESSING, CONFIGURING)
               /\ Answers(0) /\ dev' = [dev EXCEPT !.addr = i]
               /\ tmp_addr' = i
            \/ /\ Steps(ADDRESSING, ERROR)
               /\ \/ Answers(0) /\ dev' = [dev EXCEPT !.addr = i]
                  \/ UNCHANGED dev
               /\ UNCHANGED tmp_addr
  /\ UNCHANGED <<HIRQ, BUSRST, hirq, hid_addr, clock, main>>

NoAddressLeft ==
  /\ FreeAddresses = {}
  /\ Steps(ADDRESSING, ERROR)
  /\ UNCHANGED <<chip, hirq, table, clock, main>>

\* HIDMProbe or HIDKProbe, whichever finds its interface: it takes the device
\* record over and then configures the device.
Recognised ==
  /\ Answers(tmp_addr) /\ dev.kind \in {"keyboard", "mouse"}
  /\ devtable' = [devtable EXCEPT ![tmp_addr] =
                    [epinfo |-> "hid_ep", devclass |-> Driver(dev.kind)]]
  /\ hid_addr' = tmp_addr
  /\ \/ Steps(CONFIGURING, RUNNING) /\ dev' = [dev EXCEPT !.conf = TRUE]
     \/ /\ Steps(CONFIGURING, ERROR)
        /\ \E conf \in BOOLEAN : dev' = [dev EXCEPT !.conf = conf]
  /\ UNCHANGED <<HIRQ, BUSRST, hirq, tmp_addr, clock, main>>

NoDriver ==
  /\ Steps(CONFIGURING, ERROR)
  /\ UNCHANGED <<chip, hirq, table, clock, main>>

\* Every state without a case of its own, and the cases that do nothing.
Idles(s) ==
  \/ Detached(s) /\ s # DETACHED_INITIALIZE
  \/ s = ATTACHED_WAIT_RESET_COMPLETE /\ BUSRST
  \/ s \in {RUNNING, ERROR}

UsbIdle ==
  /\ Idles(usb_task_state)
  /\ Steps(usb_task_state, usb_task_state)
  /\ UNCHANGED <<chip, hirq, table, clock, main>>
-----------------------------------------------------------------------------
(***************************************************************************)
(* The branch on the state in main.c                                       *)
(***************************************************************************)
\* Mutant: the class of the first device in the table.
FoundClassFirst ==
  LET found == {i \in Addresses : devtable[i].epinfo # "NULL"}
  IN  IF found = {} THEN 255 ELSE devtable[Min(found)].devclass

\* The class of the last device in the table.
FoundClass ==
  LET found == {i \in Addresses : devtable[i].epinfo # "NULL"}
  IN  IF found = {} THEN 255 ELSE devtable[Max(found)].devclass

GetDriverandReport ==
  /\ pc = "main" /\ pc' = "irq"
  /\ usb_task_state = RUNNING /\ ~runningdebugflag
  /\ runningdebugflag' = TRUE
  /\ device' = FoundClass
  /\ UNCHANGED <<chip, hirq, usb_task_state, table, clock>>

\* Polling the running device, and reporting an error, change nothing here.
MainContinue ==
  /\ pc = "main" /\ pc' = "irq"
  /\ \/ usb_task_state = RUNNING /\ runningdebugflag
     \/ usb_task_state = ERROR
     \/ usb_task_state \notin {RUNNING, ERROR} /\ ~runningdebugflag
  /\ UNCHANGED <<chip, hirq, usb_task_state, table, clock, main>>

\* Previously running: reset the USB hardware.
MainRestart ==
  /\ pc = "main" /\ pc' = "init"
  /\ usb_task_state \notin {RUNNING, ERROR} /\ runningdebugflag
  /\ runningdebugflag' = FALSE
  /\ UNCHANGED <<chip, hirq, usb_task_state, table, device, clock>>
-----------------------------------------------------------------------------
USB_Task ==
  \/ DetachedInitialize \/ Attached \/ Settling \/ Settled
  \/ ResetDevice \/ ResetComplete \/ WaitSof \/ GetDescriptor \/ SetAddress \/ NoAddressLeft
  \/ Recognised \/ NoDriver \/ UsbIdle

Firmware ==
  \/ ChipReset \/ InitProbe \/ InitAck
  \/ MAX3421E_Task \/ HandlerProbe \/ HandlerAck
  \/ USB_Task
  \/ GetDriverandReport \/ MainContinue \/ MainRestart

Next == Plug \/ Unplug \/ ResetEnds \/ Firmware

Spec == Init /\ [][Next]_vars

\* The processor runs and the chip finishes a reset.  Nothing is asked of the
\* player who plugs or of the device.
FairSpec == Spec /\ WF_vars(Firmware) /\ WF_vars(ResetEnds)
-----------------------------------------------------------------------------
(***************************************************************************)
(* Properties                                                              *)
(***************************************************************************)
\* A running machine finds its endpoints in the table: both through the
\* hard-wired address 1 of GetDriverandReport and through hid_device.addr, so
\* neither dereferences NULL (transfer.c:113), and the class main.c polls is
\* the running device's, whatever was left in the table before it.
RightDriver ==
  usb_task_state = RUNNING =>
    /\ devtable[1].epinfo # "NULL"
    /\ devtable[hid_addr].epinfo = "hid_ep"
    /\ runningdebugflag => device = devtable[hid_addr].devclass

\* A running machine whose device is gone, or is another one, has a connect
\* interrupt waiting: no order of plugs, resets, reads and acknowledges loses
\* the one that ends a session (MAX3421E.c:215-238).
NoGhost ==
  usb_task_state = RUNNING /\ "CONDET" \notin HIRQ =>
    /\ Answers(hid_addr) /\ dev.conf
    /\ Driver(dev.kind) = devtable[hid_addr].devclass

Enumerating == usb_task_state \in ATTACHED .. CONFIGURING

\* A deadline the clock cannot exceed before it wraps.
NeverSettles == usb_task_state = ATTACHED_SETTLE /\ usb_delay >= Ms_Max

\* Enumeration comes to an end: running, in error or detached
\* (transfer.c:274-374), with three exceptions.  A device may be plugged in
\* again and again.  The connect interrupt of a bus reset may come when
\* MAX_busprobe no longer expects it, and send the machine back to a settle
\* time that is over and so to another reset (MAX3421E.c:147, 233); it may do
\* that each time.  And a device may have been attached in the last
\* Settle_Time of the clock's period.
EnumerationEnds ==
  \/ []<><<Plug>>_vars
  \/ []<><<ResetDone({"CONDET"})>>_vars
  \/ Enumerating ~> ~Enumerating \/ NeverSettles

\* Why the last of them, and no more of it: a deadline below the wrap is reached, one
\* millisecond nearer at each look; one beyond it holds the machine until the
\* next look at the bus lines (transfer.c:274-284).
SettleCounts ==
  [][ usb_task_state = ATTACHED_SETTLE =>
        IF usb_delay < Ms_Max
        THEN Settling => now' = now + 1 /\ now' <= usb_delay + 1
        ELSE NeverSettles' \/ HandlerProbe \/ InitProbe ]_vars

\* transfer.c:277 and 280: "initial settle 200ms", "waiting for settle timer
\* to expire".
SettleEnds ==
  usb_task_state = ATTACHED_SETTLE ~> usb_task_state # ATTACHED_SETTLE

\* MAX3421E.c:175: a machine that finds the bus empty is sent to "clear device
\* data structures".  The bus event a reset has left behind sends it past the
\* state that does so.
DetachClears ==
  pc = "main" /\ Detached(usb_task_state) =>
    \A i \in Addresses : devtable[i].epinfo = "NULL"

\* USB.h:30: the detached states handle "the condition when no device is
\* attached".  A device plugged in between a look at the bus lines and the
\* acknowledge that follows it, at the start (MAX3421E.c:198-199) or in the
\* handler (225, 237), is on a bus nobody looks at.
DetachedMeansNone ==
  Detached(usb_task_state) /\ pc = "irq" /\ "CONDET" \notin HIRQ =>
    dev.kind \in {"none", "faulty"}
=============================================================================
