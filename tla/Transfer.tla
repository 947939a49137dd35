------------------------------ MODULE Transfer ------------------------------
(***************************************************************************)
(* The poll of a running keyboard or mouse, packet by packet: kbdPoll and  *)
(* mousePoll of HID.c, XferInTransfer and XferDispatchPkt of transfer.c,   *)
(* against the MAX3421E and the device's interrupt endpoint over a bus     *)
(* that loses and spoils packets in either direction.                      *)
(*                                                                         *)
(* Both ends keep a one-bit sequence number, the data toggle.  The chip's  *)
(* copy lives for one transfer; the firmware's, in the endpoint record, is *)
(* loaded from it only when a transfer succeeds.  The deadline of 5000 ms  *)
(* is left out: the chip ends a transaction within a frame, and the two    *)
(* limits end the retries long before.                                     *)
(***************************************************************************)
EXTENDS Naturals

CONSTANTS
  USB_NAK_LIMIT,     \* project_config.h:19   200
  USB_RETRY_LIMIT,   \* project_config.h:20   3
  nbytes,            \* HID.c:211,219   8, the most a poll asks for
  maxpktsize,        \* of the device's endpoint
  ReportSize,        \* bytes of a report, one packet
  MaxReports         \* bound on the reports made

ASSUME TransferAssumption ==
  /\ USB_NAK_LIMIT \in Nat \ {0} /\ USB_RETRY_LIMIT \in Nat \ {0}
  /\ nbytes \in Nat \ {0} /\ maxpktsize \in Nat \ {0}
  /\ ReportSize \in 1 .. maxpktsize
  /\ MaxReports \in Nat

VARIABLES
  made,              \* reports the device has made
  acked,             \* reports it knows to have arrived
  devToggle,         \* the toggle of the report it sends next
  RCVTOG,            \* the toggle the chip expects
  HXFR,              \* the transaction: "idle", "active", "done" (HXFRDNIRQ)
  HRSLT,             \* how the last one ended
  RCVFIFO,           \* the report received, 0 for none: RCVDAVIRQ
  pc,
  nak_count, retry_count, xfrlen,
  data,              \* the report at the start of the caller's buffer
  rcvToggle,         \* the endpoint record's copy
  rcode,             \* of the last poll
  got                \* the last report a poll has handed to the main loop

device == <<made, acked, devToggle>>
chip == <<RCVTOG, HXFR, HRSLT, RCVFIFO>>
counts == <<nak_count, retry_count>>
vars == <<device, chip, pc, counts, xfrlen, data, rcvToggle, rcode, got>>

Results == {"SUCCESS", "NAK", "TIMEOUT", "TOGERR", "CRCERR"}

TransferTypeOK ==
  /\ made \in Nat /\ acked \in Nat /\ got \in Nat
  /\ devToggle \in 0 .. 1 /\ RCVTOG \in 0 .. 1 /\ rcvToggle \in 0 .. 1
  /\ HXFR \in {"idle", "active", "done"} /\ HRSLT \in Results
  /\ RCVFIFO \in Nat /\ data \in Nat
  /\ pc \in {"poll", "launch", "wait", "read"}
  /\ nak_count \in 0 .. USB_NAK_LIMIT - 1
  /\ retry_count \in 0 .. USB_RETRY_LIMIT - 1
  /\ xfrlen \in Nat
  /\ rcode \in Results \cup {"RCVERR"}

\* Just configured: HID_init and the device's own reset of its endpoint have
\* set both toggles to 0.
Init ==
  /\ made = 0 /\ acked = 0 /\ devToggle = 0
  /\ RCVTOG = 0 /\ HXFR = "idle" /\ HRSLT = "SUCCESS" /\ RCVFIFO = 0
  /\ pc = "poll" /\ nak_count = 0 /\ retry_count = 0 /\ xfrlen = 0
  /\ data = 0 /\ rcvToggle = 0 /\ rcode = "SUCCESS" /\ got = 0
-----------------------------------------------------------------------------
(***************************************************************************)
(* The device and the bus                                                  *)
(***************************************************************************)
MakeReport ==
  /\ made < MaxReports /\ made' = made + 1
  /\ UNCHANGED <<acked, devToggle, chip, pc, counts, xfrlen, data, rcvToggle, rcode, got>>

Ends(result) ==
  /\ HXFR = "active" /\ HXFR' = "done"
  /\ HRSLT' = result
  /\ UNCHANGED <<made, pc, counts, xfrlen, data, rcvToggle, rcode, got>>

NothingToSend ==
  /\ acked = made
  /\ Ends("NAK")
  /\ UNCHANGED <<acked, devToggle, RCVTOG, RCVFIFO>>

\* The token or the data did not arrive, or arrived spoilt.
PacketLost ==
  /\ \/ Ends("TIMEOUT")
     \/ acked < made /\ Ends("CRCERR")
  /\ UNCHANGED <<acked, devToggle, RCVTOG, RCVFIFO>>

\* The chip acknowledges what it takes and what it has had before.  The device
\* goes on to its next report when the acknowledge reaches it.
DataArrives(acknowledged) ==
  /\ acked < made
  /\ IF devToggle = RCVTOG
     THEN Ends("SUCCESS") /\ RCVFIFO' = acked + 1 /\ RCVTOG' = 1 - RCVTOG
     ELSE Ends("TOGERR") /\ UNCHANGED <<RCVFIFO, RCVTOG>>
  /\ IF acknowledged
     THEN acked' = acked + 1 /\ devToggle' = 1 - devToggle
     ELSE UNCHANGED <<acked, devToggle>>

Transaction ==
  NothingToSend \/ PacketLost \/ \E acknowledged \in BOOLEAN : DataArrives(acknowledged)
-----------------------------------------------------------------------------
(***************************************************************************)
(* The firmware                                                            *)
(***************************************************************************)
Return(code) == pc' = "poll" /\ rcode' = code

NewDispatch == pc' = "launch" /\ nak_count' = 0 /\ retry_count' = 0

\* Mutant: every transfer starts from toggle 0.
PollWithoutToggle ==
  /\ pc = "poll"
  /\ RCVTOG' = 0
  /\ xfrlen' = 0
  /\ NewDispatch
  /\ UNCHANGED <<device, HXFR, HRSLT, RCVFIFO, data, rcvToggle, rcode, got>>

\* kbdPoll, mousePoll: the transfer starts from the saved toggle.
Poll ==
  /\ pc = "poll"
  /\ RCVTOG' = rcvToggle
  /\ xfrlen' = 0
  /\ NewDispatch
  /\ UNCHANGED <<device, HXFR, HRSLT, RCVFIFO, data, rcvToggle, rcode, got>>

Launch ==
  /\ pc = "launch" /\ pc' = "wait"
  /\ HXFR' = "active"
  /\ UNCHANGED <<device, RCVTOG, HRSLT, RCVFIFO, counts, xfrlen, data, rcvToggle, rcode, got>>

Done(result) ==
  /\ pc = "wait"
  /\ HXFR = "done" /\ HXFR' = "idle"
  /\ HRSLT = result
  /\ UNCHANGED <<device, RCVTOG, HRSLT, RCVFIFO, xfrlen, data, rcvToggle, got>>

\* Mutant: the limit is passed by one.
NakLate ==
  /\ Done("NAK")
  /\ IF nak_count = USB_NAK_LIMIT
     THEN Return("NAK") /\ UNCHANGED counts
     ELSE nak_count' = nak_count + 1 /\ pc' = "launch" /\ UNCHANGED <<retry_count, rcode>>

\* Mutant: the count of NAKs is never looked at.
NakForever ==
  /\ Done("NAK")
  /\ pc' = "launch"
  /\ UNCHANGED <<counts, rcode>>

Nak ==
  /\ Done("NAK")
  /\ IF nak_count + 1 = USB_NAK_LIMIT
     THEN Return("NAK") /\ UNCHANGED counts
     ELSE nak_count' = nak_count + 1 /\ pc' = "launch" /\ UNCHANGED <<retry_count, rcode>>

Timeout ==
  /\ Done("TIMEOUT")
  /\ IF retry_count + 1 = USB_RETRY_LIMIT
     THEN Return("TIMEOUT") /\ UNCHANGED counts
     ELSE retry_count' = retry_count + 1 /\ pc' = "launch" /\ UNCHANGED <<nak_count, rcode>>

Failed ==
  /\ \E error \in {"TOGERR", "CRCERR"} : Done(error) /\ Return(error)
  /\ UNCHANGED counts

Received ==
  /\ Done("SUCCESS")
  /\ pc' = "read"
  /\ UNCHANGED <<counts, rcode>>

\* A short packet, or all that was asked for.
Complete(length) == ReportSize < maxpktsize \/ length >= nbytes

Take ==
  /\ RCVFIFO' = 0
  /\ data' = IF xfrlen = 0 THEN RCVFIFO ELSE data
  /\ xfrlen' = xfrlen + ReportSize

Succeed == rcvToggle' = RCVTOG /\ got' = data' /\ Return("SUCCESS") /\ UNCHANGED counts

GoOn == NewDispatch /\ UNCHANGED <<rcvToggle, got, rcode>>

\* Mutant: only a short packet ends a transfer.
ReadUntilShort ==
  /\ pc = "read"
  /\ Take
  /\ IF ReportSize < maxpktsize THEN Succeed ELSE GoOn
  /\ UNCHANGED <<device, RCVTOG, HXFR, HRSLT>>

Read ==
  /\ pc = "read"
  /\ IF RCVFIFO = 0
     THEN Return("RCVERR") /\ UNCHANGED <<RCVFIFO, counts, xfrlen, data, rcvToggle, got>>
     ELSE Take /\ IF Complete(xfrlen') THEN Succeed ELSE GoOn
  /\ UNCHANGED <<device, RCVTOG, HXFR, HRSLT>>

Firmware == Poll \/ Launch \/ Nak \/ Timeout \/ Failed \/ Received \/ Read

Next == MakeReport \/ Transaction \/ Firmware

Spec == Init /\ [][Next]_vars

\* The processor runs, the chip ends every transaction, and of the packets
\* sent for ever some arrive and are acknowledged.
FairSpec ==
  /\ Spec
  /\ WF_vars(Firmware) /\ WF_vars(Transaction)
  /\ SF_vars(DataArrives(TRUE))
-----------------------------------------------------------------------------
(***************************************************************************)
(* Properties                                                              *)
(***************************************************************************)
\* The main loop gets each report once and in order, whatever is lost on the
\* bus: neither a lost acknowledge nor a poll given up in the middle
\* (transfer.c:191-227) drops or repeats one.
Stream == INSTANCE ReportStream WITH made <- made, got <- got

StreamSpec == Stream!Spec

\* Of the reports the main loop and the chip's buffer hold, the device may not
\* know the last to have arrived.
Held == IF RCVFIFO = 0 THEN got ELSE got + 1

TogglesAgree ==
  /\ acked = IF devToggle = RCVTOG THEN Held ELSE Held - 1
  /\ RCVTOG = IF RCVFIFO = 0 THEN rcvToggle ELSE 1 - rcvToggle
  /\ acked <= made /\ Held <= made

\* A report is in the chip's buffer from the end of its transaction until Read.
ChipInStep ==
  /\ HXFR = "active" => pc = "wait"
  /\ RCVFIFO # 0 =>
       /\ RCVFIFO = got + 1
       /\ pc = "read" \/ (pc = "wait" /\ HXFR = "done" /\ HRSLT = "SUCCESS")

\* A transfer of one packet has nothing in the caller's buffer until it ends.
NothingYet == pc # "poll" \/ rcode # "SUCCESS" => xfrlen = 0

\* What every step keeps, of reports that are one packet and end the transfer.
TransferInv == TransferTypeOK /\ TogglesAgree /\ ChipInStep /\ NothingYet

OnePacket == ReportSize < maxpktsize \/ ReportSize >= nbytes

\* A poll that ends in a NAK has taken nothing from the device: kbdPoll's and
\* mousePoll's callers drop what is in the buffer then.
\* main.c:189 and 220: "NAK means no new data".
NakMeansNoNewData == pc = "poll" /\ rcode = "NAK" => xfrlen = 0

\* Every poll ends, the limits on NAKs and timeouts (transfer.c:166-183) see to
\* it, whatever the device does.
PollEnds == pc # "poll" ~> pc = "poll"

\* How many steps the firmware and the chip can still take for one packet: each
\* NAK and each timeout that is left may cost a launch, a transaction and a look
\* at its end.
StepsLeft ==
  4 * ((USB_NAK_LIMIT - nak_count) + (USB_RETRY_LIMIT - retry_count)) +
  CASE pc = "launch" -> 3
    [] pc = "wait" -> (IF HXFR = "active" THEN 2 ELSE 1)
    [] OTHER -> 0

\* Every step of a poll is one of those, or takes bytes of the nbytes asked for,
\* or ends it (transfer.c:152-184, 197-227).
PollShrinks ==
  [][ pc # "poll" /\ UNCHANGED made =>
        \/ pc' = "poll"
        \/ xfrlen < xfrlen' /\ xfrlen' < nbytes
        \/ xfrlen' = xfrlen /\ 0 <= StepsLeft' /\ StepsLeft' < StepsLeft ]_vars

\* Every report comes out of a poll in the end, after any number of failed
\* ones: the two toggles never settle into refusing each other.
AllDelivered == \A n \in 1 .. MaxReports : made >= n ~> got >= n
=============================================================================
