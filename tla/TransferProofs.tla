--------------------------- MODULE TransferProofs ---------------------------
(***************************************************************************)
(* The poll delivers what the device makes, once and in order, for every   *)
(* limit on NAKs and retries and every report that is one packet and ends  *)
(* the transfer.                                                           *)
(***************************************************************************)
EXTENDS Transfer, TLAPS

LEMMA InitInv == Init => TransferInv
BY TransferAssumption
DEF Init, TransferInv, TransferTypeOK, TogglesAgree, Held, ChipInStep, NothingYet, Results

\* The device and the bus: what arrives is either the report after the last
\* one the main loop has, and the chip's toggle moves, or one it has had.
LEMMA DeviceKeepsInv ==
  ASSUME TransferInv, MakeReport \/ Transaction
  PROVE  TransferInv'
<1> USE TransferAssumption
        DEF TransferInv, TransferTypeOK, TogglesAgree, Held, ChipInStep, NothingYet, Results
<1>1. CASE MakeReport
  BY <1>1 DEF MakeReport, chip, counts
<1>2. CASE NothingToSend \/ PacketLost
  BY <1>2 DEF NothingToSend, PacketLost, Ends, counts
<1>3. ASSUME NEW acknowledged \in BOOLEAN, DataArrives(acknowledged)
      PROVE  TransferInv'
  <2>1. HXFR = "active" /\ RCVFIFO = 0 /\ Held = got
    BY <1>3 DEF DataArrives, Ends
  <2>2. CASE devToggle = RCVTOG
    <3>1. acked = got /\ acked < made
      BY <1>3, <2>1, <2>2 DEF DataArrives
    <3>2. RCVFIFO' = got + 1 /\ RCVTOG' = 1 - RCVTOG /\ Ends("SUCCESS")
      BY <1>3, <2>2, <3>1 DEF DataArrives
    <3>3. IF acknowledged
          THEN acked' = acked + 1 /\ devToggle' = 1 - devToggle
          ELSE acked' = acked /\ devToggle' = devToggle
      BY <1>3 DEF DataArrives
    <3> QED
      BY <2>1, <2>2, <3>1, <3>2, <3>3 DEF Ends, counts
  <2>3. CASE devToggle # RCVTOG
    <3>1. acked + 1 = got /\ devToggle = 1 - RCVTOG
      BY <2>1, <2>3
    <3>2. UNCHANGED <<RCVFIFO, RCVTOG>> /\ Ends("TOGERR")
      BY <1>3, <2>3 DEF DataArrives
    <3>3. IF acknowledged
          THEN acked' = acked + 1 /\ devToggle' = 1 - devToggle
          ELSE acked' = acked /\ devToggle' = devToggle
      BY <1>3 DEF DataArrives
    <3> QED
      BY <2>1, <2>3, <3>1, <3>2, <3>3 DEF Ends, counts
  <2> QED
    BY <2>2, <2>3
<1> QED
  BY <1>1, <1>2, <1>3 DEF Transaction

\* The firmware: a dispatch loop never leaves with a report in the chip, and
\* Read moves report and toggle together.
LEMMA FirmwareKeepsInv ==
  ASSUME OnePacket, TransferInv, Firmware
  PROVE  TransferInv'
<1> USE TransferAssumption
        DEF TransferInv, TransferTypeOK, TogglesAgree, Held, ChipInStep, NothingYet, Results
<1>1. CASE Poll
  BY <1>1 DEF Poll, NewDispatch, device
<1>2. CASE Launch
  BY <1>2 DEF Launch, device, counts
<1>3. CASE Nak
  BY <1>3 DEF Nak, Done, Return, device, counts
<1>4. CASE Timeout
  BY <1>4 DEF Timeout, Done, Return, device, counts
<1>5. CASE Failed
  BY <1>5 DEF Failed, Done, Return, device, counts
<1>6. CASE Received
  BY <1>6 DEF Received, Done, device, counts
<1>7. CASE Read
  <2>1. pc = "read" /\ xfrlen = 0 /\ HXFR # "active"
    BY <1>7 DEF Read
  <2>2. CASE RCVFIFO = 0
    BY <1>7, <2>1, <2>2 DEF Read, Return, device, counts
  <2>3. CASE RCVFIFO # 0
    <3>1. Complete(xfrlen') /\ xfrlen' \in Nat
      BY <1>7, <2>1, <2>3 DEF Read, Take, Complete, OnePacket
    <3>2. Take /\ Succeed
      BY <1>7, <2>3, <3>1 DEF Read
    <3>3. got' = got + 1 /\ RCVFIFO' = 0 /\ rcvToggle' = RCVTOG
      BY <2>1, <2>3, <3>2 DEF Take, Succeed
    <3> QED
      BY <1>7, <2>1, <2>3, <3>1, <3>2, <3>3 DEF Read, Take, Succeed, Return, device, counts
  <2> QED
    BY <2>2, <2>3
<1> QED
  BY <1>1, <1>2, <1>3, <1>4, <1>5, <1>6, <1>7 DEF Firmware

\* Device, chip and firmware stay in step (transfer.c:191-227): the toggles
\* agree but for one report whose acknowledge was lost.
THEOREM TransferInvariant ==
  ASSUME OnePacket
  PROVE  Spec => []TransferInv
<1>1. Init => TransferInv
  BY InitInv
<1>2. TransferInv /\ [Next]_vars => TransferInv'
  <2> SUFFICES ASSUME TransferInv, [Next]_vars PROVE TransferInv'
    OBVIOUS
  <2>1. CASE Next
    BY <2>1, OnePacket, DeviceKeepsInv, FirmwareKeepsInv DEF Next
  <2>2. CASE UNCHANGED vars
    BY <2>2 DEF vars, device, chip, counts,
      TransferInv, TransferTypeOK, TogglesAgree, Held, ChipInStep, NothingYet
  <2> QED
    BY <2>1, <2>2
<1> QED
  BY <1>1, <1>2, PTL DEF Spec

\* A poll that ends in a NAK has taken nothing from the device.
THEOREM NakTakesNothing ==
  ASSUME OnePacket
  PROVE  Spec => []NakMeansNoNewData
<1>1. TransferInv => NakMeansNoNewData
  BY DEF TransferInv, NothingYet, NakMeansNoNewData
<1> QED
  BY <1>1, OnePacket, TransferInvariant, PTL

\* No report is lost, repeated or handed over out of order.
THEOREM PollsRefineStream ==
  ASSUME OnePacket
  PROVE  Spec => StreamSpec
<1>1. Init => Stream!Init
  BY DEF Init, Stream!Init
<1>2. TransferInv /\ [Next]_vars => [Stream!Next]_<<made, got>>
  <2> SUFFICES ASSUME TransferInv, [Next]_vars
               PROVE  [Stream!Next]_<<made, got>>
    OBVIOUS
  <2>1. CASE MakeReport
    BY <2>1 DEF MakeReport, Stream!Next, Stream!Make
  <2>2. CASE Transaction
    BY <2>2 DEF Transaction, NothingToSend, PacketLost, DataArrives, Ends
  <2>3. CASE Read
    <3>1. made' = made
      BY <2>3 DEF Read, device
    <3>2. CASE RCVFIFO = 0 \/ ~Complete(xfrlen')
      BY <2>3, <3>1, <3>2 DEF Read, GoOn
    <3>3. CASE RCVFIFO # 0 /\ Complete(xfrlen')
      <4>1. Take /\ Succeed
        BY <2>3, <3>3 DEF Read
      <4>2. got' = got + 1 /\ got < made
        BY <4>1, <3>3, <2>3 DEF Read, Take, Succeed, TransferInv, TransferTypeOK,
          TogglesAgree, Held, ChipInStep, NothingYet
      <4> QED
        BY <3>1, <4>2 DEF Stream!Next, Stream!Deliver
    <3> QED
      BY <3>2, <3>3
  <2>4. CASE Poll \/ Launch \/ Nak \/ Timeout \/ Failed \/ Received
    BY <2>4 DEF Poll, Launch, Nak, Timeout, Failed, Received, Done, device
  <2>5. CASE UNCHANGED vars
    BY <2>5 DEF vars, device
  <2> QED
    BY <2>1, <2>2, <2>3, <2>4, <2>5 DEF Next, Firmware
<1> QED
  BY <1>1, <1>2, OnePacket, TransferInvariant, PTL DEF Spec, StreamSpec, Stream!Spec

\* What every step keeps of reports of any size.
WaitInv == TransferTypeOK /\ (HXFR = "active" => pc = "wait")

LEMMA WaitInvKept ==
  ASSUME WaitInv, [Next]_vars
  PROVE  WaitInv'
<1> USE TransferAssumption DEF WaitInv, TransferTypeOK, Results
<1>1. CASE MakeReport
  BY <1>1 DEF MakeReport, chip, counts
<1>2. CASE NothingToSend \/ PacketLost
  BY <1>2 DEF NothingToSend, PacketLost, Ends, counts
<1>3. ASSUME NEW acknowledged \in BOOLEAN, DataArrives(acknowledged)
      PROVE  WaitInv'
  BY <1>3 DEF DataArrives, Ends, counts
<1>4. CASE Poll
  BY <1>4 DEF Poll, NewDispatch, device
<1>5. CASE Launch
  BY <1>5 DEF Launch, device, counts
<1>6. CASE Nak \/ Timeout \/ Failed \/ Received
  BY <1>6 DEF Nak, Timeout, Failed, Received, Done, Return, device, counts
<1>7. CASE Read
  <2>1. /\ RCVFIFO' \in Nat /\ data' \in Nat /\ xfrlen' \in Nat /\ got' \in Nat
        /\ rcvToggle' \in 0 .. 1
    BY <1>7 DEF Read, Take, Succeed, GoOn, Return
  <2>2. /\ nak_count' \in 0 .. USB_NAK_LIMIT - 1
        /\ retry_count' \in 0 .. USB_RETRY_LIMIT - 1
        /\ pc' \in {"poll", "launch"} /\ rcode' \in Results \cup {"RCVERR"}
    BY <1>7 DEF Read, Succeed, GoOn, NewDispatch, Return, counts
  <2> QED
    BY <1>7, <2>1, <2>2 DEF Read, device
<1>8. CASE UNCHANGED vars
  BY <1>8 DEF vars, device, chip, counts
<1> QED
  BY <1>1, <1>2, <1>3, <1>4, <1>5, <1>6, <1>7, <1>8 DEF Next, Transaction, Firmware

\* A packet's steps are counted down by everything that happens to it.
LEMMA PacketShrinks ==
  ASSUME WaitInv, pc # "poll", Transaction \/ Launch \/ Nak \/ Timeout \/ Received
  PROVE  pc' = "poll" \/ (0 <= StepsLeft' /\ StepsLeft' < StepsLeft)
<1> USE TransferAssumption DEF WaitInv, TransferTypeOK
<1>1. CASE Transaction
  <2>1. HXFR = "active" /\ HXFR' = "done" /\ UNCHANGED <<pc, counts>>
    BY <1>1 DEF Transaction, NothingToSend, PacketLost, DataArrives, Ends
  <2> QED
    BY <2>1 DEF StepsLeft, counts
<1>2. CASE Launch
  BY <1>2 DEF Launch, StepsLeft, counts
<1>3. CASE Nak
  BY <1>3 DEF Nak, Done, Return, StepsLeft
<1>4. CASE Timeout
  BY <1>4 DEF Timeout, Done, Return, StepsLeft
<1>5. CASE Received
  BY <1>5 DEF Received, Done, StepsLeft, counts
<1> QED
  BY <1>1, <1>2, <1>3, <1>4, <1>5

\* A poll has a bounded number of steps to take, for reports of any size
\* (transfer.c:152-184, 197-227): what is left of PollEnds is that the
\* processor and the chip take them.
THEOREM PollsShrink == Spec => PollShrinks
<1>1. Init => WaitInv
  BY TransferAssumption DEF Init, WaitInv, TransferTypeOK, Results
<1>2. ASSUME WaitInv, Next, pc # "poll", UNCHANGED made
      PROVE  \/ pc' = "poll"
             \/ xfrlen < xfrlen' /\ xfrlen' < nbytes
             \/ xfrlen' = xfrlen /\ 0 <= StepsLeft' /\ StepsLeft' < StepsLeft
  <2>1. CASE Transaction \/ Launch \/ Nak \/ Timeout \/ Received
    <3>1. xfrlen' = xfrlen
      BY <2>1 DEF Transaction, NothingToSend, PacketLost, DataArrives, Ends,
        Launch, Nak, Timeout, Received, Done
    <3> QED
      BY <1>2, <2>1, <3>1, PacketShrinks
  <2>2. CASE Poll \/ Failed \/ MakeReport
    BY <1>2, <2>2 DEF Poll, Failed, Return, MakeReport, WaitInv, TransferTypeOK
  <2>3. CASE Read
    <3>1. CASE RCVFIFO = 0 \/ Complete(xfrlen')
      BY <2>3, <3>1 DEF Read, Succeed, Return
    <3>2. CASE RCVFIFO # 0 /\ ~Complete(xfrlen')
      <4>1. xfrlen \in Nat /\ xfrlen' = xfrlen + ReportSize
        BY <1>2, <2>3, <3>2 DEF Read, Take, WaitInv, TransferTypeOK
      <4> QED
        BY <3>2, <4>1, TransferAssumption DEF Complete
    <3> QED
      BY <3>1, <3>2
  <2> QED
    BY <1>2, <2>1, <2>2, <2>3 DEF Next, Firmware
<1>3. WaitInv /\ [Next]_vars => WaitInv'
  BY WaitInvKept
<1>4. WaitInv /\ [Next]_vars =>
        [ pc # "poll" /\ UNCHANGED made =>
            \/ pc' = "poll"
            \/ xfrlen < xfrlen' /\ xfrlen' < nbytes
            \/ xfrlen' = xfrlen /\ 0 <= StepsLeft' /\ StepsLeft' < StepsLeft ]_vars
  BY <1>2
<1> QED
  BY <1>1, <1>3, <1>4, PTL DEF Spec, PollShrinks
=============================================================================
