--------------------------- MODULE ControlProofs ----------------------------
(***************************************************************************)
(* Control transfers, for every packet size, every set of requests and     *)
(* every limit on retries: a request that reports success is the one the   *)
(* device has served, and one that fails has a cause on the bus.           *)
(***************************************************************************)
EXTENDS Control, SequenceTheorems, TLAPS

Codes == {"SUCCESS", "NAK", "TIMEOUT", "TOGERR", "CRCERR", "RCVERR"}

ControlTypeOK ==
  /\ RCVTOG \in 0 .. 1 /\ devToggle \in 0 .. 1
  /\ RCVFIFO \in Nat /\ xfrlen \in Nat /\ sent \in Nat
  /\ id \in Nat /\ devId \in Nat
  /\ request \in Requests
  /\ data \in Seq(Nat)

\* The packets 1 .. n, whole and in order.
Prefix(n) == [k \in 1 .. n |-> k]
Taken == Len(data)
Held == IF RCVFIFO = 0 THEN Taken ELSE Taken + 1
Bytes(n) == IF n <= Full THEN n * maxpktsize ELSE request.reply

\* A stage has just succeeded: in the chip, and for its caller.
Arrived == HXFR = "done" /\ HRSLT = "SUCCESS"
Succeeded == pc = "poll" /\ rcode = "SUCCESS"

\* A transaction runs while the dispatch waits for it, and a packet is in the
\* buffer from its arrival until it is read.
ChipInv ==
  /\ stage = "none" => pc = "poll"
  /\ HXFR # "idle" => pc = "wait"
  /\ pc = "read" => stage = "data"
  /\ RCVFIFO # 0 <=> stage = "data" /\ (pc = "read" \/ Arrived)
  /\ RCVFIFO # 0 => RCVFIFO = Taken + 1

CauseInv ==
  /\ HXFR = "done" /\ HRSLT \notin {"SUCCESS", "NAK", "TIMEOUT"} => spoilt
  /\ pc = "poll" /\ rcode \notin {"SUCCESS", "NAK", "TIMEOUT"} => spoilt

\* What the device is at, once it has the SETUP of this request.
DeviceInv ==
  /\ devId <= id
  /\ devId = id /\ stage # "none" =>
       /\ request.asked = 0 => devStage \in {"act", "status"}
       /\ request.asked # 0 /\ stage # "status" => devStage = "data"
  /\ devId = id /\ id > 0 /\ request.asked = 0 /\ devStage = "status" => carriedOut = id
  /\ stage = "setup" /\ (Arrived \/ Succeeded) => devId = id
  /\ stage \in {"data", "status"} => devId = id
  /\ stage = "status" /\ (Arrived \/ Succeeded) => devStage = "status"
  /\ stage # "none" => id > 0

\* How far the reply has come.  The two toggles tell whether the device knows
\* that the last packet has arrived; it may not only after a lost acknowledge.
ReplyInv ==
  /\ data = Prefix(Taken)
  /\ stage = "setup" =>
       /\ Taken = 0
       /\ devId = id => sent = 0 /\ devToggle = 1
  /\ stage = "data" =>
       /\ request.asked # 0
       /\ sent = IF devToggle = RCVTOG THEN Held ELSE Held - 1
       /\ ~spoilt => devToggle = RCVTOG
       /\ Held <= Packets
       /\ xfrlen = Bytes(Taken)
       /\ Succeeded => Taken = Packets
  /\ stage = "status" => Taken = IF request.asked = 0 THEN 0 ELSE Packets

IInv == ControlTypeOK /\ ChipInv /\ CauseInv /\ DeviceInv /\ ReplyInv /\ SuccessIsWhole
-----------------------------------------------------------------------------
(***************************************************************************)
(* The reply and its packets                                               *)
(***************************************************************************)
LEMMA Division ==
  ASSUME NEW r \in Nat, NEW m \in Nat \ {0}
  PROVE  /\ r \div m \in Nat /\ r % m \in Nat /\ r % m < m
         /\ r = (r \div m) * m + (r % m)
<1>1. r % m \in 0 .. m - 1
  OBVIOUS
<1>2. r \div m \in Int /\ r = m * (r \div m) + (r % m)
  OBVIOUS
<1>3. r \div m >= 0
  OBVIOUS
<1> QED  BY <1>1, <1>2, <1>3

LEMMA PacketFacts ==
  ASSUME request \in Requests
  PROVE  /\ request.asked \in Nat /\ request.reply \in Nat /\ maxpktsize \in Nat \ {0}
         /\ request.reply <= request.asked
         /\ Full \in Nat /\ Rest \in Nat /\ Rest < maxpktsize
         /\ request.reply = Full * maxpktsize + Rest
         /\ Packets \in Nat /\ Packets \in {Full, Full + 1}
<1>1. /\ request.asked \in Nat /\ request.reply \in Nat /\ maxpktsize \in Nat \ {0}
      /\ request.reply <= request.asked
  BY ControlAssumption
<1>2. /\ Full \in Nat /\ Rest \in Nat /\ Rest < maxpktsize
      /\ request.reply = Full * maxpktsize + Rest
  BY <1>1, Division DEF Full, Rest
<1> QED  BY <1>1, <1>2 DEF Packets

\* Products of the packet size, which the solver does not compare by itself.
LEMMA Multiples ==
  ASSUME NEW m \in Nat \ {0}, NEW a \in Nat, NEW b \in Nat
  PROVE  /\ a * m \in Nat /\ (a + 1) * m = a * m + m
         /\ a < b => a * m < b * m
<1>1. a * m \in Nat /\ b * m \in Nat /\ (a + 1) * m = a * m + m
  OBVIOUS
<1>2. ASSUME a < b PROVE a * m < b * m
  <2>1. PICK d \in Nat \ {0} : b = a + d
    <3>1. b - a \in Nat \ {0} /\ b = a + (b - a)
      BY <1>2
    <3> QED  BY <3>1
  <2>2. b * m = a * m + d * m
    BY <2>1
  <2>3. d * m \in Nat /\ d * m > 0
    OBVIOUS
  <2> QED  BY <1>1, <2>2, <2>3
<1> QED  BY <1>1, <1>2

\* XferInTransfer counts the bytes right and stops at the last packet, neither
\* before nor after.
LEMMA StopsAtLast ==
  ASSUME request \in Requests, NEW n \in Nat, n + 1 <= Packets
  PROVE  /\ Bytes(n) \in Nat /\ Length(n + 1) \in Nat
         /\ Bytes(n + 1) = Bytes(n) + Length(n + 1)
         /\ Complete(n + 1, Bytes(n + 1)) <=> n + 1 = Packets
<1>1. /\ request.asked \in Nat /\ request.reply \in Nat /\ maxpktsize \in Nat \ {0}
      /\ request.reply <= request.asked
      /\ Full \in Nat /\ Rest \in Nat /\ Rest < maxpktsize
      /\ request.reply = Full * maxpktsize + Rest
      /\ Packets = Full \/ Packets = Full + 1
  BY PacketFacts
<1>2. /\ n * maxpktsize \in Nat /\ (n + 1) * maxpktsize = n * maxpktsize + maxpktsize
      /\ Full * maxpktsize \in Nat
      /\ n + 1 < Full => (n + 1) * maxpktsize < Full * maxpktsize
  BY <1>1, Multiples
<1>3. CASE n + 1 <= Full
  <2>1. /\ Bytes(n) = n * maxpktsize /\ Length(n + 1) = maxpktsize
        /\ Bytes(n + 1) = (n + 1) * maxpktsize
    BY <1>1, <1>3 DEF Bytes, Length
  <2>2. Complete(n + 1, Bytes(n + 1)) <=> (n + 1) * maxpktsize >= request.asked
    BY <1>1, <2>1 DEF Complete
  <2>3. CASE n + 1 = Packets
    <3>1. Rest = 0 /\ request.reply = request.asked /\ n + 1 = Full
      BY <1>1, <1>3, <2>3 DEF Packets
    <3> QED  BY <1>1, <1>2, <2>1, <2>2, <2>3, <3>1
  <2>4. CASE n + 1 # Packets
    <3>1. (n + 1) * maxpktsize < request.asked
      <4>1. CASE n + 1 < Full
        BY <1>1, <1>2, <4>1
      <4>2. CASE n + 1 = Full
        <5>1. Rest > 0 \/ request.reply < request.asked
          BY <1>1, <2>4, <4>2 DEF Packets
        <5> QED  BY <1>1, <1>2, <4>2, <5>1
      <4> QED  BY <1>1, <1>3, <4>1, <4>2
    <3> QED  BY <1>1, <1>2, <2>1, <2>2, <2>4, <3>1
  <2> QED  BY <2>3, <2>4
<1>4. CASE n + 1 > Full
  <2>1. n = Full /\ Packets = n + 1
    BY <1>1, <1>4
  <2>2. Bytes(n) = Full * maxpktsize /\ Length(n + 1) = Rest /\ Bytes(n + 1) = request.reply
    BY <1>1, <1>4, <2>1 DEF Bytes, Length
  <2> QED  BY <1>1, <1>2, <2>1, <2>2 DEF Complete
<1> QED  BY <1>1, <1>3, <1>4

LEMMA PrefixFacts ==
  ASSUME NEW n \in Nat
  PROVE  /\ Prefix(n) \in Seq(Nat) /\ Len(Prefix(n)) = n
         /\ Append(Prefix(n), n + 1) = Prefix(n + 1)
         /\ Prefix(0) = <<>>
  BY DEF Prefix
-----------------------------------------------------------------------------
(***************************************************************************)
(* What the steps do                                                       *)
(***************************************************************************)
LEMMA SameReply ==
  ASSUME request' = request
  PROVE  /\ Full' = Full /\ Rest' = Rest /\ Packets' = Packets
         /\ \A n : Bytes(n)' = Bytes(n)
  BY DEF Full, Rest, Packets, Bytes

LEMMA BusStep ==
  ASSUME Transaction
  PROVE  /\ HXFR = "active" /\ HXFR' = "done"
         /\ UNCHANGED <<pc, rcode, xfrlen, stage, request, id, data>>
  BY DEF Transaction, Lost, Spoilt, Busy, SetupArrives, DataArrives, StatusArrives, Ends,
         dispatch, progress

\* One packet, tried until it comes through, fails, or has run out of tries.
LEMMA DispatchStep ==
  ASSUME XferDispatchPkt
  PROVE  /\ UNCHANGED <<RCVTOG, HRSLT, RCVFIFO, xfrlen, progress, data, device, spoilt>>
         /\ \/ pc = "launch" /\ pc' = "wait" /\ HXFR' = "active" /\ rcode' = rcode
            \/ /\ pc = "wait" /\ HXFR = "done" /\ HXFR' = "idle"
               /\ \/ HRSLT # "SUCCESS" /\ pc' = "launch" /\ rcode' = rcode
                  \/ HRSLT # "SUCCESS" /\ pc' = "poll" /\ rcode' = HRSLT
                  \/ HRSLT = "SUCCESS" /\ stage = "data" /\ pc' = "read" /\ rcode' = rcode
                  \/ HRSLT = "SUCCESS" /\ stage # "data" /\ pc' = "poll" /\ rcode' = HRSLT
<1>1. CASE Pkt!Launch /\ UNCHANGED <<progress, data, device, spoilt>>
  BY <1>1 DEF Pkt!Launch
<1>2. CASE (Pkt!Nak \/ Pkt!Timeout \/ Pkt!Failed) /\ UNCHANGED <<progress, data, device, spoilt>>
  BY <1>2 DEF Pkt!Nak, Pkt!Timeout, Pkt!Failed, Pkt!Done, Pkt!Return
<1>3. CASE stage = "data" /\ Pkt!Received /\ UNCHANGED <<progress, data, device, spoilt>>
  BY <1>3 DEF Pkt!Received, Pkt!Done
<1>4. CASE /\ stage # "data" /\ Pkt!Done("SUCCESS") /\ Pkt!Return("SUCCESS")
           /\ UNCHANGED <<progress, data, device, spoilt>>
  BY <1>4 DEF Pkt!Done, Pkt!Return
<1> QED  BY <1>1, <1>2, <1>3, <1>4 DEF XferDispatchPkt
-----------------------------------------------------------------------------
(***************************************************************************)
(* The bus and the device keep the invariant.                              *)
(***************************************************************************)
LEMMA BusTypes ==
  ASSUME IInv, Transaction
  PROVE  ControlTypeOK'
<1>1. UNCHANGED <<xfrlen, request, id, data>>
  BY BusStep
<1>2. /\ RCVTOG \in 0 .. 1 /\ devToggle \in 0 .. 1 /\ RCVFIFO \in Nat /\ sent \in Nat
      /\ devId \in Nat /\ id \in Nat
  BY DEF IInv, ControlTypeOK
<1>3. /\ RCVTOG' \in 0 .. 1 /\ devToggle' \in 0 .. 1 /\ RCVFIFO' \in Nat /\ sent' \in Nat
      /\ devId' \in Nat
  <2>1. CASE Lost \/ Spoilt \/ Busy
    BY <1>2, <2>1 DEF Lost, Spoilt, Busy, device
  <2>2. ASSUME NEW ack \in BOOLEAN, SetupArrives(ack)
        PROVE  /\ RCVTOG' \in 0 .. 1 /\ devToggle' \in 0 .. 1 /\ RCVFIFO' \in Nat
               /\ sent' \in Nat /\ devId' \in Nat
    BY <1>2, <2>2 DEF SetupArrives
  <2>3. ASSUME NEW ack \in BOOLEAN, DataArrives(ack)
        PROVE  /\ RCVTOG' \in 0 .. 1 /\ devToggle' \in 0 .. 1 /\ RCVFIFO' \in Nat
               /\ sent' \in Nat /\ devId' \in Nat
    BY <1>2, <2>3 DEF DataArrives
  <2>4. ASSUME NEW ack \in BOOLEAN, StatusArrives(ack)
        PROVE  /\ RCVTOG' \in 0 .. 1 /\ devToggle' \in 0 .. 1 /\ RCVFIFO' \in Nat
               /\ sent' \in Nat /\ devId' \in Nat
    BY <1>2, <2>4 DEF StatusArrives
  <2> QED  BY <2>1, <2>2, <2>3, <2>4 DEF Transaction
<1> QED  BY <1>1, <1>3 DEF IInv, ControlTypeOK

\* A transaction that brings neither a packet nor a success.
LEMMA BusFailureKept ==
  ASSUME IInv, Lost \/ Spoilt \/ Busy
  PROVE  ChipInv' /\ CauseInv' /\ DeviceInv' /\ ReplyInv' /\ SuccessIsWhole'
<1>1. /\ HXFR = "active" /\ HXFR' = "done" /\ HRSLT' # "SUCCESS"
      /\ HRSLT' \in {"NAK", "TIMEOUT"} \/ spoilt'
      /\ UNCHANGED <<RCVTOG, RCVFIFO, pc, rcode, xfrlen, stage, request, id, data,
                     devId, devStage, sent, devToggle, carriedOut>>
      /\ spoilt => spoilt'
  BY DEF Lost, Spoilt, Busy, Ends, dispatch, progress, device
<1>2. pc = "wait" /\ RCVFIFO = 0 /\ ~Arrived' /\ ~Succeeded'
  BY <1>1 DEF IInv, ChipInv, Arrived, Succeeded
<1>3. Packets' = Packets /\ Bytes(Taken)' = Bytes(Taken) /\ Held' = Held /\ Taken' = Taken
  BY <1>1, SameReply DEF Held, Taken
<1>4. ChipInv'
  BY <1>1, <1>2, <1>3 DEF IInv, ChipInv
<1>5. CauseInv'
  BY <1>1, <1>2 DEF CauseInv
<1>6. DeviceInv'
  BY <1>1, <1>2 DEF IInv, DeviceInv
<1>7. ReplyInv'
  BY <1>1, <1>2, <1>3 DEF IInv, ReplyInv, Prefix
<1>8. SuccessIsWhole'
  BY <1>1, <1>2 DEF IInv, ChipInv, SuccessIsWhole, Returned
<1> QED  BY <1>4, <1>5, <1>6, <1>7, <1>8

LEMMA SetupKept ==
  ASSUME IInv, NEW ack \in BOOLEAN, SetupArrives(ack)
  PROVE  ChipInv' /\ CauseInv' /\ DeviceInv' /\ ReplyInv' /\ SuccessIsWhole'
<1>1. /\ stage = "setup" /\ HXFR = "active" /\ HXFR' = "done"
      /\ HRSLT' \in {"SUCCESS", "TIMEOUT"}
      /\ devId' = id /\ sent' = 0 /\ devToggle' = 1
      /\ devStage' = IF request.asked = 0 THEN "act" ELSE "data"
      /\ UNCHANGED <<RCVTOG, RCVFIFO, pc, rcode, xfrlen, stage, request, id, data,
                     carriedOut, spoilt>>
  BY DEF SetupArrives, Ends, dispatch, progress
<1>2. pc = "wait" /\ RCVFIFO = 0 /\ ~Succeeded'
  BY <1>1 DEF IInv, ChipInv, Arrived, Succeeded
<1>3. Taken' = Taken /\ id \in Nat
  BY <1>1 DEF Taken, IInv, ControlTypeOK
<1>4. ChipInv'
  BY <1>1, <1>2, <1>3 DEF IInv, ChipInv
<1>5. CauseInv'
  BY <1>1, <1>2 DEF CauseInv
<1>6. DeviceInv'
  BY <1>1, <1>2, <1>3 DEF IInv, DeviceInv
<1>7. ReplyInv'
  BY <1>1, <1>2, <1>3 DEF IInv, ReplyInv, Prefix
<1>8. SuccessIsWhole'
  BY <1>1 DEF SuccessIsWhole, Returned
<1> QED  BY <1>4, <1>5, <1>6, <1>7, <1>8

LEMMA DataKept ==
  ASSUME IInv, NEW ack \in BOOLEAN, DataArrives(ack)
  PROVE  ChipInv' /\ CauseInv' /\ DeviceInv' /\ ReplyInv' /\ SuccessIsWhole'
<1>1. /\ stage = "data" /\ HXFR = "active" /\ HXFR' = "done" /\ sent < Packets
      /\ UNCHANGED <<pc, rcode, xfrlen, stage, request, id, data, devId, devStage, carriedOut>>
      /\ ~spoilt' => ~spoilt /\ ack
      /\ spoilt => spoilt'
  BY DEF DataArrives, Ends, dispatch, progress
<1>2. /\ IF devToggle = RCVTOG
         THEN HRSLT' = "SUCCESS" /\ RCVFIFO' = sent + 1 /\ RCVTOG' = 1 - RCVTOG
         ELSE HRSLT' = "TOGERR" /\ RCVFIFO' = RCVFIFO /\ RCVTOG' = RCVTOG
      /\ IF ack THEN sent' = sent + 1 /\ devToggle' = 1 - devToggle
                ELSE sent' = sent /\ devToggle' = devToggle
  BY DEF DataArrives, Ends
<1>3. pc = "wait" /\ RCVFIFO = 0 /\ ~Succeeded' /\ Held = Taken
  BY <1>1 DEF IInv, ChipInv, Arrived, Succeeded, Held
<1>4. /\ Taken' = Taken /\ Taken \in Nat /\ sent \in Nat
      /\ RCVTOG \in 0 .. 1 /\ devToggle \in 0 .. 1
      /\ sent = IF devToggle = RCVTOG THEN Taken ELSE Taken - 1
      /\ ~spoilt => devToggle = RCVTOG
  BY <1>1, <1>3 DEF Taken, IInv, ControlTypeOK, ReplyInv
<1>5. Packets' = Packets /\ Bytes(Taken)' = Bytes(Taken) /\ Packets \in Nat
  BY <1>1, <1>4, SameReply, PacketFacts DEF IInv, ControlTypeOK
<1>6. ChipInv'
  BY <1>1, <1>2, <1>3, <1>4 DEF IInv, ChipInv, Arrived
<1>7. CauseInv'
  BY <1>1, <1>2, <1>3, <1>4 DEF CauseInv
<1>8. DeviceInv'
  BY <1>1 DEF IInv, DeviceInv
<1>9. ReplyInv'
  <2>1. /\ request'.asked # 0 /\ Held <= Packets /\ xfrlen' = Bytes(Taken)'
        /\ data' = Prefix(Taken')
    BY <1>1, <1>4, <1>5 DEF IInv, ReplyInv, Prefix
  <2>2. sent' = IF devToggle' = RCVTOG' THEN Held' ELSE Held' - 1
    BY <1>2, <1>3, <1>4 DEF Held
  <2>3. ~spoilt' => devToggle' = RCVTOG'
    BY <1>1, <1>2, <1>4
  <2>4. Held' <= Packets'
    BY <1>1, <1>2, <1>3, <1>4, <1>5, <2>1 DEF Held
  <2> QED  BY <1>1, <1>3, <2>1, <2>2, <2>3, <2>4 DEF ReplyInv
<1>10. SuccessIsWhole'
  BY <1>1 DEF SuccessIsWhole, Returned
<1> QED  BY <1>6, <1>7, <1>8, <1>9, <1>10

LEMMA StatusKept ==
  ASSUME IInv, NEW ack \in BOOLEAN, StatusArrives(ack)
  PROVE  ChipInv' /\ CauseInv' /\ DeviceInv' /\ ReplyInv' /\ SuccessIsWhole'
<1>1. /\ stage = "status" /\ HXFR = "active" /\ HXFR' = "done"
      /\ HRSLT' \in {"SUCCESS", "TIMEOUT"}
      /\ devStage \in {"data", "status"} /\ devStage' = "status"
      /\ UNCHANGED <<RCVTOG, RCVFIFO, pc, rcode, xfrlen, stage, request, id, data,
                     devId, sent, devToggle, carriedOut, spoilt>>
  BY DEF StatusArrives, Ends, dispatch, progress
<1>2. pc = "wait" /\ RCVFIFO = 0 /\ ~Succeeded'
  BY <1>1 DEF IInv, ChipInv, Arrived, Succeeded
<1>3. Taken' = Taken /\ Packets' = Packets
  BY <1>1, SameReply DEF Taken
<1>4. ChipInv'
  BY <1>1, <1>2, <1>3 DEF IInv, ChipInv
<1>5. CauseInv'
  BY <1>1, <1>2 DEF CauseInv
<1>6. DeviceInv'
  BY <1>1, <1>2, <1>3 DEF IInv, DeviceInv
<1>7. ReplyInv'
  BY <1>1, <1>2, <1>3 DEF IInv, ReplyInv, Prefix
<1>8. SuccessIsWhole'
  BY <1>1 DEF SuccessIsWhole, Returned
<1> QED  BY <1>4, <1>5, <1>6, <1>7, <1>8

LEMMA CarryOutKept ==
  ASSUME IInv, CarryOut
  PROVE  IInv'
<1>1. /\ devStage = "act" /\ devStage' = "status" /\ carriedOut' = devId
      /\ UNCHANGED <<RCVTOG, HXFR, HRSLT, RCVFIFO, pc, rcode, xfrlen, stage, request, id,
                     data, devId, sent, devToggle, spoilt>>
  BY DEF CarryOut, chip, dispatch, progress
<1>2. /\ Packets' = Packets /\ Bytes(Taken)' = Bytes(Taken) /\ Held' = Held /\ Taken' = Taken
      /\ Arrived' = Arrived /\ Succeeded' = Succeeded
  BY <1>1, SameReply DEF Held, Taken, Arrived, Succeeded
<1>3. ControlTypeOK'
  BY <1>1 DEF IInv, ControlTypeOK
<1>4. ChipInv'
  BY <1>1, <1>2 DEF IInv, ChipInv
<1>5. CauseInv'
  BY <1>1 DEF IInv, CauseInv
<1>6. DeviceInv'
  BY <1>1, <1>2 DEF IInv, DeviceInv
<1>7. ReplyInv'
  BY <1>1, <1>2 DEF IInv, ReplyInv, Prefix
<1>8. SuccessIsWhole'
  BY <1>1, <1>2 DEF IInv, SuccessIsWhole, Returned
<1> QED  BY <1>3, <1>4, <1>5, <1>6, <1>7, <1>8 DEF IInv
-----------------------------------------------------------------------------
(***************************************************************************)
(* The firmware keeps it.                                                  *)
(***************************************************************************)
LEMMA DispatchKept ==
  ASSUME IInv, XferDispatchPkt
  PROVE  IInv'
<1>1. /\ UNCHANGED <<RCVTOG, HRSLT, RCVFIFO, xfrlen, stage, request, id, data, devId, devStage,
                     sent, devToggle, carriedOut, spoilt>>
      /\ pc \in {"launch", "wait"}
  BY DispatchStep DEF progress, device
<1>2. /\ Packets' = Packets /\ Bytes(Taken)' = Bytes(Taken) /\ Held' = Held /\ Taken' = Taken
  BY <1>1, SameReply DEF Held, Taken
<1>3. stage # "none" /\ ~Arrived' /\ ~(stage = "data" /\ Succeeded')
  BY <1>1, DispatchStep DEF IInv, ChipInv, Arrived, Succeeded
<1>4. Succeeded' => Arrived
  BY DispatchStep DEF Arrived, Succeeded
<1>5. ControlTypeOK'
  BY <1>1 DEF IInv, ControlTypeOK
<1>6. ChipInv'
  BY <1>1, <1>2, <1>3, DispatchStep DEF IInv, ChipInv, Arrived
<1>7. CauseInv'
  BY <1>1, DispatchStep DEF IInv, CauseInv
<1>8. DeviceInv'
  BY <1>1, <1>3, <1>4 DEF IInv, DeviceInv
<1>9. ReplyInv'
  BY <1>1, <1>2, <1>3 DEF IInv, ReplyInv, Prefix
<1>10. SuccessIsWhole'
  BY <1>1, <1>3 DEF SuccessIsWhole, Returned
<1> QED  BY <1>5, <1>6, <1>7, <1>8, <1>9, <1>10 DEF IInv

LEMMA ReadKept ==
  ASSUME IInv, Read
  PROVE  IInv'
<1>1. pc = "read" /\ stage = "data" /\ HXFR = "idle" /\ RCVFIFO = Taken + 1 /\ Held = Taken + 1
  BY DEF Read, IInv, ChipInv, Held
<1>2. /\ RCVFIFO # 0 /\ Taken \in Nat /\ Held <= Packets /\ data = Prefix(Taken)
      /\ xfrlen = Bytes(Taken) /\ request \in Requests
  BY <1>1 DEF Taken, IInv, ControlTypeOK, ReplyInv
<1>3. /\ RCVFIFO' = 0
      /\ data' = Append(data, RCVFIFO)
      /\ xfrlen' = xfrlen + Length(RCVFIFO)
      /\ \/ pc' = "poll" /\ rcode' = "SUCCESS" /\ Complete(RCVFIFO, xfrlen')
         \/ pc' = "launch"
      /\ UNCHANGED <<RCVTOG, HXFR, HRSLT, stage, request, id, devId, devStage, sent, devToggle,
                     carriedOut, spoilt>>
  BY <1>2 DEF Read, Pkt!Return, Pkt!NewDispatch, progress, device
<1>4. data' = Prefix(Taken + 1) /\ data' \in Seq(Nat) /\ Taken' = Taken + 1
  <2>1. PICK n \in Nat : n = Taken
    BY <1>2
  <2>2. Append(Prefix(n), n + 1) = Prefix(n + 1)
    BY PrefixFacts
  <2>3. Prefix(n + 1) \in Seq(Nat) /\ Len(Prefix(n + 1)) = n + 1
    <3>1. n + 1 \in Nat
      OBVIOUS
    <3> QED  BY <3>1, PrefixFacts
  <2>4. data' = Prefix(n + 1)
    BY <1>1, <1>2, <1>3, <2>1, <2>2
  <2> QED  BY <2>1, <2>3, <2>4 DEF Taken
<1>5. /\ xfrlen' = Bytes(Taken + 1) /\ xfrlen' \in Nat
      /\ Complete(RCVFIFO, xfrlen') => Taken + 1 = Packets
  BY <1>1, <1>2, <1>3, StopsAtLast
<1>6. Packets' = Packets /\ Held' = Held
  BY <1>1, <1>3, <1>4, SameReply DEF Held
<1>7. ~Arrived' /\ ~Arrived
  BY <1>1, <1>3 DEF Arrived
<1>8. ControlTypeOK'
  BY <1>3, <1>4, <1>5 DEF IInv, ControlTypeOK
<1>9. ChipInv'
  BY <1>1, <1>3, <1>7 DEF ChipInv
<1>10. CauseInv'
  BY <1>1, <1>3 DEF CauseInv
<1>11. DeviceInv'
  BY <1>1, <1>3 DEF IInv, DeviceInv
<1>12. ReplyInv'
  <2>1. /\ request'.asked # 0 /\ Held' <= Packets'
        /\ sent' = IF devToggle' = RCVTOG' THEN Held' ELSE Held' - 1
        /\ ~spoilt' => devToggle' = RCVTOG'
    BY <1>1, <1>2, <1>3, <1>6 DEF IInv, ReplyInv
  <2>2. data' = Prefix(Taken') /\ xfrlen' = Bytes(Taken)'
    BY <1>3, <1>4, <1>5, <1>6, SameReply DEF Bytes
  <2>3. Succeeded' => Taken' = Packets'
    BY <1>3, <1>4, <1>5, <1>6 DEF Succeeded
  <2> QED  BY <1>1, <1>3, <2>1, <2>2, <2>3 DEF ReplyInv, Prefix
<1>13. SuccessIsWhole'
  BY <1>1, <1>3 DEF SuccessIsWhole, Returned
<1> QED  BY <1>8, <1>9, <1>10, <1>11, <1>12, <1>13 DEF IInv

LEMMA RequestKept ==
  ASSUME IInv, XferCtrlReq
  PROVE  IInv'
<1>1. /\ pc = "poll" /\ stage = "none" /\ stage' = "setup" /\ pc' = "launch"
      /\ id' = id + 1 /\ request' \in Requests /\ data' = <<>> /\ spoilt' = FALSE
      /\ UNCHANGED <<RCVTOG, HXFR, HRSLT, RCVFIFO, rcode, xfrlen, devId, devStage, sent,
                     devToggle, carriedOut>>
  BY DEF XferCtrlReq, Goes, Pkt!NewDispatch, chip, device
<1>2. /\ HXFR = "idle" /\ RCVFIFO = 0 /\ ~Arrived' /\ ~Succeeded'
      /\ devId \in Nat /\ id \in Nat /\ devId <= id
  BY <1>1 DEF IInv, ChipInv, Arrived, Succeeded, ControlTypeOK, DeviceInv
<1>3. data' = Prefix(0) /\ Taken' = 0 /\ data' \in Seq(Nat)
  BY <1>1, PrefixFacts DEF Taken
<1>4. ControlTypeOK'
  BY <1>1, <1>2, <1>3 DEF IInv, ControlTypeOK
<1>5. ChipInv'
  BY <1>1, <1>2 DEF ChipInv
<1>6. CauseInv'
  BY <1>1, <1>2 DEF CauseInv
<1>7. DeviceInv'
  BY <1>1, <1>2 DEF DeviceInv
<1>8. ReplyInv'
  BY <1>1, <1>2, <1>3 DEF ReplyInv, Prefix
<1>9. SuccessIsWhole'
  BY <1>1 DEF SuccessIsWhole, Returned
<1> QED  BY <1>4, <1>5, <1>6, <1>7, <1>8, <1>9 DEF IInv

LEMMA SetupSentKept ==
  ASSUME IInv, SetupSent
  PROVE  IInv'
<1>1. /\ pc = "poll" /\ stage = "setup" /\ rcode = "SUCCESS" /\ pc' = "launch"
      /\ IF request.asked = 0
         THEN stage' = "status" /\ UNCHANGED <<RCVTOG, xfrlen>>
         ELSE stage' = "data" /\ RCVTOG' = 1 /\ xfrlen' = 0
      /\ UNCHANGED <<HXFR, HRSLT, RCVFIFO, rcode, request, id, data, devId, devStage, sent,
                     devToggle, carriedOut, spoilt>>
  BY DEF SetupSent, Goes, Pkt!NewDispatch, device
<1>2. HXFR = "idle" /\ RCVFIFO = 0 /\ ~Arrived' /\ ~Succeeded' /\ Succeeded
  BY <1>1 DEF IInv, ChipInv, Arrived, Succeeded
<1>3. devId = id /\ Taken = 0 /\ sent = 0 /\ devToggle = 1 /\ id > 0
  BY <1>1, <1>2 DEF IInv, DeviceInv, ReplyInv
<1>4. Taken' = 0 /\ Held' = 0 /\ Packets' = Packets /\ Packets \in Nat /\ Bytes(0) = 0
  <2>1. Packets \in Nat /\ Full \in Nat /\ maxpktsize \in Nat
    BY PacketFacts DEF IInv, ControlTypeOK
  <2>2. Bytes(0) = 0
    BY <2>1 DEF Bytes
  <2> QED  BY <1>1, <1>2, <1>3, <2>1, <2>2, SameReply DEF Taken, Held
<1>5. ControlTypeOK'
  BY <1>1 DEF IInv, ControlTypeOK
<1>6. ChipInv'
  BY <1>1, <1>2 DEF ChipInv
<1>7. CauseInv'
  BY <1>1, <1>2 DEF CauseInv
<1>8. DeviceInv'
  BY <1>1, <1>2, <1>3 DEF IInv, DeviceInv
<1>9. ReplyInv'
  <2>1. data' = Prefix(Taken')
    BY <1>1, <1>3, <1>4 DEF IInv, ReplyInv, Prefix
  <2>2. CASE request.asked = 0
    BY <1>1, <1>4, <2>1, <2>2 DEF ReplyInv
  <2>3. CASE request.asked # 0
    <3>1. xfrlen' = Bytes(Taken)'
      BY <1>1, <1>4, <2>3, SameReply
    <3> QED  BY <1>1, <1>2, <1>3, <1>4, <2>1, <2>3, <3>1 DEF ReplyInv
  <2> QED  BY <2>2, <2>3
<1>10. SuccessIsWhole'
  BY <1>1 DEF SuccessIsWhole, Returned
<1> QED  BY <1>5, <1>6, <1>7, <1>8, <1>9, <1>10 DEF IInv

LEMMA DataTakenKept ==
  ASSUME IInv, DataTaken
  PROVE  IInv'
<1>1. /\ pc = "poll" /\ stage = "data" /\ rcode = "SUCCESS" /\ pc' = "launch"
      /\ stage' = "status"
      /\ UNCHANGED <<RCVTOG, HXFR, HRSLT, RCVFIFO, rcode, xfrlen, request, id, data,
                     devId, devStage, sent, devToggle, carriedOut, spoilt>>
  BY DEF DataTaken, Goes, Pkt!NewDispatch, chip, device
<1>2. HXFR = "idle" /\ RCVFIFO = 0 /\ ~Arrived' /\ ~Succeeded' /\ Succeeded
  BY <1>1 DEF IInv, ChipInv, Arrived, Succeeded
<1>3. Taken' = Taken /\ Packets' = Packets /\ Taken = Packets /\ request.asked # 0
  BY <1>1, <1>2, SameReply DEF IInv, ReplyInv, Taken
<1>4. ControlTypeOK'
  BY <1>1 DEF IInv, ControlTypeOK
<1>5. ChipInv'
  BY <1>1, <1>2 DEF ChipInv
<1>6. CauseInv'
  BY <1>1, <1>2 DEF CauseInv
<1>7. DeviceInv'
  BY <1>1, <1>2 DEF IInv, DeviceInv
<1>8. ReplyInv'
  BY <1>1, <1>3 DEF IInv, ReplyInv, Prefix
<1>9. SuccessIsWhole'
  BY <1>1 DEF SuccessIsWhole, Returned
<1> QED  BY <1>4, <1>5, <1>6, <1>7, <1>8, <1>9 DEF IInv

LEMMA ReturnKept ==
  ASSUME IInv, RequestReturns
  PROVE  IInv'
<1>1. /\ pc = "poll" /\ stage' = "none"
      /\ stage \in {"setup", "data", "status"} /\ (stage = "status" \/ rcode # "SUCCESS")
      /\ UNCHANGED <<RCVTOG, HXFR, HRSLT, RCVFIFO, pc, rcode, xfrlen, request, id, data,
                     devId, devStage, sent, devToggle, carriedOut, spoilt>>
  BY DEF RequestReturns, Goes, chip, dispatch, device
<1>2. HXFR = "idle" /\ RCVFIFO = 0
  BY <1>1 DEF IInv, ChipInv, Arrived
<1>3. ControlTypeOK'
  BY <1>1 DEF IInv, ControlTypeOK
<1>4. ChipInv'
  BY <1>1, <1>2 DEF ChipInv
<1>5. CauseInv'
  BY <1>1 DEF IInv, CauseInv
<1>6. DeviceInv'
  BY <1>1 DEF IInv, DeviceInv
<1>7. ReplyInv'
  BY <1>1 DEF IInv, ReplyInv, Prefix, Taken
<1>8. SuccessIsWhole'
  <2>1. CASE stage = "status" /\ rcode = "SUCCESS"
    <3>1. devId = id /\ devStage = "status" /\ id > 0
      BY <1>1, <2>1 DEF IInv, DeviceInv, Succeeded
    <3>2. data = Prefix(IF request.asked = 0 THEN 0 ELSE Packets)
      BY <2>1 DEF IInv, ReplyInv, Prefix
    <3>3. request.asked = 0 => carriedOut = id
      BY <3>1 DEF IInv, DeviceInv
    <3> QED  BY <1>1, <3>1, <3>2, <3>3, SameReply DEF SuccessIsWhole, Prefix
  <2>2. CASE rcode # "SUCCESS"
    BY <1>1, <2>2 DEF SuccessIsWhole
  <2> QED  BY <1>1, <2>1, <2>2
<1> QED  BY <1>3, <1>4, <1>5, <1>6, <1>7, <1>8 DEF IInv
-----------------------------------------------------------------------------
LEMMA StutterKept ==
  ASSUME IInv, UNCHANGED vars
  PROVE  IInv'
<1>1. UNCHANGED <<RCVTOG, HXFR, HRSLT, RCVFIFO, pc, rcode, xfrlen, stage, request, id, data,
                 devId, devStage, sent, devToggle, carriedOut, spoilt>>
  BY DEF vars, chip, dispatch, progress, device
<1> QED
  BY <1>1, SameReply
     DEF IInv, ControlTypeOK, ChipInv, CauseInv, DeviceInv, ReplyInv, SuccessIsWhole, Returned,
         Prefix, Taken, Held, Arrived, Succeeded

LEMMA Inductive == IInv /\ [Next]_vars => IInv'
<1> SUFFICES ASSUME IInv, [Next]_vars PROVE IInv'
  OBVIOUS
<1>1. CASE Transaction
  <2>1. ControlTypeOK'
    BY <1>1, BusTypes
  <2>2. ChipInv' /\ CauseInv' /\ DeviceInv' /\ ReplyInv' /\ SuccessIsWhole'
    BY <1>1, BusFailureKept, SetupKept, DataKept, StatusKept DEF Transaction
  <2> QED  BY <2>1, <2>2 DEF IInv
<1> QED
  BY <1>1, CarryOutKept, DispatchKept, ReadKept, RequestKept, SetupSentKept, DataTakenKept,
     ReturnKept, StutterKept
  DEF Next, Firmware

LEMMA Initial == Init => IInv
<1> SUFFICES ASSUME Init PROVE IInv
  OBVIOUS
<1>1. data = Prefix(0) /\ Taken = 0 /\ data \in Seq(Nat)
  BY PrefixFacts DEF Init, Taken
<1>2. ControlTypeOK
  BY <1>1 DEF Init, ControlTypeOK
<1>3. ChipInv
  BY DEF Init, ChipInv, Arrived
<1>4. CauseInv
  BY DEF Init, CauseInv
<1>5. DeviceInv
  BY DEF Init, DeviceInv
<1>6. ReplyInv
  BY <1>1 DEF Init, ReplyInv, Prefix
<1>7. SuccessIsWhole
  BY DEF Init, SuccessIsWhole, Returned
<1> QED  BY <1>2, <1>3, <1>4, <1>5, <1>6, <1>7 DEF IInv

LEMMA Invariant == Spec => []IInv
  BY Initial, Inductive, PTL DEF Spec

\* A control request that reports success has been served by the device, its
\* reply whole and in order, for any packet size and any reply
\* (transfer.c:72-227).
THEOREM AlwaysWhole == Spec => []SuccessIsWhole
  BY Invariant, PTL DEF IInv

\* No request fails for the state its predecessors have left, toggles and
\* buffers included (transfer.c:109-116).
THEOREM AlwaysForCause == Spec => []FailsForCause
<1>1. IInv => FailsForCause
  BY DEF IInv, ChipInv, CauseInv, FailsForCause, Returned
<1> QED  BY <1>1, Invariant, PTL
-----------------------------------------------------------------------------
(***************************************************************************)
(* The steps of a request are bounded.                                     *)
(***************************************************************************)
CountInv ==
  /\ nak_count \in 0 .. USB_NAK_LIMIT - 1
  /\ retry_count \in 0 .. USB_RETRY_LIMIT - 1

LEMMA CountKept ==
  ASSUME CountInv, [Next]_vars
  PROVE  CountInv'
<1> USE ControlAssumption DEF CountInv
<1>1. CASE UNCHANGED counts
  BY <1>1 DEF counts
<1>2. CASE nak_count' = 0 /\ retry_count' = 0
  BY <1>2
<1>3. CASE Pkt!Nak \/ Pkt!Timeout
  BY <1>3 DEF Pkt!Nak, Pkt!Timeout, Pkt!counts
<1>4. CASE Transaction
  <2>1. UNCHANGED dispatch
    BY <1>4 DEF Transaction, Lost, Spoilt, Busy, SetupArrives, DataArrives, StatusArrives, Ends
  <2> QED  BY <1>1, <2>1 DEF dispatch
<1>5. CASE CarryOut
  BY <1>1, <1>5 DEF CarryOut, dispatch
<1>6. CASE XferCtrlReq \/ SetupSent \/ DataTaken
  BY <1>2, <1>6 DEF XferCtrlReq, SetupSent, DataTaken, Pkt!NewDispatch
<1>7. CASE RequestReturns
  BY <1>1, <1>7 DEF RequestReturns, dispatch
<1>8. CASE XferDispatchPkt
  BY <1>1, <1>3, <1>8 DEF XferDispatchPkt, Pkt!Launch, Pkt!Failed, Pkt!Received, Pkt!counts, counts
<1>9. CASE Read
  BY <1>1, <1>2, <1>9 DEF Read, Pkt!NewDispatch
<1>10. CASE UNCHANGED vars
  BY <1>1, <1>10 DEF vars, dispatch
<1> QED
  BY <1>4, <1>5, <1>6, <1>7, <1>8, <1>9, <1>10 DEF Next, Firmware

LEMMA BusShrinks ==
  ASSUME IInv, CountInv, Transaction
  PROVE  0 <= Pkt!StepsLeft' /\ Pkt!StepsLeft' < Pkt!StepsLeft
<1>1. HXFR = "active" /\ HXFR' = "done" /\ pc = "wait"
  BY BusStep DEF IInv, ChipInv
<1>2. UNCHANGED <<pc, nak_count, retry_count>>
  BY DEF Transaction, Lost, Spoilt, Busy, SetupArrives, DataArrives, StatusArrives, Ends,
         dispatch, counts
<1> QED  BY <1>1, <1>2, ControlAssumption DEF CountInv, Pkt!StepsLeft

LEMMA DispatchShrinks ==
  ASSUME IInv, CountInv, XferDispatchPkt
  PROVE  pc' = "poll" \/ (0 <= Pkt!StepsLeft' /\ Pkt!StepsLeft' < Pkt!StepsLeft)
<1> USE ControlAssumption DEF CountInv
<1>1. CASE Pkt!Launch
  BY <1>1 DEF Pkt!Launch, Pkt!StepsLeft, Pkt!counts
<1>2. CASE Pkt!Nak
  BY <1>2 DEF Pkt!Nak, Pkt!Done, Pkt!Return, Pkt!StepsLeft
<1>3. CASE Pkt!Timeout
  BY <1>3 DEF Pkt!Timeout, Pkt!Done, Pkt!Return, Pkt!StepsLeft
<1>4. CASE Pkt!Received
  BY <1>4 DEF Pkt!Received, Pkt!Done, Pkt!StepsLeft, Pkt!counts
<1> QED
  BY <1>1, <1>2, <1>3, <1>4 DEF XferDispatchPkt, Pkt!Failed, Pkt!Return

\* A reply that goes on has taken a full packet and wants more.
LEMMA ReadShrinks ==
  ASSUME IInv, Read
  PROVE  pc' = "poll" \/ (xfrlen < xfrlen' /\ xfrlen' < request.asked)
<1>1. CASE RCVFIFO = 0 \/ Complete(RCVFIFO, xfrlen')
  BY <1>1 DEF Read, Pkt!Return
<1>2. CASE RCVFIFO # 0 /\ ~Complete(RCVFIFO, xfrlen')
  <2>1. request \in Requests /\ xfrlen \in Nat
    BY DEF IInv, ControlTypeOK
  <2>2. /\ request.asked \in Nat /\ maxpktsize \in Nat \ {0} /\ Rest \in Nat
    BY <2>1, PacketFacts
  <2>3. xfrlen' = xfrlen + Length(RCVFIFO)
    BY <1>2 DEF Read
  <2>4. Length(RCVFIFO) \in Nat
    BY <2>2 DEF Length
  <2> HIDE DEF Length
  <2>5. Length(RCVFIFO) > 0 /\ ~(xfrlen' >= request.asked)
    BY <1>2, <2>2, <2>4 DEF Complete
  <2> QED  BY <2>1, <2>2, <2>3, <2>4, <2>5
<1> QED  BY <1>1, <1>2

\* A control request has a bounded number of steps to take, whatever the bus and
\* the device do (transfer.c:72-227): what is left of RequestEnds is that the
\* processor and the chip take them.
THEOREM RequestsShrink == Spec => RequestShrinks
<1> DEFINE Shrinks ==
      stage # "none" /\ ~CarryOut =>
        \/ StagesLeft' < StagesLeft
        \/ /\ UNCHANGED stage
           /\ pc # "poll"
           /\ \/ pc' = "poll"
              \/ xfrlen < xfrlen' /\ xfrlen' < request.asked
              \/ xfrlen' = xfrlen /\ 0 <= Pkt!StepsLeft' /\ Pkt!StepsLeft' < Pkt!StepsLeft
<1>1. Init => CountInv
  BY ControlAssumption DEF Init, CountInv
<1>2. ASSUME IInv, CountInv, Next
      PROVE  Shrinks
  <2>1. CASE Transaction
    <3>1. UNCHANGED <<stage, xfrlen>> /\ pc = "wait"
      BY <1>2, <2>1, BusStep DEF IInv, ChipInv
    <3> QED  BY <1>2, <2>1, <3>1, BusShrinks
  <2>2. CASE XferDispatchPkt
    <3>1. UNCHANGED <<stage, xfrlen>> /\ pc # "poll"
      BY <2>2, DispatchStep DEF progress
    <3> QED  BY <1>2, <2>2, <3>1, DispatchShrinks
  <2>3. CASE Read
    <3>1. UNCHANGED stage /\ pc # "poll"
      BY <2>3 DEF Read, progress
    <3> QED  BY <1>2, <2>3, <3>1, ReadShrinks
  <2>4. CASE SetupSent \/ DataTaken \/ RequestReturns
    BY <2>4 DEF SetupSent, DataTaken, RequestReturns, Goes, StagesLeft
  <2>5. CASE XferCtrlReq
    BY <2>5 DEF XferCtrlReq, Goes
  <2> QED
    BY <1>2, <2>1, <2>2, <2>3, <2>4, <2>5 DEF Next, Firmware
<1>3. CountInv /\ [Next]_vars => CountInv'
  BY CountKept
<1>4. IInv /\ CountInv /\ [Next]_vars => [Shrinks]_vars
  BY <1>2
<1> QED
  BY <1>1, <1>3, <1>4, Invariant, PTL DEF Spec, RequestShrinks
=============================================================================
