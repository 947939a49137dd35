------------------------------ MODULE Control -------------------------------
(***************************************************************************)
(* Control transfers: XferCtrlReq, XferCtrlData and XferCtrlND of          *)
(* transfer.c against the control endpoint of a device over a bus that     *)
(* loses and spoils packets.  A request is a SETUP packet, the packets of  *)
(* the reply when there is one, and a status packet, each sent by          *)
(* XferDispatchPkt, whose actions are those of Transfer.                   *)
(*                                                                         *)
(* Every request of the firmware with a buffer reads (transfer.h:194-218), *)
(* so the branches for OUT data and for GET without data are left out.     *)
(***************************************************************************)
EXTENDS Integers, Sequences

CONSTANTS
  USB_NAK_LIMIT, USB_RETRY_LIMIT,
  maxpktsize,        \* of the device's control endpoint
  Requests,          \* bytes asked for and bytes the device replies
  MaxRequests        \* bound on the requests made

ASSUME ControlAssumption ==
  /\ USB_NAK_LIMIT \in Nat \ {0} /\ USB_RETRY_LIMIT \in Nat \ {0}
  /\ maxpktsize \in Nat \ {0} /\ MaxRequests \in Nat
  /\ Requests # {} /\ Requests \subseteq [asked : Nat, reply : Nat]
  /\ \A r \in Requests : r.reply <= r.asked

VARIABLES
  RCVTOG, HXFR, HRSLT, RCVFIFO,      \* the chip, as in Transfer
  pc, nak_count, retry_count, rcode, \* the dispatch; pc is "poll" outside it
  rcvToggle,         \* of endpoint 0 in the endpoint record
  xfrlen,
  stage,             \* what the firmware is at: its next token
  request, id,       \* the request and its number
  data,              \* the packets of the reply taken so far
  devId,             \* the device: the last SETUP it took,
  devStage,          \* where it is in serving it,
  sent, devToggle,   \* the reply packets acknowledged and the next one's toggle,
  carriedOut,        \* the last request it has carried out
  spoilt             \* an error that the firmware does not retry has hit the request

chip == <<RCVTOG, HXFR, HRSLT, RCVFIFO>>
counts == <<nak_count, retry_count>>
dispatch == <<pc, counts, rcode>>
progress == <<stage, request, id>>
device == <<devId, devStage, sent, devToggle, carriedOut>>
vars == <<chip, dispatch, rcvToggle, xfrlen, progress, data, device, spoilt>>

\* XferDispatchPkt, without the interrupt endpoint and its reports.
Pkt == INSTANCE Transfer WITH
  made <- 0, acked <- 0, got <- 0,
  nbytes <- 1, ReportSize <- 1, MaxReports <- 0

Init ==
  /\ RCVTOG = 0 /\ HXFR = "idle" /\ HRSLT = "SUCCESS" /\ RCVFIFO = 0
  /\ pc = "poll" /\ nak_count = 0 /\ retry_count = 0 /\ rcode = "SUCCESS"
  /\ rcvToggle = 0 /\ xfrlen = 0
  /\ stage = "none" /\ request \in Requests /\ id = 0 /\ data = <<>>
  /\ devId = 0 /\ devStage = "none" /\ sent = 0 /\ devToggle = 0 /\ carriedOut = 0
  /\ spoilt = FALSE
-----------------------------------------------------------------------------
(***************************************************************************)
(* The reply: full packets, and a shorter one, empty if need be, to end a  *)
(* reply that is less than was asked for.                                  *)
(***************************************************************************)
Full == request.reply \div maxpktsize
Rest == request.reply % maxpktsize
Packets == IF Rest > 0 \/ request.reply < request.asked THEN Full + 1 ELSE Full
Length(k) == IF k <= Full THEN maxpktsize ELSE Rest
-----------------------------------------------------------------------------
(***************************************************************************)
(* The device and the bus.  A lost packet leaves the chip without an       *)
(* answer; other damage ends the transaction with an error of its own.     *)
(***************************************************************************)
Ends(result) ==
  /\ HXFR = "active" /\ HXFR' = "done"
  /\ HRSLT' = result
  /\ UNCHANGED <<dispatch, rcvToggle, xfrlen, progress, data>>

Lost ==
  /\ Ends("TIMEOUT")
  /\ UNCHANGED <<RCVTOG, RCVFIFO, device, spoilt>>

Spoilt ==
  /\ Ends("CRCERR") /\ spoilt' = TRUE
  /\ UNCHANGED <<RCVTOG, RCVFIFO, device>>

\* A device takes every SETUP, but may put off everything after it.
Busy ==
  /\ stage # "setup"
  /\ Ends("NAK")
  /\ UNCHANGED <<RCVTOG, RCVFIFO, device, spoilt>>

\* Whatever it was at, the device starts on the request.
SetupArrives(acknowledged) ==
  /\ stage = "setup"
  /\ devId' = id /\ sent' = 0 /\ devToggle' = 1
  /\ devStage' = IF request.asked = 0 THEN "act" ELSE "data"
  /\ Ends(IF acknowledged THEN "SUCCESS" ELSE "TIMEOUT")
  /\ UNCHANGED <<RCVTOG, RCVFIFO, carriedOut, spoilt>>

DataArrives(acknowledged) ==
  /\ stage = "data" /\ devStage = "data" /\ sent < Packets
  /\ IF devToggle = RCVTOG
     THEN Ends("SUCCESS") /\ RCVFIFO' = sent + 1 /\ RCVTOG' = 1 - RCVTOG
     ELSE Ends("TOGERR") /\ UNCHANGED <<RCVFIFO, RCVTOG>>
  /\ IF acknowledged
     THEN sent' = sent + 1 /\ devToggle' = 1 - devToggle
     ELSE UNCHANGED <<sent, devToggle>>
  /\ spoilt' = (spoilt \/ ~acknowledged)
  /\ UNCHANGED <<devId, devStage, carriedOut>>

\* A request without a reply is carried out before its status is given.
CarryOut ==
  /\ devStage = "act" /\ devStage' = "status"
  /\ carriedOut' = devId
  /\ UNCHANGED <<chip, dispatch, rcvToggle, xfrlen, progress, data, devId, sent, devToggle, spoilt>>

\* The status packet after a reply ends it, even in its middle.
StatusArrives(acknowledged) ==
  /\ stage = "status" /\ devStage \in {"data", "status"}
  /\ devStage' = "status"
  /\ Ends(IF acknowledged THEN "SUCCESS" ELSE "TIMEOUT")
  /\ UNCHANGED <<RCVTOG, RCVFIFO, devId, sent, devToggle, carriedOut, spoilt>>

Transaction ==
  \/ Lost \/ Spoilt \/ Busy
  \/ \E acknowledged \in BOOLEAN :
       SetupArrives(acknowledged) \/ DataArrives(acknowledged) \/ StatusArrives(acknowledged)
-----------------------------------------------------------------------------
(***************************************************************************)
(* The firmware                                                            *)
(***************************************************************************)
Goes(from, to) == pc = "poll" /\ stage = from /\ stage' = to

\* Any of the requests of the enumeration, and then the next.
XferCtrlReq ==
  /\ Goes("none", "setup")
  /\ id < MaxRequests /\ id' = id + 1
  /\ request' \in Requests
  /\ data' = <<>> /\ spoilt' = FALSE
  /\ Pkt!NewDispatch
  /\ UNCHANGED <<chip, rcode, rcvToggle, xfrlen, device>>

\* Mutant: the toggle is left as the last reply has saved it.
SetupSentKeepsToggle ==
  /\ rcode = "SUCCESS"
  /\ IF request.asked = 0
     THEN Goes("setup", "status") /\ UNCHANGED <<rcvToggle, RCVTOG, xfrlen>>
     ELSE Goes("setup", "data") /\ RCVTOG' = rcvToggle /\ xfrlen' = 0 /\ UNCHANGED rcvToggle
  /\ Pkt!NewDispatch
  /\ UNCHANGED <<HXFR, HRSLT, RCVFIFO, rcode, request, id, data, device, spoilt>>

\* The stage after SETUP is picked by the presence of a buffer; a reply starts
\* from DATA1.
SetupSent ==
  /\ rcode = "SUCCESS"
  /\ IF request.asked = 0
     THEN Goes("setup", "status") /\ UNCHANGED <<rcvToggle, RCVTOG, xfrlen>>
     ELSE Goes("setup", "data") /\ rcvToggle' = 1 /\ RCVTOG' = rcvToggle' /\ xfrlen' = 0
  /\ Pkt!NewDispatch
  /\ UNCHANGED <<HXFR, HRSLT, RCVFIFO, rcode, request, id, data, device, spoilt>>

DataTaken ==
  /\ Goes("data", "status") /\ rcode = "SUCCESS"
  /\ Pkt!NewDispatch
  /\ UNCHANGED <<chip, rcode, rcvToggle, xfrlen, request, id, data, device, spoilt>>

\* The status has come, or a stage has failed.
RequestReturns ==
  /\ \E from \in {"setup", "data", "status"} :
       Goes(from, "none") /\ (from = "status" \/ rcode # "SUCCESS")
  /\ UNCHANGED <<chip, dispatch, rcvToggle, xfrlen, request, id, data, device, spoilt>>

\* XferDispatchPkt: the handlers of Transfer, and its return of a success to
\* the SETUP and status stages.
XferDispatchPkt ==
  /\ \/ Pkt!Launch \/ Pkt!Nak \/ Pkt!Timeout \/ Pkt!Failed
     \/ stage = "data" /\ Pkt!Received
     \/ stage # "data" /\ Pkt!Done("SUCCESS")
        /\ Pkt!Return("SUCCESS") /\ UNCHANGED counts
  /\ UNCHANGED <<progress, data, device, spoilt>>

\* Mutant: one packet is the whole reply.
CompleteAtOnce(k, length) == Length(k) <= maxpktsize

Complete(k, length) == Length(k) < maxpktsize \/ length >= request.asked

\* XferInTransfer, after its dispatch.
Read ==
  /\ pc = "read"
  /\ IF RCVFIFO = 0
     THEN Pkt!Return("RCVERR") /\ UNCHANGED <<RCVFIFO, counts, xfrlen, data, rcvToggle>>
     ELSE /\ RCVFIFO' = 0
          /\ data' = Append(data, RCVFIFO)
          /\ xfrlen' = xfrlen + Length(RCVFIFO)
          /\ IF Complete(RCVFIFO, xfrlen')
             THEN rcvToggle' = RCVTOG /\ Pkt!Return("SUCCESS") /\ UNCHANGED counts
             ELSE Pkt!NewDispatch /\ UNCHANGED <<rcvToggle, rcode>>
  /\ UNCHANGED <<RCVTOG, HXFR, HRSLT, progress, device, spoilt>>

Firmware ==
  XferCtrlReq \/ SetupSent \/ DataTaken \/ RequestReturns \/ XferDispatchPkt \/ Read

Next == Transaction \/ CarryOut \/ Firmware

Spec == Init /\ [][Next]_vars

\* The processor runs and the chip ends every transaction.  Nothing is asked of
\* the bus or of the device.
FairSpec == Spec /\ WF_vars(Firmware) /\ WF_vars(Transaction)
-----------------------------------------------------------------------------
(***************************************************************************)
(* Properties                                                              *)
(***************************************************************************)
Returned == stage = "none" /\ id > 0

\* A request that reports success (transfer.c:72-136) is the one the device has
\* served: a reply is in the buffer whole, in order and without repetition, and
\* a command has been carried out, whatever was lost and sent again on the way.
SuccessIsWhole ==
  Returned /\ rcode = "SUCCESS" =>
    /\ devId = id
    /\ data = [k \in 1 .. (IF request.asked = 0 THEN 0 ELSE Packets) |-> k]
    /\ request.asked = 0 => carriedOut = id

\* A request fails for a device that keeps it waiting, for USB_RETRY_LIMIT
\* packets lost in a row, or for an error the firmware does not retry: what came
\* before it, the toggles of the last request among it, is no reason.
FailsForCause ==
  Returned /\ rcode \notin {"SUCCESS", "NAK", "TIMEOUT"} => spoilt

\* Every request returns, through three stages of retries (transfer.c:99-136),
\* whatever the device and the bus do.
RequestEnds == stage # "none" ~> stage = "none"

StagesLeft ==
  CASE stage = "setup" -> 3 [] stage = "data" -> 2 [] stage = "status" -> 1 [] OTHER -> 0

\* Every step of a request, but for the device's own, takes it to a later stage,
\* ends a dispatch, takes bytes of those asked for, or uses up a step of those
\* left for the packet (transfer.c:99-136, 152-184, 197-227).
RequestShrinks ==
  [][ stage # "none" /\ ~CarryOut =>
        \/ StagesLeft' < StagesLeft
        \/ /\ UNCHANGED stage
           /\ pc # "poll"
           /\ \/ pc' = "poll"
              \/ xfrlen < xfrlen' /\ xfrlen' < request.asked
              \/ xfrlen' = xfrlen /\ 0 <= Pkt!StepsLeft' /\ Pkt!StepsLeft' < Pkt!StepsLeft ]_vars
=============================================================================
