# A verification of FlappyFish

FlappyFish is a Flappy Bird on a DE10-Lite board. The game is hardware
(SystemVerilog, one clock tick per video frame); a Nios II processor beside it
runs a C program that drives a USB keyboard through a MAX3421E host chip, hands
the keycode to the game and keeps the score. This directory holds TLA+ models
of both, the TLC runs that check them and proofs of the game's main properties.

## The system

| Part | Source | State | Operations | Talks to |
|---|---|---|---|---|
| Bird | `bird.sv` | row, velocity, gravity counter | frame, stop, reset | collision checker (row), game (stop) |
| Pipes, coins | `pipe.sv`, `coin.sv` | column, gap row, counter, start flag, new-pipe pulse of each | frame, stop, reset | collision checker, event block |
| Collision checker | `Collision_Checker.sv` | none | verdict, coin touches | everything on the board |
| Game control | `FlappyFish.sv` | game off, collision test on, difficulty, four coin flags | Reset, Continue, frame, event block | all of the above |
| Connection handling | `MAX3421E.c`, `transfer.c` (`USB_Task`), `main.c` | state of the host machine, device table, addresses, driver class | interrupt handler, one step per state, restart | chip and device over SPI |
| Transfers | `transfer.c`, `HID.c` | data toggles, retry counters | control requests in three stages; polls | chip |
| Score keeping | `main.c` | score, high score, stop flag, button latches | once per turn of the loop | buttons, keycode register, displays |
| Video timing | `VGA_controller.sv` | clock divider, pixel and line counter, two sync registers | pixel clock, reset | frame clock of everything |
| Picture | `Color_Mapper.sv` | none | what is drawn at a pixel | reads all positions |

The repository holds several copies of the firmware. `software/FlappyBird2` is
the one with the score keeping and the one modelled; its `usb_kb` directory is
identical to the other copies.

The parts meet in four places, and that is where things are hard:

* **The frame clock.** Bird, pipes and difficulty change on the rising edge of
  the vertical sync; the buttons act between frames, at once, through
  asynchronous resets. What a reset does not clear (a pipe's position, the
  pulse) is live until the next frame.
* **The event block** (`FlappyFish.sv:170-213`) is edge-triggered by eight
  signals and handles one of them per trigger. It needs the pipes never to
  raise two at once, which no part of the code arranges: it follows from the
  start positions and the common speed.
* **The interrupt of the USB chip** against the state machine of the firmware,
  with a person pulling the plug in between.
* **The buttons**, which the hardware sees as edges and the firmware as levels,
  when its loop comes around.

What makes each part correct:

* Bird: no wrap of the 10-bit row hides it from the only test that ends a game.
* Pipes: no wrap of the column; rows in the band; spacing kept.
* Collision checker: the verdict of wrapped comparisons is that of the picture.
* Game: a lost game stands still; a reset leaves a game that can be started;
  nothing runs untested; a touched coin goes, and returns with its pipe.
* Connection: a running machine polls the device that is there, with its
  driver, or is about to learn that it is gone; enumeration ends.
* Transfers: a report the device makes reaches the main loop once, in order,
  and in the end, over a bus that loses packets; every poll ends. A control
  request that reports success is the one the device has served, its reply
  whole; one that fails does so for something that happened on the bus.
* Video timing: no sync pulse in the picture, and one rise of the game's clock
  a frame, outside the picture, for as long as Reset is let go.
* Picture: a game is lost to a pipe only where the player sees the bird on it.
* Score: a point is not lost on its way to the high score; counting and game
  are on and off together; what is displayed is the score.

`PROJECT.json` lists under `hazards` the places in the code where these could
go wrong and the property that watches each.

## Modules

    FrameClock <= VGA_controller

    Words ── Bird ──┐
         └── Pipes ─┴─ Collision_Checker ── FlappyFish ── Color_Mapper
                                              │
                                    Coins <= ─┘

    UsbHost
    ReportStream <= Transfer (instantiated by Control)
    ScoreLoop

A line is EXTENDS; `A <= B` says that B is shown to implement A.

* **FrameClock**, **VGA_controller**: the controller is the clock divider, the
  two counters and the two sync registers, one action `Clk` per edge of the
  50 MHz clock and Reset at any of them. `FrameClock` is what the game may rely
  on: one rise of the vertical sync every so many pixels, none while Reset is
  held, one as soon as it is let go. `FrameClockSpec` instantiates it with the
  held button and with `Left`, the pixels that are left to the next rise as
  computed from the counters.
* **Words**: the arithmetic of `logic [9:0]`. The width is the constant `Word`,
  so small screens can be run on small words.
* **Bird**: `bird.sv`. `BirdMove` is the movement branch with its three
  assignments to the velocity in the order they win, `BirdHalt` the stop
  branch, `BirdReset` the reset. `BirdSpec` is also the abstract specification
  of the bird: it leaves `bird_stop` to the game and asks only that a bird in
  wall collision is stopped.
* **Pipes**: the four instances with all their registers, in a function `pipe`
  from instance to record. `PipesSpec` lets any speed of `Speeds` and any stop
  come with any frame; `OneSpeed` is the same at a fixed speed, and `Spaced`
  and `EventsSpaced` what the start columns must satisfy for the pipes and for
  their events to stay apart then (`At` says where a pipe is after so many
  frames). `CoinX`
  and `CoinY` follow the pipe combinationally: both edges of the block in
  `coin.sv` do the same thing, and the build (`output_files/lab61.map.rpt`)
  makes wires of it.
* **Collision_Checker**: the comparisons. The source writes the same four tests
  out for three points and four pipes; `PointHits` is one of them.
  `TrueCollision` is the reference: integer coordinates, nothing wraps.
* **FlappyFish**: one action per button edge and `Frame(key)` for the rising
  sync. Each of them ends in `CoinEvents`, the event block, which runs on
  whatever the step changed. `Latches` names the coin flags that the build
  makes transparent latches (the report lists `coinfl`, `coinfl2`, `coinfl3`);
  they follow the signals without waiting for an edge. `num_coins` and
  `num_pipes` are left out: nothing reads them. While Reset is held
  `VGA_controller.sv` keeps the sync low, so there is no frame, and one as soon
  as it is let go: what VGA_controller shows of it.
* **Coins**: what the player may rely on of the event block: a flag for each
  coin, put up when its pipe returns, taken down when the bird comes to touch
  it, and knowing nothing of the other coins. `CoinSpec` instantiates it with the
  game's signals. `SteadySpec` is the game of a player who leaves the difficulty
  alone while a round is under way; of other games `CoinSpec` does not hold.
* **Color_Mapper**: a function `Pixel(x, y)` of the game's registers: the discs
  of bird and coins in 32-bit integers, the pipes in wrapped words, and the
  order in which they cover each other, first of all the marker and the ground,
  which are driven outside the picture too. Shades are left out.
* **UsbHost**: the loop of `main.c` cut at the points where the chip may change
  under it: read of the interrupt register, read of the bus lines,
  acknowledge, one step of `USB_Task`, the branch on the state. Chip and device
  (`Plug`, `Unplug`, `ResetDone`) are modelled from how the firmware relies on
  them. A device is a keyboard, a mouse, something else, or one that shows an
  illegal bus state. Plugs are not bounded, nor are the connect interrupts a bus
  reset may raise (`ResetDone({"CONDET"})`, its echo). A bus event adds one to
  whatever state the probe has left; `Uncased` are the two states that come of
  it and that no header defines. `now` is the millisecond clock, which wraps at
  `Ms_Max`; the firmware reads it when a device is attached and while that
  settles, so it may stand anywhere at the first and advances during the
  second.
* **Transfer**: `kbdPoll`, `mousePoll`, `XferInTransfer` and `XferDispatchPkt`,
  cut at every access that matters to the chip: the toggle is loaded, a
  transaction launched, its end noticed, the buffer read. The chip, the
  device's endpoint and the bus are modelled from what the firmware relies on: a
  toggle at both ends, packets and acknowledges that may be lost or spoilt. A
  result code the firmware treats like `CRCERR` is `CRCERR`. Reports are
  numbered; **ReportStream**, instantiated as `Stream`, is what the main loop
  may rely on.
* **Control**: `XferCtrlReq`, `XferCtrlData`, `XferCtrlND`: setup, reply and
  status stage, each dispatched by the very actions of Transfer
  (`Pkt == INSTANCE Transfer WITH ...`, without reports). The device restarts on
  every SETUP it takes, moves on when an acknowledge reaches it, and carries a
  command out before it gives its status. Requests and their packets are
  numbered, so a success can be compared with what the device has served.
* **ScoreLoop**: the Reset logic, the Continue logic, the poll with its report,
  and, after a report, the three calls that show it: the digits of the high
  score, those of the score, the LEDs. Each call for digits also switches a
  segment of the LED register for the hundreds. The buttons act on `game_off`
  between any two of these. `Careful` is the player who lets the loop see each
  press and release of Continue, pauses before Reset and lets go of Reset before
  Continue.

Definitions that appear just before the one they vary, marked "Mutant", are
plausible mistakes; each is known to break one property of one run, which is
how we know that the property says something.

## Runs

| Run | Size | What it shows |
|---|---|---|
| MCPipes | the source's own numbers, four pipes, one difficulty at a time | no underflow; pipes at least 147 columns apart; no two of the pulses and the coins at the bird's column coincide (`EventsAlone`) |
| MCFlappyFish | 65 rows, 35 columns, two pipes, 7-bit words | the bird's inductive bound, and that it never tunnels; verdicts are those of geometry and hits are seen; the rest of the game's properties; that it implements `BirdSpec` and `CoinSpec`; that a bird nobody flaps comes down with every frame, and the game is then lost |
| MCFlappyFishReal | the source's own numbers, first 48 moving frames, each of the three difficulties, chosen before the start | the opening of a real game: hits are seen, a touched coin goes |
| MCVga | lines of 10 pixels, frames of 9 lines | pulses outside the picture, no tearing, one rise a frame (`FrameClockSpec`), and rises go on |
| MCUsbHost | 3 usable addresses, 4 kinds of device, a clock of 4 milliseconds | right driver, no ghost device; enumeration ends, unless plugging or reset echoes never cease or the clock wraps |
| MCControl | packets of 8 bytes, 5 kinds of request, 3 in a row, 3 NAKs, 3 timeouts | success is whole, failure has a cause, every request ends |
| MCTransfer | 6 one-packet reports, 4 NAKs, 3 timeouts | reports delivered once, in order and in the end; every poll ends; the inductive invariant holds |
| MCScoreLoop | one key, scores to 7, digits that overflow at 4 | no score lost that was made or shown; displays agree between reports, past what the digits show; only presses set counting and game apart |

The small screens keep every relation the assumptions of the modules state
between the numbers of the source (the gap fits the band, the bird's column is
clear of the wrap, speeds divide nothing evenly); the proofs then cover every
size that satisfies the same assumptions, the source's included. In
MCFlappyFish the difficulty is fixed (changes of speed are left to the proofs,
which cover them, and to MCFlappyFishReal before the start), the first coin flag
is a latch and the second a register, so both
kinds are exercised. In MCFlappyFishReal the player does not pause, chooses the
difficulty before starting and steers at most once a gravity period: what is
left is still every height of the bird at every position of the first pipe to
come. A frame of MCVga has every region of the real one, the front and back
porches included, and Reset comes at each of its pixels. Plugs and
echoes of MCUsbHost are bounded by nothing but the states they lead to, so three
addresses are run out of; a clock of four values with a
settle time of one has deadlines before, at and beyond the wrap. The five kinds
of request of MCControl are a command, replies of one, two and three packets,
and replies shorter than asked for, one of them by full packets, which ends with
an empty one; three in a row meet each kind after a failed or successful one
with either toggle left over. Four NAKs and three timeouts can be mixed in any
order before a limit is met, and six reports take both toggles around three
times. A score of 7 against digits that hold 0 to 3 (`Hundred = 4`) overflows
them as a score from 100 to 127 does the two of the board; it does so for either
score, the high one after a Reset.

CHECK_DEADLOCK is off in MCControl alone: after `MaxRequests` requests it has
nothing left to do. Every other module always has a step.

Four runs expect a violation, because a line of the repository says something
the code does not do:

| Run | What is said | What happens |
|---|---|---|
| MCUsbHostConnect | `USB.h:30`: detached is "when no device is attached" | `MAX3421E_init` looks at the bus (`MAX3421E.c:198`) and acknowledges afterwards (199): a device plugged in between is lost for good; the handler has the same order (225, 237) |
| MCUsbHostClear | `MAX3421E.c:175`: "clear device data structures" | the bus event a reset has left pending is handled along with the disconnect, and line 233 adds one to the state just set, past the one that clears: a keyboard pulled out while it is addressed keeps its table entry |
| MCUsbHostSettle | `transfer.c:277`, `280`: "initial settle 200ms", "waiting for settle timer to expire" | a device attached in the last 200 ms before the clock wraps, every 71.6 minutes, gets a deadline the clock never exceeds |
| MCTransferMouse | `main.c:220`: "NAK means no new data" | a 4-byte report in a 4-byte packet, 8 bytes asked for: the transfer goes on, its NAK drops the report taken (and, the toggle not saved, the device's next one) |

Other things met on the way, that have no run:

* `pipe.sv:12` says "Pipe speed fixed"; the difficulty can be changed in
  mid-game, a returning pipe drops what its last step overshot, and pipes then
  drift against each other until two overlap (and coin events are lost, as two
  of them coincide). `SpacingKept` and `EventsAlwaysAlone` are of one speed, and
  the theorems about the coins of `SteadySpec`, for this reason.
* `main.c:22` calls the device's address "hard-wired", 1; a failed enumeration
  leaks its table entry, so the running device may be at 2. `RightDriver` shows
  that entry 1 exists whenever it is asked.
* A bus reset may raise the connect interrupt ("bus reset causes connection
  detect interrupt", `MAX3421E.c:147`), and the probe keeps the state if it comes
  while the machine waits for the reset. If the handler sees it only after
  `ResetComplete`, the machine goes back to `ATTACHED`, and the pending bus event
  takes it on to the settling, whose deadline, of the attachment, is over: the
  bus is reset once more. Nothing but luck ends this cycle, so `EnumerationEnds`
  excepts it.
* The two states of `Uncased`, 2 and 5, fall to `transfer.c:258-271` without a
  case and stay until the lines are looked at again; what that costs in state 2
  is MCUsbHostClear.
* Reset stops the game and not the counting, which then runs on over a game that
  stands still; so does Continue under a held Reset. From then on Continue stops
  the one as it starts the other. No line says otherwise: `PartedByPlayer` lists
  all that does this.
* `VGA_controller.sv:98` places the vertical pulse at "line 490-491"; the
  register looks a line ahead and lags a pixel, so it lasts from pixel 1 of line
  489 to pixel 0 of line 491. The first frame after a reset rises after 491
  lines, not 525. Neither reaches the picture.
* `transfer.c:308`: the code of the full descriptor's request is not looked at,
  and the lengths and indices used next may be bytes of the stack nobody has
  written. They reach the string requests and their printing only.
* The top border test `bird.sv:40` ("BOUNCE!") subtracts in an unsigned word and
  holds in row 6 only; above it the bird flies out and is lost.
* The LED write of `main.c:212` goes to the whole register and puts out the
  hundreds segments set just before (`ShowLeds`), so a score of 100 shows 00,
  although `main.c:82` and `109` call the hundreds handled. LED 9 tells
  that a device runs until the score is written over it.
* The tests for the ground and the marker (`Color_Mapper.sv:482` and below) do
  not look at the blanking signal: both are driven in the blanked pixels of their
  lines too.
* Coins taken stay taken through Reset. The score counts reports without a key,
  not pipes passed, and goes on in a lost game, because the firmware cannot see
  the collision.
* The error state is 0xff, which the mask of `transfer.c:255` makes 0xf0, so its
  case never matches and the default takes it ("Should never get here",
  `transfer.c:382`) to the same effect.
* The project report says that W sets the velocity to -5; on a gravity frame,
  one in six, the velocity plus one overrides it (`bird.sv:57`).

## Fairness

* `VGA_controller!FairSpec`: the board's oscillator runs (`WF` of `Clk`). With it
  `FramesKeepComing`: the vertical sync rises again and again once Reset is let
  go for good.
* `FlappyFish!FairSpec`: frames keep coming, which is just that; weak fairness
  of `Frame` asks for nothing while Reset is down. The buttons are owed
  nothing: `GameEnds` speaks of games that are left running.
* `UsbHost!FairSpec`: the processor runs its loop (`WF` of `Firmware`) and the
  chip finishes a bus reset (`WF` of `ResetDone`). The settle time is not
  assumed to pass: the clock advances between two looks at it, and
  `EnumerationEnds` excepts the deadlines it cannot reach. Neither the plugs nor
  the device's answers nor the echoes of a reset are fair or bounded, so it also
  excepts, in its own words, behaviours with plugs without end and those with
  echoes without end.
* `Control!FairSpec`: the processor runs and the chip ends a transaction it has
  started (its own bus timeout). `RequestEnds` needs no more: device and bus may
  refuse for ever.
* `Transfer!FairSpec`: the same, and of endless attempts some get through both
  ways (`SF` of `DataArrives(TRUE)`). The last is the least one can ask of a bus
  and is used by `AllDelivered` only; the device need never make a report.

## Proofs

| Module | Theorem | Property |
|---|---|---|
| BirdProofs | BirdInvariant, BirdNoTunnel | `BirdInv`, `NoTunnel` |
| BirdProofs | BirdFalls | `FallsUnlessFlapped`, the measure behind `GameEnds` |
| PipesProofs | PipesInvariant, PipesMoveLeft | `PipesInv`, `MovesLeft` |
| PipesProofs | SpacingKept, EventsAlwaysAlone | `PipesApart`, `EventsAlone`, at one speed |
| FlappyFishProofs | AlwaysArmed, GameTypes, AlwaysStartsClean | `CollisionArmed`, `TypeOK`, `StartsClean` |
| FlappyFishProofs | GameRefinesBird | `BirdSpec` |
| FlappyFishProofs | VerdictAlwaysExact, LostStaysFrozen | `VerdictExact`, `LostGameFrozen` |
| FlappyFishProofs | GamePipesApart, GameEventsAlone | `PipesApart`, `EventsAlone`, of `SteadySpec` |
| FlappyFishProofs | GameRefinesCoins, TouchTakesCoin | `CoinSpec`, `CoinTaken`, of `SteadySpec` |
| FlappyFishProofs | HitAlwaysSeen | `HitIsSeen` |
| VgaProofs | VgaInvariant, PulsesOffPicture, PictureWhole | `VgaInv`, `SyncOffPicture`, `NoTearing` |
| VgaProofs | FramesRefineClock | `FrameClockSpec` |
| TransferProofs | TransferInvariant, NakTakesNothing, PollsRefineStream | `TransferInv`, `NakMeansNoNewData`, `StreamSpec` |
| TransferProofs | PollsShrink | `PollShrinks`, the measure behind `PollEnds` |
| ControlProofs | AlwaysWhole, AlwaysForCause | `SuccessIsWhole`, `FailsForCause` |
| ControlProofs | RequestsShrink | `RequestShrinks`, the measure behind `RequestEnds` |
| UsbHostProofs | HostTypes, AlwaysRightDriver, NeverAGhost | `HostTypeOK`, `RightDriver`, `NoGhost` |
| UsbHostProofs | SettleTrap | `SettleCounts`, why `EnumerationEnds` excepts the wrap |
| ScoreLoopProofs | ScoreTypes, DisplaysAlwaysAgree | `ScoreTypeOK`, `DisplaysAgree` |
| ScoreLoopProofs | ShownAlwaysKept, NoScoreLost | `ShownIsKept`, `HighScoreKept` |
| ScoreLoopProofs | PartedOnlyByPlayer, CarefulInStep | `PartedByPlayer`, `InStep` of `CarefulSpec` |

*The bird.* That the row never wraps unseen is not inductive: a bird at the
bottom of the screen falling at 600 rows a frame would wrap. It cannot fall
that fast there, because speed takes height: gravity acts every sixth frame, so
a bird at speed `v` has fallen six frames at each smaller speed.
`FellFarEnough` says so, and with it a bird above the wall is slow enough for
one step to stay below twice the wall's row. The proof has one step for each
branch of the movement: gravity frame, W, S, border, coasting. From the
assumption `2 * Wall + 5 <= Word` the rows of a falling bird and of one that
left through the top are apart. `FramesLeft` turns the same registers into a
count that every moving frame without a flap lowers: gravity ends the rise, key S
and the bounce at the top only shorten it, the bounce at the bottom is never
reached, and from speed 1 on the row grows.

*The pipes.* At one speed the columns of all pipes are a function of one number,
the frames moved since they were loaded (`At`), which a stop holds and a reset
starts again; from the second lap on it repeats (`PhaseStep`, where the division
that gives the frames of a lap is met). Two pipes then have one of four
distances, according to which of them have returned, and `Spaced` asks each to
be at least `Min_Apart`. `EventsSpaced` asks as much of the events: no two pipes
return in one frame, none returns while a coin, its own included, is within reach
of the bird's column, and no two coins are there together; that the start columns and
the cleared column 0 are out of reach covers loading and reset. A moving frame
raises the pulse exactly when its pipe returns, and `SpacingInv` gives the phase of
that; a stop holds the pulse and a reset leaves it until the loading, so the
invariant `EventsInv` is `SpacingInv` with `EventsAlone` itself. TLC evaluates `Spaced`
and `EventsSpaced` on the source's own columns at all three speeds, as
assumptions of MCPipes and MCFlappyFish.

*The game.* `GameRefinesBird` is where composition matters: the bird's
specification asks that a bird in wall collision be stopped, and the game
stops it only when `collision_on` is set. `CollisionArmed` is the lemma, and
follows from the two edges of the button block. The pipes ask nothing of the game
but a speed of `Speeds`. So the
invariants of bird and pipes hold of the game, and bound every operand of
`VerdictExact`: under `CollisionAssumption` no comparison that can be true is
of a wrapped word. `StartInv` says that with the collision test off bird and
loaded pipes stand at their start; that Continue pressed while Reset is held
does not undo it needs the conjunct `Reset_h => ~collision_on`.

*The coins.* In the game the speed is the difficulty register, which may be
chosen anew before each round. `SteadySpec` fixes it for a round only: until then
the loaded pipes stand at their start (`StartInv`), which is the first phase of
every speed, so `EventsInv` of the old difficulty gives that of the new one
(`ChosenAtStart`). With `EventsAlone` at most one line of the event block is high
after a step, so the first in its chain is the only one. What is left is a line
that was high before and is still: `CoinLevels` says that its flag is already as
it asks, so a latch, which acts on the level, and a register, which waits for a
rise, agree, and neither is disturbed when another line sets the block off.
`CoinStep` is then the step of `Coins`, and `CoinTaken` follows.

*The picture.* The three points of the collision test are pixels of the bird's
body, which nothing is drawn over (`BodyOn`, `BodyShown`), and where one of them
hits a pipe the mapper's pipe is on too (`HitIsDrawn`). The upper point may be
in a row above 0, which wraps; it then hits a loaded pipe for its column alone, and
row 0, which the pipe's upper part reaches, serves (`HitAbove`).

*The picture's timing.* `VgaInv` says where in the frame each sync register is
low; the position `Now` in pixels goes up by one and wraps once a frame, and
`Left`, its distance to the rise, is the abstract clock's. The products of line
lengths are the only arithmetic the solver needs help with.

*The polls.* A report can be in three places, with the device, in the chip's
buffer, with the main loop, and three toggles tell where: `TogglesAgree` says
that device and chip differ exactly while an acknowledge has been lost, chip
and endpoint record exactly while a report is in the buffer. A poll that fails
loads the chip's toggle from the record again; that this undoes nothing needs
`ChipInStep`: a dispatch never fails with a report in the buffer. The three
theorems assume `OnePacket`; MCTransferMouse is what happens without it.

*The control requests.* `DeviceInv` says what the device is at once it has the
SETUP of this request, and that a SETUP or status reported as sent has arrived.
`ReplyInv` counts the packets: those taken are 1 to n, the device has sent as
many as the firmware holds or, after a lost acknowledge, one less, and then the
toggles differ. `StopsAtLast` is the arithmetic: for any packet size the count
of bytes ends the transfer at the last packet of the reply and not before.

*The connection.* Three things make `NoGhost` and `RightDriver` inductive.
`TableInv`: the entries taken are the first n, and the last of them is the
device's that is being configured or runs, so the first free entry, the last
class found and the address 1 are what they should be. `FlagInv`: a machine that
was running is seen by `main.c` before it can be enumerating again. `ResetInv`: a
bus event is never of a reset that is still going on, so the one it adds to the
state cannot skip the wait for it.

The type of the state, `StateNumbers`, is exact: the states of `USB.h` and the two
of `Uncased`. `SettleCounts` is about one of the waits `EnumerationEnds` excepts:
below the wrap the deadline is reached one millisecond at a time, at or beyond it
the machine stays until the lines are looked at again, whatever the clock and the
settle time.

*The score.* The displays are written by three calls with presses between them.
`ShowingInv` adds to `DisplaysAgree` that between the last two of them the digits
are already those of the score; the digits are no more than the score they are of
(`TwoDigits`). A Reset comes between turns, not between two writes, so what was
on a display before it is in the high score by then: `ShownIsKept`. `InStep`
relates the two stops across a press the loop has yet to see. `PartedInNext` looks
at each step of player and loop for what can change it, and a `Careful` player
does none of that: `CarefulInStep` follows by induction.

*What is left of liveness.* Each of these is the safety half of a liveness
property, a measure that every step concerned lowers. `FramesLeft` stands behind
`GameEnds`; `StepsLeft`, the attempts left for a packet, with the bytes still
asked for behind `PollEnds`, and with the stages behind `RequestEnds`, for reports
and replies of any size; `Left` of the video timing behind `FramesKeepComing`.
What they leave to TLC is that a step is enabled and taken.

The theorems rest on the named assumptions of the modules, and where they say so
on `OnePacket`, `Careful`, `Spaced` and `EventsSpaced`. The assumptions and the two
conditions on columns are evaluated by TLC on the numbers of a run: MCFlappyFishReal
and MCPipes on the source's own, the others on small ones.

Every invariant, action property and refinement of the passing runs is stated by
a theorem. Only model-checked: liveness (`GameEnds`, `FramesKeepComing`,
`EnumerationEnds`, `RequestEnds`, `PollEnds`, `AllDelivered`), which is out of this
prover's reach.

## Plan

1. Done: the game's hardware with proofs; the video timing and its refinement;
   the picture against the collision checker; connection handling with the
   wrapping clock; polls and control requests; the score; proofs of every
   safety property the runs check, and of the measures behind four of the
   liveness properties.
2. A measure for an enumeration without plug or echo, behind `EnumerationEnds`.
3. What UsbHost takes a control request to be, one step that succeeds or fails,
   as an abstract specification of its own that Control is shown to implement.
4. `Game`: FlappyFish with ScoreLoop and the keycode register between them. What
   it would show (the score runs on in a lost game, the last key stays) is known
   from the parts, and no line of the sources says what should happen.

## Not modelled

* The seven-segment decoder (a table), `RAM.sv` (not instantiated), the
  testbench (no assertion in it).
* The board support packages and the generated processor system: vendored
  Altera code in four copies, one for each firmware project, and with the three
  earlier firmware projects (whose `usb_kb` directories are identical copies of
  the one modelled) nearly all of the repository's lines. They are modelled as
  far as the game's code relies on them: memory-mapped registers and a tick
  counter. Of the code written for this game what is left out is below.
* The 5000 ms deadline of a dispatch: 200 NAKs or 3 timeouts, one per frame at
  most, come first; and where the millisecond clock wraps it only moves the
  deadline out.
* The branches of a control transfer no request of the firmware takes (OUT data,
  GET without data), and the string descriptors, which are printed and change no
  state.
* Electrical matters: the keycode register crosses clock domains without
  synchronisation, and the buttons are not debounced; each press is an edge
  here.
* In the main loop: the mouse branch, LED 9, printing through the JTAG UART,
  scores from 128 on, which a signed char shows as negative; the loops inside
  the chip reset, which are assumed to end.
