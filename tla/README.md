# Motion-Control-System: verification project

TLA+ models, TLC configurations and TLAPS proofs for the motion control
firmware of this repository: an STM32H7 that is the EtherCAT master of up to
eight servo drives (SV660N, CiA402, cyclic synchronous position), takes commands
from a serial line and from a touch panel over Modbus RTU, and computes a new
position for every drive every 5 ms.

## 1. The system

| Component | Source | State | Operations |
|---|---|---|---|
| S-curve planner | `User/Src/motion_profile.c` | `SCurvePlanner_t`: segment, elapsed cycles, position, velocity, acceleration, durations `Tj Ta Tv Td Tj2`, `decel_dist` | `SCurve_Init`, `SCurve_Plan`, `SCurve_Step`, `SCurve_Stop` |
| Single axis motion | `User/Src/motion_api.c` | `axis[ax]`: mode, `motion_busy`, `direction`, `jog_pending_rpm`, homing flag and phase, positions; `homing_active` | `Axis_ApplyVelocity`, `Axis_ApplyPosition`, `Axis_StopOne`, `Axis_CancelHoming`, `Axis_CheckHomingDone`, `Axis_ControlCycle` |
| Line interpolation | `motion_api.c` | `dda_*` fields of the slaves, the master's planner | `Interp_Line`, DDA mode of `Axis_ControlCycle` |
| Arc interpolation | `motion_api.c` | `g_arc`: the circle and a planner of the way along it | `Interp_ArcXY`, `Arc_ProcessStep`, `Arc_Abort` |
| Motion queue | `motion_api.c` | ring of segments, head, tail, count, pause | `Motion_QueueSegment`, `Motion_FlushQueue`, `Motion_Pause`, `Motion_Resume`, `Motion_ProcessQueue` |
| EtherCAT task | `User/Src/ethercat_task.c` | `fault_reset_step`, `fault_reset_requested`, control words, `mb_counter` | one pass per cycle |
| Serial commands | `User/Src/serial_cmd.c`, `Core/Src/usart.c` | `cmd_buf`, `cmd_idx`, `cmd_ready`, the notification | reception interrupt, `vCmd_Task`, `ParseCommand` |
| Cycle timer | `Core/Src/main.c`, `User/Src/bsp_timer.c` | `dorun` | send and notify every 5 ms |
| Modbus slave, panel | `HARDWARE/MODBUS/modbus_slave.c` | 16 bit registers, parameter mirror, jog edges | frames, triggers, status |
| RS485 driver | `HARDWARE/RS485/rs485.c` | `RS485_RX_CNT`, `RS485_TX_Busy`, `RS485_TC_Timeout`, direction pin | receive and send by DMA, timeout, error callback |
| Parameters | `User/Src/param_store.c`, mirror in `modbus_slave.c` | `param_ram` (flash is disabled in this build), its linear image and its mirror, `mirror_cur_ax` | get, set, factory reset, write-back, refresh |
| Start-up | `User/Src/ethercat_slave.c`, `Core/Src/main.c`, `motion_api.c` | PDO mapping, control words, `enabled` | configuration, `Axis_EnableAll`, clearing of faults |

How they interact. TIM1 fires every 5 ms, sends the process data and notifies
`vEtherCAT_Task`. A pass of that task polls Modbus (every fourth pass; a panel
command runs there), receives the process data, makes the arc step, runs
`Axis_ControlCycle` on every axis that is no slave, then on the slaves of a
line, then `Axis_CheckHomingDone`, `Motion_ProcessQueue` and the fault reset and
zero sequences. USART1 collects a line and notifies `vCmd_Task`, which suspends
the EtherCAT task, runs `ParseCommand` on the line and resumes the task. Commands
and passes share the axis records; that no command meets a pass half done rests
on the priorities alone (`CommandTask`), and all coordination between motions is
in the flags of those records.

What is hard here:

* A command may come at any point of a motion: between the plan and the first
  step, while the axis decelerates, reverses, homes, leads or follows a line.
* A motion is spread over several fields (`segment`, `current_vel`, `direction`,
  `jog_pending_rpm`, `motion_busy`, `mode`) that different functions read as
  "the axis moves"; they need not agree.
* Lines couple axes: a slave reads its master's planner, which may have been
  stopped, replanned, faulted or reset in the meantime.
* An arc writes its axes' targets beside their own planners, and nothing that
  takes an axis away ends it.
* The profile is integer arithmetic, computed by one simulation and executed by
  another loop; what truncation leaves over must be landed on without a jump the
  drive would report (0x6320).
* A drive may fault at any time and a reset resumes from whatever was left over.
* Homing ends for all axes together, guarded by one flag that commands to other
  axes recompute; so is the fault reset requested, by two ports.
* A drive answers a control word when it likes, or never, and is enabled on
  whatever target was last sent.
* The serial line's buffer and flags are shared with an interrupt without any
  protection.
* The panel's line loses and damages frames, its master repeats what is not
  answered, and a jog is an edge of a register that others also clear.
* A parameter has up to three copies, written back whole with every frame.
* A line that is too short for a feed of a few RPM is never begun: the loop that
  lowers its feed subtracts 0, with all other tasks waiting for it.

What makes each component correct: a planner always ends, never jumps or turns
round, stops where it says; an axis moves only when told to, is busy while it
does, stays stopped, completes a reversal; no homing is forgotten or ends alone;
slaves stay on the line and start and end with their master; an arc moves its
axes smoothly, leaves none behind and keeps the queue waiting until its end; the
queue loses, repeats and reorders nothing, and drains; a reset completes, is not
forgotten and enables a drive where it stands; a command line is executed once,
whole and between passes; an axis jogs while its button is down and makes one
step a press, whatever the line does; a parameter changes only when it is
written.

## 2. The modules

| Module | Models | Kind |
|---|---|---|
| `SCurvePlan` | the pure arithmetic of `SCurve_Plan` and `SCurve_Stop` (a counted loop is a power of its body, a loop with a condition a recursive function), and how `motion_api.c` derives limits from RPM and lowers the feed of a short line | operators |
| `SCurve` | one planner: `Plan`, one action per segment of `SCurve_Step`, `Stop`, `StopOne` | state machine |
| `SCurve_proof` | theorems of `SCurve` | proofs |
| `AxisMotion` | the single axis commands and the pass that executes them, for any set of axes | state machine |
| `AxisMotion_proof` | theorems of `AxisMotion` | proofs |
| `SegmentQueue` | what the motion queue promises: a bounded first-in first-out queue with pause and flush | abstract specification |
| `MotionQueue` | the ring buffer that implements it | state machine, refinement |
| `MotionQueue_proof` | theorems of `MotionQueue`, the refinement among them | proofs |
| `LineMotion` | lines, their slaves, the queue (it extends `SegmentQueue`) and whatever interferes, with positions | composition |
| `ArcMotion` | arcs of X and Y over the axes and the queue of `LineMotion`, which it extends: every action of it again, with what an arc adds | composition |
| `LineMotion_proof` | theorems of `LineMotion`, `ArcMotion` and `HomingMotion` | proofs |
| `HomingMotion` | homing over the axes, lines and queue of `LineMotion`, which it extends in the same way | composition |
| `DriveEnabling` | how drives come to be enabled: `Axis_EnableAll` and the clearing of faults in `main.c`, then the fault reset of the EtherCAT task, against CiA 402 drives that fail | state machine |
| `DriveEnabling_proof` | theorems of `DriveEnabling` | proofs |
| `CommandTask` | the two tasks, TIM1 and USART1, and what they share | state machine |
| `CommandTask_proof` | theorems of `CommandTask` | proofs |
| `JogPanel` | the panel's jog over an unreliable RS485 line: master, driver, `Modbus_Poll`, the jog state machine | composition |
| `JogPanel_proof` | theorems of `JogPanel` | proofs |
| `Parameters` | `param_ram`, its two copies in the registers, and everything that writes them | state machine |
| `Parameters_proof` | theorems of `Parameters` | proofs |
| `MCSCurve`, `MCAxisMotion`, `MCMotionQueue`, `MCLineMotion`, `MCArcMotion`, `MCHomingMotion`, `MCCommandTask` | instances for TLC | |

`DriveEnabling`, `JogPanel` and `Parameters` need no module of their own: their
configurations give the constants their values.

The planner appears at three levels. `SCurve` has it with its arithmetic.
`LineMotion` uses what `SCurve` shows of it: a step advances the position by the
new velocity, at most the speed limit, in the motion's direction; the planner
ends within one cycle's way of its goal, on it or not; a stop ends ahead of
where it was asked for. `AxisMotion` keeps its phase (done, running,
decelerating), whether it has a speed, and its direction.

### SCurve

State: the fields of `SCurvePlanner_t` that change every cycle are variables of
the same name; the others are the record `p`. `SCURVE_IDLE` is never assigned
after `SCurve_Init` and stands with `DONE`. A plan starts at position 0: the code
uses positions only as differences. The seven segment actions are the cases of
the `switch` in `SCurve_Step`, each with the integration and landing that follow
the `switch` (`Integrate`). `Stop` is `SCurve_Stop` as `Axis_ApplyVelocity` calls
it; `StopOne` is the call of `Axis_StopOne`, which rewrites the limits first from
the axis's present positioning speed (for the simple stop, all but the speed).
The mutable limits matter: a second stop with other limits hits a deceleration
that is already under way. `limits` is not in the code: it records whether one
has changed those of a deceleration since the last plan. A stop seeded on a planner
at rest is in `LineMotion`, by the planner's contract.

What `Interp_Line` does before it plans (`motion_api.c:366-393`) is in
`SCurvePlan` as `LineLimits`: it estimates the way of the acceleration and,
while the line is too short for it (`TooShort`), lowers the feed by a twentieth
(`FeedCut`), to a quarter at the least. Below 20 counts per cycle a twentieth is
0, and the loop does not end (`Crawls`); `SPEED:1` to `SPEED:4` set such feeds
at 50000 pulses per revolution. (C lets a compiler assume that a loop without
effects ends when its condition is no constant, as here; the models let such a
line hang or not.) The jerk time of the estimate, the longest with `(max_acc +
jerk) * Tj <= base_step` (`LineJerkTime`), is not that of `SCurve_Plan`, the
longest with `jerk * Tj * (Tj + 1) / 2 <= max_vel` (`JerkTime`), although the
comment at `motion_api.c:367` asks for the same.

### AxisMotion

State: `axis[ax]` with the fields the control flow looks at. Positions are
reduced to the sign of a displacement, and whether an encoder is near its
commanded target; both are inputs. `homing` also holds `homing_phase`. `asked` is
not in the code: it records the last command since the last fault or reset, so
that properties can say what the axis was told. Every command cancels homing as
the code does (`Command`). `Cycle` is a whole pass: the outcomes of
`Axis_ControlCycle` for every axis, then `Axis_CheckHomingDone`, then the last
step of the fault reset. A command line that addresses several axes is taken
axis by axis, with passes possible in between, which allows more than the code
does. RESET of the serial line also stops the axis; RESET of the panel does not.

### SegmentQueue and MotionQueue

`MotionQueue` has the variables of `motion_api.c` by name. A flush resets the
indices and leaves the old segments in their slots, which is why the contents of
the ring are defined by head and count, and why the invariant says which slots
hold live segments. `Contents` is the refinement mapping. The conditions on the
axes that gate a dispatch are left open here; `LineMotion` has them. The queueing
and pausing functions have no caller in this version of the repository and are
modelled as the interface offers them.

### LineMotion

State: `axis[ax]` with positions, the planner's contract and the `dda_*` fields.
`sent` is the position in the last process data; the encoder follows it with a
lag of one cycle, so that every command that starts from `actual_pos` starts
behind the command, as in the code. `Pass` runs the axes that are no slaves,
then the slaves, which see their master as this pass has left it, then
`Motion_ProcessQueue`. Between passes come `Line` (a POS/NUM/ZERO line, or the
panel's), `MoveTo`, `Stop`, `Halt` (X:0), `Abort` (STOP: flush, and stop all),
`ResetDone` and the queue's functions. Jogs are left out; homing is in
`HomingMotion`.

A line may be one that `Interp_Line` never returns from (`Crawls` of
`SCurvePlan`). Feeds are not told apart here, so any line shorter than
`CrawlWay` may or may not be such a line (`MayLoop`): then `looping` is set,
nothing else has been written, and neither a pass nor a command follows
(`Spin`). `LineLoops` is the call of a command, the third alternative of
`ProcessQueue` that of the dispatch, whose segment is still in the ring.
`ArcMotion` and `HomingMotion` have the same. In the modules where no line
occurs (`AxisMotion`, `DriveEnabling`, `JogPanel`, `Parameters`) it is assumed
that none hangs.

### ArcMotion

State: that of `LineMotion`, `g_arc` and `axis[ax].direction`. An arc is where its
axes start and end and the coordinates of every count of the way between,
rounded as the code rounds them: its points come from floating point sines and
are given by the instance, and `ArcAssumption` is what the code makes of
them (neighbours differ by one count at most, the end lies within `Landing` of
the circle). `ArcPass` is a whole pass: `Arc_ProcessStep` (`ArcStepped`,
`ArcDirection`), then `Control`: the axes that are no slaves, the slaves, and
`Motion_ProcessQueue`, which an active arc stops (`QueueGate`). `StartArc` is a
trigger of the panel whose geometry is accepted; a refused one changes nothing. The
commands of `LineMotion` come again as `ArcLine`, `ArcMoveTo`, `ArcStop`,
`ArcHalt`, `ArcResetDone` and `ArcQueueCommand` with what they do to
directions; `ArcAbort` is `Motion_Abort`, the only command that ends an arc. The
directions an arc leaves behind make an axis whose own planner ends jog on
(`JogOn`), so `ControlledOn` also has the jog, towards a goal out of reach.

### HomingMotion

State: that of `LineMotion`, `axis[ax].homing` with `homing_phase`, and
`homing_active`. A homing axis is a positioning one with a flag (`Zeroed`).
`SerialZero` is ZERO and X:ZERO, in one phase; `PanelZero` is the panel's command
3, whose first phase ends `CreepDist` before the origin, on the axis's own side
(`Approach`), and is left out nearby. That distance is halved for all axes after
the first that is near, since the code slows the same local variable down.
`HomePass` is a pass of `LineMotion` with `Axis_CheckHomingDone` before the
queue: `Switched` starts the second phase of the axes that have arrived, from
the encoder and in whatever mode they are; `CheckHomingDone` ends homing for all
when each stands at its commanded target. Positionings, stops, halts and the
abort cancel the homing of their axis (`Cancelled`); lines, the queue, faults and
resets do not. ZERO does not set `motion_busy`, so a queued line would be
dispatched while axes home; the instances have none, and none is queued by any
caller of this version.

### DriveEnabling

State: `fault_reset_step`, `fault_reset_requested`, the control word sent and
the status word received of every axis, the drive's own state (external), and
whether the target last sent is the position last received (`aligned`). Status
words are the states the masks of the code tell apart. `EnableStep`,
`ForceEnabled` and `AutoClear` are what `main.c` does before the tasks start, a
word at a time; `Pass` is the reset's share of a pass, with or without a frame
that came back; `SerialReset` and `PanelReset` are the two ports. A drive acts
on the word it was last sent when it likes; an unreliable one also faults in the
sequence or reports a status word of 0, a reliable one faults only in operation.
Where a motion or a stale output could have moved the target, `aligned` is left
open. So it is in the last frame of `Axis_EnableAll`: Enable Operation is sent
twice, 50 ms apart, because a drive may need both ("有时需要连续两帧 0x0F",
`motion_api.c:1307`), and the second carries the target of the first
(`EnableWrites`). A motor that was turned in between is then enabled on a stale
target (`reset_start`), which is why `EnabledInPlace` speaks of the reset
sequence only.

### CommandTask

State: `cmd_buf`, `cmd_idx`, `cmd_ready`, the notifications of both tasks, the
scheduler's state of the EtherCAT task, the place in `vCmd_Task`, `mb_counter`.
A character is the number of the line it belongs to, so that a buffer with
characters of two lines can be told. The EtherCAT task has priority 6 and the
command task 3: the latter steps only while the former waits or is suspended
(`HasProcessor`). `vTaskSuspend` ends a wait, which is why the resumed task runs
a pass without a notification. `parsed` collects what `ParseCommand` copies;
`due` records whether anything since the last pass justifies the next one.
`ParseCommand` need not return from a line of `Crawling`, nor a pass from one
that the queue or the panel gave it (`PassCrawls`): `CmdLoops`, `PassLoops`. In
the first case the EtherCAT task stays suspended, in the second it keeps the
processor from the command task.

### JogPanel

State: the four jog registers and `prev_jog_trig`, `prev_jog_dir`; the driver's
receive buffer, `RS485_TX_Busy`, the direction pin and `RS485_TC_Timeout`;
`gState` of the HAL's handle; the frames in `mb_rx_buf`; the master's
outstanding write and what the operator wants. A frame is the write it carries.
`Poll` is one call of `Modbus_Poll`: the timeout check, then either the bytes
that arrived or the frame that is complete; frames that arrive between two polls
run into one and fail the checksum. `CheckTriggers` runs STOP before the jog
edges, as the code does. The HAL takes a reply only while `gState` is ready, and
only the interrupt that ends one, or an error, makes it ready again
(`Transmitted`): after a lost interrupt the timeout frees the driver,
`RS485_Send_Data` goes on to switch the line, and `HAL_UART_Transmit_DMA`
returns `HAL_BUSY`, which nobody looks at (`Mute`). The timeout is counted in
polls, of which the code has 50; the comment at `rs485.c:258` takes them to come
at 1 kHz, but `ethercat_task.c:62` polls every 20 ms, so that the line is deaf
for a second, not for 50 ms.

### Parameters

State: `param_ram`, the linear image and the mirror in `mb_regs`, `AXIS_SELECT`,
`mirror_cur_ax`. Two parameters of each axis stand for all: one of 16 bits and
one of 32, with their ranges and defaults; the linear image holds the low 16
bits, sign extended when it is written back. Every write of the panel is
followed by the write-back of both images (`Taken`), in the code's order. Writes
of a long parameter are one frame (FC16). Of an auxiliary axis only its
selection is modelled: the words of the mirror are then written one after the
other to parameter 0, the speed limit of X, where the last valid one stays
(`LastWord`). Start-up gives X's defaults to Y and Z; the description table has
no entry for them. R is left out: it starts with soft limits of its own.

## 3. What is checked

| Run | Instance | Shows |
|---|---|---|
| `scurve` | 21 motions of 1 to 200 RPM on a linear and a rotary axis (full profiles, truncated ones, triangles, single counts), two settings for retuned stops, a stop in every cycle | `StepIncrement`: no cycle moves the command backwards beyond the landing window or forwards faster than the limit; `DecelOnly`: deceleration is monotone and is only left for done, also when retuned; `StopLands`: a stop ends at its announced target or at most three steps of full deceleration short, unless another one changes its limits on the way; `Residual`: a planned motion ends less than a cycle's way beyond its target, and less than that and a step of the jerk short of it, if it is not shorter than the shortest profile; `Finishes` |
| `axis` | one axis, every command, drive faults, both kinds of stop | `MovesOnlyWhenAsked`, `MovingIsBusy`, `StopIsFinal`, `ReversalCompletes` |
| `homing` | two axes homing in one or two phases, one also jogs and faults, the other stops | `HomingKnown`, `HomesTogether` |
| `line` | two axes, lines led by axis 0 and back, a queued line led by axis 1, a positioning, stops, halts, faults, resets, pause; short lines may hang | `Straight`, `EndsTogether`, `EndsNear`, `LinesDoNotJump`, `SegmentsJoin`, `QueueDrains` |
| `arc` | two axes, half a circle and a quarter of it back from its middle, a line, a queued line, a positioning, stops, halts, faults, resets | `ArcMode`: X and Y are in ARC mode exactly as long as the arc they were told to follow; `ArcAdvances`; `ArcDoesNotJump`; `QueueWaitsForArc` |
| `home` | two axes, a line to (5,-5), homing of X or of both from either port, a positioning, stops, a halt, faults, resets | `HomedAtOrigin`: homing is completed only with the axes at the origin; `HomingDoesNotJump`: nor do they jump from phase to phase; `HomingEnds`: it ends for all, whatever stops or takes one of them, unless a line hangs |
| `queue` | three slots, three segments | `Implements` (refinement), `TakesOldest` |
| `reset` | two drives, one unreliable, from before the enabling through two requests | `ResetRemembered`; `EnabledInPlace`: no reset takes a drive into operation on a stale target; `ResetCompletes`: the reset of a reliable drive ends in operation, wherever the other hangs |
| `tasks` | three lines, one longer than the buffer, one that may hang, three kinds of host | `ParsesBetweenPasses`, `PassWhenDue`; `PanelServed`; `PatientObeyed`: a host that waits has every line executed once, whole and in order |
| `panel` | two axes, six writes, two faults of any kind (loss, damage, missing interrupt, DMA error) | `JogFollowsButton`, `StepPerPress`: with every write answered, the axes do what the buttons said, once; `WritesObeyed`: every write is answered, or obeyed where the transmitter has gone mute |
| `params` | two axes and an auxiliary one, speeds 100 and 5000 (out of range), limits 30000 and 70000 (beyond 16 bits, its low ones are 4464), every writer in any order | `OnlyWhatIsWritten`, `MirrorTaken` |

`line` and `panel` also check `TypeOK`; those of the other modules are part of their
invariants in section 4.

One run shows that the code does not do what one of its comments says; it
checks one property and TLC finds it violated:

| Run | Property | What the code does |
|---|---|---|
| `line_reset` | `ResetHoldsStill` | the fault reset of a master zeroes its planner (`ethercat_task.c:235`) while its slaves still follow: where the line started on the negative side, position 0 is further along it than the master came, and the next pass puts them there at once |

More configurations give counterexamples that are worth keeping; each checks
one property that the code does not keep, and is run by hand
(`tlc -config <name>.cfg <module>`):

| Configuration | Module, property | Counterexample |
|---|---|---|
| `axis_leftover` | `MCAxisMotion`, `JogsOnlyWhenAsked` | a positioning after a jog goes on as a jog when it has arrived: `direction` is left set (`motion_api.c:1535`) |
| `line_negative` | `MCLineMotion`, `StraightBothWays` | slaves do not follow a master that moves in the negative sense: its progress is clamped at 0 (`motion_api.c:1555`) |
| `arc_leftover` | `MCArcMotion`, `OnlyJogsGoOn` | a line after an arc goes on as a jog when it has arrived, although nobody jogged: an arc sets `direction` (`motion_api.c:579`), its end leaves it set, and an axis with a direction jogs on; "点动巡航到头: 自动续程保持连续运动" (`motion_api.c:1534`) |
| `home_leftover` | `MCHomingMotion`, `LineKeepsTarget` | a line that interrupts the first phase of a homing leaves the flag: when the line has arrived, the axis is sent on to the origin (`motion_api.c:1154`) |
| `arc_stop` | `MCArcMotion`, `StopEndsArc` | a stop of one axis does not end the arc: the next pass goes on writing the targets of both axes (`motion_api.c:546`) |
| `params_frozen` | `Parameters`, `MirrorRouted` | a parameter of Y, Z or R written through the mirror is refused: their entries in the table of ranges are missing, so only 0 is valid (`param_store.c:549`, `modbus_slave.c:256`) |
| `scurve_residual` | `MCSCurve`, `ResidualAligned` | a positioning of the R axis by one degree (100 counts) at 100 RPM travels 600: the shortest profile is twice its first step, and what is left exceeds a cycle's way, so the axis is not aligned; "残余总小于此值. 适用于回零和所有定位模式" (`motion_api.c:1511-1512`) |
| `axis_stop` | `MCAxisMotion`, `StopsWhenAsked` | a stop between the plan and its first cycle clears `motion_busy` and leaves the planner running (`motion_api.c:957`) |
| `line_stop` | `MCLineMotion`, `StopsForward` | a slave that moves in the negative sense is stopped in the positive one (`motion_api.c:908`) |
| `line_jump` | `MCLineMotion`, `NeverJumps` | a speed of 0 on an axis with a stale planner sends the position where that planner ended (`motion_api.c:997`) |
| `tasks_lost` | `MCCommandTask`, `PromptObeyed` | a host that sends its next line on the answer loses it: `cmd_ready` is cleared once more (`serial_cmd.c:897`) |
| `tasks_twice` | `MCCommandTask`, `OncePerFrame` | the pass after `vTaskResume` steps the axes without a new frame (`serial_cmd.c:894`) |
| `panel_step` | `JogPanel`, `StepPerPress` | a master that does not write the trigger back to 0 gets no second step, although "不需要手动写 0 停止" (`modbus_slave.c:1030`) |
| `panel_deaf` | `JogPanel`, `AlwaysAnswered` | an error while a reply is sent leaves the direction pin at sending: nothing is received any more (`rs485.c:239-253`) |
| `panel_mute` | `JogPanel`, `AlwaysAnswered` | after one interrupt that did not come no reply leaves any more: the fallback that is to keep the driver from being stuck (`rs485.c:259`) does not reset the state of the HAL (`rs485.c:262-272`) |
| `params_strict` | `Parameters`, `NothingElseWritten` | selecting an auxiliary axis changes the speed limit of X, though its mirror is to be routed "根据轴类型" (`modbus_slave.c:285`, `289`); with `Aux = {}` the same run finds that a limit beyond 16 bits is truncated through the linear image by the next frame for anything (`modbus_slave.c:242`) |
| `line_hung` | `MCLineMotion`, `AlwaysDrains` | a short queued line at a low feed is never begun: the pass stays in `Interp_Line` (`motion_api.c:383-387`), and the queue is not processed in every cycle (`motion_api.c:711`) |
| `tasks_hung` | `MCCommandTask`, `AlwaysServed` | the same line, from either port or the queue: the panel is not served again (`motion_api.c:383-387`, `ethercat_task.c:62`) |
| `reset_start` | `DriveEnabling`, `StartedInPlace` | `Axis_EnableAll` enables a drive by its second Enable Operation, on the target of the first, after the motor was turned (`motion_api.c:1306-1317`), although "每步使能前同步目标位置" (`motion_api.c:1274`) |

Some passing properties name the exceptions these leave: `Straight` and
`EndsNear` speak of masters that move forwards, `LinesDoNotJump` of axes that
were not stopped and that no master has left behind (`LeftBehind`: one that was
reset, or positioned anew from an encoder that was ahead, takes its slaves along
in the next cycle), `ArcDoesNotJump` of axes that nothing has taken from the
arc, `HomedAtOrigin` and `HomingDoesNotJump` of axes that were not elsewhere
since, `HomingEnds` of homings none of whose axes a line or a fault has taken,
`ReversalCompletes` of an axis that only jogs, `ResetCompletes` of drives that
do not fault in the sequence, `EnabledInPlace` of the reset and not of start-up,
`PatientObeyed` of a host that waits; `QueueDrains`, `HomingEnds`, `PanelServed`
and `PatientObeyed` of systems in which no line hangs in `Interp_Line`;
`WritesObeyed` asks of a mute transmitter only that what is written is obeyed,
and nothing of a direction pin left at sending; `OnlyWhatIsWritten` excepts a
parameter whose low 16 bits are another valid value (`Truncated`) and the speed
limit of X while an auxiliary axis is selected (`Misrouted`). What is said of
jumps and of where a queued line starts is said of axes whose drive is within a
cycle's way of where it was sent (`Close`): a plan starts from the encoder, so
an axis goes on from wherever a drive that stays behind is. The instance of
`panel` has a master that waits two polls before it repeats (frames of one that
does not may run into one for ever), writes the trigger back and changes axis
and mode only with no button down (a release would stop the other axis,
`modbus_slave.c:1090`). `OnlyWhatIsWritten` speaks also only of parameters whose
registers agree with them (`InSync`): before the first refresh the images are 0,
and a frame then writes zeros where 0 is valid.

Two properties say less than comments do. Those of the planner claim that a
profile lands exactly (`motion_profile.c:493`, `543`, `580`); `StopLands` allows
three steps of full deceleration, `Residual` a cycle's way, which is what
truncation leaves over, and what the arrival in `Axis_ControlCycle` aligns. The
planner of `LineMotion`, which ends within `Speed` of its goal, keeps a little
more than `Residual` and `StopLands` promise, which add a step of the jerk and
three steps of deceleration.

### Bounds

* `scurve` has no bound besides its set of motions: plans, steps and stops may
  follow each other for ever. The limits are those the firmware computes (two of
  them for lines whose feed is looked at first) from 50000 pulses per revolution
  at 1, 10, 20 and 200 RPM, and from 36000 on a rotary axis at 100 RPM, and
  displacements are chosen to reach every branch of `SCurve_Plan`: a full
  profile with cruise (26000 at 200 RPM), a short cruise, no cruise (5000, 40),
  a jerk time of one, the zero displacement, both senses. 32 bit wrap-around is
  not modelled; no value of the instance comes near it.
* `axis` and `homing` have no bound: their state is finite. Two axes suffice for
  the interference of homings, since each command names one axis and the flag
  they share only asks whether any other axis homes.
* `line`: commands and faults are capped by `MaxEvents` = 3 (2 where a
  counterexample needs no more), so a line may be replaced and then stopped, or
  a fault be followed by a reset and a line; `Reach` = 5, `Speed` = 1 and a way
  of stop of 1 let a line last several cycles with a slave at an uneven share
  (3/5 of the master's way), so that rounding happens; the queue has one slot
  there because `queue` covers the ring. `Window` = 0 makes a master that misses
  its target stay off it. `CrawlWay` = 2 (there, in `arc` and in `home`) is what
  `Crawls` gives for a feed of 1: twice its square. `LinesCrawl`, which `scurve`
  evaluates, says so for all feeds below 20 counts per cycle, ways up to 800 and
  no cap of the acceleration.
* `line_reset` needs four events: a line to the negative side, one back from
  there, the master's fault and its reset.
* `arc`: a half circle of radius 2 and a quarter back from the point where it is
  half done, so that an arc may replace an arc, a line, a positioning or what
  a fault or stop has left, and be taken from one axis or both; `MaxEvents` = 3.
  At `Speed` = 1 a step of 4, which the far end of the half circle allows, is
  beyond what `ArcDoesNotJump` tolerates (3). `Edge` = 7 is the bound of the
  jogs that arcs leave behind: beyond it all positions are one. R and Z, which an
  arc holds where they are, do not occur with two axes.
* `home`: from (5,-5) with `Creep` = 2 both axes have two phases, of which the first
  is one count long, in different senses; from less than 4 they go in one.
  `StopDist` = 0 and `Window` = 1 keep the planners of both axes, which step in every
  order, small; `MaxEvents` = 3 is a way out, a homing and what
  interferes with it, or a second homing.
* `reset`: `MaxResets` = 2 lets a request meet a sequence at every step of it, of
  the same axis or of the other. Faults and answers are not bounded.
* `tasks`: three lines, so that one may arrive while one is parsed and one waits;
  `MaxPending` = 2 notifications show that several are taken at once; the buffer
  has 4 places for 64. The third line may hang, and so may a pass.
* `panel`: `MaxWrites` = 6 covers press, turn, release, choice, STOP and a press
  again; `MaxFaults` = 2 lets the repetition be hit too. `TcTimeout` = 2 polls
  stands for the code's 50: longer than a reply, so that the timeout only
  replaces a missing interrupt. Writes being exhausted, the instance may stop.
* `params` has no bound: its state is finite. One parameter of 16 bits and one of
  32, one axis with ranges and one without, and one auxiliary axis are the cases the
  code tells apart.

### Fairness

The task is notified by a hardware timer every 5 ms: weak fairness of the pass
(`Cycle`, `Pass`, `Step`). In the two abstract modules a planner that is stepped
comes to its end (`PlannerEnds`), which is what `Finishes` shows of `SCurve`,
unless a line hangs and nothing is stepped. No fairness is assumed of commands,
faults or the reset. `HomeSpec` is fair as `LineMotion` is. `ArcSpec` has none:
that an arc ends is `ArcAdvances` and `Finishes` of its planner.

`reset`: passes whose frame came back go on, a drive acts on a word it is kept
being sent, and `main.c` goes on by itself. `tasks`: the timer fires and passes
end; of the command task only that it steps when it could again and again, and
that again and again a pass ends before the next tick (strong fairness), since
the lower priority gets the processor in no other way. `panel`: polls, the end
of a reply and the master's repetition are weakly fair; the operator and the
faults are not.

`Finishes` is stated for planners not replanned for ever; `QueueDrains` for
motions that no stop or fault has left as they are; `HomingEnds` for homings that
no line or fault has interrupted; `ReversalCompletes` unless
another command or a fault comes first.

## 4. What is proved

For every value of the constants, from the assumptions named in the modules.

`SCurve_proof`. Motions, stops and limits are arbitrary; assumed is only that
speed, acceleration and jerk limits are positive integers, the speeds at most
`MaxSpeed`. What the loops of `SCurve_Plan` and `SCurve_Stop` compute is proved
too. A recursive function is by definition some function that satisfies its
equation, so that its existence comes first (`PowersExist`, `WhileDef`), and
both that and what the loops keep (`WhileKeeps`) are proved from the least
counterexample (`LeastNatural`), which needs no induction principle. On this
rest:

* the stages of an acceleration and a deceleration, cycle by cycle (`Rise1Facts`
  to `Rise3Facts`, `Fall1Facts` to `Fall3Facts`): after n cycles of the jerk the
  acceleration is n times the jerk and the velocity its sum, and a deceleration
  enters its last stage with the velocity that stage takes away and a bounded
  remainder;
* `PlansFit`: both searches for the jerk time end, and the profile found is not
  longer than the displacement, unless the shortest one is; the deceleration
  distance is that of the profile;
* the inductive invariant `IInv`, which adds to the types that a moving planner has
  a direction and positive limits and that the sign of the acceleration fits the
  segment: without the latter, velocity is not monotone in a deceleration.
  `TypeCorrect`, `NoJump` (`StepIncrement`), `NeverTurnsRound` (`DecelOnly`);
* `FollowsSimulation`, the invariant `Simulated`: in every segment velocity,
  acceleration and way are those the simulation of the plan, or of the stop, has after
  as many cycles, and a deceleration begins at the distance simulated, up to a cycle
  of travel. The step to the next cycle of the simulation is the step of the
  planner, except in the last stage, which the planner leaves as soon as the velocity
  is down to the jerk, dropping what is left of it; `Undone` bounds the way that is
  left out.
  `StopsLand` (`StopLands`) and `PlannedEndsNear` (`Residual`) follow.

`Simulated` holds as long as no stop has changed the limits of a deceleration under
way: `SCurve_Stop` then returns without simulating anew, and the planner runs with
durations that belong to other limits. What remains true in that case is `NoJump`,
`NeverTurnsRound` and, model-checked, `Finishes`. `Residual` excepts displacements
below twice the first step of the jerk, which the shortest profile passes
(`scurve_residual`).

`AxisMotion_proof`. For any number of axes. The inductive invariant says, of
each axis by itself, that it is in POS mode only if a command came since its
last fault or reset, that one told to jog or to position does not home, that it
is busy while its planner moves it, and that a stopped one has no direction,
pending reversal or homing left; and, over all axes, `HomingKnown`. Without the
second part the second phase of a homing could move an axis that is not busy,
and without the last one the end of a stop could start a jog. The commands are
proved by one lemma per command on the axis record, the pass by what it does to
one axis and to the flag. `TypeCorrect`, `HomingNeverForgotten`,
`MovesOnCommand`, `BusyWhileMoving`, `HomingEndsTogether`, `StopsForGood`
(`StopIsFinal`).

`MotionQueue_proof`. For every ring size. Lemmas on the modular arithmetic of
slots (the slot after the n-th is the (n+1)-th; slots of different offsets below
the size differ) give `Consistent`. `Refines` maps initial states and every step:
a segment put is appended to `Contents`, one taken is its head, a flush empties
it, and dispatching is the abstract `Take`. `Oldest` follows.

`LineMotion_proof`. For any number of axes, any lines, speeds and bounds. Lines:
the inductive invariant (`AxesOK`) links each slave to its master: a slave on a
line has a master that is not itself, whose way is positive and at least its
own, and whose planner is on that line; until the master has emitted anything
the slave stands at its start, and afterwards it is within half a pulse of its
share. The last part is inductive only because a running master never goes back,
and because the leader is the axis with the longest way, whose existence for any
number of axes comes from the least natural number (`LeastNatural`,
`LeaderLongest`). `TypeCorrect`, `SlavesEndWithMaster` (`EndsTogether`),
`LinesAreStraight` (`Straight`).

What no cycle does is proved from a second invariant, `AxesStand`, that says
where each axis was last sent: one that stands or holds, at its position or its
encoder or, while it is positioned, at its planner's position unless that is
still the encoder it was planned from (`Standing`); how a master that leads back
or forward stands to the start and the end of the line its slaves know
(`Course`); and that one whose line has ended is near its target (`NearEnd`).
From it follow `AxesEndNearTarget` (`EndsNear`), `LinesNeverJump`
(`LinesDoNotJump`) and `SegmentsJoinUp` (`SegmentsJoin`): each step sends an
axis to where it was sent before, to its encoder, or a step further, and a slave
that was not left behind owes its master half a pulse more than that at most.
Both premises are needed: TLC, asked for more events than `line.cfg` has, finds
a slave that a master planned anew takes along, and a line that starts from a
drive that stayed behind.

Of `ArcMotion`, for any arcs, also ones off the circle: `ArcKeepsItsAxes`
(`ArcMode`) and `ArcsAdvance` (`ArcAdvances`). Their invariant needs of an axis
only its mode and what it was last told: one lemma for each command says that it
takes an axis out of both, `ControlKept` that the rest of a pass keeps it in,
unless a fault or a queued line takes it out. `ArcsNeverJump` (`ArcDoesNotJump`)
and `QueueWaitsForArcs` (`QueueWaitsForArc`) need `ArcTyped`: besides types, an
axis of the active arc was sent to the arc's coordinate at the planner's
position or stands where the arc begins (`Along`), and after the arc it holds at
its end (`AtEnd`), in whatever mode the axes were that it took. That n steps
along an arc move an axis by at most n counts (`ArcStretch`) is again the least
natural number for which it would fail. TLC checked `ArcTyped` on the instance
of `arc` first.

Of `HomingMotion`: `HomesAtOrigin` (`HomedAtOrigin`): an axis that was last sent
home and is not in its first phase has the origin for its target (`HomeTargets`),
and the check ends no homing whose first phase has not just been replanned.
`HomingNeverJumps` (`HomingDoesNotJump`) adds that an axis told to home is
positioned to its commanded target, from where it was sent or from the encoder
(`HomeAxesOK`).

All three refine the abstract queue that `MotionQueue` implements:
`LinesRefineQueue`, `ArcsRefineQueue`, `HomingRefinesQueue` say that every step of
theirs is a step of `QueueSpec` or leaves it alone.

`DriveEnabling_proof`. For any number of drives, reliable or not. The inductive
invariant adds to types and `ResetRemembered` that no sequence runs before the
tasks do and that an axis in the sequence that is sent Enable Operation is sent
it on its own position. `TypeCorrect`, `ResetNeverForgotten`,
`EntersOperationInPlace` (`EnabledInPlace`), which is of the reset alone:
start-up does not keep it (`reset_start`).

`CommandTask_proof`. For any lines, buffer and hosts. The invariant ties the
place in `vCmd_Task` to the state of the EtherCAT task: suspended and between
passes while a line is parsed, and something due whenever it is ready and has
not begun. `CommandsBetweenPasses`, `NoPassForNothing` (`PassWhenDue`).
`TypeCorrect` says that no line is written past the buffer and that what is
copied from it is always made of characters sent; its invariant keeps an end
mark in the last place.

`JogPanel_proof`. For any axes, faults and bounds. `JogsAsToldTo`
(`JogFollowsButton`) and `StepsAsPressed` (`StepPerPress`) assume a master that
is not eager, writes the trigger back and is careful. Its invariant has three
parts besides the types: what registers and edges say of the motion at all times
(`RegsOK`); that only copies of the last write are on the way, one at a time,
and none once it is answered (`LineOK`); and that the write is either executed,
and executing it again changes nothing, or has still to be executed
(`Progress`): a press that was executed has left the edge, so that its
repetition makes no second step. `TypeCorrect`.

`Parameters_proof`. `TypeCorrect`, `NothingElseChanges` (`OnlyWhatIsWritten`,
with its two exceptions) and `MirrorIsTaken` (`MirrorTaken`) for any axes,
auxiliary ones included, and any values.

Only model-checked: liveness (`Finishes`, `ReversalCompletes`, `QueueDrains`,
`HomingEnds`, `ResetCompletes`, `PanelServed`, `PatientObeyed`, `WritesObeyed`),
which the prover does not reach. Every other property of a passing run is a
theorem.

## 5. What is not modelled, and why

Text parsing, printing, register layout and the frame formats: no property is
about them. The EtherCAT stack (SOEM), FreeRTOS, HAL, CMSIS, which are most of
the repository's lines: vendored. Flash is disabled in this build, and with it
saving, the parameter slots and the power-fail save. `Axis_QuickStop`,
`Axis_EStop`, `Axis_EStopAll`, `Axis_Home` and `Axis_HomeAll` have no caller,
and with the last two the zero sequence of the EtherCAT task, which nothing else
requests. The points of an arc are floating point sines, given by the instance.
`enabled` is taken as set: after start-up only functions without a caller clear
it (`Axis_Disable`, `Axis_EStop`, `Axis_EStopAll`). The configuration of the
slaves and the climb to OP are blocking calls of the stack without a state of
their own. What a frame carries that TIM1 sends in the middle of a pass would
need passes split at every output they write. The configuration triggers of the
panel (`CFG_APPLY`, the axis types, which write gear ratios to the drives) are
not modelled. The hazards without a property are listed in `PROJECT.json` with
the reason.

## 6. Plan

1. Done: planner, single axis, queue, lines and arcs (the core: everything that
   decides where an axis goes); fault reset and enabling; tasks and interrupts;
   the panel's jog over RS485; parameters.
2. Done: homing with lines. Left: arcs that take an axis that homes, and a queue
   with lines in it while axes home.
3. `CFG_APPLY` and the axis types, over the commands of `AxisMotion`.
4. Proofs: done for every safety and action property of the runs. Left: that a
   planner ends within a number of cycles its plan bounds, and the invariants of
   arcs and homing together, once point 2 has a module for them.
