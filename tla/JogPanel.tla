------------------------------ MODULE JogPanel ------------------------------
(***************************************************************************)
(* Jogging from the panel: a Modbus master (external) writes registers     *)
(* over the half duplex RS485 line, Modbus_Poll takes the frames every     *)
(* 20 ms, and CmdExec_CheckTriggers runs the jog state machine after every *)
(* write.  Frames are lost or damaged, the interrupt that ends a reply     *)
(* fails to come, and the master repeats what is not answered.             *)
(*                                                                         *)
(* A frame is the write it carries.  The motion of an axis is the jog it   *)
(* was last told, a direction or 0, and the steps it was told to make.     *)
(***************************************************************************)
EXTENDS Integers, Sequences

CONSTANTS Axes,
          Faults,     \* the faults of the line in this instance
          MaxFaults,  \* bound on the faults of a behaviour
          MaxWrites,  \* bound on the master's writes
          TcTimeout,  \* RS485_TC_Timeout at the start of a reply, in polls
          Eager,      \* the master repeats before two polls have passed
          Releases,   \* the master writes JOG_TRIG = 0 when a step button is let go
          Careful     \* the axis and the mode are chosen while no button is down

FaultKinds == {"lost", "damaged", "tclost", "dmaerror"}

ASSUME FaultsAssumption == Faults \subseteq FaultKinds
ASSUME BoundsAssumption == MaxFaults \in Nat /\ MaxWrites \in Nat
ASSUME TcTimeoutAssumption == TcTimeout \in Nat \ {0}
ASSUME ModesAssumption == Eager \in BOOLEAN /\ Releases \in BOOLEAN /\ Careful \in BOOLEAN

VARIABLES
  \* the registers the triggers read, and the static variables beside them
  jog_trig, jog_axis, jog_mode, jog_dir, prev_jog_trig, prev_jog_dir,
  told, steps,           \* the jog and the steps each axis was told
  \* the driver and Modbus_Poll
  rx,                    \* RS485_RX_BUF while RS485_RX_CNT > 0
  mb_rx_buf,             \* the frames in mb_rx_buf
  sending,               \* the transmitter is at work on a reply
  tx_busy, dir_tx, tc_timeout,
  gState,                \* of the UART handle: whether the HAL takes a reply
  \* the master
  request, awaiting,     \* its last write, and whether it lacks the answer
  pressed, wants, presses, \* the button, and what the axes should do
  faults, writes

registers == <<jog_trig, jog_axis, jog_mode, jog_dir>>
edges == <<prev_jog_trig, prev_jog_dir>>
motion == <<told, steps>>
reception == <<rx, mb_rx_buf>>
transmission == <<sending, tx_busy, dir_tx, tc_timeout, gState>>
operator == <<pressed, wants, presses>>
vars == <<jog_trig, jog_axis, jog_mode, jog_dir, prev_jog_trig, prev_jog_dir, told, steps,
          rx, mb_rx_buf, sending, tx_busy, dir_tx, tc_timeout, gState,
          request, awaiting, pressed, wants, presses, faults, writes>>

Selections == {{a} : a \in Axes} \cup {Axes}

Write(reg, value) == [reg |-> reg, value |-> value]

Writes ==
  {Write("trig", v) : v \in {0, 1}} \cup {Write("axis", S) : S \in Selections}
  \cup {Write("mode", v) : v \in {0, 1}} \cup {Write("dir", v) : v \in {-1, 1}}
  \cup {Write("stop", S) : S \in Selections}

Nothing == Write("none", 0)
Damaged == Write("damaged", 0)
Still == [a \in Axes |-> 0]

Init ==
  /\ jog_trig = 0 /\ jog_axis \in Selections /\ jog_mode = 0 /\ jog_dir = 1
  /\ prev_jog_trig = 0 /\ prev_jog_dir = 0
  /\ told = Still /\ steps = Still
  /\ rx = Nothing /\ mb_rx_buf = <<>>
  /\ sending = FALSE /\ tx_busy = FALSE /\ dir_tx = FALSE /\ tc_timeout = 0
  /\ gState = "ready"
  /\ request = Nothing /\ awaiting = FALSE
  /\ pressed = FALSE /\ wants = Still /\ presses = Still
  /\ faults = 0 /\ writes = 0

-----------------------------------------------------------------------------
\* CmdExec_CheckTriggers after write w.

\* Mutant of PrevTrig: it follows the register, which a step has cleared.
PrevTrigCleared(trig, mode) == IF mode = 1 THEN 0 ELSE trig

\* prev_jog_trig keeps the value read, although a step clears the register.
PrevTrig(trig, mode) == trig

\* Mutant of PrevDir: only the start of a jog takes the direction.
PrevDirAtStart(dir, rises, turns) == IF rises THEN dir ELSE prev_jog_dir

PrevDir(dir, rises, turns) == IF rises \/ turns THEN dir ELSE prev_jog_dir

\* STOP stops the axes named and clears JOG_TRIG, before the jog edges are looked
\* at: the falling edge then stops the axis that jogs.
CheckTriggers(w) ==
  LET trig == IF w.reg = "stop" THEN 0 ELSE IF w.reg = "trig" THEN w.value ELSE jog_trig
      axes == IF w.reg = "axis" THEN w.value ELSE jog_axis
      mode == IF w.reg = "mode" THEN w.value ELSE jog_mode
      dir  == IF w.reg = "dir" THEN w.value ELSE jog_dir
      rises == trig = 1 /\ prev_jog_trig = 0
      turns == trig = 1 /\ prev_jog_trig = 1 /\ mode = 0 /\ dir # prev_jog_dir
      falls == trig = 0 /\ prev_jog_trig = 1 /\ mode = 0
  IN  /\ told' = [a \in Axes |->
                    IF (rises \/ turns) /\ mode = 0 /\ a \in axes THEN dir
                    ELSE IF falls /\ a \in axes THEN 0
                    ELSE IF w.reg = "stop" /\ a \in w.value THEN 0 ELSE told[a]]
      /\ steps' = [a \in Axes |->
                     IF rises /\ mode = 1 /\ a \in axes THEN steps[a] + 1 ELSE steps[a]]
      /\ jog_trig' = IF rises /\ mode = 1 THEN 0 ELSE trig
      /\ jog_axis' = axes /\ jog_mode' = mode /\ jog_dir' = dir
      /\ prev_jog_trig' = PrevTrig(trig, mode)
      /\ prev_jog_dir' = PrevDir(dir, rises, turns)

-----------------------------------------------------------------------------
\* rs485.c and Modbus_Poll.

\* RS485_TC_CheckTimeout: the interrupt that ends a reply is overdue.
Overdue == tc_timeout = 1

\* HAL_UART_Transmit_DMA (external): it returns HAL_BUSY, which nobody looks at,
\* until the interrupt that ends the reply before has come.
Transmitted ==
  IF gState = "ready" THEN sending' = TRUE /\ gState' = "busy_tx"
                      ELSE UNCHANGED <<sending, gState>>

\* Mutant of ReplySent: the fallback is not armed.
ReplySentUnguarded ==
  /\ tx_busy' = TRUE /\ dir_tx' = TRUE /\ tc_timeout' = 0 /\ Transmitted

\* RS485_Send_Data while RS485_TX_Busy is 0.
ReplySent ==
  /\ tx_busy' = TRUE /\ dir_tx' = TRUE /\ tc_timeout' = TcTimeout /\ Transmitted

\* Mutant of Checked: the count goes on below 0.
CheckedUnguarded ==
  /\ tc_timeout' = tc_timeout - 1
  /\ tx_busy' = (tx_busy /\ ~Overdue)
  /\ dir_tx' = (dir_tx /\ ~Overdue)
  /\ UNCHANGED <<sending, gState>>

\* What RS485_TC_CheckTimeout does to the transmitter at the start of a poll.
Checked ==
  /\ tc_timeout' = IF tc_timeout = 0 THEN 0 ELSE tc_timeout - 1
  /\ tx_busy' = (tx_busy /\ ~Overdue)
  /\ dir_tx' = (dir_tx /\ ~Overdue)
  /\ UNCHANGED <<sending, gState>>

\* The bytes the interrupt reported go into the buffer; the frame is complete when
\* a later poll finds nothing new.  What arrived in between runs into one frame,
\* whose checksum is wrong.  The fallback comes long after a reply would have ended:
\* 50 polls are 1 s, the longest reply takes 23 ms.
Polled ==
  \/ /\ rx # Nothing
     /\ mb_rx_buf' = Append(mb_rx_buf, rx) /\ rx' = Nothing
     /\ Checked
     /\ UNCHANGED <<registers, edges, motion, request, awaiting, operator, faults, writes>>
  \/ /\ rx = Nothing /\ mb_rx_buf # <<>>
     /\ mb_rx_buf' = <<>>
     /\ IF Len(mb_rx_buf) = 1 /\ mb_rx_buf[1] # Damaged
        THEN /\ CheckTriggers(mb_rx_buf[1])
             /\ IF tx_busy /\ ~Overdue THEN Checked ELSE ReplySent
        ELSE Checked /\ UNCHANGED <<registers, edges, motion>>
     /\ UNCHANGED <<rx, request, awaiting, operator, faults, writes>>
  \/ /\ rx = Nothing /\ mb_rx_buf = <<>> /\ tc_timeout # 0
     /\ Checked
     /\ UNCHANGED <<registers, edges, motion, reception, request, awaiting, operator,
                    faults, writes>>

Poll == (sending => ~Overdue) /\ Polled

\* HAL_UART_TxCpltCallback: the reply is out.
TxComplete ==
  /\ sending
  /\ sending' = FALSE /\ tx_busy' = FALSE /\ dir_tx' = FALSE /\ tc_timeout' = 0
  /\ gState' = "ready" /\ awaiting' = FALSE
  /\ UNCHANGED <<registers, edges, motion, reception, request, operator, faults, writes>>

MayFail(kind) == kind \in Faults /\ faults < MaxFaults /\ faults' = faults + 1

\* The reply does not reach the master.
ReplyLost ==
  /\ sending /\ MayFail("lost")
  /\ sending' = FALSE /\ tx_busy' = FALSE /\ dir_tx' = FALSE /\ tc_timeout' = 0
  /\ gState' = "ready"
  /\ UNCHANGED <<registers, edges, motion, reception, request, awaiting, operator, writes>>

\* The reply is out, and the interrupt does not come: the HAL stays busy.
TcLost ==
  /\ sending /\ MayFail("tclost")
  /\ sending' = FALSE /\ awaiting' = FALSE
  /\ UNCHANGED <<registers, edges, motion, reception, tx_busy, dir_tx, tc_timeout, gState,
                 request, operator, writes>>

\* An error of the transmitting DMA, and HAL_UART_ErrorCallback.
DmaError ==
  /\ sending /\ MayFail("dmaerror")
  /\ sending' = FALSE /\ rx' = Nothing /\ tx_busy' = FALSE /\ tc_timeout' = 0
  /\ gState' = "ready"
  /\ UNCHANGED <<registers, edges, motion, mb_rx_buf, dir_tx, request, awaiting, operator,
                 writes>>

-----------------------------------------------------------------------------
\* The master.

\* What comes in while the line is switched to sending is not heard.  A frame that
\* was not polled is overwritten.
Arrives(w) ==
  \/ rx' = (IF dir_tx THEN rx ELSE w) /\ UNCHANGED faults
  \/ UNCHANGED rx /\ MayFail("lost")
  \/ rx' = (IF dir_tx THEN rx ELSE Damaged) /\ MayFail("damaged")

Begin(w) ==
  /\ ~awaiting /\ writes < MaxWrites
  /\ request' = w /\ awaiting' = TRUE /\ writes' = writes + 1
  /\ Arrives(w)
  /\ UNCHANGED <<registers, edges, motion, mb_rx_buf, transmission>>

Press ==
  /\ ~pressed /\ Begin(Write("trig", 1))
  /\ pressed' = (jog_mode = 0 \/ Releases)
  /\ wants' = [a \in Axes |-> IF jog_mode = 0 /\ a \in jog_axis THEN jog_dir ELSE wants[a]]
  /\ presses' = [a \in Axes |-> IF jog_mode = 1 /\ a \in jog_axis THEN presses[a] + 1
                                                                 ELSE presses[a]]

Release ==
  /\ pressed /\ Begin(Write("trig", 0))
  /\ pressed' = FALSE
  /\ wants' = Still
  /\ UNCHANGED presses

Turn ==
  /\ Begin(Write("dir", -jog_dir))
  /\ wants' = [a \in Axes |-> -wants[a]]
  /\ UNCHANGED <<pressed, presses>>

Select ==
  /\ Careful => ~pressed
  /\ \/ \E S \in Selections \ {jog_axis} : Begin(Write("axis", S))
     \/ Begin(Write("mode", 1 - jog_mode))
  /\ UNCHANGED operator

\* STOP of the system command register.
PressStop ==
  /\ \E S \in Selections : Begin(Write("stop", S))
  /\ wants' = Still
  /\ UNCHANGED <<pressed, presses>>

\* The master waits for longer than the slave takes, unless it is eager.
Repeat ==
  /\ awaiting /\ ~sending
  /\ Eager \/ (rx = Nothing /\ mb_rx_buf = <<>>)
  /\ Arrives(request)
  /\ UNCHANGED <<registers, edges, motion, mb_rx_buf, transmission, request, awaiting,
                 operator, writes>>

Master == Press \/ Release \/ Turn \/ Select \/ PressStop

\* The direction pin is left at sending, and no timer will change it.
LeftSending == dir_tx /\ ~tx_busy

\* The HAL waits for an interrupt that will not come: no reply leaves any more.
Mute == gState = "busy_tx" /\ ~sending

Next == Poll \/ TxComplete \/ ReplyLost \/ TcLost \/ DmaError \/ Master \/ Repeat

\* The polls go on, replies end and the master repeats.
Spec ==
  /\ Init /\ [][Next]_vars
  /\ WF_vars(Poll) /\ WF_vars(TxComplete \/ TcLost) /\ WF_vars(Repeat)
-----------------------------------------------------------------------------
TypeOK ==
  /\ jog_trig \in {0, 1} /\ jog_axis \in Selections /\ jog_mode \in {0, 1}
  /\ jog_dir \in {-1, 1} /\ prev_jog_trig \in {0, 1} /\ prev_jog_dir \in {-1, 0, 1}
  /\ told \in [Axes -> {-1, 0, 1}] /\ steps \in [Axes -> Nat]
  /\ rx \in Writes \cup {Nothing, Damaged} /\ mb_rx_buf \in Seq(Writes \cup {Damaged})
  /\ sending \in BOOLEAN /\ tx_busy \in BOOLEAN /\ dir_tx \in BOOLEAN
  /\ tc_timeout \in 0..TcTimeout /\ gState \in {"ready", "busy_tx"}
  /\ request \in Writes \cup {Nothing} /\ awaiting \in BOOLEAN
  /\ pressed \in BOOLEAN /\ wants \in [Axes -> {-1, 0, 1}] /\ presses \in [Axes -> Nat]
  /\ faults \in 0..MaxFaults /\ writes \in 0..MaxWrites

\* With every write answered the axes jog as the button and the direction say, and
\* not after a release or a STOP: whatever was lost and repeated
\* (modbus_slave.c:1031-1097).
JogFollowsButton == ~awaiting => told = wants

\* Each press of a step button makes one step, also when the answer was lost and
\* the press repeated (modbus_slave.c:1042-1067).
StepPerPress == ~awaiting => steps = presses

\* Every write is answered in the end, after losses, damage and repetitions; and
\* once an interrupt has not come, so that nothing is answered, it is still obeyed:
\* the fallback keeps the line open to be heard (rs485.c:262-272,
\* modbus_slave.c:200-230).  But an error of the transmitting DMA leaves the
\* direction pin at sending (rs485.c:239-253).
WritesObeyed ==
  awaiting ~> \/ ~awaiting \/ LeftSending
              \/ Mute /\ told = wants /\ steps = presses

\* Expected to fail.  With an interrupt lost: the fallback keeps the driver from
\* being "stuck in sending for ever" (rs485.c:259) but not the HAL from being busy
\* (panel_mute.cfg).  With DMA errors: HAL_UART_ErrorCallback "restarts the DMA
\* reception, so that communication is not interrupted for ever" (rs485.c:237,
\* panel_deaf.cfg).
AlwaysAnswered == awaiting ~> ~awaiting
=============================================================================
