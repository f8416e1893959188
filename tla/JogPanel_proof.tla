--------------------------- MODULE JogPanel_proof ---------------------------
(***************************************************************************)
(* Proofs about JogPanel, for every number of axes and every fault of the  *)
(* line.  What follows the buttons is proved for a patient and careful     *)
(* master; other masters break it (panel_step.cfg).                        *)
(***************************************************************************)
EXTENDS JogPanel, TLAPS

JogOf(S, d) == [a \in Axes |-> IF a \in S THEN d ELSE 0]

RegTypes ==
  /\ jog_trig \in {0, 1} /\ jog_axis \in Selections /\ jog_mode \in {0, 1}
  /\ jog_dir \in {-1, 1} /\ prev_jog_trig \in {0, 1} /\ prev_jog_dir \in {-1, 0, 1}
  /\ told \in [Axes -> {-1, 0, 1}] /\ steps \in [Axes -> Nat]

\* The value of a write is one of its register.
WellFormed(w) ==
  /\ w.reg = "trig" => w.value \in {0, 1}
  /\ w.reg = "axis" => w.value \in Selections
  /\ w.reg = "mode" => w.value \in {0, 1}
  /\ w.reg = "dir" => w.value \in {-1, 1}
  /\ w.reg = "stop" => w.value \in Selections
  /\ w.reg \in {"trig", "axis", "mode", "dir", "stop"}

LEMMA WritesWellFormed == \A w \in Writes : WellFormed(w)
<1> TAKE w \in Writes
<1>1. CASE w \in {Write("trig", v) : v \in {0, 1}}
  BY <1>1 DEF Write, WellFormed
<1>2. CASE w \in {Write("axis", S) : S \in Selections}
  BY <1>2 DEF Write, WellFormed
<1>3. CASE w \in {Write("mode", v) : v \in {0, 1}}
  BY <1>3 DEF Write, WellFormed
<1>4. CASE w \in {Write("dir", v) : v \in {-1, 1}}
  BY <1>4 DEF Write, WellFormed
<1>5. CASE w \in {Write("stop", S) : S \in Selections}
  BY <1>5 DEF Write, WellFormed
<1> QED BY <1>1, <1>2, <1>3, <1>4, <1>5 DEF Writes

LEMMA NotWrites == Nothing \notin Writes /\ Damaged \notin Writes /\ Nothing # Damaged
<1>1. Nothing.reg = "none" /\ Damaged.reg = "damaged"
  BY DEF Nothing, Damaged, Write
<1>2. ~WellFormed(Nothing) /\ ~WellFormed(Damaged)
  BY <1>1 DEF WellFormed
<1> QED BY <1>1, <1>2, WritesWellFormed

\* Whatever is written, the registers and the motion keep their types.
LEMMA TriggersType ==
  ASSUME RegTypes, NEW w, WellFormed(w), CheckTriggers(w)
  PROVE  RegTypes'
<1>1. jog_trig' \in {0, 1} /\ jog_axis' \in Selections /\ jog_mode' \in {0, 1}
  BY DEF RegTypes, WellFormed, CheckTriggers
<1>2. jog_dir' \in {-1, 1} /\ prev_jog_trig' \in {0, 1} /\ prev_jog_dir' \in {-1, 0, 1}
  BY DEF RegTypes, WellFormed, CheckTriggers, PrevTrig, PrevDir
<1>3. told' \in [Axes -> {-1, 0, 1}]
  BY DEF RegTypes, WellFormed, CheckTriggers
<1>4. steps' \in [Axes -> Nat]
  BY DEF RegTypes, CheckTriggers
<1> QED BY <1>1, <1>2, <1>3, <1>4 DEF RegTypes

LineTypes ==
  /\ rx \in Writes \cup {Nothing, Damaged} /\ mb_rx_buf \in Seq(Writes \cup {Damaged})
  /\ sending \in BOOLEAN /\ tx_busy \in BOOLEAN /\ dir_tx \in BOOLEAN
  /\ tc_timeout \in 0..TcTimeout /\ gState \in {"ready", "busy_tx"}

MasterTypes ==
  /\ request \in Writes \cup {Nothing} /\ awaiting \in BOOLEAN
  /\ pressed \in BOOLEAN /\ wants \in [Axes -> {-1, 0, 1}] /\ presses \in [Axes -> Nat]
  /\ faults \in 0..MaxFaults /\ writes \in 0..MaxWrites

LEMMA TypeParts == TypeOK <=> RegTypes /\ LineTypes /\ MasterTypes
BY DEF TypeOK, RegTypes, LineTypes, MasterTypes

LEMMA TypePartsNext == TypeOK' <=> RegTypes' /\ LineTypes' /\ MasterTypes'
BY DEF TypeOK, RegTypes, LineTypes, MasterTypes

LEMMA TypeInit == Init => TypeOK
<1> SUFFICES ASSUME Init PROVE TypeOK
  OBVIOUS
<1>1. RegTypes
  BY DEF Init, RegTypes, Still
<1>2. tc_timeout \in 0..TcTimeout
  BY TcTimeoutAssumption DEF Init
<1>3. LineTypes
  <2>1. <<>> \in Seq(Writes \cup {Damaged})
    OBVIOUS
  <2> QED BY <1>2, <2>1 DEF Init, LineTypes
<1>4. faults \in 0..MaxFaults /\ writes \in 0..MaxWrites
  BY BoundsAssumption DEF Init
<1>5. wants \in [Axes -> {-1, 0, 1}] /\ presses \in [Axes -> Nat]
  BY DEF Init, Still
<1>6. MasterTypes
  BY <1>4, <1>5 DEF Init, MasterTypes
<1> QED BY <1>1, <1>3, <1>6, TypeParts

LEMMA FaultType ==
  ASSUME faults \in 0..MaxFaults, NEW kind, MayFail(kind)
  PROVE  faults' \in 0..MaxFaults
BY BoundsAssumption DEF MayFail

\* What arrives is a write, nothing or a damaged frame.
LEMMA ArrivesType ==
  ASSUME LineTypes, faults \in 0..MaxFaults, NEW w \in Writes, Arrives(w)
  PROVE  rx' \in Writes \cup {Nothing, Damaged} /\ faults' \in 0..MaxFaults
BY BoundsAssumption DEF LineTypes, Arrives, MayFail

\* The writes that the master begins.
LEMMA BeginType ==
  ASSUME RegTypes, LineTypes, MasterTypes, NEW w \in Writes, Begin(w)
  PROVE  /\ RegTypes' /\ LineTypes'
         /\ request' \in Writes /\ awaiting' \in BOOLEAN
         /\ faults' \in 0..MaxFaults /\ writes' \in 0..MaxWrites
<1>1. RegTypes'
  BY DEF Begin, RegTypes, registers, edges, motion
<1>2. LineTypes'
  BY ArrivesType DEF Begin, LineTypes, MasterTypes, transmission
<1>3. faults' \in 0..MaxFaults
  BY ArrivesType DEF Begin, MasterTypes
<1>4. request' \in Writes /\ awaiting' \in BOOLEAN /\ writes' \in 0..MaxWrites
  BY BoundsAssumption DEF Begin, MasterTypes
<1> QED BY <1>1, <1>2, <1>3, <1>4

LEMMA IsWrite ==
  /\ \A v \in {0, 1} : Write("trig", v) \in Writes /\ Write("mode", v) \in Writes
  /\ \A v \in {-1, 1} : Write("dir", v) \in Writes
  /\ \A S \in Selections : Write("axis", S) \in Writes /\ Write("stop", S) \in Writes
BY DEF Writes

LEMMA TypeNext == TypeOK /\ [Next]_vars => TypeOK'
<1> SUFFICES ASSUME RegTypes, LineTypes, MasterTypes, [Next]_vars
             PROVE  RegTypes' /\ LineTypes' /\ MasterTypes'
  BY TypeParts, TypePartsNext
<1>0. UNCHANGED <<registers, edges, motion>> => RegTypes'
  BY DEF RegTypes, registers, edges, motion
<1>1. CASE Poll
  <2>0. tc_timeout' \in 0..TcTimeout
    BY <1>1, TcTimeoutAssumption DEF Poll, Polled, Checked, ReplySent, LineTypes
  <2>1. /\ sending' \in BOOLEAN /\ tx_busy' \in BOOLEAN /\ dir_tx' \in BOOLEAN
        /\ gState' \in {"ready", "busy_tx"}
    <3>1. Checked \/ ReplySent
      BY <1>1 DEF Poll, Polled
    <3>2. CASE Checked
      BY <3>2 DEF Checked, LineTypes
    <3>3. CASE ReplySent
      BY <3>3 DEF ReplySent, Transmitted, LineTypes
    <3> QED BY <3>1, <3>2, <3>3
  <2>2. rx' \in Writes \cup {Nothing, Damaged}
    BY <1>1 DEF Poll, Polled, LineTypes, reception
  <2>3. mb_rx_buf' \in Seq(Writes \cup {Damaged})
    <3>1. CASE rx # Nothing /\ mb_rx_buf' = Append(mb_rx_buf, rx)
      <4>1. rx \in Writes \cup {Damaged}
        BY <3>1 DEF LineTypes
      <4> QED BY <3>1, <4>1 DEF LineTypes
    <3>2. CASE mb_rx_buf' = <<>>
      BY <3>2
    <3>3. CASE mb_rx_buf' = mb_rx_buf
      BY <3>3 DEF LineTypes
    <3> QED BY <1>1, <3>1, <3>2, <3>3 DEF Poll, Polled, reception
  <2>4. LineTypes'
    BY <2>0, <2>1, <2>2, <2>3 DEF LineTypes
  <2>5. MasterTypes'
    BY <1>1 DEF Poll, Polled, MasterTypes, operator
  <2>6. RegTypes'
    <3>1. CASE UNCHANGED <<registers, edges, motion>>
      BY <1>0, <3>1
    <3>2. ASSUME Len(mb_rx_buf) = 1, mb_rx_buf[1] # Damaged, CheckTriggers(mb_rx_buf[1])
          PROVE  RegTypes'
      <4>1. mb_rx_buf[1] \in Writes
        <5>1. mb_rx_buf \in Seq(Writes \cup {Damaged})
          BY DEF LineTypes
        <5> QED BY <3>2, <5>1
      <4> QED BY <3>2, <4>1, WritesWellFormed, TriggersType
    <3> QED BY <1>1, <3>1, <3>2 DEF Poll, Polled
  <2> QED BY <2>4, <2>5, <2>6
<1>2. CASE TxComplete
  <2>1. RegTypes'
    BY <1>0, <1>2 DEF TxComplete
  <2>2. tc_timeout' \in 0..TcTimeout
    BY <1>2, TcTimeoutAssumption DEF TxComplete, LineTypes
  <2>3. rx' \in Writes \cup {Nothing, Damaged} /\ mb_rx_buf' \in Seq(Writes \cup {Damaged})
    BY <1>2 DEF TxComplete, LineTypes, reception
  <2>4. /\ sending' \in BOOLEAN /\ tx_busy' \in BOOLEAN /\ dir_tx' \in BOOLEAN
        /\ gState' \in {"ready", "busy_tx"}
    BY <1>2 DEF TxComplete, LineTypes
  <2>5. faults' \in 0..MaxFaults
    BY <1>2 DEF TxComplete, MasterTypes
  <2>6. MasterTypes'
    BY <1>2, <2>5 DEF TxComplete, MasterTypes, operator
  <2> QED BY <2>1, <2>2, <2>3, <2>4, <2>6 DEF LineTypes
<1>3. CASE ReplyLost
  <2>1. RegTypes'
    BY <1>0, <1>3 DEF ReplyLost
  <2>2. tc_timeout' \in 0..TcTimeout
    BY <1>3, TcTimeoutAssumption DEF ReplyLost, LineTypes
  <2>3. rx' \in Writes \cup {Nothing, Damaged} /\ mb_rx_buf' \in Seq(Writes \cup {Damaged})
    BY <1>3 DEF ReplyLost, LineTypes, reception
  <2>4. /\ sending' \in BOOLEAN /\ tx_busy' \in BOOLEAN /\ dir_tx' \in BOOLEAN
        /\ gState' \in {"ready", "busy_tx"}
    BY <1>3 DEF ReplyLost, LineTypes
  <2>5. faults' \in 0..MaxFaults
    BY <1>3, FaultType DEF ReplyLost, MasterTypes
  <2>6. MasterTypes'
    BY <1>3, <2>5 DEF ReplyLost, MasterTypes, operator
  <2> QED BY <2>1, <2>2, <2>3, <2>4, <2>6 DEF LineTypes
<1>4. CASE TcLost
  <2>1. RegTypes'
    BY <1>0, <1>4 DEF TcLost
  <2>2. tc_timeout' \in 0..TcTimeout
    BY <1>4, TcTimeoutAssumption DEF TcLost, LineTypes
  <2>3. rx' \in Writes \cup {Nothing, Damaged} /\ mb_rx_buf' \in Seq(Writes \cup {Damaged})
    BY <1>4 DEF TcLost, LineTypes, reception
  <2>4. /\ sending' \in BOOLEAN /\ tx_busy' \in BOOLEAN /\ dir_tx' \in BOOLEAN
        /\ gState' \in {"ready", "busy_tx"}
    BY <1>4 DEF TcLost, LineTypes
  <2>5. faults' \in 0..MaxFaults
    BY <1>4, FaultType DEF TcLost, MasterTypes
  <2>6. MasterTypes'
    BY <1>4, <2>5 DEF TcLost, MasterTypes, operator
  <2> QED BY <2>1, <2>2, <2>3, <2>4, <2>6 DEF LineTypes
<1>5. CASE DmaError
  <2>1. RegTypes'
    BY <1>0, <1>5 DEF DmaError
  <2>2. tc_timeout' \in 0..TcTimeout
    BY <1>5, TcTimeoutAssumption DEF DmaError, LineTypes
  <2>3. rx' \in Writes \cup {Nothing, Damaged} /\ mb_rx_buf' \in Seq(Writes \cup {Damaged})
    BY <1>5 DEF DmaError, LineTypes, reception
  <2>4. /\ sending' \in BOOLEAN /\ tx_busy' \in BOOLEAN /\ dir_tx' \in BOOLEAN
        /\ gState' \in {"ready", "busy_tx"}
    BY <1>5 DEF DmaError, LineTypes
  <2>5. faults' \in 0..MaxFaults
    BY <1>5, FaultType DEF DmaError, MasterTypes
  <2>6. MasterTypes'
    BY <1>5, <2>5 DEF DmaError, MasterTypes, operator
  <2> QED BY <2>1, <2>2, <2>3, <2>4, <2>6 DEF LineTypes
<1>6. CASE Press
  <2>1. Begin(Write("trig", 1)) /\ Write("trig", 1) \in Writes
    BY <1>6, IsWrite DEF Press
  <2>2. pressed' \in BOOLEAN /\ wants' \in [Axes -> {-1, 0, 1}] /\ presses' \in [Axes -> Nat]
    BY <1>6, ModesAssumption DEF Press, MasterTypes, RegTypes
  <2> QED BY <2>1, <2>2, BeginType DEF MasterTypes
<1>7. CASE Release
  <2>1. Begin(Write("trig", 0)) /\ Write("trig", 0) \in Writes
    BY <1>7, IsWrite DEF Release
  <2>2. pressed' \in BOOLEAN /\ wants' \in [Axes -> {-1, 0, 1}] /\ presses' \in [Axes -> Nat]
    BY <1>7 DEF Release, MasterTypes, Still
  <2> QED BY <2>1, <2>2, BeginType DEF MasterTypes
<1>8. CASE Turn
  <2>0. -jog_dir \in {-1, 1}
    BY DEF RegTypes
  <2>1. Begin(Write("dir", -jog_dir)) /\ Write("dir", -jog_dir) \in Writes
    BY <1>8, <2>0, IsWrite DEF Turn
  <2>2. pressed' \in BOOLEAN /\ wants' \in [Axes -> {-1, 0, 1}] /\ presses' \in [Axes -> Nat]
    BY <1>8 DEF Turn, MasterTypes
  <2> QED BY <2>1, <2>2, BeginType DEF MasterTypes
<1>9. CASE Select
  <2>0. 1 - jog_mode \in {0, 1}
    BY DEF RegTypes
  <2>1. PICK w \in Writes : Begin(w)
    BY <1>9, <2>0, IsWrite DEF Select
  <2> QED BY <1>9, <2>1, BeginType DEF Select, MasterTypes, operator
<1>10. CASE PressStop
  <2>1. PICK w \in Writes : Begin(w)
    BY <1>10, IsWrite DEF PressStop
  <2> QED BY <1>10, <2>1, BeginType DEF PressStop, MasterTypes, Still
<1>11. CASE Repeat
  <2>1. CASE request \in Writes
    <3>1. rx' \in Writes \cup {Nothing, Damaged} /\ faults' \in 0..MaxFaults
      BY <1>11, <2>1, ArrivesType DEF Repeat, MasterTypes
    <3> QED BY <1>0, <1>11, <3>1 DEF Repeat, LineTypes, MasterTypes, transmission, operator
  <2>2. CASE request = Nothing
    <3>1. rx' \in Writes \cup {Nothing, Damaged} /\ faults' \in 0..MaxFaults
      BY <1>11, <2>2, BoundsAssumption DEF Repeat, Arrives, MayFail, LineTypes, MasterTypes
    <3> QED BY <1>0, <1>11, <3>1 DEF Repeat, LineTypes, MasterTypes, transmission, operator
  <2> QED BY <2>1, <2>2 DEF MasterTypes
<1>12. CASE UNCHANGED vars
  BY <1>12 DEF vars, RegTypes, LineTypes, MasterTypes
<1> QED
  BY <1>1, <1>2, <1>3, <1>4, <1>5, <1>6, <1>7, <1>8, <1>9, <1>10, <1>11, <1>12
     DEF Next, Master

\* Registers, line and master keep their types, and the timer of the driver its
\* range (rs485.c:262-272).
THEOREM TypeCorrect == Spec => []TypeOK
BY TypeInit, TypeNext, PTL DEF Spec

-----------------------------------------------------------------------------
\* What the registers and the edges say of the motion, at all times.
RegsOK ==
  /\ told = IF jog_trig = 1 /\ jog_mode = 0 THEN JogOf(jog_axis, jog_dir) ELSE Still
  /\ jog_trig = 1 => prev_jog_trig = 1
  /\ jog_trig = 1 /\ jog_mode = 0 => prev_jog_dir = jog_dir
  /\ jog_trig = 0 /\ jog_mode = 0 => prev_jog_trig = 0

\* The motion is what the operator wants, and no edge is left over with the button up.
Settled == told = wants /\ steps = presses /\ (prev_jog_trig = 1 => pressed)

\* The steps when the trigger rises.
StepMade ==
  [a \in Axes |-> IF jog_mode = 1 /\ a \in jog_axis THEN steps[a] + 1 ELSE steps[a]]

\* Write w has been executed: the registers agree with it.
Executed(w) ==
  /\ Settled
  /\ w.reg = "trig" /\ w.value = 1 =>
       pressed /\ prev_jog_trig = 1 /\ (jog_mode = 0 => jog_trig = 1)
  /\ w.reg = "trig" /\ w.value = 0 => jog_trig = 0
  /\ w.reg \in {"axis", "mode"} => ~pressed /\ jog_trig = 0
  /\ w.reg = "axis" => jog_axis = w.value
  /\ w.reg = "mode" => jog_mode = w.value
  /\ w.reg = "dir" => jog_dir = w.value
  /\ w.reg = "stop" => jog_trig = 0

\* Write w has not been executed yet.
Ready(w) ==
  /\ ~(w.reg = "trig" /\ w.value = 1) => presses = steps
  /\ w.reg = "trig" /\ w.value = 1 =>
       /\ pressed /\ jog_trig = 0 /\ prev_jog_trig = 0 /\ presses = StepMade
       /\ wants = IF jog_mode = 0 THEN JogOf(jog_axis, jog_dir) ELSE Still
  /\ w.reg = "trig" /\ w.value = 0 => wants = Still
  /\ w.reg \in {"axis", "mode"} =>
       ~pressed /\ jog_trig = 0 /\ prev_jog_trig = 0 /\ wants = Still
  /\ w.reg = "dir" =>
       /\ w.value = -jog_dir /\ (prev_jog_trig = 1 => pressed)
       /\ wants = IF jog_trig = 1 /\ jog_mode = 0 THEN JogOf(jog_axis, w.value) ELSE Still
  /\ w.reg = "stop" => wants = Still /\ (prev_jog_trig = 1 => pressed)

\* On the way are copies of the last write only, one at a time, and none once it
\* is answered.
LineOK ==
  /\ rx \in {Nothing, Damaged, request}
  /\ mb_rx_buf \in {<<>>, <<Damaged>>, <<request>>}
  /\ rx = Nothing \/ mb_rx_buf = <<>>
  /\ sending => awaiting
  /\ sending \/ ~awaiting => rx = Nothing /\ mb_rx_buf = <<>>
  /\ awaiting => request \in Writes

Progress ==
  /\ awaiting /\ ~sending => Executed(request) \/ Ready(request)
  /\ awaiting /\ sending => Executed(request)
  /\ ~awaiting => Settled

IInv == TypeOK /\ RegsOK /\ LineOK /\ Progress

\* The edges keep track of the registers, unless the axis or the mode changes
\* while JOG_TRIG is 1.
LEMMA TriggersKeep ==
  ASSUME RegTypes, RegsOK, NEW w, WellFormed(w), CheckTriggers(w),
         w.reg \in {"axis", "mode"} => jog_trig = 0
  PROVE  RegsOK'
<1> USE DEF RegTypes, RegsOK, WellFormed, CheckTriggers, PrevTrig, PrevDir
<1>1. jog_trig' = 1 => prev_jog_trig' = 1
  OBVIOUS
<1>2. jog_trig' = 1 /\ jog_mode' = 0 => prev_jog_dir' = jog_dir'
  OBVIOUS
<1>3. jog_trig' = 0 /\ jog_mode' = 0 => prev_jog_trig' = 0
  OBVIOUS
<1>4. told' = IF jog_trig' = 1 /\ jog_mode' = 0 THEN JogOf(jog_axis', jog_dir') ELSE Still
  <2>1. CASE w.reg = "trig"
    BY <2>1 DEF JogOf, Still
  <2>2. CASE w.reg \in {"axis", "mode"}
    BY <2>2 DEF JogOf, Still
  <2>3. CASE w.reg = "dir"
    BY <2>3 DEF JogOf, Still
  <2>4. CASE w.reg = "stop"
    BY <2>4 DEF JogOf, Still
  <2> QED BY <2>1, <2>2, <2>3, <2>4
<1> QED BY <1>1, <1>2, <1>3, <1>4

\* Executing the last write, for the first time or again, leaves the axes as the
\* button wants them.
LEMMA Executes ==
  ASSUME RegTypes, RegsOK, NEW w, WellFormed(w), Executed(w) \/ Ready(w),
         CheckTriggers(w), UNCHANGED operator
  PROVE  RegsOK' /\ Executed(w)'
<1>0. w.reg \in {"axis", "mode"} => jog_trig = 0
  BY DEF Executed, Ready
<1>1. RegsOK'
  BY <1>0, TriggersKeep
<1>2. pressed' = pressed /\ wants' = wants /\ presses' = presses
  BY DEF operator
<1> USE DEF RegTypes, WellFormed
<1>s. ASSUME ~(w.reg = "trig" /\ w.value = 1)
      PROVE  steps' = presses' /\ (prev_jog_trig' = 1 => jog_trig = 1)
  <2>1. steps' = [a \in Axes |-> steps[a]] /\ (prev_jog_trig' = 1 => jog_trig = 1)
    BY <1>s DEF CheckTriggers, PrevTrig, RegsOK
  <2>2. steps = presses
    BY <1>s DEF Executed, Ready, Settled
  <2> QED BY <1>2, <2>1, <2>2
<1>3. CASE w.reg = "trig" /\ w.value = 1
  <2>1. /\ jog_axis' = jog_axis /\ jog_mode' = jog_mode /\ jog_dir' = jog_dir
        /\ prev_jog_trig' = 1 /\ pressed /\ (jog_mode = 0 => jog_trig' = 1)
    BY <1>3 DEF CheckTriggers, PrevTrig, Executed, Ready
  <2>2. wants = IF jog_mode = 0 THEN JogOf(jog_axis, jog_dir) ELSE Still
    BY <1>3 DEF Executed, Ready, Settled, RegsOK
  <2>3. told' = wants'
    BY <1>1, <1>2, <2>1, <2>2 DEF RegsOK
  <2>4. steps' = presses'
    <3>1. CASE Executed(w)
      <4>1. steps' = [a \in Axes |-> steps[a]]
        BY <1>3, <3>1 DEF CheckTriggers, Executed
      <4> QED BY <1>2, <1>3, <3>1, <4>1 DEF Executed, Settled
    <3>2. CASE Ready(w)
      <4>1. steps' = StepMade
        BY <1>3, <3>2 DEF CheckTriggers, Ready, StepMade
      <4> QED BY <1>2, <1>3, <3>2, <4>1 DEF Ready
    <3> QED BY <3>1, <3>2
  <2> QED BY <1>1, <1>2, <1>3, <2>1, <2>3, <2>4 DEF Executed, Settled
<1>4. CASE w.reg = "trig" /\ w.value = 0
  <2>1. jog_trig' = 0
    BY <1>4 DEF CheckTriggers
  <2>2. wants = Still
    BY <1>4 DEF Executed, Ready, Settled, RegsOK
  <2>3. told' = wants'
    BY <1>1, <1>2, <2>1, <2>2 DEF RegsOK
  <2>4. prev_jog_trig' = 0 /\ steps' = presses'
    BY <1>4, <1>s DEF CheckTriggers, PrevTrig
  <2> QED BY <1>1, <1>4, <2>1, <2>3, <2>4 DEF Executed, Settled
<1>5. CASE w.reg \in {"axis", "mode"}
  <2>1. /\ jog_trig' = 0 /\ (w.reg = "axis" => jog_axis' = w.value)
        /\ (w.reg = "mode" => jog_mode' = w.value)
    BY <1>5, <1>0 DEF CheckTriggers
  <2>2. wants = Still /\ ~pressed
    BY <1>5, <1>0 DEF Executed, Ready, Settled, RegsOK
  <2>3. told' = wants'
    BY <1>1, <1>2, <2>1, <2>2 DEF RegsOK
  <2>4. steps' = presses' /\ (prev_jog_trig' = 1 => pressed')
    BY <1>0, <1>5, <1>s
  <2> QED BY <1>1, <1>2, <1>5, <2>1, <2>2, <2>3, <2>4 DEF Executed, Settled
<1>6. CASE w.reg = "dir"
  <2>1. /\ jog_axis' = jog_axis /\ jog_mode' = jog_mode /\ jog_dir' = w.value
        /\ (jog_trig' = 1 => jog_trig = 1)
        /\ (jog_trig = 1 /\ jog_mode = 0 => jog_trig' = 1)
    BY <1>6 DEF CheckTriggers
  <2>2. wants = IF jog_trig = 1 /\ jog_mode = 0 THEN JogOf(jog_axis, w.value) ELSE Still
    BY <1>6 DEF Executed, Ready, Settled, RegsOK
  <2>3. told' = wants'
    BY <1>1, <1>2, <2>1, <2>2 DEF RegsOK
  <2>4. jog_trig = 1 => pressed
    BY <1>6 DEF Executed, Ready, Settled, RegsOK
  <2>5. steps' = presses' /\ (prev_jog_trig' = 1 => pressed')
    BY <1>2, <1>6, <1>s, <2>4
  <2> QED BY <1>1, <1>2, <1>6, <2>1, <2>3, <2>5 DEF Executed, Settled
<1>7. CASE w.reg = "stop"
  <2>1. jog_trig' = 0
    BY <1>7 DEF CheckTriggers
  <2>2. wants = Still
    BY <1>7 DEF Executed, Ready, Settled, RegsOK
  <2>3. told' = wants'
    BY <1>1, <1>2, <2>1, <2>2 DEF RegsOK
  <2>4. prev_jog_trig' = 0 /\ steps' = presses'
    BY <1>7, <1>s DEF CheckTriggers, PrevTrig
  <2> QED BY <1>1, <1>7, <2>1, <2>3, <2>4 DEF Executed, Settled
<1> QED BY <1>3, <1>4, <1>5, <1>6, <1>7

LEMMA SettledInit == Init => RegsOK /\ LineOK /\ Progress
BY DEF Init, RegsOK, LineOK, Progress, Settled

\* The frames that arrive are copies of the write w.
LEMMA ArrivesCopy ==
  ASSUME rx = Nothing, NEW w, Arrives(w)
  PROVE  rx' \in {Nothing, Damaged, w}
BY DEF Arrives

\* A write that begins, when its effect is still to come.
LEMMA Begins ==
  ASSUME IInv, NEW w \in Writes, Begin(w), Ready(w)'
  PROVE  RegsOK' /\ LineOK' /\ Progress'
<1>1. RegsOK'
  BY DEF IInv, RegsOK, Begin, registers, edges, motion
<1>2. LineOK'
  BY ArrivesCopy DEF IInv, LineOK, Begin, transmission
<1>3. Progress'
  BY DEF IInv, LineOK, Progress, Begin, transmission
<1> QED BY <1>1, <1>2, <1>3

LEMMA InvNext ==
  ASSUME ~Eager, Releases, Careful, IInv, [Next]_vars
  PROVE  RegsOK' /\ LineOK' /\ Progress'
<1>0. RegTypes /\ LineTypes /\ MasterTypes
  BY TypeParts DEF IInv
<1> DEFINE SameRegs == UNCHANGED <<registers, edges, motion, request, awaiting, operator>>
<1>a. ASSUME SameRegs, sending' = sending PROVE RegsOK' /\ Progress'
  BY <1>a DEF IInv, RegsOK, Progress, Executed, Ready, Settled, StepMade, registers, edges,
              motion, operator
<1>1. CASE Poll
  <2>1. CASE rx # Nothing
    <3>1. /\ mb_rx_buf' = Append(mb_rx_buf, rx) /\ rx' = Nothing /\ sending' = sending
          /\ SameRegs
      BY <1>1, <2>1 DEF Poll, Polled, Checked
    <3>2. mb_rx_buf = <<>> /\ rx \in {Damaged, request}
      BY <2>1 DEF IInv, LineOK
    <3>3. mb_rx_buf' \in {<<Damaged>>, <<request>>}
      BY <3>1, <3>2
    <3>4. LineOK'
      BY <2>1, <3>1, <3>3 DEF IInv, LineOK
    <3> QED BY <1>a, <3>1, <3>4
  <2>2. CASE rx = Nothing /\ Len(mb_rx_buf) = 1 /\ mb_rx_buf[1] # Damaged
    <3>1. mb_rx_buf = <<request>> /\ awaiting /\ ~sending /\ request \in Writes
      BY <2>2 DEF IInv, LineOK
    <3>2. /\ CheckTriggers(mb_rx_buf[1]) /\ UNCHANGED <<rx, request, awaiting, operator>>
          /\ mb_rx_buf' = <<>> /\ (sending' = sending \/ sending' = TRUE)
      BY <1>1, <2>2, <3>1 DEF Poll, Polled, Checked, ReplySent, Transmitted
    <3>3. PICK w \in Writes : w = request
      BY <3>1
    <3>4. CheckTriggers(w) /\ WellFormed(w) /\ (Executed(w) \/ Ready(w))
      BY <3>1, <3>2, <3>3, WritesWellFormed DEF IInv, Progress
    <3>5. RegsOK' /\ Executed(w)'
      BY <1>0, <3>2, <3>4, Executes DEF IInv
    <3>6. LineOK'
      BY <2>2, <3>1, <3>2 DEF IInv, LineOK
    <3>7. Progress'
      BY <3>1, <3>2, <3>3, <3>5 DEF Progress
    <3> QED BY <3>5, <3>6, <3>7
  <2>3. CASE rx = Nothing /\ ~(Len(mb_rx_buf) = 1 /\ mb_rx_buf[1] # Damaged)
    <3>1. /\ mb_rx_buf' \in {<<>>, mb_rx_buf} /\ rx' = rx /\ sending' = sending /\ SameRegs
      BY <1>1, <2>3 DEF Poll, Polled, Checked, reception
    <3>2. LineOK'
      BY <2>3, <3>1 DEF IInv, LineOK
    <3> QED BY <1>a, <3>1, <3>2
  <2> QED BY <2>1, <2>2, <2>3
<1>2. CASE TxComplete
  <2>1. RegsOK'
    BY <1>2 DEF TxComplete, IInv, RegsOK, registers, edges, motion
  <2>2. LineOK'
    BY <1>2 DEF TxComplete, IInv, LineOK, reception
  <2>3. Progress'
    BY <1>2 DEF TxComplete, IInv, LineOK, Progress, Executed, Settled, registers, edges,
              motion, operator
  <2> QED BY <2>1, <2>2, <2>3
<1>3. ASSUME ReplyLost \/ DmaError PROVE RegsOK' /\ LineOK' /\ Progress'
  <2>1. /\ SameRegs /\ sending /\ sending' = FALSE
        /\ mb_rx_buf' = mb_rx_buf /\ rx' \in {rx, Nothing}
    BY <1>3 DEF ReplyLost, DmaError, reception
  <2>2. RegsOK'
    BY <2>1 DEF IInv, RegsOK, registers, edges, motion
  <2>3. LineOK'
    BY <2>1 DEF IInv, LineOK
  <2>4. awaiting /\ Executed(request)
    BY <2>1 DEF IInv, LineOK, Progress
  <2>5. Progress'
    BY <2>1, <2>4 DEF Progress, Executed, Settled, registers, edges, motion, operator
  <2> QED BY <2>2, <2>3, <2>5
<1>4. CASE TcLost
  <2>1. RegsOK'
    BY <1>4 DEF TcLost, IInv, RegsOK, registers, edges, motion
  <2>2. LineOK'
    BY <1>4 DEF TcLost, IInv, LineOK, reception
  <2>3. Progress'
    BY <1>4 DEF TcLost, IInv, LineOK, Progress, Executed, Settled, registers, edges,
              motion, operator
  <2> QED BY <2>1, <2>2, <2>3
<1>5. CASE Press
  <2>1. ~pressed /\ ~awaiting /\ Settled
    BY <1>5 DEF Press, Begin, IInv, Progress
  <2>2. Ready(Write("trig", 1))'
    <3>1. wants = Still /\ jog_trig = 0
      BY <1>0, <2>1 DEF IInv, RegsOK, RegTypes, Settled
    <3>2. wants' = IF jog_mode = 0 THEN JogOf(jog_axis, jog_dir) ELSE Still
      BY <1>5, <3>1, <1>0 DEF Press, JogOf, Still, MasterTypes
    <3>3. pressed'
      BY <1>0, <1>5 DEF Press, RegTypes
    <3>4. prev_jog_trig = 0 /\ steps = presses
      BY <1>0, <2>1 DEF Settled, RegTypes
    <3>5. presses' = StepMade'
      BY <1>5, <3>4 DEF Press, Begin, StepMade, registers, motion
    <3> QED BY <1>5, <3>1, <3>2, <3>3, <3>4, <3>5
          DEF Press, Begin, Ready, Write, registers, edges
  <2> QED BY <1>5, <2>2, IsWrite, Begins DEF Press
<1>6. CASE Release
  <2>1. Settled
    BY <1>6 DEF Release, Begin, IInv, Progress
  <2>2. Ready(Write("trig", 0))'
    BY <1>6, <2>1 DEF Release, Begin, Ready, Settled, Write, motion
  <2> QED BY <1>6, <2>2, IsWrite, Begins DEF Release
<1>7. CASE Turn
  <2>1. Settled
    BY <1>7 DEF Turn, Begin, IInv, Progress
  <2>2. PICK d \in {-1, 1} : d = -jog_dir
    BY <1>0 DEF RegTypes
  <2>3. wants' = IF jog_trig = 1 /\ jog_mode = 0 THEN JogOf(jog_axis, d) ELSE Still
    <3>1. wants = IF jog_trig = 1 /\ jog_mode = 0 THEN JogOf(jog_axis, jog_dir) ELSE Still
      BY <2>1 DEF IInv, RegsOK, Settled
    <3>2. wants' = [a \in Axes |-> -wants[a]]
      BY <1>7 DEF Turn
    <3>3. \A S : [a \in Axes |-> -JogOf(S, jog_dir)[a]] = JogOf(S, d)
      BY <1>0, <2>2 DEF JogOf, RegTypes
    <3>4. [a \in Axes |-> -Still[a]] = Still
      <4>1. ASSUME NEW a \in Axes PROVE -Still[a] = 0
        <5>1. \A k \in Int : -k = 0 - k
          OBVIOUS
        <5>2. Still[a] \in Int /\ 0 - Still[a] = 0
          BY DEF Still
        <5>3. -Still[a] = 0 - Still[a]
          BY <5>1, <5>2
        <5> QED BY <5>2, <5>3
      <4> QED BY <4>1 DEF Still
    <3> QED BY <3>1, <3>2, <3>3, <3>4
  <2>4. Ready(Write("dir", d))'
    BY <1>7, <2>1, <2>2, <2>3
       DEF Turn, Begin, Ready, Settled, Write, registers, edges, motion
  <2> QED BY <1>7, <2>2, <2>4, IsWrite, Begins DEF Turn
<1>8. CASE Select
  <2>1. ~pressed /\ Settled
    BY <1>8 DEF Select, Begin, IInv, Progress
  <2>2. wants = Still /\ jog_trig = 0 /\ jog_mode \in {0, 1}
    BY <1>0, <2>1 DEF IInv, RegsOK, Settled, RegTypes
  <2>3. PICK w \in Writes : Begin(w) /\ w.reg \in {"axis", "mode"}
    <3>1. 1 - jog_mode \in {0, 1}
      BY <2>2
    <3>2. \/ \E S \in Selections : Begin(Write("axis", S))
          \/ Begin(Write("mode", 1 - jog_mode))
      BY <1>8 DEF Select
    <3>3. \A v : Write("axis", v).reg = "axis" /\ Write("mode", v).reg = "mode"
      BY DEF Write
    <3> QED BY <3>1, <3>2, <3>3, IsWrite
  <2>4. Ready(w)'
    <3>1. prev_jog_trig = 0 /\ steps = presses
      BY <1>0, <2>1 DEF Settled, RegTypes
    <3> QED BY <1>8, <2>1, <2>2, <2>3, <3>1
          DEF Select, Begin, Ready, registers, edges, motion, operator
  <2> QED BY <2>3, <2>4, Begins
<1>9. CASE PressStop
  <2>1. Settled
    BY <1>9 DEF PressStop, Begin, IInv, Progress
  <2>2. PICK S \in Selections : Begin(Write("stop", S))
    BY <1>9 DEF PressStop
  <2>3. Ready(Write("stop", S))'
    BY <1>9, <2>1, <2>2
       DEF PressStop, Begin, Ready, Settled, Write, registers, edges, motion
  <2> QED BY <2>2, <2>3, IsWrite, Begins
<1>10. CASE Repeat
  <2>1. rx = Nothing /\ mb_rx_buf = <<>> /\ awaiting /\ ~sending
    BY <1>10 DEF Repeat
  <2>2. /\ SameRegs /\ sending' = sending /\ mb_rx_buf' = mb_rx_buf
        /\ rx' \in {Nothing, Damaged, request}
    BY <1>10, <2>1, ArrivesCopy DEF Repeat, transmission
  <2>3. LineOK'
    BY <2>1, <2>2 DEF IInv, LineOK
  <2> QED BY <1>a, <2>2, <2>3
<1>11. CASE UNCHANGED vars
  BY <1>11 DEF vars, IInv, RegsOK, LineOK, Progress, Executed, Ready, Settled, StepMade
<1> QED
  BY <1>1, <1>2, <1>3, <1>4, <1>5, <1>6, <1>7, <1>8, <1>9, <1>10, <1>11 DEF Next, Master

\* With every write answered the axes jog as the button and the direction say,
\* after any losses, damage and repetitions, for every number of axes, if the
\* master waits for its answer and changes axis and mode only with the button up
\* (modbus_slave.c:1031-1097).
THEOREM JogsAsToldTo ==
  ASSUME ~Eager, Releases, Careful
  PROVE  Spec => []JogFollowsButton
<1>1. Init => IInv
  BY TypeInit, SettledInit DEF IInv
<1>2. IInv /\ [Next]_vars => IInv'
  BY TypeNext, InvNext DEF IInv
<1>3. IInv => JogFollowsButton
  BY DEF IInv, Progress, Settled, JogFollowsButton
<1> QED BY <1>1, <1>2, <1>3, PTL DEF Spec

\* Each press of a step button makes one step, also when the answer was lost and the
\* press repeated, for every number of axes, if the master waits for its answer,
\* writes JOG_TRIG = 0 after each press and changes axis and mode only with the
\* button up (modbus_slave.c:1042-1067).
THEOREM StepsAsPressed ==
  ASSUME ~Eager, Releases, Careful
  PROVE  Spec => []StepPerPress
<1>1. Init => IInv
  BY TypeInit, SettledInit DEF IInv
<1>2. IInv /\ [Next]_vars => IInv'
  BY TypeNext, InvNext DEF IInv
<1>3. IInv => StepPerPress
  BY DEF IInv, Progress, Settled, StepPerPress
<1> QED BY <1>1, <1>2, <1>3, PTL DEF Spec
=============================================================================
