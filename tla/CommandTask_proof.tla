------------------------- MODULE CommandTask_proof --------------------------
(***************************************************************************)
(* What the priorities and the suspension guarantee, for every host, every *)
(* number and length of lines and every size of the buffer: commands are   *)
(* executed between passes, and a pass begins only when it is due.  The    *)
(* first needs that a pass under way keeps the processor, the second that  *)
(* each way to make the task ready has sent a frame or parsed a line.      *)
(* What strncpy takes over is a line, since the last place of the buffer   *)
(* always holds an end mark.                                               *)
(***************************************************************************)
EXTENDS CommandTask, WellFoundedInduction, TLAPS

\* A pass under way keeps the processor.
PassKeepsProcessor == inPass => ecat \in {"ready", "looping"}

\* The EtherCAT task is made ready, or will be, only by what makes a pass due.
ReadyWhenDue ==
  /\ notified \in 0..MaxPending
  /\ notified # 0 => due
  /\ cmd = "parsed" => due
  /\ ecat \in {"ready", "looping"} /\ ~inPass => due

IInv == ParsesBetweenPasses /\ PassKeepsProcessor /\ ReadyWhenDue

-----------------------------------------------------------------------------
LEMMA InitIInv == Init => IInv
  BY MaxPendingAssumption
  DEF Init, IInv, ParsesBetweenPasses, PassKeepsProcessor, ReadyWhenDue

LEMMA NextIInv == IInv /\ [Next]_vars => IInv'
<1> SUFFICES ASSUME IInv, [Next]_vars PROVE IInv'
  OBVIOUS
<1> USE DEF IInv, ParsesBetweenPasses, PassKeepsProcessor, ReadyWhenDue
<1>1. CASE ReceiveChar
  BY <1>1 DEF ReceiveChar, task, cycle
<1>2. CASE ReceiveEnd
  BY <1>2 DEF ReceiveEnd, task, cycle
<1>3. CASE CmdTake
  BY <1>3 DEF CmdTake, cycle
<1>4. CASE CmdCheck
  BY <1>4 DEF CmdCheck, HasProcessor, cycle
<1>5. CASE CmdParse
  BY <1>5 DEF CmdParse
<1>6. CASE CmdResume
  BY <1>6 DEF CmdResume, cycle
<1>7. CASE CmdClear
  BY <1>7 DEF CmdClear, cycle
<1>8. CASE Tick
  BY <1>8, MaxPendingAssumption DEF Tick, task
<1>9. CASE PassBegins
  BY <1>9, MaxPendingAssumption DEF PassBegins, task
<1>10. CASE PassEnds
  BY <1>10 DEF PassEnds, task
<1>11. CASE UNCHANGED vars
  BY <1>11 DEF vars
<1>12. CASE CmdLoops
  BY <1>12 DEF CmdLoops, HasProcessor, cycle
<1>13. CASE PassLoops
  BY <1>13 DEF PassLoops, task, cycle
<1> QED
  BY <1>1, <1>2, <1>3, <1>4, <1>5, <1>6, <1>7, <1>8, <1>9, <1>10, <1>11, <1>12, <1>13
  DEF Next, CmdStep, Iterates

LEMMA Invariance == Spec => []IInv
  BY InitIInv, NextIInv, PTL DEF Spec

\* A command is executed only between two passes (serial_cmd.c:889-895).
THEOREM CommandsBetweenPasses == Spec => []ParsesBetweenPasses
<1>1. IInv => ParsesBetweenPasses
  BY DEF IInv
<1> QED
  BY <1>1, Invariance, PTL

\* A pass begins only when a frame was sent or a line parsed since the last
\* (ethercat_task.c:60, serial_cmd.c:895).
THEOREM NoPassForNothing == Spec => PassWhenDue
<1>1. ASSUME IInv, [Next]_vars, ~inPass, inPass' PROVE due
  <2>1. PassBegins
    <3>1. ~UNCHANGED vars
      BY <1>1 DEF vars
    <3>2. ~(ReceiveChar \/ ReceiveEnd \/ CmdStep \/ CmdLoops)
      BY <1>1 DEF ReceiveChar, ReceiveEnd, CmdStep, CmdTake, CmdCheck, CmdParse, CmdResume,
                  CmdClear, CmdLoops, cycle
    <3>3. ~(Tick \/ PassEnds \/ PassLoops)
      BY <1>1 DEF Tick, PassEnds, PassLoops, cycle
    <3>4. ~Iterates
      BY <3>1 DEF Iterates
    <3> QED
      BY <1>1, <3>1, <3>2, <3>3, <3>4 DEF Next
  <2> QED
    BY <1>1, <2>1 DEF PassBegins, IInv, ReadyWhenDue
<1>2. IInv /\ [Next]_vars => [~inPass /\ inPass' => due]_vars
  BY <1>1
<1> QED
  BY <1>2, Invariance, PTL DEF Spec, PassWhenDue

-----------------------------------------------------------------------------
\* strncpy ends within the buffer.
EndMarked == cmd_buf[Size - 1] = 0

TypeIInv == TypeOK /\ EndMarked

\* The least element of a set of natural numbers is in it.
LEMMA LeastNatural ==
  ASSUME NEW S, S \subseteq Nat, S # {}
  PROVE  \E n \in S : \A k \in S : ~(k < n)
<1> DEFINE R == OpToRel(<, Nat)
<1>1. IsWellFoundedOn(R, Nat)
  BY NatLessThanWellFounded
<1>2. \E n \in S : \A k \in S : ~(<<k, n>> \in R)
  <2> HIDE DEF R
  <2> QED BY <1>1, WFMin
<1> QED BY <1>2 DEF OpToRel

\* What is copied are characters that the host has sent.
LEMMA ContentOK == TypeIInv => Content \in Seq(1..Lines)
<1> SUFFICES ASSUME TypeIInv PROVE Content \in Seq(1..Lines)
  OBVIOUS
<1> USE SizeAssumption, LinesAssumption
<1> DEFINE marks == {i \in 0 .. Size - 1 : cmd_buf[i] = 0}
           first(i) == cmd_buf[i] = 0 /\ \A j \in 0 .. i - 1 : cmd_buf[j] # 0
           n == CHOOSE i \in 0 .. Size - 1 : first(i)
<1>1. cmd_buf \in [0 .. Size - 1 -> 0..Lines]
  BY DEF TypeIInv, TypeOK
<1>2. \E i \in 0 .. Size - 1 : first(i)
  <2>1. Size - 1 \in marks
    BY DEF TypeIInv, EndMarked
  <2>2. PICK i \in marks : \A k \in marks : ~(k < i)
    <3>1. marks \subseteq Nat /\ marks # {}
      BY <2>1
    <3> HIDE DEF marks
    <3> QED BY <3>1, LeastNatural
  <2>3. first(i)
    BY <2>2
  <2> QED BY <2>2, <2>3
<1>3. n \in 0 .. Size - 1 /\ first(n)
  BY <1>2
<1> HIDE DEF n
<1>4. \A i \in 1..n : cmd_buf[i - 1] \in 1..Lines
  BY <1>1, <1>3
<1>5. [i \in 1..n |-> cmd_buf[i - 1]] \in Seq(1..Lines)
  BY <1>3, <1>4
<1> QED BY <1>5 DEF Content, n

LEMMA InitTypeIInv == Init => TypeIInv
  BY LinesAssumption, SizeAssumption, MaxPendingAssumption
  DEF Init, TypeIInv, TypeOK, EndMarked

LEMMA NextTypeIInv == TypeIInv /\ [Next]_vars => TypeIInv'
<1> SUFFICES ASSUME TypeIInv, [Next]_vars PROVE TypeIInv'
  OBVIOUS
<1> USE LinesAssumption, SizeAssumption, LengthAssumption, MaxPendingAssumption
<1> USE DEF TypeIInv, TypeOK, EndMarked, task, cycle, usart
<1>1. CASE ReceiveChar
  <2>1. line \in 1..Lines /\ char' \in Nat
    BY <1>1 DEF ReceiveChar, MaySend
  <2>2. CASE cmd_idx < Size - 1
    <3>1. cmd_buf' = [cmd_buf EXCEPT ![cmd_idx] = line] /\ cmd_idx' = cmd_idx + 1
      BY <1>1, <2>2 DEF ReceiveChar
    <3>2. cmd_idx' \in 0 .. Size - 1 /\ cmd_idx # Size - 1
      BY <2>2, <3>1
    <3>3. cmd_buf' \in [0 .. Size - 1 -> 0..Lines] /\ cmd_buf'[Size - 1] = 0
      BY <2>1, <3>1, <3>2
    <3> QED BY <1>1, <2>1, <3>2, <3>3 DEF ReceiveChar
  <2>3. CASE ~(cmd_idx < Size - 1)
    BY <1>1, <2>1, <2>3 DEF ReceiveChar
  <2> QED BY <2>2, <2>3
<1>2. CASE ReceiveEnd
  BY <1>2 DEF ReceiveEnd, MaySend
<1>3. CASE CmdTake
  BY <1>3 DEF CmdTake
<1>4. CASE CmdCheck
  BY <1>4 DEF CmdCheck
<1>5. CASE CmdParse
  <2>1. parsed' \in Seq(Seq(1..Lines))
    <3> HIDE DEF TypeIInv
    <3>1. Content \in Seq(1..Lines)
      BY ContentOK
    <3>2. parsed \in Seq(Seq(1..Lines))
      BY DEF TypeIInv
    <3> QED BY <1>5, <3>1, <3>2 DEF CmdParse
  <2> QED BY <1>5, <2>1 DEF CmdParse
<1>6. CASE CmdResume
  BY <1>6 DEF CmdResume
<1>7. CASE CmdClear
  BY <1>7 DEF CmdClear
<1>8. CASE Tick
  BY <1>8 DEF Tick
<1>9. CASE PassBegins
  <2>1. mb_counter' \in 0..3 /\ notified' \in 0..MaxPending
    <3>1. \A k \in 0..3 : (k + 1) % 4 \in 0..3
      OBVIOUS
    <3> QED BY <1>9, <3>1 DEF PassBegins
  <2> QED BY <1>9, <2>1 DEF PassBegins
<1>10. CASE PassEnds
  BY <1>10 DEF PassEnds
<1>11. CASE UNCHANGED vars
  BY <1>11 DEF vars
<1>12. CASE CmdLoops
  BY <1>12 DEF CmdLoops, HasProcessor, cycle
<1>13. CASE PassLoops
  BY <1>13 DEF PassLoops, task, cycle
<1> QED
  BY <1>1, <1>2, <1>3, <1>4, <1>5, <1>6, <1>7, <1>8, <1>9, <1>10, <1>11, <1>12, <1>13
  DEF Next, CmdStep, Iterates

\* No line, however long, is written past the buffer, and what is taken over from
\* it is always made of characters that were sent (usart.c:117-135,
\* serial_cmd.c:277).
THEOREM TypeCorrect == Spec => []TypeOK
<1>1. TypeIInv => TypeOK
  BY DEF TypeIInv
<1> QED
  BY <1>1, InitTypeIInv, NextTypeIInv, PTL DEF Spec
=============================================================================
