------------------------ MODULE DriveEnabling_proof -------------------------
(***************************************************************************)
(* The safety properties of DriveEnabling for any number of axes, any set  *)
(* of unreliable drives and any number of RESET commands.  That a drive    *)
(* enters operation where it stands needs to be known of the axes in the   *)
(* sequence that are sent an Enable Operation: whoever wrote that word     *)
(* synchronised the target in the same pass, and every later pass does so  *)
(* again, since no pass keeps the word for a drive that does not report.   *)
(***************************************************************************)
EXTENDS DriveEnabling, TLAPS

\* No axis is in the sequence before the tasks run.
NotAtStart == boot # 6 => \A a \in Axes : step[a] = 0

\* An axis in the sequence that is sent Enable Operation has its target in place.
EnableInPlace == \A a \in Axes : step[a] # 0 /\ control[a] = "enable" => aligned[a]

IInv == TypeOK /\ ResetRemembered /\ NotAtStart /\ EnableInPlace

-----------------------------------------------------------------------------
\* The drive's answer is a state, and only Enable Operation leads to operation.
LEMMA AnswerIsState ==
  ASSUME NEW d \in States, NEW c \in Words
  PROVE  Answer(d, c) \in States
  BY DEF Answer, States, Words

LEMMA OnlyEnableOperates ==
  ASSUME NEW d \in States, NEW c \in Words, d # "op", Answer(d, c) = "op"
  PROVE  c = "enable"
  BY DEF Answer, States, Words

\* The sequence stays in its steps, and one that has not begun does not begin.
LEMMA NextStepIsStep ==
  ASSUME NEW s \in 0..5, NEW sw \in States
  PROVE  NextStep(s, sw) \in 0..5 /\ (NextStep(s, sw) # 0 => s # 0)
  BY DEF NextStep

LEMMA NextWordIsWord ==
  ASSUME NEW s \in 0..5, NEW sw \in States, NEW w \in Words
  PROVE  NextWord(s, sw, w) \in Words
<1>1. NextStep(s, sw) \in 0..5
  BY NextStepIsStep
<1>2. \A n \in 1..5 : Sent[n] \in Words
  BY DEF Sent, Words
<1> QED
  BY <1>1, <1>2 DEF NextWord, Words

\* A pass that leaves an axis in the sequence with Enable Operation synchronised it.
LEMMA EnableMeansInPlace ==
  ASSUME NEW s \in 0..5, NEW sw \in States, NEW w \in Words,
         NextStep(s, sw) # 0, NextWord(s, sw, w) = "enable"
  PROVE  InPlace(s, sw)
<1>1. s # 0
  BY NextStepIsStep
<1>2. CASE sw = "mute"
  BY <1>1, <1>2 DEF NextWord
<1>3. CASE sw # "mute"
  BY <1>1, <1>3 DEF InPlace
<1> QED
  BY <1>2, <1>3

-----------------------------------------------------------------------------
LEMMA InitIInv == Init => IInv
<1> SUFFICES ASSUME Init PROVE IInv
  OBVIOUS
<1>1. TypeOK
  <2>1. drive \in [Axes -> States] /\ status \in [Axes -> States]
    <3>1. \A a \in Axes : drive[a] \in States
      BY DEF Init, States
    <3>2. drive = [a \in Axes |-> drive[a]] /\ status = drive
      BY DEF Init
    <3> QED
      BY <3>1, <3>2
  <2>2. control \in [Axes -> Words]
    BY DEF Init, Words
  <2>3. resets \in 0..MaxResets
    BY MaxResetsAssumption DEF Init
  <2>4. aligned \in [Axes -> BOOLEAN] /\ requested \in BOOLEAN
    BY DEF Init
  <2>5. boot \in 0..6 /\ clearing \in [Axes -> 0..5] /\ step \in [Axes -> 0..5]
    BY DEF Init
  <2> QED
    BY <2>1, <2>2, <2>3, <2>4, <2>5 DEF TypeOK
<1>2. ResetRemembered /\ NotAtStart /\ EnableInPlace
  BY DEF Init, ResetRemembered, NotAtStart, EnableInPlace
<1> QED
  BY <1>1, <1>2 DEF IInv

\* Before the tasks run nothing is in the sequence, whatever words are sent.
LEMMA BootIInv ==
  ASSUME IInv, Boot
  PROVE  IInv'
<1> USE DEF IInv
<1>1. CASE EnableStep
  <2>1. \A n \in 1..4 : EnableSequence[n] \in Words
    BY DEF EnableSequence, Words
  <2>2. boot + 1 \in 1..4
    BY <1>1 DEF EnableStep, TypeOK
  <2>3. EnableSequence[boot + 1] \in Words
    BY <2>1, <2>2
  <2>4. TypeOK'
    BY <1>1, <2>2, <2>3 DEF EnableStep, TypeOK, sequence
  <2> QED
    BY <1>1, <2>2, <2>4
    DEF EnableStep, sequence, ResetRemembered, NotAtStart, EnableInPlace
<1>2. CASE ForceEnabled
  BY <1>2 DEF ForceEnabled, TypeOK, sequence, ResetRemembered, NotAtStart, EnableInPlace
<1>3. CASE StartTasks
  BY <1>3 DEF StartTasks, TypeOK, sequence, ResetRemembered, NotAtStart, EnableInPlace
<1>4. ASSUME NEW b \in Axes, AutoClear(b) PROVE IInv'
  <2>1. \A n \in 1..4 : ClearSequence[n] \in Words
    BY DEF ClearSequence, Words
  <2>2. clearing' \in [Axes -> 0..5]
    BY <1>4 DEF AutoClear, TypeOK
  <2>3. status' \in [Axes -> States]
    BY <1>4 DEF AutoClear, TypeOK
  <2>4. aligned' \in [Axes -> BOOLEAN]
    BY <1>4 DEF AutoClear, TypeOK
  <2>5. control' \in [Axes -> Words]
    <3>1. control' = control \/ (clearing[b] \in 0..3
            /\ control' = [control EXCEPT ![b] = ClearSequence[clearing[b] + 1]])
      BY <1>4 DEF AutoClear, TypeOK
    <3> QED
      BY <2>1, <3>1 DEF TypeOK
  <2>6. TypeOK' /\ boot = 5 /\ boot' = 5 /\ step' = step /\ requested' = requested
    BY <1>4, <2>2, <2>3, <2>4, <2>5 DEF AutoClear, TypeOK, sequence
  <2> QED
    BY <2>6 DEF ResetRemembered, NotAtStart, EnableInPlace
<1> QED
  BY <1>1, <1>2, <1>3, <1>4 DEF Boot

\* A pass ends the request only when no axis is left, and leaves no axis with
\* Enable Operation and a target elsewhere.
LEMMA PassIInv ==
  ASSUME IInv, NEW received \in BOOLEAN, Pass(received)
  PROVE  IInv'
<1> USE DEF IInv
<1>1. status' \in [Axes -> States] /\ boot = 6 /\ boot' = 6
  BY DEF Pass, TypeOK, Running
<1>2. \A a \in Axes : step[a] \in 0..5 /\ status'[a] \in States /\ control[a] \in Words
  BY <1>1 DEF TypeOK
<1>3. step' \in [Axes -> 0..5]
  BY <1>2, NextStepIsStep DEF Pass
<1>4. control' \in [Axes -> Words]
  BY <1>2, NextWordIsWord DEF Pass
<1>5. aligned' \in [Axes -> BOOLEAN]
  BY DEF Pass, InPlace
<1>6. TypeOK'
  BY <1>1, <1>3, <1>4, <1>5 DEF Pass, TypeOK
<1>7. \A a \in Axes : step'[a] # 0 => step[a] # 0 /\ requested
  BY <1>2, NextStepIsStep DEF Pass, ResetRemembered
<1>8. ResetRemembered'
  BY <1>7 DEF Pass, Pending, ResetRemembered
<1>9. ASSUME NEW a \in Axes, step'[a] # 0, control'[a] = "enable"
      PROVE  aligned'[a]
  <2>1. NextStep(step[a], status'[a]) # 0 /\ NextWord(step[a], status'[a], control[a]) = "enable"
    BY <1>7, <1>9 DEF Pass
  <2>2. InPlace(step[a], status'[a])
    BY <1>2, <2>1, EnableMeansInPlace
  <2> QED
    BY <2>2 DEF Pass
<1> QED
  BY <1>1, <1>6, <1>8, <1>9 DEF NotAtStart, EnableInPlace

LEMMA ResetIInv ==
  ASSUME IInv, NEW S \in Selections, SerialReset(S) \/ PanelReset(S)
  PROVE  IInv'
<1> USE DEF IInv
<1>1. PICK T \in SUBSET Axes :
        /\ boot = 6 /\ boot' = 6 /\ clearing' = clearing /\ drive' = drive /\ status' = status
        /\ aligned' = aligned /\ requested' = TRUE /\ resets' \in 0..MaxResets
        /\ control' = [a \in Axes |-> IF a \in T THEN "clear" ELSE control[a]]
        /\ step' = [a \in Axes |-> IF a \in T THEN 1 ELSE step[a]]
  <2>1. S \in SUBSET Axes
    BY DEF Selections
  <2>2. CASE SerialReset(S)
    BY <2>1, <2>2, MaxResetsAssumption DEF SerialReset, Running, devices, TypeOK
  <2>3. CASE PanelReset(S)
    <3>1. Reported(S) \in SUBSET Axes
      BY <2>1 DEF Reported
    <3> QED
      BY <2>3, <3>1, MaxResetsAssumption DEF PanelReset, Running, devices, TypeOK
  <2> QED
    BY <2>2, <2>3
<1>2. TypeOK'
  BY <1>1 DEF TypeOK, Words
<1>3. ResetRemembered' /\ NotAtStart'
  BY <1>1 DEF ResetRemembered, NotAtStart
<1>4. EnableInPlace'
  BY <1>1 DEF EnableInPlace
<1> QED
  BY <1>2, <1>3, <1>4

LEMMA DriveIInv ==
  ASSUME IInv, NEW b \in Axes, Respond(b) \/ DriveFails(b)
  PROVE  IInv'
<1> USE DEF IInv
<1>1. drive' \in [Axes -> States]
  <2>1. CASE Respond(b)
    BY <2>1, AnswerIsState DEF Respond, TypeOK
  <2>2. CASE DriveFails(b)
    BY <2>2 DEF DriveFails, TypeOK, States
  <2> QED
    BY <2>1, <2>2
<1> QED
  BY <1>1 DEF Respond, DriveFails, sequence, TypeOK, ResetRemembered, NotAtStart, EnableInPlace

LEMMA NextIInv == IInv /\ [Next]_vars => IInv'
<1> SUFFICES ASSUME IInv, [Next]_vars PROVE IInv'
  OBVIOUS
<1>1. CASE Boot
  BY <1>1, BootIInv
<1>2. ASSUME NEW received \in BOOLEAN, Pass(received) PROVE IInv'
  BY <1>2, PassIInv
<1>3. ASSUME NEW S \in Selections, SerialReset(S) \/ PanelReset(S) PROVE IInv'
  BY <1>3, ResetIInv
<1>4. ASSUME NEW b \in Axes, Respond(b) \/ DriveFails(b) PROVE IInv'
  BY <1>4, DriveIInv
<1>5. CASE UNCHANGED vars
  BY <1>5 DEF vars, IInv, TypeOK, ResetRemembered, NotAtStart, EnableInPlace
<1> QED
  BY <1>1, <1>2, <1>3, <1>4, <1>5 DEF Next

LEMMA Invariance == Spec => []IInv
  BY InitIInv, NextIInv, PTL DEF Spec

\* The variables keep their types, for every number of axes and of commands.
THEOREM TypeCorrect == Spec => []TypeOK
<1>1. IInv => TypeOK
  BY DEF IInv
<1> QED
  BY <1>1, Invariance, PTL

\* No axis is left in the sequence without the request that drives it
\* (ethercat_task.c:134-255).
THEOREM ResetNeverForgotten == Spec => []ResetRemembered
<1>1. IInv => ResetRemembered
  BY DEF IInv
<1> QED
  BY <1>1, Invariance, PTL

\* A drive enters operation within the sequence where it stands, whatever the
\* axis was sent before, by itself or by either port (ethercat_task.c:157-164).
THEOREM EntersOperationInPlace == Spec => EnabledInPlace
<1>1. ASSUME IInv, [Next]_vars, NEW a \in Axes, drive[a] # "op", drive'[a] = "op",
             step[a] # 0
      PROVE  aligned[a]
  <2> USE DEF IInv
  <2>1. drive' # drive /\ vars' # vars
    BY <1>1 DEF vars
  <2>2. PICK b \in Axes : Respond(b) \/ DriveFails(b)
    <3>1. Boot => drive' = drive
      BY DEF Boot, EnableStep, ForceEnabled, AutoClear, StartTasks
    <3>2. \A received \in BOOLEAN : Pass(received) => drive' = drive
      BY DEF Pass
    <3>3. \A S \in Selections : SerialReset(S) \/ PanelReset(S) => drive' = drive
      BY DEF SerialReset, PanelReset, devices
    <3> QED
      BY <1>1, <2>1, <3>1, <3>2, <3>3 DEF Next
  <2>3. CASE Respond(b)
    <3>1. b = a
      BY <1>1, <2>3 DEF Respond, TypeOK
    <3>2. Answer(drive[a], control[a]) = "op"
      BY <1>1, <2>3, <3>1 DEF Respond, TypeOK
    <3>3. control[a] = "enable"
      BY <1>1, <3>2, OnlyEnableOperates DEF TypeOK
    <3> QED
      BY <1>1, <3>3 DEF EnableInPlace
  <2>4. CASE DriveFails(b)
    BY <1>1, <2>4 DEF DriveFails, TypeOK
  <2> QED
    BY <2>2, <2>3, <2>4
<1>2. IInv /\ [Next]_vars =>
        [\A a \in Axes : drive[a] # "op" /\ drive'[a] = "op" /\ step[a] # 0
                         => aligned[a]]_vars
  BY <1>1
<1> QED
  BY <1>2, Invariance, PTL DEF Spec, EnabledInPlace
=============================================================================
