--------------------------- MODULE DriveEnabling ----------------------------
(***************************************************************************)
(* How the drives come to be enabled: the sequence main.c runs before the  *)
(* tasks (Axis_EnableAll, then the clearing of the faults found), and the  *)
(* fault reset of the EtherCAT task, requested by serial_cmd.c between two *)
(* passes or by modbus_slave.c at the start of one.  Each sends a control  *)
(* word, looks at the status word that comes back and goes on.             *)
(*                                                                         *)
(* The drive is external: a CiA 402 device that acts on the control word   *)
(* it was last sent when it likes, may fault, and may lose its supply and  *)
(* then report a status word of 0.  A pass may also find that the frame    *)
(* did not come back: nobody looks at the result of the receive.           *)
(***************************************************************************)
EXTENDS Integers

CONSTANTS Axes,
          Unreliable,  \* the axes whose drive may fault in the sequence or fall mute
          MaxResets    \* bound on the RESET commands of a behaviour

ASSUME UnreliableAssumption == Unreliable \subseteq Axes
ASSUME MaxResetsAssumption == MaxResets \in Nat

VARIABLES
  boot,       \* how far main.c is: 0 to 4 in Axis_EnableAll, then 5; 6 is dorun = 1
  clearing,   \* control words of the auto-clear sent to each axis, 5 when done
  drive,      \* the state of each drive
  control,    \* pdo_out->ControlWord
  status,     \* pdo_in->StatusWord as last received
  aligned,    \* the target last sent is the CurrentPosition received before
  step,       \* axis[ax].fault_reset_step
  requested,  \* fault_reset_requested
  resets      \* RESET commands so far

devices == <<drive, status>>
sequence == <<step, requested, resets>>
vars == <<boot, clearing, drive, control, status, aligned, step, requested, resets>>

\* "disabled" stands for Switch On Disabled and Not Ready, which step 2 takes alike.
States == {"mute", "fault", "disabled", "ready", "on", "op"}

\* 0x0080, 0x0000, 0x0006, 0x0007 and 0x000F.
Words == {"clear", "off", "shutdown", "switchon", "enable"}

\* The tasks start when main.c has set dorun.
Running == boot = 6

\* The outputs are synchronised and a Shutdown has been sent to every axis.
Init ==
  /\ boot = 0
  /\ clearing = [a \in Axes |-> 0]
  /\ drive \in [Axes -> {"mute", "fault", "disabled", "ready"}]
  /\ control = [a \in Axes |-> "shutdown"]
  /\ status = drive
  /\ aligned = [a \in Axes |-> TRUE]
  /\ step = [a \in Axes |-> 0]
  /\ requested = FALSE
  /\ resets = 0

-----------------------------------------------------------------------------
\* The drive.

\* Where control word c takes a drive in state d.
Answer(d, c) ==
  CASE d = "fault" -> IF c = "clear" THEN "disabled" ELSE d
    [] d = "mute" -> "disabled"
    [] d \notin {"fault", "mute"} /\ c \in {"clear", "off"} -> "disabled"
    [] d \in {"disabled", "on", "op"} /\ c = "shutdown" -> "ready"
    [] d = "ready" /\ c \in {"switchon", "enable"} -> "on"
    [] d = "op" /\ c = "switchon" -> "on"
    [] d = "on" /\ c = "enable" -> "op"
    [] OTHER -> d

Respond(a) ==
  /\ Answer(drive[a], control[a]) # drive[a]
  /\ drive' = [drive EXCEPT ![a] = Answer(drive[a], control[a])]
  /\ UNCHANGED <<boot, clearing, control, status, aligned, sequence>>

\* A reliable drive faults in operation, an unreliable one at any time.
DriveFails(a) ==
  /\ a \in Unreliable \/ (step[a] = 0 /\ drive[a] = "op")
  /\ \E d \in (IF a \in Unreliable THEN {"fault", "mute"} ELSE {"fault"}) :
       drive' = [drive EXCEPT ![a] = d]
  /\ UNCHANGED <<boot, clearing, control, status, aligned, sequence>>

-----------------------------------------------------------------------------
\* main.c before the scheduler starts.

\* The last word is sent twice, 50 ms apart: a drive may need both.
EnableSequence == <<"shutdown", "switchon", "enable", "enable">>

\* Frame k is preceded by TargetPos = CurrentPosition.  The repeated frame is not:
\* it carries the target of the frame before, two receives later.
EnableWrites(k) == k < 3

\* A frame of Axis_EnableAll: it is sent and waited for, whatever comes back.
\* A motor that is not enabled is free to have been turned meanwhile.
EnableStep ==
  /\ boot < 4
  /\ control' = [a \in Axes |-> EnableSequence[boot + 1]]
  /\ \E unmoved \in [Axes -> BOOLEAN] :
       aligned' = [a \in Axes |-> EnableWrites(boot) \/ unmoved[a]]
  /\ status' = drive
  /\ boot' = boot + 1
  /\ UNCHANGED <<clearing, drive, sequence>>

\* The end of Axis_EnableAll: every axis counts as enabled, operating or not.
ForceEnabled ==
  /\ boot = 4
  /\ status' = drive
  /\ aligned' = [a \in Axes |-> TRUE]
  /\ boot' = 5
  /\ UNCHANGED <<clearing, drive, control, sequence>>

ClearSequence == <<"clear", "shutdown", "switchon", "enable">>

\* The auto-clear of one axis, a word or the final synchronisation at a time.
\* (The code takes the axes in turn, here they go at their own pace.)
AutoClear(a) ==
  /\ boot = 5 /\ clearing[a] < 5
  /\ IF clearing[a] = 0 /\ status[a] # "fault"
     THEN /\ clearing' = [clearing EXCEPT ![a] = 5]
          /\ UNCHANGED <<control, status, aligned>>
     ELSE /\ clearing' = [clearing EXCEPT ![a] = @ + 1]
          /\ status' = [status EXCEPT ![a] = drive[a]]
          /\ IF clearing[a] < 4
             THEN /\ control' = [control EXCEPT ![a] = ClearSequence[clearing[a] + 1]]
                  /\ aligned' \in {aligned, [aligned EXCEPT ![a] = FALSE]}
             ELSE aligned' = [aligned EXCEPT ![a] = TRUE] /\ UNCHANGED control
  /\ UNCHANGED <<boot, drive, sequence>>

\* dorun = 1; the result of Axis_EnableAll is not looked at.
StartTasks ==
  /\ boot = 5 /\ \A a \in Axes : clearing[a] = 5
  /\ boot' = 6
  /\ UNCHANGED <<clearing, drive, control, status, aligned, sequence>>

-----------------------------------------------------------------------------
\* The fault reset.

\* The status a step waits for, and the word it keeps sending until then.
Awaited == <<{"disabled", "ready", "on", "op"}, {"disabled"}, {"ready"}, {"on"}, {"op"}>>
Sent == <<"clear", "off", "shutdown", "switchon", "enable">>

\* Mutant of NextStep: the fault bit is not looked at.
NextStepBlind(s, sw) ==
  IF s = 1 \/ (s # 0 /\ sw # "mute" /\ sw \in Awaited[s]) THEN (s + 1) % 6 ELSE s

\* An axis in step s that received status sw.
NextStep(s, sw) ==
  IF s # 0 /\ sw # "mute" /\ sw \in Awaited[s] THEN (s + 1) % 6 ELSE s

\* The word the axis is sent then; the last step leaves the one before.
NextWord(s, sw, word) ==
  CASE s = 0 -> word
    [] s # 0 /\ sw = "mute" -> "clear"
    [] s # 0 /\ sw # "mute" /\ NextStep(s, sw) \notin 1..5 -> word
    [] OTHER -> Sent[NextStep(s, sw)]

\* Mutant of InPlace: only the axis that leaves step 4 is synchronised.
InPlaceOnce(s, sw) == sw = "fault" \/ (s = 4 /\ sw = "on")

\* The axis whose TargetPos is set to CurrentPosition in this pass: one in the
\* sequence whose drive reports, and one that has faulted.
InPlace(s, sw) == sw = "fault" \/ (s # 0 /\ sw # "mute")

\* Mutant of Pending: an axis that is done ends the request of all.
PendingAll(s) == \A a \in Axes : s[a] # 0

\* all_done is not set.
Pending(s) == \E a \in Axes : s[a] # 0

\* The part of a pass of the EtherCAT task that concerns the sequence; received
\* tells whether the frame came back.  Where the target stays or follows a
\* motion, it may be the encoder's position or not.
Pass(received) ==
  /\ Running
  /\ status' = IF received THEN drive ELSE status
  /\ \E anywhere \in [Axes -> BOOLEAN] :
       aligned' = [a \in Axes |-> InPlace(step[a], status'[a]) \/ anywhere[a]]
  /\ step' = [a \in Axes |-> IF requested THEN NextStep(step[a], status'[a]) ELSE step[a]]
  /\ control' = [a \in Axes |->
                   IF requested THEN NextWord(step[a], status'[a], control[a]) ELSE control[a]]
  /\ requested' = (requested /\ Pending(step))
  /\ UNCHANGED <<boot, clearing, drive, resets>>

\* RESET and X:RESET of serial_cmd.c, for the axes named.
SerialReset(S) ==
  /\ Running /\ resets < MaxResets
  /\ control' = [a \in Axes |-> IF a \in S THEN "clear" ELSE control[a]]
  /\ step' = [a \in Axes |-> IF a \in S THEN 1 ELSE step[a]]
  /\ requested' = TRUE
  /\ resets' = resets + 1
  /\ UNCHANGED <<boot, clearing, devices, aligned>>

\* The axes of S whose fault bit was received.
Reported(S) == {a \in S : status[a] = "fault"}

\* RESET of modbus_slave.c: only axes with a fault.  Its other branch is for axes
\* that are not enabled, and every axis is since ForceEnabled.
PanelReset(S) ==
  /\ Running /\ resets < MaxResets /\ Reported(S) # {}
  /\ control' = [a \in Axes |-> IF a \in Reported(S) THEN "clear" ELSE control[a]]
  /\ step' = [a \in Axes |-> IF a \in Reported(S) THEN 1 ELSE step[a]]
  /\ requested' = TRUE
  /\ resets' = resets + 1
  /\ UNCHANGED <<boot, clearing, devices, aligned>>

Selections == {{a} : a \in Axes} \cup {Axes}

Boot == EnableStep \/ ForceEnabled \/ StartTasks \/ \E a \in Axes : AutoClear(a)

Next ==
  \/ Boot
  \/ \E received \in BOOLEAN : Pass(received)
  \/ \E S \in Selections : SerialReset(S) \/ PanelReset(S)
  \/ \E a \in Axes : Respond(a) \/ DriveFails(a)

\* main.c goes on by itself, TIM1 starts the passes and frames come back again
\* and again, and a drive acts on a word it is kept sent.
Spec ==
  /\ Init /\ [][Next]_vars
  /\ WF_vars(Boot) /\ WF_vars(Pass(TRUE))
  /\ \A a \in Axes : WF_vars(Respond(a))
-----------------------------------------------------------------------------
\* The types of the variables.
TypeOK ==
  /\ boot \in 0..6 /\ clearing \in [Axes -> 0..5]
  /\ drive \in [Axes -> States] /\ status \in [Axes -> States]
  /\ control \in [Axes -> Words] /\ aligned \in [Axes -> BOOLEAN]
  /\ step \in [Axes -> 0..5] /\ requested \in BOOLEAN /\ resets \in 0..MaxResets

\* An axis within the sequence keeps it requested: the axes finish in different
\* passes, and the request is one flag for all, taken back and given anew by
\* either port (ethercat_task.c:139-255).
ResetRemembered == \A a \in Axes : step[a] # 0 => requested

\* A drive enters operation within the reset sequence only while the target it is
\* sent is its own last position: the motor was free until then and would jump
\* (ethercat_task.c:157-164, 209).
EnabledInPlace ==
  [][\A a \in Axes : drive[a] # "op" /\ drive'[a] = "op" /\ step[a] # 0
                     => aligned[a]]_vars

\* Not so in Axis_EnableAll, whose repeated Enable Operation carries an old target,
\* though motion_api.c:1274 says each step is synchronised (reset_start.cfg).
StartedInPlace ==
  [][\A a \in Axes : drive[a] # "op" /\ drive'[a] = "op" /\ boot < 5
                     => aligned[a]]_vars

\* The reset of a drive that answers ends with the drive in operation, wherever
\* the sequences of other axes hang and whoever requests again.  A fault that was
\* not received yet when the sequence began is excepted: it hangs in step 2, as
\* any later fault does, since only step 1 looks at the fault bit
\* (ethercat_task.c:166-247).
ResetCompletes ==
  \A a \in Axes \ Unreliable :
    (step[a] = 1 /\ (status[a] = "fault" \/ drive[a] # "fault"))
      ~> (step[a] = 0 /\ drive[a] = "op")
=============================================================================
