---------------------------- MODULE CommandTask -----------------------------
(***************************************************************************)
(* The two tasks, the two interrupts and what they share.  TIM1 sends the  *)
(* process data and notifies the EtherCAT task, which runs a pass.  USART1 *)
(* collects a line in cmd_buf and notifies the command task, which         *)
(* suspends the EtherCAT task, parses the line and resumes it.  The        *)
(* EtherCAT task has the higher priority and does not block within a pass, *)
(* so the command task runs only while it waits or is suspended.           *)
(*                                                                         *)
(* A character is the number of the line it belongs to.  Hosts differ in   *)
(* when they send the next line: a patient one when the command task waits *)
(* again, a prompt one on the answer, which ParseCommand prints, and a     *)
(* free one at any time.                                                   *)
(*                                                                         *)
(* A short straight line at a feed of a few RPM may never be begun: the    *)
(* loop of Interp_Line that lowers the speed subtracts 0 then.  Whoever    *)
(* called it, the command task or a pass, stays there.                     *)
(***************************************************************************)
EXTENDS Integers, Sequences

CONSTANTS Lines,       \* bound on the lines the host sends
          Length,      \* Length[n]: the characters of line n
          Size,        \* the size of cmd_buf
          MaxPending,  \* bound on the notifications of TIM1 that wait
          Hosts,       \* the hosts of this instance
          Started,     \* whether main.c set dorun
          Crawling,    \* the lines of the host that Interp_Line may not return from
          PassCrawls   \* so may one from the queue or the panel

Host == {"patient", "prompt", "free"}

ASSUME LinesAssumption == Lines \in Nat
ASSUME SizeAssumption == Size \in Nat \ {0}
ASSUME LengthAssumption == Length \in [1..Lines -> Nat \ {0}]
ASSUME MaxPendingAssumption == MaxPending \in Nat \ {0}
ASSUME HostsAssumption == Hosts \subseteq Host
ASSUME StartedAssumption == Started \in BOOLEAN
ASSUME CrawlingAssumption == Crawling \subseteq 1..Lines /\ PassCrawls \in BOOLEAN

VARIABLES
  host,       \* the host of this behaviour
  line, char, \* the line the host is sending, and its characters sent
  cmd_buf, cmd_idx, cmd_ready,
  cmdNotified, \* the notification of the command task
  cmd,        \* where vCmd_Task is
  parsed,     \* the lines ParseCommand has executed, in order
  ecat,       \* the scheduler's state of the EtherCAT task, or "looping"
  inPass,     \* it is within a pass
  notified,   \* its notifications
  mb_counter,
  due         \* a frame was sent, or a line parsed, since the last pass began

usart == <<host, line, char, cmd_buf, cmd_idx>>
task == <<cmd, parsed>>
cycle == <<inPass, notified, mb_counter, due>>
vars == <<host, line, char, cmd_buf, cmd_idx, cmd_ready, cmdNotified, cmd, parsed,
          ecat, inPass, notified, mb_counter, due>>

Init ==
  /\ host \in Hosts
  /\ line = 1 /\ char = 0
  /\ cmd_buf = [i \in 0 .. Size - 1 |-> 0] /\ cmd_idx = 0 /\ cmd_ready = FALSE
  /\ cmdNotified = FALSE /\ cmd = "wait" /\ parsed = <<>>
  /\ ecat = "waiting" /\ inPass = FALSE /\ notified = 0
  /\ mb_counter = 0 /\ due = FALSE

-----------------------------------------------------------------------------
\* The host and USART1_IRQHandler, which runs whatever the tasks do.

MaySend ==
  /\ line <= Lines
  /\ CASE host = "patient" -> Len(parsed) = line - 1 /\ cmd = "wait" /\ ~cmdNotified
       [] host = "prompt"  -> Len(parsed) = line - 1
       [] host = "free"    -> TRUE

\* A character goes into the buffer while there is room for it and the end mark.
ReceiveChar ==
  /\ MaySend /\ char < Length[line]
  /\ char' = char + 1
  /\ IF cmd_idx < Size - 1
     THEN cmd_buf' = [cmd_buf EXCEPT ![cmd_idx] = line] /\ cmd_idx' = cmd_idx + 1
     ELSE UNCHANGED <<cmd_buf, cmd_idx>>
  /\ UNCHANGED <<host, line, cmd_ready, cmdNotified, task, ecat, cycle>>

\* Mutant of ReceiveEnd: the next line is appended.
ReceiveEndAppends ==
  /\ MaySend /\ char = Length[line]
  /\ line' = line + 1 /\ char' = 0
  /\ cmd_buf' = [cmd_buf EXCEPT ![cmd_idx] = 0]
  /\ cmd_ready' = TRUE /\ cmdNotified' = TRUE
  /\ UNCHANGED <<host, cmd_idx, task, ecat, cycle>>

\* The end of a line: it is handed over.
ReceiveEnd ==
  /\ MaySend /\ char = Length[line]
  /\ line' = line + 1 /\ char' = 0
  /\ cmd_buf' = [cmd_buf EXCEPT ![cmd_idx] = 0]
  /\ cmd_idx' = 0 /\ cmd_ready' = TRUE /\ cmdNotified' = TRUE
  /\ UNCHANGED <<host, task, ecat, cycle>>

-----------------------------------------------------------------------------
\* vCmd_Task.

\* The higher priority task leaves it the processor.
HasProcessor == ecat \notin {"ready", "looping"}

\* ulTaskNotifyTake.
CmdTake ==
  /\ HasProcessor /\ cmd = "wait" /\ cmdNotified
  /\ cmdNotified' = FALSE /\ cmd' = "taken"
  /\ UNCHANGED <<usart, cmd_ready, parsed, ecat, cycle>>

\* Mutant of CmdCheck: the EtherCAT task is not suspended.
CmdCheckOnly ==
  /\ HasProcessor /\ cmd = "taken"
  /\ cmd_ready' = FALSE /\ cmd' = IF cmd_ready THEN "suspended" ELSE "wait"
  /\ UNCHANGED <<usart, cmdNotified, parsed, ecat, cycle>>

\* The test of cmd_ready, and vTaskSuspend: a task that waited for a notification
\* does not wait for it any more.
CmdCheck ==
  /\ HasProcessor /\ cmd = "taken"
  /\ cmd_ready' = FALSE
  /\ IF cmd_ready THEN cmd' = "suspended" /\ ecat' = "suspended"
                  ELSE cmd' = "wait" /\ UNCHANGED ecat
  /\ UNCHANGED <<usart, cmdNotified, parsed, cycle>>

\* What strncpy finds in cmd_buf: the characters before the first end mark.
Content ==
  LET n == CHOOSE i \in 0 .. Size - 1 : cmd_buf[i] = 0 /\ \A j \in 0 .. i - 1 : cmd_buf[j] # 0
  IN  [i \in 1..n |-> cmd_buf[i - 1]]

\* ParseCommand, which copies the line before it acts on it, and returns.
CmdParse ==
  /\ HasProcessor /\ cmd = "suspended"
  /\ parsed' = Append(parsed, Content) /\ cmd' = "parsed"
  /\ due' = TRUE
  /\ UNCHANGED <<usart, cmd_ready, cmdNotified, ecat, inPass, notified, mb_counter>>

\* ParseCommand does not return from the line it copied.
CmdLoops ==
  /\ HasProcessor /\ cmd = "suspended"
  /\ \E i \in DOMAIN Content : Content[i] \in Crawling
  /\ cmd' = "looping"
  /\ UNCHANGED <<usart, cmd_ready, cmdNotified, parsed, ecat, cycle>>

\* Mutant of CmdResume: the EtherCAT task is left suspended.
CmdResumeNot ==
  /\ HasProcessor /\ cmd = "parsed"
  /\ cmd' = "resumed"
  /\ UNCHANGED <<usart, cmd_ready, cmdNotified, parsed, ecat, cycle>>

\* vTaskResume: the EtherCAT task is ready at once, notified or not.
CmdResume ==
  /\ HasProcessor /\ cmd = "parsed"
  /\ cmd' = "resumed" /\ ecat' = "ready"
  /\ UNCHANGED <<usart, cmd_ready, cmdNotified, parsed, cycle>>

\* The second cmd_ready = 0, after the EtherCAT task has run.
CmdClear ==
  /\ HasProcessor /\ cmd = "resumed"
  /\ cmd_ready' = FALSE /\ cmd' = "wait"
  /\ UNCHANGED <<usart, cmdNotified, parsed, ecat, cycle>>

-----------------------------------------------------------------------------
\* TIM1 and vEtherCAT_Task.

\* The interrupt of the cycle timer: it notifies only after start-up.
Tick ==
  /\ Started /\ notified < MaxPending
  /\ notified' = notified + 1 /\ due' = TRUE
  /\ ecat' = IF ecat = "waiting" THEN "ready" ELSE ecat
  /\ UNCHANGED <<usart, cmd_ready, cmdNotified, task, inPass, mb_counter>>

\* Mutant of PassBegins: the notifications are taken one by one.
PassBeginsPerTick ==
  /\ ecat = "ready" /\ ~inPass
  /\ inPass' = TRUE /\ due' = FALSE
  /\ notified' = IF notified = 0 THEN 0 ELSE notified - 1
  /\ mb_counter' = (mb_counter + 1) % 4
  /\ UNCHANGED <<usart, cmd_ready, cmdNotified, task, ecat>>

\* ulTaskNotifyTake returns, with all the notifications that came or with none,
\* and every fourth pass serves the panel.
PassBegins ==
  /\ ecat = "ready" /\ ~inPass
  /\ inPass' = TRUE /\ notified' = 0 /\ due' = FALSE
  /\ mb_counter' = (mb_counter + 1) % 4
  /\ UNCHANGED <<usart, cmd_ready, cmdNotified, task, ecat>>

PassEnds ==
  /\ ecat = "ready" /\ inPass
  /\ inPass' = FALSE
  /\ ecat' = IF notified = 0 THEN "waiting" ELSE "ready"
  /\ UNCHANGED <<usart, cmd_ready, cmdNotified, task, notified, mb_counter, due>>

\* A pass does not return from a line of the queue or of the panel.
PassLoops ==
  /\ PassCrawls /\ ecat = "ready" /\ inPass
  /\ ecat' = "looping"
  /\ UNCHANGED <<usart, cmd_ready, cmdNotified, task, cycle>>

Looping == cmd = "looping" \/ ecat = "looping"

\* An iteration of the loop of Interp_Line: safe_vel -= 0.
Iterates == Looping /\ UNCHANGED vars

CmdStep == CmdTake \/ CmdCheck \/ CmdParse \/ CmdResume \/ CmdClear

Next ==
  \/ ReceiveChar \/ ReceiveEnd
  \/ CmdStep \/ CmdLoops
  \/ Tick \/ PassBegins \/ PassEnds \/ PassLoops
  \/ Iterates

\* The timer goes on and passes end, if they leave Interp_Line.  Again and again one
\* ends before the next tick, which leaves the command task the processor.
Spec ==
  /\ Init /\ [][Next]_vars
  /\ WF_vars(Tick) /\ WF_vars(PassBegins) /\ WF_vars(PassEnds)
  /\ SF_vars(PassEnds /\ notified = 0)
  /\ SF_vars(CmdStep)
-----------------------------------------------------------------------------
TypeOK ==
  /\ host \in Hosts /\ line \in 1 .. Lines + 1 /\ char \in Nat
  /\ cmd_buf \in [0 .. Size - 1 -> 0..Lines] /\ cmd_idx \in 0 .. Size - 1
  /\ cmd_ready \in BOOLEAN /\ cmdNotified \in BOOLEAN
  /\ cmd \in {"wait", "taken", "suspended", "looping", "parsed", "resumed"}
  /\ parsed \in Seq(Seq(1..Lines))
  /\ ecat \in {"waiting", "ready", "suspended", "looping"} /\ inPass \in BOOLEAN
  /\ notified \in 0..MaxPending /\ mb_counter \in 0..3 /\ due \in BOOLEAN

\* A command is executed only between two passes, with the EtherCAT task at its
\* ulTaskNotifyTake and unable to start a pass (serial_cmd.c:889-895).
ParsesBetweenPasses ==
  cmd \in {"suspended", "looping", "parsed"} => ecat = "suspended" /\ ~inPass

\* A pass is due: a frame was sent since the last one began, or a line was parsed,
\* for the resumed task does not wait again (ethercat_task.c:60, serial_cmd.c:895).
PassWhenDue == [][~inPass /\ inPass' => due]_vars

\* The panel is served again and again, whatever the host sends and whenever the
\* task is suspended (ethercat_task.c:62-75), as long as no line is commanded that
\* Interp_Line does not return from (motion_api.c:383-387).
PanelServed == <>Looping \/ []<><<PassBegins /\ mb_counter = 3>>_vars

\* Expected to fail: Modbus is polled every fourth cycle, every 20 ms
\* (ethercat_task.c:62), even while the axes stand in a loop (tasks_hung.cfg).
AlwaysServed == []<><<PassBegins /\ mb_counter = 3>>_vars

\* Line n is taken over, as far as the buffer holds it, as the n-th.
Obeyed(n) ==
  /\ Len(parsed) >= n
  /\ parsed[n] = [i \in 1 .. (IF Length[n] < Size THEN Length[n] ELSE Size - 1) |-> n]

\* A patient host has every line executed, whole, once and in order: cmd_buf,
\* cmd_ready and the notification are not protected, and cleared at different
\* moments (usart.c:117-135, serial_cmd.c:885-897).  Excepted is, again, a line
\* that Interp_Line does not return from.
PatientObeyed ==
  \A n \in 1..Lines : (host = "patient" /\ line > n) ~> (Obeyed(n) \/ Looping)

\* So has one that sends the next line when it has the answer.
PromptObeyed ==
  \A n \in 1..Lines : (host = "prompt" /\ line > n) ~> Obeyed(n)

\* A pass steps the axes once for each frame that carries the step.
OncePerFrame == [][~inPass /\ inPass' => notified > 0]_vars
=============================================================================
