----------------------------- MODULE Parameters -----------------------------
(***************************************************************************)
(* The parameters of the axes and their copies in the panel's registers:   *)
(* param_ram, its 16 bit image in mb_regs (linear), and the mirror of the  *)
(* axis that AXIS_SELECT names.  Every write frame of the panel copies     *)
(* both images back into param_ram; every 200 ms param_ram is copied out.  *)
(*                                                                         *)
(* Two parameters of each axis stand for the others: MAX_RPM for those of  *)
(* 16 bits and SOFT_LIMIT_P for those of 32.  Of the auxiliary axes only   *)
(* the effect of their selection is here.                                  *)
(***************************************************************************)
EXTENDS Integers

CONSTANTS Coupled,   \* the axes X, Y and Z; R starts with soft limits of its own
          First,     \* X, the axis that g_param_desc_table describes
          Aux,       \* the axes U, V, W and S
          NoAxis,    \* a selection that names no axis, mirror_cur_ax = -1
          Rpms,      \* the speeds and the limits that are written
          Limits

ASSUME AxesAssumption ==
  First \in Coupled /\ Coupled \cap Aux = {} /\ NoAxis \notin Coupled \cup Aux

VARIABLES param_ram, linear, mirror, axis_select, mirror_cur_ax
vars == <<param_ram, linear, mirror, axis_select, mirror_cur_ax>>

Params == {"max_rpm", "soft_limit_p"}
Written == [max_rpm |-> Rpms, soft_limit_p |-> Limits]
Selectable == Coupled \cup Aux \cup {NoAxis}

\* (int32)(int16) of a register that was set from v.
Int16(v) == ((v + 32768) % 65536) - 32768
Signed16 == {v \in Int : v + 32768 \in 0..65535}

\* MAX_RPM has one word in either image.
ASSUME ValuesAssumption == Rpms \subseteq Signed16 /\ Limits \subseteq Int

Defaults == [max_rpm |-> 3000, soft_limit_p |-> 2000000000]
Highest == [max_rpm |-> 3000, soft_limit_p |-> 2000000000]
Zeros == [p \in Params |-> 0]

\* PARAM_VALID.  The entries of the axes after X are not given, and so all zero.
Valid(a, p, v) == IF a = First THEN v \in 0..Highest[p] ELSE v = 0

\* Param_LoadDefaults and Param_EnsureDefaults.
Init ==
  /\ param_ram = [a \in Coupled |-> Defaults]
  /\ linear = [a \in Coupled |-> Zeros] /\ mirror = Zeros
  /\ axis_select = First /\ mirror_cur_ax = NoAxis

-----------------------------------------------------------------------------
\* Param_Set of every parameter of ram to the values vals, where they are valid.
StoreAll(ram, vals) ==
  [a \in Coupled |-> [p \in Params |->
     IF Valid(a, p, vals[a][p]) THEN vals[a][p] ELSE ram[a][p]]]

\* Mutant of Shown: the mirror is written to the axis selected, whatever it shows.
ShownAny(selected) == TRUE

\* The mirror holds the values of the axis selected.
Shown(selected) == selected = mirror_cur_ax

\* What remains of the mirror's 16 bit words when each in turn is written to the
\* same parameter: the last valid one, MAX_RPM's own or one of the twelve after it,
\* which the panel writes too and which Sync sets to 0.
LastWord(mir) == {mir.max_rpm, 0} \cup Rpms

\* Writing the mirror mir back.  For an auxiliary axis the parameter id is 0, the
\* MAX_RPM of X, whichever word it is.
WriteBack(ram, selected, mir) ==
  IF selected \in Coupled /\ Shown(selected)
  THEN {StoreAll(ram, [ram EXCEPT ![selected] = mir])}
  ELSE IF selected \in Aux /\ Shown(selected)
  THEN {StoreAll(ram, [ram EXCEPT ![First].max_rpm = v]) : v \in LastWord(mir)}
  ELSE {ram}

\* Mutant of Taken: the linear image is written last.
TakenLinearLast(lin, selected, mir) ==
  {StoreAll(ram, lin) : ram \in WriteBack(param_ram, selected, mir)}

\* What a write frame may leave in param_ram.
Taken(lin, selected, mir) == WriteBack(StoreAll(param_ram, lin), selected, mir)

\* The panel writes a register of the linear image.
WriteLinear(a, p, v) ==
  /\ linear' = [linear EXCEPT ![a][p] = Int16(v)]
  /\ param_ram' \in Taken(linear', axis_select, mirror)
  /\ UNCHANGED <<mirror, axis_select, mirror_cur_ax>>

\* The panel writes a parameter of the mirror, both words of a long one.
WriteMirror(p, v) ==
  /\ mirror' = [mirror EXCEPT ![p] = v]
  /\ param_ram' \in Taken(linear, axis_select, mirror')
  /\ UNCHANGED <<linear, axis_select, mirror_cur_ax>>

\* The panel selects an axis.
Select(a) ==
  /\ axis_select' = a
  /\ param_ram' \in Taken(linear, a, mirror)
  /\ UNCHANGED <<linear, mirror, mirror_cur_ax>>

\* The panel writes a register of another block.
WriteOther ==
  /\ param_ram' \in Taken(linear, axis_select, mirror)
  /\ UNCHANGED <<linear, mirror, axis_select, mirror_cur_ax>>

Mirrored(selected) == IF selected \in Coupled THEN param_ram[selected] ELSE Zeros

\* Part F of Modbus_UpdateRegs.
Sync ==
  /\ linear' = [a \in Coupled |-> [p \in Params |-> Int16(param_ram[a][p])]]
  /\ mirror' = Mirrored(axis_select)
  /\ mirror_cur_ax' = axis_select
  /\ UNCHANGED <<param_ram, axis_select>>

\* PARAM:id,value of the serial line.
SerialSet(a, p, v) ==
  /\ Valid(a, p, v)
  /\ param_ram' = [param_ram EXCEPT ![a][p] = v]
  /\ UNCHANGED <<linear, mirror, axis_select, mirror_cur_ax>>

\* PARAM:RESET: Param_LoadDefaults alone.
FactoryReset ==
  /\ param_ram' = [a \in Coupled |-> IF a = First THEN Defaults ELSE Zeros]
  /\ UNCHANGED <<linear, mirror, axis_select, mirror_cur_ax>>

Next ==
  \/ \E a \in Coupled, p \in Params : \E v \in Written[p] :
       WriteLinear(a, p, v) \/ SerialSet(a, p, v)
  \/ \E p \in Params : \E v \in Written[p] : WriteMirror(p, v)
  \/ \E a \in Selectable : Select(a)
  \/ WriteOther \/ Sync \/ FactoryReset

Spec == Init /\ [][Next]_vars
-----------------------------------------------------------------------------
ValidRam(ram) ==
  /\ ram \in [Coupled -> [Params -> Int]]
  /\ \A a \in Coupled, p \in Params : Valid(First, p, ram[a][p])

TypeOK ==
  /\ ValidRam(param_ram)
  /\ linear \in [Coupled -> [Params -> Signed16]]
  /\ mirror \in [Params -> Int]
  /\ axis_select \in Selectable /\ mirror_cur_ax \in Selectable

\* The registers that are written back to a parameter agree with it.
InSync(a, p) ==
  /\ linear[a][p] = Int16(param_ram[a][p])
  /\ mirror_cur_ax = a => mirror[p] = param_ram[a][p]

\* The step writes parameter p of axis a, or all of them.
Names(a, p) ==
  \/ linear'[a][p] # linear[a][p]
  \/ mirror'[p] # mirror[p] /\ axis_select = a
  \/ \E v \in Written[p] : SerialSet(a, p, v)
  \/ FactoryReset

\* The 16 bit image of v is v, or is refused when it is copied back.
Keeps(p, v) == Int16(v) = v \/ Int16(v) \notin 0..Highest[p]

\* The low 16 bits of the parameter are another value it may take.
Truncated(a, p) == ~Keeps(p, param_ram[a][p])

\* The mirror of an auxiliary axis is written to the MAX_RPM of X.
Misrouted(a, p) ==
  a = First /\ p = "max_rpm" /\ axis_select' \in Aux /\ Shown(axis_select')

Changes(a, p) == param_ram'[a][p] # param_ram[a][p]

\* A parameter whose registers agree with it changes only when it is written: not
\* by a frame for something else, not by selecting another axis, and not by the
\* values of another axis in the mirror (modbus_slave.c:237-297).  Excepted is what
\* the code does otherwise: a long parameter falls to its low 16 bits where they
\* are valid (242), and selecting an auxiliary axis costs X its MAX_RPM (289).
OnlyWhatIsWritten ==
  [][\A a \in Coupled, p \in Params :
       Changes(a, p) => Names(a, p) \/ ~InSync(a, p) \/ Truncated(a, p) \/ Misrouted(a, p)]_vars

\* Expected to fail: the mirror of an auxiliary axis is "routed by the type of the
\* axis" (modbus_slave.c:285); and with Aux = {} the image of a long parameter is
\* "synchronised" with it (modbus_slave.c:239).
NothingElseWritten ==
  [][\A a \in Coupled, p \in Params : Changes(a, p) => Names(a, p) \/ ~InSync(a, p)]_vars

\* What the panel writes to the mirror of the axis it shows is taken in the same
\* frame, although the linear image with the old value is copied back too
\* (modbus_slave.c:240-270).
MirrorTaken ==
  [][\A p \in Params : \A v \in Written[p] :
       WriteMirror(p, v) /\ axis_select = mirror_cur_ax /\ axis_select \in Coupled
         /\ Valid(axis_select, p, v)
       => param_ram'[axis_select][p] = v]_vars

\* Expected to fail: the mirror is "routed to the param_ram of the axis" selected
\* (modbus_slave.c:256), but the description table has ranges for X only.
MirrorRouted ==
  [][\A p \in Params : \A v \in Written[p] :
       WriteMirror(p, v) /\ axis_select = mirror_cur_ax /\ axis_select \in Coupled
         /\ Valid(First, p, v)
       => param_ram'[axis_select][p] = v]_vars
=============================================================================
