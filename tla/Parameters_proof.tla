-------------------------- MODULE Parameters_proof --------------------------
(***************************************************************************)
(* Proofs about Parameters, for every number of axes and every set of      *)
(* values.                                                                 *)
(***************************************************************************)
EXTENDS Parameters, TLAPS

\* Int16 gives a signed 16 bit value, and is the identity on those.
LEMMA Int16Range == \A v \in Int : Int16(v) \in Signed16
<1> TAKE v \in Int
<1> DEFINE m == (v + 32768) % 65536
<1>2. Int16(v) = m - 32768
  BY DEF Int16
<1>3. m \in 0..65535
  OBVIOUS
<1> HIDE DEF m
<1>4. m - 32768 \in Int /\ (m - 32768) + 32768 = m
  BY <1>3
<1> QED BY <1>2, <1>3, <1>4 DEF Signed16

LEMMA ParamsHighest == \A p \in Params : Highest[p] \in Nat /\ Defaults[p] \in 0..Highest[p]
BY DEF Params, Highest, Defaults

LEMMA WrittenInt == \A p \in Params : \A v \in Written[p] : v \in Int
<1>1. Rpms \subseteq Int /\ Limits \subseteq Int
  BY ValuesAssumption DEF Signed16
<1>2. Written["max_rpm"] = Rpms /\ Written["soft_limit_p"] = Limits
  BY DEF Written
<1> QED BY <1>1, <1>2 DEF Params

\* What may be stored is valid for X.
LEMMA ValidForFirst ==
  ASSUME NEW a, NEW p \in Params, NEW v, Valid(a, p, v)
  PROVE  v \in Int /\ Valid(First, p, v)
BY ParamsHighest DEF Valid

\* StoreAll stores a value offered or keeps the one that was there.
LEMMA StoreAllValues ==
  ASSUME NEW ram, NEW vals
  PROVE  \A a \in Coupled, p \in Params :
           \/ StoreAll(ram, vals)[a][p] = ram[a][p]
           \/ StoreAll(ram, vals)[a][p] = vals[a][p] /\ Valid(a, p, vals[a][p])
BY DEF StoreAll

\* StoreAll keeps the type of param_ram and its range.
LEMMA StoreAllType ==
  ASSUME NEW ram, NEW vals, ValidRam(ram)
  PROVE  ValidRam(StoreAll(ram, vals))
<1>1. \A a \in Coupled, p \in Params :
        StoreAll(ram, vals)[a][p] \in Int /\ Valid(First, p, StoreAll(ram, vals)[a][p])
  BY StoreAllValues, ValidForFirst DEF ValidRam
<1>2. StoreAll(ram, vals) \in [Coupled -> [Params -> Int]]
  BY <1>1 DEF StoreAll
<1> QED BY <1>1, <1>2 DEF ValidRam

\* So do the write back of the mirror and a whole frame.
LEMMA TakenType ==
  ASSUME NEW lin, NEW selected, NEW mir, ValidRam(param_ram),
         NEW after \in Taken(lin, selected, mir)
  PROVE  ValidRam(after)
<1> DEFINE ram == StoreAll(param_ram, lin)
<1>1. ValidRam(ram)
  BY StoreAllType
<1> HIDE DEF ram
<1>2. after = ram \/ \E vals : after = StoreAll(ram, vals)
  <2>1. after \in WriteBack(ram, selected, mir)
    BY DEF Taken, ram
  <2> QED BY <2>1 DEF WriteBack
<1> QED BY <1>1, <1>2, StoreAllType

LEMMA TypeInit == Init => TypeOK
<1> SUFFICES ASSUME Init PROVE TypeOK
  OBVIOUS
<1>1. ValidRam(param_ram)
  BY ParamsHighest DEF Init, ValidRam, Valid, Defaults, Params
<1>2. linear \in [Coupled -> [Params -> Signed16]] /\ mirror \in [Params -> Int]
  BY DEF Init, Zeros, Signed16
<1>3. axis_select \in Selectable /\ mirror_cur_ax \in Selectable
  BY AxesAssumption DEF Init, Selectable
<1> QED BY <1>1, <1>2, <1>3 DEF TypeOK

LEMMA TypeNext == TypeOK /\ [Next]_vars => TypeOK'
<1> SUFFICES ASSUME TypeOK, [Next]_vars PROVE TypeOK'
  OBVIOUS
<1> USE DEF TypeOK
<1>1. ASSUME NEW a \in Coupled, NEW p \in Params, NEW v \in Written[p], WriteLinear(a, p, v)
      PROVE  TypeOK'
  BY <1>1, TakenType, Int16Range, WrittenInt DEF WriteLinear, ValidRam
<1>2. ASSUME NEW p \in Params, NEW v \in Written[p], WriteMirror(p, v)
      PROVE  TypeOK'
  BY <1>2, TakenType, WrittenInt DEF WriteMirror, ValidRam
<1>3. ASSUME NEW a \in Selectable, Select(a) PROVE TypeOK'
  BY <1>3, TakenType DEF Select, ValidRam
<1>4. CASE WriteOther
  BY <1>4, TakenType DEF WriteOther, ValidRam
<1>5. CASE Sync
  <2>1. linear' \in [Coupled -> [Params -> Signed16]]
    BY <1>5, Int16Range DEF Sync, ValidRam
  <2>2. mirror' \in [Params -> Int]
    BY <1>5 DEF Sync, Mirrored, ValidRam, Zeros
  <2> QED BY <1>5, <2>1, <2>2 DEF Sync, ValidRam
<1>6. ASSUME NEW a \in Coupled, NEW p \in Params, NEW v \in Written[p], SerialSet(a, p, v)
      PROVE  TypeOK'
  BY <1>6, ValidForFirst DEF SerialSet, ValidRam
<1>7. CASE FactoryReset
  <2>1. \A p \in Params : /\ Defaults[p] \in Int /\ Valid(First, p, Defaults[p])
                          /\ Zeros[p] \in Int /\ Valid(First, p, Zeros[p])
    BY ParamsHighest DEF Valid, Zeros
  <2>2. \A a \in Coupled : param_ram'[a] = Defaults \/ param_ram'[a] = Zeros
    BY <1>7 DEF FactoryReset
  <2>3. Defaults \in [Params -> Int] /\ Zeros \in [Params -> Int]
    BY DEF Defaults, Zeros, Params
  <2>4. param_ram' \in [Coupled -> [Params -> Int]]
    BY <1>7, <2>3 DEF FactoryReset
  <2>5. \A a \in Coupled, p \in Params : Valid(First, p, param_ram'[a][p])
    BY <2>1, <2>2
  <2> QED BY <1>7, <2>4, <2>5 DEF FactoryReset, ValidRam
<1>8. CASE UNCHANGED vars
  BY <1>8 DEF vars, ValidRam
<1> QED BY <1>1, <1>2, <1>3, <1>4, <1>5, <1>6, <1>7, <1>8 DEF Next

\* The parameters, their images and the mirror keep their types, and no parameter
\* leaves the range of the description table (param_store.c:531-537).
THEOREM TypeCorrect == Spec => []TypeOK
BY TypeInit, TypeNext, PTL DEF Spec

-----------------------------------------------------------------------------
\* The copy of the linear image leaves a parameter alone whose image agrees with
\* it and is harmless.
LEMMA ImageKeeps ==
  ASSUME NEW a \in Coupled, NEW p \in Params, ~Truncated(a, p),
         NEW lin, lin[a][p] = Int16(param_ram[a][p])
  PROVE  StoreAll(param_ram, lin)[a][p] = param_ram[a][p]
<1>1. Valid(a, p, lin[a][p]) => lin[a][p] \in 0..Highest[p]
  BY ParamsHighest DEF Valid
<1>2. Valid(a, p, lin[a][p]) => lin[a][p] = param_ram[a][p]
  BY <1>1 DEF Truncated, Keeps
<1> QED BY <1>2, StoreAllValues

\* The write back of the mirror leaves a parameter alone that the mirror does not
\* show, or shows as it is, unless an auxiliary axis is written to it.
LEMMA MirrorKeeps ==
  ASSUME NEW a \in Coupled, NEW p \in Params, NEW lin, NEW selected, NEW mir,
         LET ram == StoreAll(param_ram, lin) IN
           selected = a /\ Shown(a) => mir[p] = ram[a][p],
         ~(a = First /\ p = "max_rpm" /\ selected \in Aux /\ Shown(selected)),
         NEW after \in Taken(lin, selected, mir)
  PROVE  after[a][p] = StoreAll(param_ram, lin)[a][p]
<1> DEFINE ram == StoreAll(param_ram, lin)
<1>1. after \in WriteBack(ram, selected, mir)
  BY DEF Taken
<1>2. ram = [b \in Coupled |-> ram[b]] /\ \A b \in Coupled : ram[b] = [q \in Params |-> ram[b][q]]
  BY DEF StoreAll
<1>3. selected = a /\ Shown(a) => mir[p] = ram[a][p]
  OBVIOUS
<1> HIDE DEF ram
<1>4. CASE selected \in Coupled /\ Shown(selected)
  <2> DEFINE vals == [ram EXCEPT ![selected] = mir]
  <2>1. vals[a][p] = ram[a][p]
    BY <1>2, <1>3, <1>4
  <2> HIDE DEF vals
  <2>2. StoreAll(ram, vals)[a][p] = ram[a][p]
    BY <2>1, StoreAllValues
  <2>3. after = StoreAll(ram, vals)
    BY <1>1, <1>4 DEF WriteBack, vals
  <2> QED BY <2>2, <2>3 DEF ram
<1>5. CASE ~(selected \in Coupled /\ Shown(selected)) /\ selected \in Aux /\ Shown(selected)
  <2>1. PICK v \in LastWord(mir) : after = StoreAll(ram, [ram EXCEPT ![First].max_rpm = v])
    BY <1>1, <1>5 DEF WriteBack
  <2> DEFINE vals == [ram EXCEPT ![First].max_rpm = v]
  <2>2. a # First \/ p # "max_rpm"
    BY <1>5
  <2>3. vals[a][p] = ram[a][p]
    BY <1>2, <2>2
  <2> HIDE DEF vals
  <2>4. StoreAll(ram, vals)[a][p] = ram[a][p]
    BY <2>3, StoreAllValues
  <2> QED BY <2>1, <2>4 DEF vals, ram
<1>6. CASE ~(selected \in Coupled /\ Shown(selected)) /\ ~(selected \in Aux /\ Shown(selected))
  BY <1>1, <1>6 DEF WriteBack, ram
<1> QED BY <1>4, <1>5, <1>6

\* A parameter whose registers agree with it changes only when it is written, for
\* every number of axes of either kind and every value written, but for the two
\* exceptions that the property names (modbus_slave.c:237-297).
THEOREM NothingElseChanges == Spec => OnlyWhatIsWritten
<1> DEFINE Allowed(a, p) ==
             Changes(a, p) => Names(a, p) \/ ~InSync(a, p) \/ Truncated(a, p) \/ Misrouted(a, p)
<1>1. TypeOK /\ [Next]_vars => [\A a \in Coupled, p \in Params : Allowed(a, p)]_vars
  <2> SUFFICES ASSUME TypeOK, Next, NEW a \in Coupled, NEW p \in Params,
                      InSync(a, p), ~Names(a, p), ~Truncated(a, p), ~Misrouted(a, p)
               PROVE  param_ram'[a][p] = param_ram[a][p]
    BY DEF Changes
  <2>1. ASSUME NEW lin, param_ram' \in Taken(lin, axis_select', mirror'),
               lin[a][p] = linear[a][p],
               axis_select' = a /\ mirror_cur_ax = a => mirror'[p] = mirror[p]
        PROVE  param_ram'[a][p] = param_ram[a][p]
    <3> DEFINE ram == StoreAll(param_ram, lin)
    <3>1. ram[a][p] = param_ram[a][p]
      BY <2>1, ImageKeeps DEF InSync
    <3>2. axis_select' = a /\ Shown(a) => mirror'[p] = ram[a][p]
      BY <2>1, <3>1 DEF InSync, Shown
    <3>3. ~(a = First /\ p = "max_rpm" /\ axis_select' \in Aux /\ Shown(axis_select'))
      BY DEF Misrouted
    <3> HIDE DEF ram
    <3>4. param_ram'[a][p] = ram[a][p]
      BY <2>1, <3>2, <3>3, MirrorKeeps DEF ram
    <3> QED BY <3>1, <3>4
  <2>2. ASSUME NEW b \in Coupled, NEW q \in Params, NEW v \in Written[q], WriteLinear(b, q, v)
        PROVE  param_ram'[a][p] = param_ram[a][p]
    <3>1. linear'[a][p] = linear[a][p]
      BY DEF Names
    <3> QED BY <2>1, <2>2, <3>1 DEF WriteLinear
  <2>3. ASSUME NEW q \in Params, NEW v \in Written[q], WriteMirror(q, v)
        PROVE  param_ram'[a][p] = param_ram[a][p]
    <3>1. axis_select = a => mirror'[p] = mirror[p]
      BY DEF Names
    <3> QED BY <2>1, <2>3, <3>1 DEF WriteMirror
  <2>4. ASSUME NEW s \in Selectable, Select(s) PROVE param_ram'[a][p] = param_ram[a][p]
    BY <2>1, <2>4 DEF Select
  <2>5. CASE WriteOther
    BY <2>1, <2>5 DEF WriteOther
  <2>6. CASE Sync
    BY <2>6 DEF Sync
  <2>7. ASSUME NEW b \in Coupled, NEW q \in Params, NEW v \in Written[q], SerialSet(b, q, v)
        PROVE  param_ram'[a][p] = param_ram[a][p]
    <3>1. b # a \/ q # p
      BY <2>7 DEF Names
    <3> QED BY <2>7, <3>1 DEF SerialSet, TypeOK, ValidRam
  <2>8. CASE FactoryReset
    BY <2>8 DEF Names
  <2> QED
    BY <2>2, <2>3, <2>4, <2>5, <2>6, <2>7, <2>8 DEF Next
<1> QED
  BY <1>1, TypeInit, TypeNext, PTL DEF Spec, OnlyWhatIsWritten

\* What the panel writes to the mirror of the axis it shows is taken in the same
\* frame, for every number of axes and all values: the linear image is copied back
\* before it (modbus_slave.c:240-270).
THEOREM MirrorIsTaken == Spec => MirrorTaken
<1> DEFINE Takes(p, v) ==
             WriteMirror(p, v) /\ axis_select = mirror_cur_ax /\ axis_select \in Coupled
               /\ Valid(axis_select, p, v)
             => param_ram'[axis_select][p] = v
<1>1. TypeOK /\ [Next]_vars => [\A p \in Params : \A v \in Written[p] : Takes(p, v)]_vars
  <2> SUFFICES ASSUME TypeOK, NEW p \in Params, NEW v \in Written[p], WriteMirror(p, v),
                      axis_select = mirror_cur_ax, axis_select \in Coupled,
                      Valid(axis_select, p, v)
               PROVE  param_ram'[axis_select][p] = v
    OBVIOUS
  <2> DEFINE ram == StoreAll(param_ram, linear)
             vals == [ram EXCEPT ![axis_select] = mirror']
  <2>1. param_ram' = StoreAll(ram, vals)
    BY AxesAssumption DEF WriteMirror, Taken, WriteBack, Shown
  <2>2. mirror'[p] = v
    BY DEF WriteMirror, TypeOK
  <2>3. vals[axis_select][p] = v
    BY <2>2 DEF StoreAll
  <2> HIDE DEF vals, ram
  <2>4. StoreAll(ram, vals)[axis_select][p] = v
    BY <2>3 DEF StoreAll
  <2> QED BY <2>1, <2>4
<1> QED
  BY <1>1, TypeInit, TypeNext, PTL DEF Spec, MirrorTaken
=============================================================================
