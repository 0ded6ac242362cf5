--------------------------- MODULE ModeApply_proofs ---------------------------
(***************************************************************************)
(* The execution of a plan, for every set of configurations and every list *)
(* of parameter registers.                                                 *)
(***************************************************************************)
EXTENDS ModeApply, SequenceTheorems, WellFoundedInduction, TLAPS

\* A value of the kind a register takes makes a plan item.
LEMMA ItemType ==
    ASSUME NEW r \in Register, NEW v \in ValueOf(r) PROVE Item(r, v) \in PlanItem
<1>1. Item(r, v) \in [register : {r}, value : ValueOf(r)]
  BY DEF Item
<1>2. QED
  BY <1>1 DEF PlanItem

\* What a plan item is made of.
LEMMA ItemFields ==
    ASSUME NEW x \in PlanItem
    PROVE  x.register \in Register /\ x.value \in ValueOf(x.register)
BY DEF PlanItem

\* Writes to 0x0009 are well typed.
LEMMA ScanItemType ==
    ASSUME NEW c \in Config \cup {Zero}, NEW s \in 0 .. 1 PROVE ScanItem(c, s) \in PlanItem
<1>1. "scan_control" \in Register /\ [interval |-> c, state |-> s] \in ValueOf("scan_control")
  BY DEF Register, ValueOf, ScanControl
<1>2. QED
  BY <1>1, ItemType DEF ScanItem

\* They are to 0x0009.
LEMMA ScanItemFields ==
    ASSUME NEW c, NEW s
    PROVE  /\ ScanItem(c, s).register = "scan_control"
           /\ ScanItem(c, s).value = [interval |-> c, state |-> s]
<1>1. ASSUME NEW v PROVE Item("scan_control", v).register = "scan_control"
                          /\ Item("scan_control", v).value = v
  BY DEF Item
<1>2. QED
  BY <1>1 DEF ScanItem

\* So are the writes that switch the modes.
LEMMA FlagItemType ==
    ASSUME NEW v \in 0 .. 1
    PROVE  Item("laser_mode_en", v) \in PlanItem /\ Item("ultrafast", v) \in PlanItem
<1>1. /\ {"laser_mode_en", "ultrafast"} \subseteq Register
      /\ ValueOf("laser_mode_en") = 0 .. 1
      /\ ValueOf("ultrafast") = 0 .. 1
  BY DEF Register, FlagRegs, ValueOf
<1>2. QED
  BY <1>1, ItemType

\* And the groups of parameter writes.
LEMMA ItemsType ==
    ASSUME NEW c \in Config, NEW regs \in {GeomRegs, UltraRegs, LaserRegs}
    PROVE  Items(regs, c) \in Seq(PlanItem)
<1>1. regs \in Seq(STRING) /\ \A i \in 1 .. Len(regs) : regs[i] \in ParameterReg
  BY PlanAssumption DEF ParameterReg, GeomReg, UltraReg, LaserReg
<1>2. ASSUME NEW r \in ParameterReg PROVE r \in Register /\ c \in ValueOf(r)
  BY PlanAssumption DEF Register, ValueOf
<1>3. \A i \in 1 .. Len(regs) : Item(regs[i], c) \in PlanItem
  BY <1>1, <1>2, ItemType
<1>4. Len(regs) \in Nat
  BY <1>1
<1>5. QED
  BY <1>3, <1>4 DEF Items

\* Every plan of to_plan is a sequence of well-typed writes.
LEMMA PlansType ==
    ASSUME NEW c \in Config, NEW on \in 0 .. 1
    PROVE  /\ ScanPlan(c) \in Seq(PlanItem)
           /\ NormalPlan(c) \in Seq(PlanItem)
           /\ UltrafastPlan(c) \in Seq(PlanItem)
           /\ SafeLaserPlan(c, on) \in Seq(PlanItem)
           /\ LaserPlan(c, on) \in Seq(PlanItem)
<1>1. /\ ScanItem(c, 0) \in PlanItem
      /\ Item("laser_mode_en", 0) \in PlanItem /\ Item("ultrafast", 0) \in PlanItem
      /\ Item("laser_mode_en", on) \in PlanItem /\ Item("ultrafast", 1) \in PlanItem
  BY ScanItemType, FlagItemType
<1>2. /\ Items(GeomRegs, c) \in Seq(PlanItem)
      /\ Items(UltraRegs, c) \in Seq(PlanItem)
      /\ Items(LaserRegs, c) \in Seq(PlanItem)
  BY ItemsType
<1>3. ScanPlan(c) \in Seq(PlanItem)
  BY <1>1, <1>2 DEF ScanPlan
<1>4. SafeLaserPlan(c, on) \in Seq(PlanItem)
  BY <1>1, <1>2 DEF SafeLaserPlan
<1>5. NormalPlan(c) \in Seq(PlanItem)
  BY <1>1, <1>3 DEF NormalPlan
<1>6. UltrafastPlan(c) \in Seq(PlanItem)
  BY <1>1, <1>2, <1>3 DEF UltrafastPlan
<1>7. LaserPlan(c, on) \in Seq(PlanItem)
  BY <1>1, <1>3, <1>4 DEF LaserPlan
<1>8. QED
  BY <1>3, <1>4, <1>5, <1>6, <1>7

\* A non-empty set of natural numbers below a bound has a greatest element.
LEMMA Greatest ==
    ASSUME NEW n \in Nat, NEW S \in SUBSET (1 .. n), S # {}
    PROVE  \E x \in S : \A y \in S : y <= x
<1> DEFINE T == {n - x : x \in S}
<1>1. T \subseteq Nat /\ T # {}
  <2>1. ASSUME NEW x \in S PROVE n - x \in Nat
    <3>1. x \in 1 .. n
      OBVIOUS
    <3>2. QED
      BY <3>1
  <2>2. PICK x \in S : TRUE
    OBVIOUS
  <2>3. n - x \in T
    BY <2>2
  <2>4. QED
    BY <2>1, <2>3
<1>2. PICK t \in T : \A u \in T : ~ (<<u, t>> \in OpToRel(<, Nat))
  <2> HIDE DEF T
  <2>1. QED
    BY <1>1, NatLessThanWellFounded, WFMin
<1>3. PICK x \in S : t = n - x
  OBVIOUS
<1>4. ASSUME NEW y \in S PROVE y <= x
  <2>1. n - y \in T /\ n - y \in Nat /\ t \in Nat
    OBVIOUS
  <2>2. ~ (n - y < t)
    BY <1>2, <2>1 DEF OpToRel
  <2>3. QED
    BY <2>1, <2>2, <1>3
<1>5. QED
  BY <1>4

\* _find_last_scan_control returns the value of a write to 0x0009 when there is one.
LEMMA LastScanControlIsOne ==
    ASSUME NEW p \in Seq(PlanItem), NEW i \in 1 .. Len(p), p[i].register = "scan_control"
    PROVE  \E j \in 1 .. Len(p) : p[j].register = "scan_control" /\ LastScanControl(p) = p[j].value
<1> DEFINE S == {j \in 1 .. Len(p) : p[j].register = "scan_control"}
           Last(j) == /\ p[j].register = "scan_control"
                      /\ \A k \in j + 1 .. Len(p) : p[k].register # "scan_control"
<1>1. S \in SUBSET (1 .. Len(p)) /\ S # {} /\ Len(p) \in Nat
  OBVIOUS
<1>2. PICK x \in S : \A y \in S : y <= x
  BY <1>1, Greatest
<1>3. Last(x) /\ x \in 1 .. Len(p)
  BY <1>2
<1>4. LastScanControl(p) = p[CHOOSE j \in 1 .. Len(p) : Last(j)].value
  BY DEF LastScanControl
<1>5. LET j == CHOOSE j \in 1 .. Len(p) : Last(j) IN j \in 1 .. Len(p) /\ Last(j)
  BY <1>3
<1>6. QED
  BY <1>4, <1>5

\* A plan that stops the scan can be followed by the start of the same scan.
LEMMA WithStartType ==
    ASSUME NEW p \in Seq(PlanItem), NEW i \in 1 .. Len(p), p[i].register = "scan_control"
    PROVE  WithStart(p) \in Seq(PlanItem)
<1> DEFINE v == LastScanControl(p)
<1>1. PICK j \in 1 .. Len(p) : p[j].register = "scan_control" /\ v = p[j].value
  BY LastScanControlIsOne
<1>2. v \in ScanControl
  <2>1. p[j] \in PlanItem
    OBVIOUS
  <2>2. QED
    BY <1>1, <2>1, ItemFields DEF ValueOf
<1> HIDE DEF v
<1>3. [v EXCEPT !.state = 1] \in ValueOf("scan_control") /\ "scan_control" \in Register
  BY <1>2 DEF ScanControl, ValueOf, Register
<1>4. Item("scan_control", [v EXCEPT !.state = 1]) \in PlanItem
  BY <1>3, ItemType
<1>5. QED
  BY <1>4 DEF WithStart, v

\* The write that start_scan and stop_scan make, and the whole of apply_dl5_config.
LEMMA Dl5PlanType ==
    ASSUME NEW c \in Config, NEW on \in 0 .. 1, NEW stop \in BOOLEAN, NEW start \in BOOLEAN,
           NEW x \in Config \cup {Zero}, NEW y \in Config \cup {Zero}
    PROVE  Dl5Plan(c, on, stop, start, x, y) \in Seq(PlanItem)
<1>1. ScanItem(x, 0) \in PlanItem /\ ScanItem(y, 1) \in PlanItem
  BY ScanItemType
<1>2. SafeLaserPlan(c, on) \in Seq(PlanItem)
  BY PlansType
<1>3. (IF stop THEN <<ScanItem(x, 0)>> ELSE <<>>) \in Seq(PlanItem)
  BY <1>1
<1>4. (IF start THEN <<ScanItem(y, 1)>> ELSE <<>>) \in Seq(PlanItem)
  BY <1>1
<1>5. QED
  BY <1>2, <1>3, <1>4 DEF Dl5Plan

\* What is written after a plan does not change its first write.
LEMMA ConcatHead ==
    ASSUME NEW p \in Seq(PlanItem), NEW q \in Seq(PlanItem), 1 \in 1 .. Len(p)
    PROVE  /\ p \o q \in Seq(PlanItem)
           /\ 1 \in 1 .. Len(p \o q)
           /\ (p \o q)[1] = p[1]
OBVIOUS

\* The first write of every mode stops the scan.
LEMMA ModePlanStops ==
    ASSUME NEW j \in ModeJob
    PROVE  /\ ModePlan(j) \in Seq(PlanItem)
           /\ 1 \in 1 .. Len(ModePlan(j))
           /\ ModePlan(j)[1] = ScanItem(j.config, 0)
<1> DEFINE c == j.config
           s == ScanItem(c, 0)
           l == Item("laser_mode_en", 0)
           u == Item("ultrafast", 0)
           q == ScanPlan(c)
           Stops(p) == p \in Seq(PlanItem) /\ 1 \in 1 .. Len(p) /\ p[1] = s
<1>1. c \in Config /\ j.kind \in {"normal", "ultrafast", "laser"}
  BY DEF ModeJob
<1>2. s \in PlanItem /\ l \in PlanItem /\ u \in PlanItem /\ q \in Seq(PlanItem)
  BY <1>1, ScanItemType, FlagItemType, PlansType
<1> HIDE DEF s, l, u, q
<1>3. Stops(<<s, l, u>>) /\ Stops(<<s, l>>) /\ Stops(<<s, u>>)
  BY <1>2
<1>4. Stops(<<s, l, u>> \o q) /\ Stops(<<s, l>> \o q) /\ Stops(<<s, u>> \o q)
  BY <1>2, <1>3, ConcatHead
<1>5. CASE j.kind = "normal"
  <2>1. ModePlan(j) = <<s, l, u>> \o q
    BY <1>5 DEF ModePlan, NormalPlan, s, l, u, q
  <2>2. QED
    BY <1>4, <2>1 DEF s
<1>6. CASE j.kind = "ultrafast"
  <2> DEFINE g == Items(UltraRegs, c)
             e == <<Item("ultrafast", 1)>>
             h == <<s, l>> \o q
  <2>1. g \in Seq(PlanItem) /\ e \in Seq(PlanItem)
    BY <1>1, ItemsType, FlagItemType
  <2>2. ModePlan(j) = (h \o g) \o e
    BY <1>6 DEF ModePlan, UltrafastPlan, s, l, q
  <2>3. Stops(h)
    BY <1>4
  <2> HIDE DEF g, e, h
  <2>4. Stops(h \o g)
    BY <2>1, <2>3, ConcatHead
  <2>5. Stops((h \o g) \o e)
    BY <2>1, <2>4, ConcatHead
  <2>6. QED
    BY <2>2, <2>5 DEF s
<1>7. CASE j.kind = "laser"
  <2> DEFINE t == SafeLaserPlan(c, j.on)
             h == <<s, u>> \o q
  <2>1. j.on \in 0 .. 1
    BY <1>7 DEF ModeJob
  <2>2. t \in Seq(PlanItem)
    BY <1>1, <2>1, PlansType
  <2>3. ModePlan(j) = h \o t
    BY <1>7 DEF ModePlan, LaserPlan, s, u, q
  <2>4. Stops(h)
    BY <1>4
  <2> HIDE DEF t, h
  <2>5. Stops(h \o t)
    BY <2>2, <2>4, ConcatHead
  <2>6. QED
    BY <2>3, <2>5 DEF s
<1>8. QED
  BY <1>1, <1>5, <1>6, <1>7

\* So does the one it starts the scan with again.
LEMMA ModePlanType ==
    ASSUME NEW j \in ModeJob
    PROVE  (IF j.start THEN WithStart(ModePlan(j)) ELSE ModePlan(j)) \in Seq(PlanItem)
<1>1. /\ ModePlan(j) \in Seq(PlanItem) /\ 1 \in 1 .. Len(ModePlan(j))
      /\ ModePlan(j)[1].register = "scan_control"
  <2>1. ScanItem(j.config, 0).register = "scan_control"
    BY DEF ScanItem, Item
  <2>2. QED
    BY <2>1, ModePlanStops
<1>2. WithStart(ModePlan(j)) \in Seq(PlanItem)
  BY <1>1, WithStartType
<1>3. QED
  BY <1>1, <1>2
-----------------------------------------------------------------------------
\* An operation begins with a well-typed plan of which nothing is written yet.
LEMMA BeginType ==
    ASSUME TypeOK, NEW j \in Job, NEW p \in Seq(PlanItem), Begin(j, p), spoiled' \in BOOLEAN
    PROVE  TypeOK'
<1>1. /\ job' \in Job \cup {None} /\ plan' \in Seq(PlanItem)
      /\ failed' \in BOOLEAN /\ result' \in [job : Job, outcome : Outcome] \cup {None}
  BY DEF Begin
<1>2. pos' \in 1 .. Len(plan') + 1
  <2>1. pos' = 1 /\ Len(plan') \in Nat
    BY <1>1 DEF Begin
  <2>2. QED
    BY <2>1
<1>3. DOMAIN register' = Register /\ \A r \in Register : register'[r] \in ValueOf(r)
  BY DEF TypeOK, Begin
<1>4. QED
  BY <1>1, <1>2, <1>3 DEF TypeOK

\* The interval read back from 0x0009 is one that was written to it, or Zero.
LEMMA IntervalReadType ==
    ASSUME TypeOK PROVE IntervalRead \subseteq Config \cup {Zero}
<1>1. register["scan_control"] \in ScanControl
  BY DEF TypeOK, Register, ValueOf
<1>2. QED
  BY <1>1 DEF IntervalRead, ScanControl

\* A plan item that is written, or lost, leaves the registers well typed.
LEMMA SetType ==
    ASSUME TypeOK, InProgress, Set(plan[pos]) \/ UNCHANGED register
    PROVE  /\ DOMAIN register' = Register
           /\ \A r \in Register : register'[r] \in ValueOf(r)
<1>1. CASE UNCHANGED register
  BY <1>1 DEF TypeOK, ValueOf, ScanControl
<1>2. CASE Set(plan[pos])
  <2>1. plan[pos] \in PlanItem
    BY DEF TypeOK, InProgress
  <2>2. plan[pos].register \in Register /\ plan[pos].value \in ValueOf(plan[pos].register)
    BY <2>1, ItemFields
  <2>3. QED
    BY <1>2, <2>2 DEF TypeOK, Set
<1>3. QED
  BY <1>1, <1>2

\* Every step keeps the type.
LEMMA TypeStep == TypeOK /\ [Next]_vars => TypeOK'
<1> SUFFICES ASSUME TypeOK, [Next]_vars PROVE TypeOK'
  OBVIOUS
<1>1. CASE ApplyMode
  <2>1. PICK j \in ModeJob :
          Begin(j, IF j.start THEN WithStart(ModePlan(j)) ELSE ModePlan(j))
    BY <1>1 DEF ApplyMode
  <2>2. j \in Job /\ spoiled' \in BOOLEAN
    BY <1>1 DEF Job, ApplyMode, TypeOK
  <2>3. QED
    BY <2>1, <2>2, ModePlanType, BeginType
<1>2. CASE ApplyDl5
  <2>1. PICK j \in Dl5Job, x \in IntervalRead, y \in IntervalRead :
          Begin(j, Dl5Plan(j.config, j.on, j.stop, j.start, x, y))
    BY <1>2 DEF ApplyDl5
  <2>2. /\ j \in Job /\ spoiled' \in BOOLEAN
        /\ j.config \in Config /\ j.on \in 0 .. 1 /\ j.stop \in BOOLEAN /\ j.start \in BOOLEAN
    BY <1>2 DEF Job, Dl5Job, ApplyDl5
  <2>3. x \in Config \cup {Zero} /\ y \in Config \cup {Zero}
    BY IntervalReadType
  <2>4. Dl5Plan(j.config, j.on, j.stop, j.start, x, y) \in Seq(PlanItem)
    BY <2>2, <2>3, Dl5PlanType
  <2>5. QED
    BY <2>1, <2>2, <2>4, BeginType
<1>3. CASE ApplyScan
  <2>1. PICK j \in ScanJob : Begin(j, ScanPlan(j.config))
    BY <1>3 DEF ApplyScan
  <2>2. j \in Job /\ spoiled' \in BOOLEAN /\ j.config \in Config
    BY <1>3 DEF Job, ScanJob, ApplyScan, TypeOK
  <2>3. ScanPlan(j.config) \in Seq(PlanItem)
    BY <2>2, PlansType
  <2>4. QED
    BY <2>1, <2>2, <2>3, BeginType
<1>4. CASE Control
  <2>0. PICK j \in ControlJob :
          \E c \in (IF j.config = None THEN IntervalRead ELSE {j.config}) :
            Begin(j, <<ScanItem(c, j.state)>>)
    BY <1>4 DEF Control
  <2>1. PICK c \in (IF j.config = None THEN IntervalRead ELSE {j.config}) :
          Begin(j, <<ScanItem(c, j.state)>>)
    BY <2>0
  <2>2. /\ j \in Job /\ spoiled' \in BOOLEAN
        /\ j.config \in Config \cup {None} /\ j.state \in 0 .. 1
    BY <1>4 DEF Job, ControlJob, Control, TypeOK
  <2>3. c \in Config \cup {Zero}
    BY <2>2, IntervalReadType
  <2>4. <<ScanItem(c, j.state)>> \in Seq(PlanItem)
    BY <2>2, <2>3, ScanItemType
  <2>5. QED
    BY <2>1, <2>2, <2>4, BeginType
<1>5. CASE ItemVerified
  <2>1. InProgress /\ Set(plan[pos])
    BY <1>5 DEF ItemVerified
  <2>2. QED
    BY <1>5, <2>1, SetType DEF ItemVerified, InProgress, TypeOK
<1>6. CASE ItemMismatch
  <2>1. InProgress /\ (Set(plan[pos]) \/ UNCHANGED register)
    BY <1>6 DEF ItemMismatch
  <2>2. QED
    BY <1>6, <2>1, SetType DEF ItemMismatch, InProgress, TypeOK
<1>7. CASE ItemRaises
  <2>1. InProgress /\ (Set(plan[pos]) \/ UNCHANGED register)
    BY <1>7 DEF ItemRaises
  <2>2. job \in Job
    BY <2>1 DEF InProgress, TypeOK
  <2>3. result' \in [job : Job, outcome : Outcome]
    BY <1>7, <2>2 DEF ItemRaises, Outcome
  <2>4. QED
    BY <1>7, <2>1, <2>3, SetType DEF ItemRaises, TypeOK
<1>8. CASE Finish
  <2>1. job \in Job
    BY <1>8 DEF Finish, TypeOK
  <2>2. result' \in [job : Job, outcome : Outcome]
    BY <1>8, <2>1 DEF Finish, Outcome
  <2>3. spoiled' \in BOOLEAN
    BY <1>8 DEF Finish, TypeOK
  <2>4. QED
    BY <1>8, <2>2, <2>3 DEF Finish, TypeOK
<1>9. CASE UNCHANGED vars
  BY <1>9 DEF vars, TypeOK
<1>10. QED
  BY <1>1, <1>2, <1>3, <1>4, <1>5, <1>6, <1>7, <1>8, <1>9 DEF Next, Step

\* The FPGA comes up with everything off.
LEMMA TypeInit == Init => TypeOK
<1> SUFFICES ASSUME Init PROVE TypeOK
  OBVIOUS
<1>1. ASSUME NEW r \in Register PROVE register[r] \in ValueOf(r)
  <2>1. CASE r = "scan_control"
    <3>1. register[r] = [interval |-> Zero, state |-> 0]
      BY <2>1 DEF Init
    <3>2. [interval |-> Zero, state |-> 0] \in ScanControl
      BY DEF ScanControl
    <3>3. QED
      BY <2>1, <3>1, <3>2 DEF ValueOf
  <2>2. CASE r # "scan_control"
    BY <2>2 DEF Init, ValueOf
  <2>3. QED
    BY <2>1, <2>2
<1>2. DOMAIN register = Register
  BY DEF Init
<1>3. plan \in Seq(PlanItem) /\ pos \in 1 .. Len(plan) + 1
  BY DEF Init
<1>4. /\ job \in Job \cup {None} /\ failed \in BOOLEAN /\ spoiled \in BOOLEAN
      /\ result \in [job : Job, outcome : Outcome] \cup {None}
  BY DEF Init
<1>5. QED
  BY <1>1, <1>2, <1>3, <1>4 DEF TypeOK

\* A verified write puts the next item in force and contradicts no item that
\* is not contradicted by the plan itself.
LEMMA VerifiedKeepsForce ==
    ASSUME TypeOK, ItemVerified, InForce(plan, pos - 1)
    PROVE  InForce(plan, pos - 1)'
<1> DEFINE r == plan[pos].register
           v == plan[pos].value
<1>1. plan' = plan /\ pos' = pos + 1 /\ pos \in 1 .. Len(plan) /\ plan \in Seq(PlanItem)
  BY DEF ItemVerified, InProgress, TypeOK
<1>2. register' = [register EXCEPT ![r] = v] /\ DOMAIN register = Register
  BY DEF ItemVerified, Set, TypeOK
<1>3. ASSUME NEW i \in 1 .. pos PROVE plan[i].register \in Register
  <2>1. plan[i] \in PlanItem
    BY <1>1
  <2>2. QED
    BY <2>1, ItemFields
<1>4. ASSUME NEW i \in 1 .. pos,
             \A k \in i + 1 .. pos : plan[k].register = plan[i].register
                                        => plan[k].value = plan[i].value
      PROVE  register'[plan[i].register] = plan[i].value
  <2>1. pos \in 1 .. pos
    BY <1>1
  <2>2. CASE i = pos
    BY <1>2, <1>3, <2>1, <2>2
  <2>3. CASE i # pos /\ plan[i].register = r
    <3>1. pos \in i + 1 .. pos
      BY <1>1, <2>3
    <3>2. v = plan[i].value
      BY <1>4, <2>3, <3>1
    <3>3. QED
      BY <1>2, <1>3, <2>3, <3>2
  <2>4. CASE i # pos /\ plan[i].register # r
    <3>1. i \in 1 .. pos - 1 /\ i + 1 .. pos - 1 \subseteq i + 1 .. pos
      BY <1>1, <2>4
    <3>2. register[plan[i].register] = plan[i].value
      BY <1>4, <3>1 DEF InForce
    <3>3. QED
      BY <1>2, <1>3, <2>4, <3>2
  <2>5. QED
    BY <2>2, <2>3, <2>4
<1>5. pos' - 1 = pos
  BY <1>1
<1>6. QED
  BY <1>1, <1>4, <1>5 DEF InForce

\* The whole of the plan that was written is in force after every step.
LEMMA ForceStep == TypeOK /\ PlanInForce /\ [Next]_vars => PlanInForce'
<1> SUFFICES ASSUME TypeOK, PlanInForce, [Next]_vars PROVE PlanInForce'
  OBVIOUS
<1>1. ASSUME NEW j, NEW p, Begin(j, p) PROVE PlanInForce'
  BY <1>1 DEF Begin, PlanInForce, InForce
<1>2. CASE ApplyMode
  BY <1>1, <1>2 DEF ApplyMode
<1>3. CASE ApplyDl5
  BY <1>1, <1>3 DEF ApplyDl5
<1>4. CASE ApplyScan
  BY <1>1, <1>4 DEF ApplyScan
<1>5. CASE Control
  BY <1>1, <1>5 DEF Control
<1>6. CASE ItemVerified
  <2>1. SUFFICES ASSUME job # None, ~failed PROVE InForce(plan, pos - 1)'
    BY <1>6 DEF PlanInForce, ItemVerified
  <2>2. QED
    BY <1>6, <2>1, VerifiedKeepsForce DEF PlanInForce
<1>7. CASE ItemMismatch
  BY <1>7 DEF ItemMismatch, PlanInForce
<1>8. CASE ItemRaises
  BY <1>8 DEF ItemRaises, PlanInForce
<1>9. CASE Finish
  BY <1>9 DEF Finish, PlanInForce
<1>10. CASE UNCHANGED vars
  BY <1>10 DEF vars, PlanInForce, InForce
<1>11. QED
  BY <1>2, <1>3, <1>4, <1>5, <1>6, <1>7, <1>8, <1>9, <1>10 DEF Next, Step
-----------------------------------------------------------------------------
\* Whatever is configured, in whatever order and with whatever failures, every
\* register holds a value it can be given and the plan in progress is well formed.
THEOREM ModeApplyTyped == Spec => []TypeOK
<1>1. QED
  BY TypeInit, TypeStep, PTL DEF Spec

\* As long as every write verified, what was written of a plan is in force: each
\* register holds the last value the plan gave it, although a plan writes the
\* same register several times.
THEOREM PlanInForceAlways == Spec => []PlanInForce
<1>1. Init => PlanInForce
  BY DEF Init, PlanInForce
<1>2. QED
  BY <1>1, ModeApplyTyped, ForceStep, PTL DEF Spec

(***************************************************************************)
(* What a plan leaves in a register, from the parts it is put together of. *)
(***************************************************************************)
\* The last write of p to r, if there is one, is v; there is one in Leaves.
Keeps(p, r, v) == \A k \in 1 .. Len(p) : p[k].register = r => p[k].value = v

Leaves(p, r, v) ==
    \E i \in 1 .. Len(p) :
        /\ p[i].register = r
        /\ p[i].value = v
        /\ \A k \in i + 1 .. Len(p) : p[k].register = r => p[k].value = v

Avoids(p, r) == \A k \in 1 .. Len(p) : p[k].register # r

\* A plan that is in force to its end has left what it leaves.
LEMMA ForceGives ==
    ASSUME NEW p, NEW r, NEW v, InForce(p, Len(p)), Leaves(p, r, v) PROVE register[r] = v
BY DEF InForce, Leaves

\* Elements of a concatenation.
LEMMA ConcatParts ==
    ASSUME NEW p \in Seq(PlanItem), NEW q \in Seq(PlanItem)
    PROVE  /\ p \o q \in Seq(PlanItem)
           /\ Len(p \o q) = Len(p) + Len(q)
           /\ \A i \in 1 .. Len(p) : (p \o q)[i] = p[i]
           /\ \A i \in 1 .. Len(q) : (p \o q)[Len(p) + i] = q[i]
           /\ \A k \in 1 .. Len(p \o q) :
                k \in 1 .. Len(p) \/ \E i \in 1 .. Len(q) : k = Len(p) + i
<1>1. /\ p \o q \in Seq(PlanItem) /\ Len(p \o q) = Len(p) + Len(q)
      /\ Len(p) \in Nat /\ Len(q) \in Nat
  OBVIOUS
<1>2. \A i \in 1 .. Len(p) : (p \o q)[i] = p[i]
  OBVIOUS
<1>3. \A i \in 1 .. Len(q) : (p \o q)[Len(p) + i] = q[i]
  OBVIOUS
<1>4. ASSUME NEW k \in 1 .. Len(p) + Len(q), k \notin 1 .. Len(p)
      PROVE  \E i \in 1 .. Len(q) : k = Len(p) + i
  <2>1. k - Len(p) \in 1 .. Len(q) /\ k = Len(p) + (k - Len(p))
    BY <1>1, <1>4
  <2>2. QED
    BY <2>1
<1>5. QED
  BY <1>1, <1>2, <1>3, <1>4

\* What is written after a plan does not change its second write.
LEMMA ConcatSecond ==
    ASSUME NEW p \in Seq(PlanItem), NEW q \in Seq(PlanItem), 2 \in 1 .. Len(p)
    PROVE  /\ p \o q \in Seq(PlanItem)
           /\ 2 \in 1 .. Len(p \o q)
           /\ (p \o q)[2] = p[2]
OBVIOUS

\* The later part decides, unless it keeps what the earlier part leaves.
LEMMA ConcatLeaves ==
    ASSUME NEW p \in Seq(PlanItem), NEW q \in Seq(PlanItem), NEW r, NEW v
    PROVE  /\ Leaves(q, r, v) => Leaves(p \o q, r, v)
           /\ Leaves(p, r, v) /\ Keeps(q, r, v) => Leaves(p \o q, r, v)
           /\ Keeps(p, r, v) /\ Keeps(q, r, v) => Keeps(p \o q, r, v)
           /\ Avoids(p, r) /\ Avoids(q, r) => Avoids(p \o q, r)
<1> DEFINE t == p \o q
<1>1. /\ t \in Seq(PlanItem) /\ Len(t) = Len(p) + Len(q) /\ Len(p) \in Nat /\ Len(q) \in Nat
      /\ \A i \in 1 .. Len(p) : t[i] = p[i]
      /\ \A i \in 1 .. Len(q) : t[Len(p) + i] = q[i]
      /\ \A k \in 1 .. Len(t) : k \in 1 .. Len(p) \/ \E i \in 1 .. Len(q) : k = Len(p) + i
  BY ConcatParts
<1> HIDE DEF t
<1>2. ASSUME Leaves(q, r, v) PROVE Leaves(t, r, v)
  <2>1. PICK i \in 1 .. Len(q) :
          /\ q[i].register = r /\ q[i].value = v
          /\ \A k \in i + 1 .. Len(q) : q[k].register = r => q[k].value = v
    BY <1>2 DEF Leaves
  <2>2. Len(p) + i \in 1 .. Len(t) /\ t[Len(p) + i] = q[i]
    BY <1>1
  <2>3. ASSUME NEW k \in Len(p) + i + 1 .. Len(t), t[k].register = r PROVE t[k].value = v
    <3>1. k \in 1 .. Len(t) /\ k \notin 1 .. Len(p)
      BY <1>1
    <3>2. PICK n \in 1 .. Len(q) : k = Len(p) + n
      BY <1>1, <3>1
    <3>3. n \in i + 1 .. Len(q)
      BY <1>1, <3>2
    <3>4. QED
      BY <1>1, <2>1, <2>3, <3>2, <3>3
  <2>4. QED
    BY <2>1, <2>2, <2>3 DEF Leaves
<1>3. ASSUME Leaves(p, r, v), Keeps(q, r, v) PROVE Leaves(t, r, v)
  <2>1. PICK i \in 1 .. Len(p) :
          /\ p[i].register = r /\ p[i].value = v
          /\ \A k \in i + 1 .. Len(p) : p[k].register = r => p[k].value = v
    BY <1>3 DEF Leaves
  <2>2. i \in 1 .. Len(t) /\ t[i] = p[i]
    BY <1>1
  <2>3. ASSUME NEW k \in i + 1 .. Len(t), t[k].register = r PROVE t[k].value = v
    <3>1. k \in 1 .. Len(t)
      BY <1>1
    <3>2. CASE k \in 1 .. Len(p)
      BY <1>1, <2>1, <2>3, <3>2
    <3>3. CASE \E n \in 1 .. Len(q) : k = Len(p) + n
      BY <1>1, <1>3, <2>3, <3>3 DEF Keeps
    <3>4. QED
      BY <1>1, <3>1, <3>2, <3>3
  <2>4. QED
    BY <2>1, <2>2, <2>3 DEF Leaves
<1>4. Keeps(p, r, v) /\ Keeps(q, r, v) => Keeps(t, r, v)
  BY <1>1 DEF Keeps
<1>5. Avoids(p, r) /\ Avoids(q, r) => Avoids(t, r)
  BY <1>1 DEF Avoids
<1>6. QED
  BY <1>2, <1>3, <1>4, <1>5 DEF t

\* What neither part writes the whole does not write.
LEMMA ConcatAvoids ==
    ASSUME NEW p \in Seq(PlanItem), NEW q \in Seq(PlanItem), NEW r, Avoids(p, r), Avoids(q, r)
    PROVE  Avoids(p \o q, r)
BY ConcatLeaves

\* A part that does not write a register keeps whatever is in it.
LEMMA AvoidsKeeps == ASSUME NEW p, NEW r, NEW v, Avoids(p, r) PROVE Keeps(p, r, v)
BY DEF Avoids, Keeps

\* One write.
LEMMA SingleLeaves ==
    ASSUME NEW x \in PlanItem
    PROVE  /\ <<x>> \in Seq(PlanItem)
           /\ Leaves(<<x>>, x.register, x.value)
           /\ Keeps(<<x>>, x.register, x.value)
           /\ \A r : r # x.register => Avoids(<<x>>, r)
BY DEF Leaves, Keeps, Avoids

\* A group of parameter writes.
LEMMA ItemsLeave ==
    ASSUME NEW c \in Config, NEW regs \in {GeomRegs, UltraRegs, LaserRegs}
    PROVE  /\ Items(regs, c) \in Seq(PlanItem)
           /\ \A r \in {regs[i] : i \in 1 .. Len(regs)} : Leaves(Items(regs, c), r, c)
           /\ \A r : Keeps(Items(regs, c), r, c)
           /\ \A r : r \notin ParameterReg => Avoids(Items(regs, c), r)
<1> DEFINE p == Items(regs, c)
<1>1. Len(p) = Len(regs) /\ Len(regs) \in Nat /\ \A i \in 1 .. Len(regs) : p[i] = Item(regs[i], c)
  <2>1. regs \in Seq(STRING)
    BY PlanAssumption
  <2>2. QED
    BY <2>1, ItemsType DEF Items
<1>2. \A i \in 1 .. Len(regs) : /\ p[i].register = regs[i] /\ p[i].value = c
                                /\ regs[i] \in ParameterReg
  <2>1. {regs[i] : i \in 1 .. Len(regs)} \subseteq ParameterReg
    BY DEF ParameterReg, GeomReg, UltraReg, LaserReg
  <2>2. ASSUME NEW i \in 1 .. Len(regs) PROVE regs[i] \in ParameterReg
    BY <2>1
  <2>3. ASSUME NEW i \in 1 .. Len(regs) PROVE p[i].register = regs[i] /\ p[i].value = c
    <3>1. p[i] = Item(regs[i], c)
      BY <1>1
    <3>2. QED
      BY ONLY <3>1 DEF Item
  <2>4. QED
    BY <2>2, <2>3
<1> HIDE DEF p
<1>3. \A r \in {regs[i] : i \in 1 .. Len(regs)} : Leaves(p, r, c)
  BY <1>1, <1>2 DEF Leaves
<1>4. QED
  BY <1>1, <1>2, <1>3, ItemsType DEF Keeps, Avoids, p

\* ScanConfig.to_registers leaves the geometry of c and the scan stopped.
LEMMA ScanPlanLeaves ==
    ASSUME NEW c \in Config
    PROVE  /\ ScanPlan(c) \in Seq(PlanItem)
           /\ \A r \in GeomReg : Leaves(ScanPlan(c), r, c)
           /\ \A r \in ParameterReg : Keeps(ScanPlan(c), r, c)
           /\ Leaves(ScanPlan(c), "scan_control", [interval |-> c, state |-> 0])
           /\ Keeps(ScanPlan(c), "scan_control", [interval |-> c, state |-> 0])
           /\ \A r \in FlagRegs : Avoids(ScanPlan(c), r)
<1> DEFINE g == Items(GeomRegs, c)
           s == ScanItem(c, 0)
           S == [interval |-> c, state |-> 0]
<1>1. /\ g \in Seq(PlanItem) /\ s \in PlanItem
      /\ \A r \in GeomReg : Leaves(g, r, c)
      /\ \A r : Keeps(g, r, c)
      /\ \A r : r \notin ParameterReg => Avoids(g, r)
  BY ItemsLeave, ScanItemType DEF GeomReg
<1>2. s.register = "scan_control" /\ s.value = S
  BY DEF ScanItem, Item
<1>3. /\ <<s>> \in Seq(PlanItem)
      /\ Leaves(<<s>>, "scan_control", S) /\ Keeps(<<s>>, "scan_control", S)
      /\ \A r : r # "scan_control" => Avoids(<<s>>, r)
  BY <1>1, <1>2, SingleLeaves
<1>4. /\ \A r \in ParameterReg : r # "scan_control" /\ r \notin FlagRegs
      /\ "scan_control" \notin FlagRegs
  BY PlanAssumption DEF FlagRegs
<1>5. GeomReg \subseteq ParameterReg
  BY DEF ParameterReg
<1>6. ScanPlan(c) = g \o <<s>>
  BY DEF ScanPlan
<1> HIDE DEF g, s, S
<1>7. g \o <<s>> \in Seq(PlanItem)
  BY <1>1, <1>3, ConcatParts
<1>8. ASSUME NEW r \in ParameterReg
      PROVE  Keeps(g \o <<s>>, r, c) /\ (r \in GeomReg => Leaves(g \o <<s>>, r, c))
  BY <1>1, <1>3, <1>4, AvoidsKeeps, ConcatLeaves
<1>9. Avoids(g, "scan_control")
  BY <1>1, PlanAssumption
<1>10. Leaves(g \o <<s>>, "scan_control", S) /\ Keeps(g \o <<s>>, "scan_control", S)
  BY <1>1, <1>3, <1>9, AvoidsKeeps, ConcatLeaves
<1>11. ASSUME NEW r \in FlagRegs PROVE Avoids(g \o <<s>>, r)
  BY <1>1, <1>3, <1>4, ConcatAvoids
<1>12. QED
  BY <1>5, <1>6, <1>7, <1>8, <1>10, <1>11 DEF S

\* Dl5Config.to_safe_apply_registers leaves the laser timing of c and the flag.
LEMMA SafeLaserPlanLeaves ==
    ASSUME NEW c \in Config, NEW on \in 0 .. 1
    PROVE  /\ SafeLaserPlan(c, on) \in Seq(PlanItem)
           /\ \A r \in LaserReg : Leaves(SafeLaserPlan(c, on), r, c)
           /\ \A r \in ParameterReg : Keeps(SafeLaserPlan(c, on), r, c)
           /\ Leaves(SafeLaserPlan(c, on), "laser_mode_en", on)
           /\ Avoids(SafeLaserPlan(c, on), "scan_control")
           /\ Avoids(SafeLaserPlan(c, on), "ultrafast")
<1> DEFINE g == Items(LaserRegs, c)
           z == Item("laser_mode_en", 0)
           e == Item("laser_mode_en", on)
           h == <<z>> \o g
<1>1. /\ g \in Seq(PlanItem) /\ z \in PlanItem /\ e \in PlanItem
      /\ \A r \in LaserReg : Leaves(g, r, c)
      /\ \A r : Keeps(g, r, c)
      /\ \A r : r \notin ParameterReg => Avoids(g, r)
  BY ItemsLeave, FlagItemType DEF LaserReg
<1>2. z.register = "laser_mode_en" /\ e.register = "laser_mode_en" /\ e.value = on
  BY DEF Item
<1>3. /\ <<z>> \in Seq(PlanItem) /\ <<e>> \in Seq(PlanItem)
      /\ Leaves(<<e>>, "laser_mode_en", on)
      /\ \A r : r # "laser_mode_en" => Avoids(<<z>>, r) /\ Avoids(<<e>>, r)
  BY <1>1, <1>2, SingleLeaves
<1>4. /\ \A r \in ParameterReg : r # "laser_mode_en"
      /\ "scan_control" \notin ParameterReg /\ "ultrafast" \notin ParameterReg
  BY PlanAssumption DEF FlagRegs
<1>5. LaserReg \subseteq ParameterReg
  BY DEF ParameterReg
<1>6. SafeLaserPlan(c, on) = h \o <<e>>
  BY DEF SafeLaserPlan
<1> HIDE DEF g, z, e
<1>7. h \in Seq(PlanItem)
  BY <1>1, <1>3, ConcatParts
<1>8. ASSUME NEW r \in ParameterReg PROVE Keeps(h, r, c) /\ (r \in LaserReg => Leaves(h, r, c))
  BY <1>1, <1>3, <1>4, AvoidsKeeps, ConcatLeaves
<1>9. Avoids(h, "scan_control") /\ Avoids(h, "ultrafast")
  <2>1. ASSUME NEW r \in {"scan_control", "ultrafast"} PROVE Avoids(h, r)
    <3>1. r # "laser_mode_en" /\ r \notin ParameterReg
      BY <1>4
    <3>2. Avoids(<<z>>, r) /\ Avoids(g, r)
      BY <1>1, <1>3, <3>1
    <3>3. QED
      BY <1>1, <1>3, <3>2, ConcatAvoids
  <2>2. QED
    BY <2>1
<1> HIDE DEF h
<1>10. h \o <<e>> \in Seq(PlanItem) /\ Leaves(h \o <<e>>, "laser_mode_en", on)
  BY <1>3, <1>7, ConcatParts, ConcatLeaves
<1>11. ASSUME NEW r \in ParameterReg
       PROVE  Keeps(h \o <<e>>, r, c) /\ (r \in LaserReg => Leaves(h \o <<e>>, r, c))
  BY <1>3, <1>4, <1>7, <1>8, AvoidsKeeps, ConcatLeaves
<1>12. Avoids(h \o <<e>>, "scan_control") /\ Avoids(h \o <<e>>, "ultrafast")
  <2>1. ASSUME NEW r \in {"scan_control", "ultrafast"} PROVE Avoids(h \o <<e>>, r)
    <3>1. Avoids(<<e>>, r)
      BY <1>3
    <3>2. QED
      BY <1>3, <1>7, <1>9, <3>1, ConcatAvoids
  <2>2. QED
    BY <2>1
<1>13. QED
  BY <1>5, <1>6, <1>10, <1>11, <1>12

\* The two or three writes a mode begins with.
LEMMA HeadLeaves ==
    ASSUME NEW c \in Config, NEW x \in {"laser_mode_en", "ultrafast"}
    PROVE  LET h == <<ScanItem(c, 0), Item(x, 0)>>
           IN  /\ h \in Seq(PlanItem) /\ 2 \in 1 .. Len(h) /\ h[2] = Item(x, 0)
               /\ Leaves(h, x, 0) /\ Keeps(h, x, 0)
               /\ Keeps(h, "scan_control", [interval |-> c, state |-> 0])
               /\ \A r : r # x /\ r # "scan_control" => Avoids(h, r)
<1> DEFINE s == ScanItem(c, 0)
           z == Item(x, 0)
           h == <<s, z>>
<1>1. s \in PlanItem /\ z \in PlanItem
  BY ScanItemType, FlagItemType
<1>2. /\ s.register = "scan_control" /\ s.value = [interval |-> c, state |-> 0]
      /\ z.register = x /\ z.value = 0 /\ x # "scan_control"
  BY DEF ScanItem, Item
<1> HIDE DEF s, z
<1>3. h \in Seq(PlanItem) /\ Len(h) = 2 /\ h[1] = s /\ h[2] = z
  BY <1>1
<1> HIDE DEF h
<1>4. Leaves(h, x, 0) /\ Keeps(h, x, 0)
  BY <1>2, <1>3 DEF Leaves, Keeps
<1>5. Keeps(h, "scan_control", [interval |-> c, state |-> 0])
  BY <1>2, <1>3 DEF Keeps
<1>6. \A r : r # x /\ r # "scan_control" => Avoids(h, r)
  BY <1>2, <1>3 DEF Avoids
<1>7. QED
  BY <1>3, <1>4, <1>5, <1>6 DEF h, s, z

\* What such a beginning and the scan parameters leave together.
LEMMA SwitchLeaves ==
    ASSUME NEW c \in Config, NEW x \in {"laser_mode_en", "ultrafast"}
    PROVE  LET p == <<ScanItem(c, 0), Item(x, 0)>> \o ScanPlan(c)
               S == [interval |-> c, state |-> 0]
           IN  /\ p \in Seq(PlanItem) /\ 2 \in 1 .. Len(p) /\ p[2] = Item(x, 0)
               /\ \A r \in GeomReg : Leaves(p, r, c)
               /\ \A r \in ParameterReg : Keeps(p, r, c)
               /\ Leaves(p, "scan_control", S) /\ Keeps(p, "scan_control", S)
               /\ Leaves(p, x, 0) /\ Keeps(p, x, 0)
               /\ \A r \in FlagRegs : r # x => Avoids(p, r)
<1> DEFINE h == <<ScanItem(c, 0), Item(x, 0)>>
           q == ScanPlan(c)
           S == [interval |-> c, state |-> 0]
<1>1. /\ h \in Seq(PlanItem) /\ 2 \in 1 .. Len(h) /\ h[2] = Item(x, 0)
      /\ Leaves(h, x, 0) /\ Keeps(h, x, 0) /\ Keeps(h, "scan_control", S)
      /\ \A r : r # x /\ r # "scan_control" => Avoids(h, r)
  BY HeadLeaves
<1>2. /\ q \in Seq(PlanItem)
      /\ \A r \in GeomReg : Leaves(q, r, c)
      /\ \A r \in ParameterReg : Keeps(q, r, c)
      /\ Leaves(q, "scan_control", S) /\ Keeps(q, "scan_control", S)
      /\ \A r \in FlagRegs : Avoids(q, r)
  BY ScanPlanLeaves
<1>3. /\ \A r \in ParameterReg : r # "scan_control" /\ r \notin FlagRegs
      /\ x \in FlagRegs /\ "scan_control" \notin FlagRegs
  BY PlanAssumption DEF FlagRegs
<1> HIDE DEF h, q, S
<1>4. h \o q \in Seq(PlanItem) /\ 2 \in 1 .. Len(h \o q) /\ (h \o q)[2] = Item(x, 0)
  BY <1>1, <1>2, ConcatSecond
<1>5. ASSUME NEW r \in GeomReg PROVE Leaves(h \o q, r, c)
  BY <1>1, <1>2, ConcatLeaves
<1>6. ASSUME NEW r \in ParameterReg PROVE Keeps(h \o q, r, c)
  <2>1. Keeps(h, r, c)
    BY <1>1, <1>3, AvoidsKeeps
  <2>2. QED
    BY <1>1, <1>2, <2>1, ConcatLeaves
<1>7. Leaves(h \o q, "scan_control", S) /\ Keeps(h \o q, "scan_control", S)
  BY <1>1, <1>2, ConcatLeaves
<1>8. Leaves(h \o q, x, 0) /\ Keeps(h \o q, x, 0)
  <2>1. Keeps(q, x, 0)
    BY <1>2, <1>3, AvoidsKeeps
  <2>2. QED
    BY <1>1, <1>2, <2>1, ConcatLeaves
<1>9. ASSUME NEW r \in FlagRegs, r # x PROVE Avoids(h \o q, r)
  <2>1. Avoids(h, r) /\ Avoids(q, r)
    BY <1>1, <1>2, <1>3, <1>9
  <2>2. QED
    BY <1>1, <1>2, <2>1, ConcatAvoids
<1>10. QED
  BY <1>4, <1>5, <1>6, <1>7, <1>8, <1>9 DEF h, q, S

\* NormalMode.to_plan.
LEMMA NormalPlanLeaves ==
    ASSUME NEW c \in Config
    PROVE  LET p == NormalPlan(c)
               S == [interval |-> c, state |-> 0]
           IN  /\ p \in Seq(PlanItem)
               /\ 2 \in 1 .. Len(p) /\ p[2] = Item("laser_mode_en", 0)
               /\ \A r \in GeomReg : Leaves(p, r, c)
               /\ Leaves(p, "scan_control", S) /\ Keeps(p, "scan_control", S)
               /\ \A x \in FlagRegs : Leaves(p, x, 0) /\ Keeps(p, x, 0)
<1> DEFINE s == ScanItem(c, 0)
           l == Item("laser_mode_en", 0)
           u == Item("ultrafast", 0)
           h == <<s, l, u>>
           q == ScanPlan(c)
           S == [interval |-> c, state |-> 0]
<1>1. s \in PlanItem /\ l \in PlanItem /\ u \in PlanItem
  BY ScanItemType, FlagItemType
<1>2. /\ s.register = "scan_control" /\ s.value = S
      /\ l.register = "laser_mode_en" /\ l.value = 0
      /\ u.register = "ultrafast" /\ u.value = 0
  BY DEF ScanItem, Item
<1>3. /\ q \in Seq(PlanItem)
      /\ \A r \in GeomReg : Leaves(q, r, c)
      /\ Leaves(q, "scan_control", S) /\ Keeps(q, "scan_control", S)
      /\ \A r \in FlagRegs : Avoids(q, r)
  BY ScanPlanLeaves
<1>4. NormalPlan(c) = h \o q
  BY DEF NormalPlan
<1> HIDE DEF s, l, u, q, S
<1>5. h \in Seq(PlanItem) /\ Len(h) = 3 /\ h[1] = s /\ h[2] = l /\ h[3] = u
  BY <1>1
<1> HIDE DEF h
<1>6. /\ Leaves(h, "laser_mode_en", 0) /\ Keeps(h, "laser_mode_en", 0)
      /\ Leaves(h, "ultrafast", 0) /\ Keeps(h, "ultrafast", 0)
      /\ Keeps(h, "scan_control", S)
  BY <1>2, <1>5 DEF Leaves, Keeps
<1>7. h \o q \in Seq(PlanItem) /\ 2 \in 1 .. Len(h \o q) /\ (h \o q)[2] = l
  <2>1. 2 \in 1 .. Len(h)
    BY <1>5
  <2>2. QED
    BY <1>3, <1>5, <2>1, ConcatSecond
<1>8. ASSUME NEW r \in GeomReg PROVE Leaves(h \o q, r, c)
  BY <1>3, <1>5, ConcatLeaves
<1>9. Leaves(h \o q, "scan_control", S) /\ Keeps(h \o q, "scan_control", S)
  BY <1>3, <1>5, <1>6, ConcatLeaves
<1>10. ASSUME NEW x \in FlagRegs PROVE Leaves(h \o q, x, 0) /\ Keeps(h \o q, x, 0)
  <2>1. Keeps(q, x, 0)
    BY <1>3, AvoidsKeeps
  <2>2. Leaves(h, x, 0) /\ Keeps(h, x, 0)
    BY <1>6 DEF FlagRegs
  <2>3. QED
    BY <1>3, <1>5, <2>1, <2>2, ConcatLeaves
<1>11. QED
  BY <1>4, <1>7, <1>8, <1>9, <1>10 DEF S, l

\* UltrafastMode.to_plan: laser mode is switched off by the second write and
\* never on again.
LEMMA UltrafastPlanLeaves ==
    ASSUME NEW c \in Config
    PROVE  LET p == UltrafastPlan(c)
               S == [interval |-> c, state |-> 0]
           IN  /\ p \in Seq(PlanItem)
               /\ 2 \in 1 .. Len(p) /\ p[2] = Item("laser_mode_en", 0)
               /\ \A r \in GeomReg : Leaves(p, r, c)
               /\ \A r \in UltraReg : Leaves(p, r, c)
               /\ Leaves(p, "scan_control", S) /\ Keeps(p, "scan_control", S)
               /\ Leaves(p, "laser_mode_en", 0) /\ Keeps(p, "laser_mode_en", 0)
               /\ Leaves(p, "ultrafast", 1)
<1> DEFINE h == <<ScanItem(c, 0), Item("laser_mode_en", 0)>> \o ScanPlan(c)
           g == Items(UltraRegs, c)
           e == Item("ultrafast", 1)
           k == h \o g
           S == [interval |-> c, state |-> 0]
           L == Item("laser_mode_en", 0)
<1>1. /\ h \in Seq(PlanItem) /\ 2 \in 1 .. Len(h) /\ h[2] = L
      /\ \A r \in GeomReg : Leaves(h, r, c)
      /\ Leaves(h, "scan_control", S) /\ Keeps(h, "scan_control", S)
      /\ Leaves(h, "laser_mode_en", 0) /\ Keeps(h, "laser_mode_en", 0)
  BY SwitchLeaves
<1>2. /\ g \in Seq(PlanItem)
      /\ \A r \in UltraReg : Leaves(g, r, c)
      /\ \A r : Keeps(g, r, c)
      /\ \A r : r \notin ParameterReg => Avoids(g, r)
  BY ItemsLeave DEF UltraReg
<1>3. /\ e \in PlanItem /\ e.register = "ultrafast" /\ e.value = 1
  BY FlagItemType DEF Item
<1>4. /\ GeomReg \cup UltraReg \subseteq ParameterReg
      /\ \A r \in ParameterReg : r # "ultrafast"
      /\ "scan_control" \notin ParameterReg /\ "laser_mode_en" \notin ParameterReg
  BY PlanAssumption DEF FlagRegs, ParameterReg
<1>5. UltrafastPlan(c) = k \o <<e>>
  BY DEF UltrafastPlan
<1> HIDE DEF h, g, e, S, L
<1>6. /\ <<e>> \in Seq(PlanItem) /\ Leaves(<<e>>, "ultrafast", 1)
      /\ \A r : r # "ultrafast" => Avoids(<<e>>, r)
  BY <1>3, SingleLeaves
<1>7. k \in Seq(PlanItem) /\ 2 \in 1 .. Len(k) /\ k[2] = L
  BY <1>1, <1>2, ConcatSecond
<1>8. ASSUME NEW r \in GeomReg \cup UltraReg PROVE Leaves(k, r, c)
  BY <1>1, <1>2, ConcatLeaves
<1>9. /\ Leaves(k, "scan_control", S) /\ Keeps(k, "scan_control", S)
      /\ Leaves(k, "laser_mode_en", 0) /\ Keeps(k, "laser_mode_en", 0)
  <2>1. Avoids(g, "scan_control") /\ Avoids(g, "laser_mode_en")
    BY <1>2, <1>4
  <2>2. Keeps(g, "scan_control", S) /\ Keeps(g, "laser_mode_en", 0)
    BY <2>1, AvoidsKeeps
  <2>3. QED
    BY <1>1, <1>2, <2>2, ConcatLeaves
<1> HIDE DEF k
<1>10. k \o <<e>> \in Seq(PlanItem) /\ 2 \in 1 .. Len(k \o <<e>>) /\ (k \o <<e>>)[2] = L
  BY <1>6, <1>7, ConcatSecond
<1>11. ASSUME NEW r \in GeomReg \cup UltraReg PROVE Leaves(k \o <<e>>, r, c)
  <2>1. Keeps(<<e>>, r, c)
    BY <1>4, <1>6, AvoidsKeeps
  <2>2. QED
    BY <1>6, <1>7, <1>8, <2>1, ConcatLeaves
<1>12. /\ Leaves(k \o <<e>>, "scan_control", S) /\ Keeps(k \o <<e>>, "scan_control", S)
       /\ Leaves(k \o <<e>>, "laser_mode_en", 0) /\ Keeps(k \o <<e>>, "laser_mode_en", 0)
  <2>1. Avoids(<<e>>, "scan_control") /\ Avoids(<<e>>, "laser_mode_en")
    BY <1>6
  <2>2. Keeps(<<e>>, "scan_control", S) /\ Keeps(<<e>>, "laser_mode_en", 0)
    BY <2>1, AvoidsKeeps
  <2>3. QED
    BY <1>6, <1>7, <1>9, <2>2, ConcatLeaves
<1>13. Leaves(k \o <<e>>, "ultrafast", 1)
  BY <1>6, <1>7, ConcatLeaves
<1>14. QED
  BY <1>5, <1>10, <1>11, <1>12, <1>13 DEF S, L

\* LaserMode.to_plan: ultrafast is switched off by the second write and never
\* on again.
LEMMA LaserPlanLeaves ==
    ASSUME NEW c \in Config, NEW on \in 0 .. 1
    PROVE  LET p == LaserPlan(c, on)
               S == [interval |-> c, state |-> 0]
           IN  /\ p \in Seq(PlanItem)
               /\ 2 \in 1 .. Len(p) /\ p[2] = Item("ultrafast", 0)
               /\ \A r \in GeomReg \cup LaserReg : Leaves(p, r, c)
               /\ Leaves(p, "scan_control", S) /\ Keeps(p, "scan_control", S)
               /\ Leaves(p, "ultrafast", 0) /\ Keeps(p, "ultrafast", 0)
               /\ Leaves(p, "laser_mode_en", on)
<1> DEFINE h == <<ScanItem(c, 0), Item("ultrafast", 0)>> \o ScanPlan(c)
           t == SafeLaserPlan(c, on)
           S == [interval |-> c, state |-> 0]
           U == Item("ultrafast", 0)
<1>1. /\ h \in Seq(PlanItem) /\ 2 \in 1 .. Len(h) /\ h[2] = U
      /\ \A r \in GeomReg : Leaves(h, r, c)
      /\ Leaves(h, "scan_control", S) /\ Keeps(h, "scan_control", S)
      /\ Leaves(h, "ultrafast", 0) /\ Keeps(h, "ultrafast", 0)
  BY SwitchLeaves
<1>2. /\ t \in Seq(PlanItem)
      /\ \A r \in LaserReg : Leaves(t, r, c)
      /\ \A r \in ParameterReg : Keeps(t, r, c)
      /\ Leaves(t, "laser_mode_en", on)
      /\ Avoids(t, "scan_control") /\ Avoids(t, "ultrafast")
  BY SafeLaserPlanLeaves
<1>3. GeomReg \cup LaserReg \subseteq ParameterReg
  BY DEF ParameterReg
<1>4. LaserPlan(c, on) = h \o t
  BY DEF LaserPlan
<1> HIDE DEF h, t, S, U
<1>5. h \o t \in Seq(PlanItem) /\ 2 \in 1 .. Len(h \o t) /\ (h \o t)[2] = U
  BY <1>1, <1>2, ConcatSecond
<1>6. ASSUME NEW r \in GeomReg \cup LaserReg PROVE Leaves(h \o t, r, c)
  BY <1>1, <1>2, <1>3, ConcatLeaves
<1>7. Keeps(t, "scan_control", S) /\ Keeps(t, "ultrafast", 0)
  BY <1>2, AvoidsKeeps
<1>8. /\ Leaves(h \o t, "scan_control", S) /\ Keeps(h \o t, "scan_control", S)
      /\ Leaves(h \o t, "ultrafast", 0) /\ Keeps(h \o t, "ultrafast", 0)
      /\ Leaves(h \o t, "laser_mode_en", on)
  BY <1>1, <1>2, <1>7, ConcatLeaves
<1>9. QED
  BY <1>4, <1>5, <1>6, <1>8 DEF S, U

\* A plan that never enables x, has x switched off by its second write and does
\* nothing to the other flag before; or one that leaves both flags alone.
SwitchesOff(p, x) ==
    /\ Keeps(p, x, 0)
    /\ 2 \in 1 .. Len(p)
    /\ p[2] = Item(x, 0)
    /\ p[1].register \notin FlagRegs

Separated(p) ==
    \/ \A x \in FlagRegs : Avoids(p, x)
    \/ \E x \in FlagRegs : SwitchesOff(p, x)

\* What the plan of a mode leaves, the scan in state s.
Settles(p, j, s) ==
    /\ p \in Seq(PlanItem)
    /\ \A r \in GeomReg : Leaves(p, r, j.config)
    /\ Leaves(p, "scan_control", [interval |-> j.config, state |-> s])
    /\ j.kind = "normal" => Leaves(p, "laser_mode_en", 0) /\ Leaves(p, "ultrafast", 0)
    /\ j.kind = "ultrafast" => /\ Leaves(p, "laser_mode_en", 0) /\ Leaves(p, "ultrafast", 1)
                               /\ \A r \in UltraReg : Leaves(p, r, j.config)
    /\ j.kind = "laser" => /\ Leaves(p, "laser_mode_en", j.on) /\ Leaves(p, "ultrafast", 0)
                           /\ \A r \in LaserReg : Leaves(p, r, j.config)
    /\ Separated(p)

\* The plan of every mode leaves the mode, and the scan stopped.
LEMMA ModePlanSettles ==
    ASSUME NEW j \in ModeJob
    PROVE  /\ Settles(ModePlan(j), j, 0)
           /\ Keeps(ModePlan(j), "scan_control", [interval |-> j.config, state |-> 0])
<1> DEFINE p == ModePlan(j)
           c == j.config
<1>1. c \in Config /\ j.kind \in {"normal", "ultrafast", "laser"}
  BY DEF ModeJob
<1>2. p[1].register \notin FlagRegs
  <2>1. ScanItem(c, 0).register = "scan_control"
    BY DEF ScanItem, Item
  <2>2. QED
    BY <2>1, ModePlanStops DEF FlagRegs
<1>3. CASE j.kind = "normal"
  <2>1. p = NormalPlan(c)
    BY <1>3 DEF ModePlan
  <2> HIDE DEF p
  <2>2. SwitchesOff(p, "laser_mode_en")
    BY <1>1, <1>2, <2>1, NormalPlanLeaves DEF SwitchesOff, FlagRegs
  <2>3. Separated(p)
    BY <2>2 DEF Separated, FlagRegs
  <2>4. Settles(p, j, 0)
    BY <1>1, <1>3, <2>1, <2>3, NormalPlanLeaves DEF Settles, FlagRegs
  <2>5. QED
    BY <1>1, <2>1, <2>4, NormalPlanLeaves DEF p
<1>4. CASE j.kind = "ultrafast"
  <2>1. p = UltrafastPlan(c)
    BY <1>4 DEF ModePlan
  <2> HIDE DEF p
  <2>2. SwitchesOff(p, "laser_mode_en")
    BY <1>1, <1>2, <2>1, UltrafastPlanLeaves DEF SwitchesOff
  <2>3. Separated(p)
    BY <2>2 DEF Separated, FlagRegs
  <2>4. Settles(p, j, 0)
    BY <1>1, <1>4, <2>1, <2>3, UltrafastPlanLeaves DEF Settles
  <2>5. QED
    BY <1>1, <2>1, <2>4, UltrafastPlanLeaves DEF p
<1>5. CASE j.kind = "laser"
  <2>1. p = LaserPlan(c, j.on) /\ j.on \in 0 .. 1
    BY <1>5 DEF ModePlan, ModeJob
  <2> HIDE DEF p
  <2>2. SwitchesOff(p, "ultrafast")
    BY <1>1, <1>2, <2>1, LaserPlanLeaves DEF SwitchesOff
  <2>3. Separated(p)
    BY <2>2 DEF Separated, FlagRegs
  <2>4. Settles(p, j, 0)
    BY <1>1, <1>5, <2>1, <2>3, LaserPlanLeaves DEF Settles
  <2>5. QED
    BY <1>1, <2>1, <2>4, LaserPlanLeaves DEF p
<1>6. QED
  BY <1>1, <1>3, <1>4, <1>5

\* Starting the scan afterwards changes nothing else.
LEMMA WithStartSettles ==
    ASSUME NEW j \in ModeJob PROVE Settles(WithStart(ModePlan(j)), j, 1)
<1> DEFINE p == ModePlan(j)
           S == [interval |-> j.config, state |-> 0]
           T == [interval |-> j.config, state |-> 1]
           e == Item("scan_control", T)
           t == p \o <<e>>
<1>1. /\ Settles(p, j, 0) /\ Keeps(p, "scan_control", S)
      /\ p \in Seq(PlanItem) /\ 1 \in 1 .. Len(p) /\ p[1] = ScanItem(j.config, 0)
  BY ModePlanSettles, ModePlanStops
<1>2. j.config \in Config
  BY DEF ModeJob
<1>3. e = ScanItem(j.config, 1) /\ e \in PlanItem /\ e.register = "scan_control" /\ e.value = T
  <2>1. e = ScanItem(j.config, 1)
    BY DEF ScanItem
  <2>2. e \in PlanItem
    BY <1>2, <2>1, ScanItemType
  <2>3. e.register = "scan_control" /\ e.value = T
    BY DEF Item
  <2>4. QED
    BY <2>1, <2>2, <2>3
<1>4. p[1].register = "scan_control"
  BY <1>1 DEF ScanItem, Item
<1>5. WithStart(p) = t
  <2>1. LastScanControl(p) = S
    BY <1>1, <1>4, LastScanControlIsOne DEF Keeps
  <2>2. [S EXCEPT !.state = 1] = T
    OBVIOUS
  <2>3. Append(p, e) = p \o <<e>>
    BY <1>1, <1>3, AppendIsConcat
  <2>4. QED
    BY <2>1, <2>2, <2>3 DEF WithStart
<1>6. /\ <<e>> \in Seq(PlanItem) /\ Leaves(<<e>>, "scan_control", T)
      /\ \A r : r # "scan_control" => Avoids(<<e>>, r)
  BY <1>3, SingleLeaves
<1> HIDE DEF p, e, S, T
<1>7. t \in Seq(PlanItem) /\ Leaves(t, "scan_control", T)
  BY <1>1, <1>6, ConcatParts, ConcatLeaves
<1>8. ASSUME NEW r, NEW v, r # "scan_control", Leaves(p, r, v) PROVE Leaves(t, r, v)
  <2>1. Keeps(<<e>>, r, v)
    BY <1>6, <1>8, AvoidsKeeps
  <2>2. QED
    BY <1>1, <1>6, <1>8, <2>1, ConcatLeaves
<1>9. Separated(t)
  <2>1. ASSUME NEW x \in FlagRegs, Avoids(p, x) PROVE Avoids(t, x)
    BY <1>1, <1>6, <2>1, ConcatAvoids DEF FlagRegs
  <2>2. ASSUME NEW x \in FlagRegs, SwitchesOff(p, x) PROVE SwitchesOff(t, x)
    <3>1. x # "scan_control"
      BY DEF FlagRegs
    <3>2. Keeps(<<e>>, x, 0)
      BY <1>6, <3>1, AvoidsKeeps
    <3>3. Keeps(t, x, 0)
      BY <1>1, <1>6, <2>2, <3>2, ConcatLeaves DEF SwitchesOff
    <3>4. 2 \in 1 .. Len(t) /\ t[2] = p[2] /\ t[1] = p[1]
      BY <1>1, <1>6, <2>2, ConcatSecond, ConcatHead DEF SwitchesOff
    <3>5. QED
      BY <2>2, <3>3, <3>4 DEF SwitchesOff
  <2>3. QED
    BY <1>1, <2>1, <2>2 DEF Settles, Separated
<1>10. \A r \in ParameterReg \cup FlagRegs : r # "scan_control"
  BY PlanAssumption DEF FlagRegs
<1> HIDE DEF t
<1>11. Settles(t, j, 1)
  BY <1>1, <1>7, <1>8, <1>9, <1>10
     DEF Settles, T, ParameterReg, FlagRegs
<1>12. QED
  BY <1>5, <1>11 DEF p

\* The plan in progress is the one its operation makes.
IsPlanOf(p, j) ==
    /\ j \in ModeJob => p = IF j.start THEN WithStart(ModePlan(j)) ELSE ModePlan(j)
    /\ j \in Dl5Job => \E x \in Config \cup {Zero}, y \in Config \cup {Zero} :
                            p = Dl5Plan(j.config, j.on, j.stop, j.start, x, y)
    /\ j \in ScanJob => p = ScanPlan(j.config)
    /\ j \in ControlJob => \E c \in Config \cup {Zero} : p = <<ScanItem(c, j.state)>>

PlanOfJob == job # None => IsPlanOf(plan, job)

\* The four kinds of operation are told apart by their kind.
LEMMA Kinds ==
    /\ \A j \in ModeJob : j.kind \in {"normal", "ultrafast", "laser"}
    /\ \A j \in Dl5Job : j.kind = "dl5"
    /\ \A j \in ScanJob : j.kind = "scan"
    /\ \A j \in ControlJob : j.kind = "control"
BY DEF ModeJob, Dl5Job, ScanJob, ControlJob

\* Every operation begins with its plan, and nothing replaces it.
LEMMA PlanOfJobStep == TypeOK /\ PlanOfJob /\ [Next]_vars => PlanOfJob'
<1> SUFFICES ASSUME TypeOK, PlanOfJob, [Next]_vars PROVE PlanOfJob'
  OBVIOUS
<1>1. ASSUME NEW j, NEW p, Begin(j, p), IsPlanOf(p, j) PROVE PlanOfJob'
  <2>1. job' = j /\ plan' = p
    BY <1>1 DEF Begin
  <2>2. QED
    BY <1>1, <2>1 DEF PlanOfJob, IsPlanOf
<1>2. CASE ApplyMode
  <2>1. PICK j \in ModeJob :
          Begin(j, IF j.start THEN WithStart(ModePlan(j)) ELSE ModePlan(j))
    BY <1>2 DEF ApplyMode
  <2>2. IsPlanOf(IF j.start THEN WithStart(ModePlan(j)) ELSE ModePlan(j), j)
    BY Kinds DEF IsPlanOf
  <2>3. QED
    BY <1>1, <2>1, <2>2
<1>3. CASE ApplyDl5
  <2>1. PICK j \in Dl5Job, x \in IntervalRead, y \in IntervalRead :
          Begin(j, Dl5Plan(j.config, j.on, j.stop, j.start, x, y))
    BY <1>3 DEF ApplyDl5
  <2>2. x \in Config \cup {Zero} /\ y \in Config \cup {Zero}
    BY IntervalReadType
  <2>3. IsPlanOf(Dl5Plan(j.config, j.on, j.stop, j.start, x, y), j)
    BY <2>2, Kinds DEF IsPlanOf
  <2>4. QED
    BY <1>1, <2>1, <2>3
<1>4. CASE ApplyScan
  <2>1. PICK j \in ScanJob : Begin(j, ScanPlan(j.config))
    BY <1>4 DEF ApplyScan
  <2>2. IsPlanOf(ScanPlan(j.config), j)
    BY Kinds DEF IsPlanOf
  <2>3. QED
    BY <1>1, <2>1, <2>2
<1>5. CASE Control
  <2>1. PICK j \in ControlJob :
          \E c \in (IF j.config = None THEN IntervalRead ELSE {j.config}) :
            Begin(j, <<ScanItem(c, j.state)>>)
    BY <1>5 DEF Control
  <2>2. PICK c \in (IF j.config = None THEN IntervalRead ELSE {j.config}) :
          Begin(j, <<ScanItem(c, j.state)>>)
    BY <2>1
  <2>3. c \in Config \cup {Zero}
    BY IntervalReadType DEF ControlJob
  <2>4. IsPlanOf(<<ScanItem(c, j.state)>>, j)
    BY <2>3, Kinds DEF IsPlanOf
  <2>5. QED
    BY <1>1, <2>2, <2>4
<1>6. CASE Step \/ UNCHANGED vars
  <2>1. job' = None \/ (job' = job /\ plan' = plan)
    BY <1>6 DEF Step, ItemVerified, ItemMismatch, ItemRaises, Finish, vars
  <2>2. QED
    BY <2>1 DEF PlanOfJob, IsPlanOf
<1>7. QED
  BY <1>2, <1>3, <1>4, <1>5, <1>6 DEF Next

\* DL5 on its own: the laser timing, its flag, and 0x0009 when it was asked for.
LEMMA Dl5PlanLeaves ==
    ASSUME NEW c \in Config, NEW on \in 0 .. 1, NEW stop \in BOOLEAN, NEW start \in BOOLEAN,
           NEW x \in Config \cup {Zero}, NEW y \in Config \cup {Zero}
    PROVE  LET p == Dl5Plan(c, on, stop, start, x, y)
           IN  /\ \A r \in LaserReg : Leaves(p, r, c)
               /\ Leaves(p, "laser_mode_en", on)
               /\ stop \/ start => \E i \in Config \cup {Zero} :
                    Leaves(p, "scan_control", [interval |-> i, state |-> StateOf(start)])
<1> DEFINE t == SafeLaserPlan(c, on)
           a == IF stop THEN <<ScanItem(x, 0)>> ELSE <<>>
           b == IF start THEN <<ScanItem(y, 1)>> ELSE <<>>
           h == a \o t
           A == [interval |-> x, state |-> 0]
           B == [interval |-> y, state |-> 1]
<1>1. /\ t \in Seq(PlanItem)
      /\ \A r \in LaserReg : Leaves(t, r, c)
      /\ Leaves(t, "laser_mode_en", on)
      /\ Avoids(t, "scan_control")
  BY SafeLaserPlanLeaves
<1>2. /\ a \in Seq(PlanItem)
      /\ stop => Leaves(a, "scan_control", A)
  <2>1. CASE stop
    <3>1. /\ ScanItem(x, 0) \in PlanItem
          /\ ScanItem(x, 0).register = "scan_control" /\ ScanItem(x, 0).value = A
      BY ScanItemType, ScanItemFields
    <3> HIDE DEF A
    <3>2. QED
      BY <2>1, <3>1, SingleLeaves
  <2>2. CASE ~stop
    BY <2>2
  <2>3. QED
    BY <2>1, <2>2
<1>3. /\ b \in Seq(PlanItem)
      /\ start => Leaves(b, "scan_control", B)
      /\ ~start => Avoids(b, "scan_control")
      /\ \A r : r # "scan_control" => Avoids(b, r)
  <2>1. CASE start
    <3>1. /\ ScanItem(y, 1) \in PlanItem
          /\ ScanItem(y, 1).register = "scan_control" /\ ScanItem(y, 1).value = B
      BY ScanItemType, ScanItemFields
    <3> HIDE DEF B
    <3>2. QED
      BY <2>1, <3>1, SingleLeaves
  <2>2. CASE ~start
    BY <2>2 DEF Avoids
  <2>3. QED
    BY <2>1, <2>2
<1>4. Dl5Plan(c, on, stop, start, x, y) = h \o b
  BY DEF Dl5Plan
<1> HIDE DEF t, a, b, A, B
<1>5. /\ h \in Seq(PlanItem)
      /\ \A r \in LaserReg : Leaves(h, r, c)
      /\ Leaves(h, "laser_mode_en", on)
      /\ stop => Leaves(h, "scan_control", A)
  <2>1. Keeps(t, "scan_control", A)
    BY <1>1, AvoidsKeeps
  <2>2. QED
    BY <1>1, <1>2, <2>1, ConcatParts, ConcatLeaves
<1> HIDE DEF h
<1>6. ASSUME NEW r, NEW v, r # "scan_control", Leaves(h, r, v) PROVE Leaves(h \o b, r, v)
  <2>1. Keeps(b, r, v)
    BY <1>3, <1>6, AvoidsKeeps
  <2>2. QED
    BY <1>3, <1>5, <1>6, <2>1, ConcatLeaves
<1>7. start => Leaves(h \o b, "scan_control", B)
  BY <1>3, <1>5, ConcatLeaves
<1>8. ASSUME stop, ~start PROVE Leaves(h \o b, "scan_control", A)
  <2>1. Keeps(b, "scan_control", A)
    BY <1>3, <1>8, AvoidsKeeps
  <2>2. QED
    BY <1>3, <1>5, <1>8, <2>1, ConcatLeaves
<1>9. ASSUME stop \/ start
      PROVE  \E i \in Config \cup {Zero} :
                Leaves(h \o b, "scan_control", [interval |-> i, state |-> StateOf(start)])
  BY <1>7, <1>8, <1>9 DEF A, B, StateOf
<1>10. \A r \in LaserReg : r # "scan_control"
  BY PlanAssumption DEF ParameterReg
<1>11. QED
  BY <1>4, <1>5, <1>6, <1>9, <1>10

\* A plan that is in force to its end has brought about what was asked for.
LEMMA PlanConfigures ==
    ASSUME NEW j \in Job, IsPlanOf(plan, j), InForce(plan, Len(plan))
    PROVE  Configured(j)
<1>1. CASE j \in ModeJob
  <2>1. /\ j.start \in BOOLEAN /\ j.kind \in {"normal", "ultrafast", "laser"}
    BY <1>1 DEF ModeJob
  <2>2. Settles(plan, j, StateOf(j.start))
    BY <1>1, <2>1, ModePlanSettles, WithStartSettles DEF IsPlanOf, StateOf
  <2>3. Geometry(j.config) /\ Scan(j.config, StateOf(j.start))
    BY <2>2, ForceGives DEF Settles, Geometry, Scan
  <2>4. j.kind = "normal" => Flags(0, 0)
    BY <2>2, ForceGives DEF Settles, Flags
  <2>5. j.kind = "ultrafast" => Flags(0, 1) /\ \A r \in UltraReg : register[r] = j.config
    BY <2>2, ForceGives DEF Settles, Flags
  <2>6. j.kind = "laser" => Flags(j.on, 0) /\ \A r \in LaserReg : register[r] = j.config
    BY <2>2, ForceGives DEF Settles, Flags
  <2>7. QED
    BY <2>1, <2>3, <2>4, <2>5, <2>6 DEF Configured
<1>2. CASE j \in Dl5Job
  <2>1. /\ j.config \in Config /\ j.on \in 0 .. 1 /\ j.stop \in BOOLEAN /\ j.start \in BOOLEAN
        /\ j.kind = "dl5" /\ j \notin ModeJob
    BY <1>2, Kinds DEF Dl5Job
  <2>2. PICK x \in Config \cup {Zero}, y \in Config \cup {Zero} :
          plan = Dl5Plan(j.config, j.on, j.stop, j.start, x, y)
    BY <1>2 DEF IsPlanOf
  <2>3. /\ \A r \in LaserReg : Leaves(plan, r, j.config)
        /\ Leaves(plan, "laser_mode_en", j.on)
        /\ j.stop \/ j.start => \E i \in Config \cup {Zero} :
              Leaves(plan, "scan_control", [interval |-> i, state |-> StateOf(j.start)])
    BY <2>1, <2>2, Dl5PlanLeaves
  <2>4. register["laser_mode_en"] = j.on /\ \A r \in LaserReg : register[r] = j.config
    BY <2>3, ForceGives
  <2>5. ASSUME j.stop \/ j.start PROVE register["scan_control"].state = StateOf(j.start)
    <3>1. PICK i \in Config \cup {Zero} :
            Leaves(plan, "scan_control", [interval |-> i, state |-> StateOf(j.start)])
      BY <2>3, <2>5
    <3>2. register["scan_control"] = [interval |-> i, state |-> StateOf(j.start)]
      BY <3>1, ForceGives
    <3>3. QED
      BY <3>2
  <2>6. QED
    BY <2>1, <2>4, <2>5 DEF Configured
<1>3. CASE j \in ScanJob
  <2>1. j.config \in Config /\ j.kind = "scan" /\ j \notin ModeJob /\ plan = ScanPlan(j.config)
    BY <1>3, Kinds DEF ScanJob, IsPlanOf
  <2>2. Geometry(j.config) /\ Scan(j.config, 0)
    BY <2>1, ScanPlanLeaves, ForceGives DEF Geometry, Scan
  <2>3. QED
    BY <2>1, <2>2 DEF Configured
<1>4. CASE j \in ControlJob
  <2>1. j.kind = "control" /\ j \notin ModeJob /\ j.state \in 0 .. 1
    BY <1>4, Kinds DEF ControlJob
  <2>2. PICK c \in Config \cup {Zero} : plan = <<ScanItem(c, j.state)>>
    BY <1>4 DEF IsPlanOf
  <2>3. Leaves(plan, "scan_control", [interval |-> c, state |-> j.state])
    <3>1. /\ ScanItem(c, j.state) \in PlanItem
          /\ ScanItem(c, j.state).register = "scan_control"
          /\ ScanItem(c, j.state).value = [interval |-> c, state |-> j.state]
      BY <2>1, ScanItemType, ScanItemFields
    <3>2. QED
      BY <2>2, <3>1, SingleLeaves
  <2>4. register["scan_control"] = [interval |-> c, state |-> j.state]
    BY <2>3, ForceGives
  <2>5. QED
    BY <2>1, <2>4 DEF Configured
<1>5. QED
  BY <1>1, <1>2, <1>3, <1>4 DEF Job

\* A result is that of an operation that succeeded only when the FPGA was left
\* as it asked; nothing is written before the next operation begins.
SuccessInv == (job # None => result = None) /\ SuccessMeansConfigured

LEMMA SuccessStep ==
    TypeOK /\ PlanInForce /\ PlanOfJob /\ SuccessInv /\ [Next]_vars => SuccessInv'
<1> SUFFICES ASSUME TypeOK, PlanInForce, PlanOfJob, SuccessInv, [Next]_vars
             PROVE  SuccessInv'
  OBVIOUS
<1>1. CASE ApplyMode \/ ApplyDl5 \/ ApplyScan \/ Control
  <2>1. result' = None
    BY <1>1 DEF ApplyMode, ApplyDl5, ApplyScan, Control, Begin
  <2>2. QED
    BY <2>1 DEF SuccessInv, SuccessMeansConfigured
<1>2. CASE ItemVerified \/ ItemMismatch
  <2>1. result = None /\ result' = None
    BY <1>2 DEF ItemVerified, ItemMismatch, InProgress, SuccessInv
  <2>2. QED
    BY <2>1 DEF SuccessInv, SuccessMeansConfigured
<1>3. CASE ItemRaises
  <2>1. job' = None /\ result'.outcome = "raised"
    BY <1>3 DEF ItemRaises
  <2>2. QED
    BY <2>1 DEF SuccessInv, SuccessMeansConfigured
<1>4. CASE Finish
  <2>1. job' = None /\ job # None /\ UNCHANGED register /\ pos > Len(plan)
    BY <1>4 DEF Finish
  <2>2. result'.job = job /\ (result'.outcome = "success" => ~failed)
    BY <1>4 DEF Finish
  <2>3. ASSUME ~failed PROVE Configured(job)
    <3>1. pos - 1 = Len(plan)
      BY <2>1 DEF TypeOK
    <3>2. InForce(plan, Len(plan))
      BY <2>1, <2>3, <3>1 DEF PlanInForce
    <3>3. job \in Job
      BY <2>1 DEF TypeOK
    <3>4. QED
      BY <2>1, <3>2, <3>3, PlanConfigures DEF PlanOfJob
  <2>4. ASSUME Configured(job) PROVE Configured(result.job)'
    BY <2>1, <2>2, <2>4 DEF Configured, Geometry, Scan, Flags
  <2>5. QED
    BY <2>1, <2>2, <2>3, <2>4 DEF SuccessInv, SuccessMeansConfigured
<1>5. CASE UNCHANGED vars
  BY <1>5 DEF vars, SuccessInv, SuccessMeansConfigured, Configured, Geometry, Scan, Flags
<1>6. QED
  BY <1>1, <1>2, <1>3, <1>4, <1>5 DEF Next, Step

\* Outside DL5, a plan never has both flags on when it is written in order.
LEMMA JobSeparated ==
    ASSUME NEW j \in Job, j \notin Dl5Job, IsPlanOf(plan, j) PROVE Separated(plan)
<1>1. CASE j \in ModeJob
  BY <1>1, ModePlanSettles, WithStartSettles DEF IsPlanOf, Settles
<1>2. CASE j \in ScanJob
  <2>1. plan = ScanPlan(j.config) /\ j.config \in Config
    BY <1>2 DEF IsPlanOf, ScanJob
  <2>2. QED
    BY <2>1, ScanPlanLeaves DEF Separated
<1>3. CASE j \in ControlJob
  <2>1. j.state \in 0 .. 1
    BY <1>3 DEF ControlJob
  <2>2. PICK c \in Config \cup {Zero} : plan = <<ScanItem(c, j.state)>>
    BY <1>3 DEF IsPlanOf
  <2>3. ASSUME NEW x \in FlagRegs PROVE Avoids(plan, x)
    <3>1. ScanItem(c, j.state) \in PlanItem /\ ScanItem(c, j.state).register # x
      BY <2>1, ScanItemType, ScanItemFields DEF FlagRegs
    <3>2. QED
      BY <2>2, <3>1, SingleLeaves
  <2>4. QED
    BY <2>3 DEF Separated
<1>4. QED
  BY <1>1, <1>2, <1>3 DEF Job

\* Without a failed write both flags are never on: the operation in progress, if
\* it is not DL5 alone, is separated and has not failed.
ExclusiveInv ==
    /\ ModesExclusive
    /\ job # None /\ ~spoiled => ~failed /\ job \notin Dl5Job

\* The write of a separated plan that verifies does not have both flags on.
LEMMA VerifiedKeepsExclusive ==
    ASSUME TypeOK, ItemVerified, Separated(plan), InForce(plan, pos - 1), ~Flags(1, 1)
    PROVE  ~Flags(1, 1)'
<1> DEFINE r == plan[pos].register
           v == plan[pos].value
<1>1. pos \in 1 .. Len(plan) /\ Len(plan) \in Nat /\ plan \in Seq(PlanItem)
  BY DEF ItemVerified, InProgress, TypeOK
<1>2. register' = [register EXCEPT ![r] = v] /\ DOMAIN register = Register /\ r \in Register
  <2>1. plan[pos] \in PlanItem
    BY <1>1
  <2>2. QED
    BY <2>1, ItemFields DEF ItemVerified, Set, TypeOK
<1>3. FlagRegs \subseteq Register /\ FlagRegs = {"laser_mode_en", "ultrafast"}
  BY DEF Register, FlagRegs
<1> HIDE DEF r, v
<1>4. CASE r \notin FlagRegs
  BY <1>2, <1>3, <1>4 DEF Flags
<1>5. CASE r \in FlagRegs
  <2>1. PICK x \in FlagRegs : SwitchesOff(plan, x)
    BY <1>1, <1>5 DEF Separated, Avoids, r
  <2>2. CASE r = x
    <3>1. v = 0
      BY <1>1, <2>1, <2>2 DEF SwitchesOff, Keeps, r, v
    <3>2. QED
      BY <1>2, <1>3, <2>2, <3>1 DEF Flags
  <2>3. CASE r # x
    <3>1. pos # 1 /\ pos # 2
      BY <1>5, <2>1, <2>3 DEF SwitchesOff, Item, r
    <3>2. 2 \in 1 .. pos - 1
      BY <1>1, <3>1
    <3>3. plan[2].register = x /\ plan[2].value = 0
      BY <2>1 DEF SwitchesOff, Item
    <3>4. ASSUME NEW k \in 3 .. pos - 1, plan[k].register = x PROVE plan[k].value = 0
      BY <1>1, <2>1, <3>4 DEF SwitchesOff, Keeps
    <3>5. register[x] = 0
      BY <3>2, <3>3, <3>4 DEF InForce
    <3>6. register'[x] = 0
      BY <1>2, <2>3, <3>5
    <3>7. QED
      BY <1>3, <3>6 DEF Flags
  <2>4. QED
    BY <2>2, <2>3
<1>6. QED
  BY <1>4, <1>5

LEMMA ExclusiveStep ==
    TypeOK /\ PlanInForce /\ PlanOfJob /\ ExclusiveInv /\ [Next]_vars => ExclusiveInv'
<1> SUFFICES ASSUME TypeOK, PlanInForce, PlanOfJob, ExclusiveInv, [Next]_vars
             PROVE  ExclusiveInv'
  OBVIOUS
<1>1. CASE ApplyMode \/ ApplyScan \/ Control
  <2>1. /\ failed' = FALSE /\ UNCHANGED <<register, spoiled>>
        /\ job' \in ModeJob \cup ScanJob \cup ControlJob
    BY <1>1 DEF ApplyMode, ApplyScan, Control, Begin
  <2>2. job' \notin Dl5Job
    BY <2>1, Kinds
  <2>3. QED
    BY <2>1, <2>2 DEF ExclusiveInv, ModesExclusive, Flags
<1>2. CASE ApplyDl5 \/ ItemMismatch \/ ItemRaises
  <2>1. spoiled'
    BY <1>2 DEF ApplyDl5, ItemMismatch, ItemRaises
  <2>2. QED
    BY <2>1 DEF ExclusiveInv, ModesExclusive
<1>3. CASE ItemVerified
  <2>1. SUFFICES ASSUME ~spoiled PROVE ~Flags(1, 1)'
    BY <1>3 DEF ItemVerified, ExclusiveInv, ModesExclusive
  <2>2. job # None /\ ~failed /\ job \notin Dl5Job /\ ~Flags(1, 1)
    BY <1>3, <2>1 DEF ItemVerified, InProgress, ExclusiveInv, ModesExclusive
  <2>3. Separated(plan)
    BY <2>2, JobSeparated DEF TypeOK, PlanOfJob
  <2>4. QED
    BY <1>3, <2>2, <2>3, VerifiedKeepsExclusive DEF PlanInForce
<1>4. CASE Finish
  <2>1. /\ job' = None /\ job # None /\ UNCHANGED register /\ pos > Len(plan)
        /\ spoiled' = (spoiled /\ (failed \/ job \notin ModeJob))
    BY <1>4 DEF Finish
  <2>2. SUFFICES ASSUME ~spoiled' PROVE ~Flags(1, 1)
    BY <2>1 DEF ExclusiveInv, ModesExclusive, Flags
  <2>3. CASE ~spoiled
    BY <2>3 DEF ExclusiveInv, ModesExclusive
  <2>4. CASE spoiled
    <3>1. ~failed /\ job \in ModeJob
      BY <2>1, <2>2, <2>4
    <3>2. pos - 1 = Len(plan)
      BY <2>1 DEF TypeOK
    <3>3. InForce(plan, Len(plan)) /\ IsPlanOf(plan, job) /\ job \in Job
      BY <2>1, <3>1, <3>2 DEF PlanInForce, PlanOfJob, Job
    <3>4. Configured(job)
      BY <3>3, PlanConfigures
    <3>5. QED
      BY <3>1, <3>4, Kinds DEF Configured, Flags
  <2>5. QED
    BY <2>3, <2>4
<1>5. CASE UNCHANGED vars
  BY <1>5 DEF vars, ExclusiveInv, ModesExclusive, Flags
<1>6. QED
  BY <1>1, <1>2, <1>3, <1>4, <1>5 DEF Next, Step

\* The plan in progress is the one its operation makes, at every step.
LEMMA PlanOfJobAlways == Spec => []PlanOfJob
<1>1. Init => PlanOfJob
  BY DEF Init, PlanOfJob
<1>2. QED
  BY <1>1, ModeApplyTyped, PlanOfJobStep, PTL DEF Spec

\* An operation that reports success has left the FPGA in the configuration that
\* was asked for, whatever the earlier ones left behind.
THEOREM SuccessMeansConfiguredAlways == Spec => []SuccessMeansConfigured
<1>1. Init => SuccessInv
  BY DEF Init, SuccessInv, SuccessMeansConfigured
<1>2. SuccessInv => SuccessMeansConfigured
  BY DEF SuccessInv
<1>3. QED
  BY <1>1, <1>2, ModeApplyTyped, PlanInForceAlways, PlanOfJobAlways, SuccessStep, PTL DEF Spec

\* Laser and ultrafast are never enabled together, in the middle of a change of
\* mode either, unless a write failed or DL5 was configured on its own.
THEOREM ModesExclusiveAlways == Spec => []ModesExclusive
<1>1. Init => ExclusiveInv
  <2>1. SUFFICES ASSUME Init PROVE ~Flags(1, 1) /\ job = None
    BY DEF ExclusiveInv, ModesExclusive
  <2>2. register["ultrafast"] = 0
    BY <2>1 DEF Init, Register, FlagRegs
  <2>3. QED
    BY <2>1, <2>2 DEF Init, Flags
<1>2. ExclusiveInv => ModesExclusive
  BY DEF ExclusiveInv
<1>3. QED
  BY <1>1, <1>2, ModeApplyTyped, PlanInForceAlways, PlanOfJobAlways, ExclusiveStep, PTL DEF Spec
-----------------------------------------------------------------------------
(***************************************************************************)
(* What is in force when a register is written: the order of a plan.       *)
(***************************************************************************)
\* Whenever p writes r, it wrote v to x before, and nothing else to x since.
Before(p, r, x, v) ==
    \A k \in 1 .. Len(p) : p[k].register = r =>
        \E i \in 1 .. k - 1 :
            /\ p[i].register = x
            /\ p[i].value = v
            /\ \A m \in i + 1 .. k - 1 : p[m].register = x => p[m].value = v

\* So x holds v when r is written, if what was written is in force.
LEMMA ForceBefore ==
    ASSUME NEW p, NEW r, NEW x, NEW v, NEW n \in 1 .. Len(p),
           InForce(p, n - 1), p[n].register = r, Before(p, r, x, v)
    PROVE  register[x] = v
BY DEF InForce, Before

\* A part that does not write r has nothing to show.
LEMMA AvoidsBefore ==
    ASSUME NEW p, NEW r, NEW x, NEW v, Avoids(p, r) PROVE Before(p, r, x, v)
BY DEF Avoids, Before

\* The parts of a plan can be looked at one by one.
LEMMA ConcatBefore ==
    ASSUME NEW p \in Seq(PlanItem), NEW q \in Seq(PlanItem), NEW r, NEW x, NEW v,
           Before(p, r, x, v), Before(q, r, x, v)
    PROVE  Before(p \o q, r, x, v)
<1> DEFINE t == p \o q
<1>1. /\ t \in Seq(PlanItem) /\ Len(t) = Len(p) + Len(q) /\ Len(p) \in Nat /\ Len(q) \in Nat
      /\ \A i \in 1 .. Len(p) : t[i] = p[i]
      /\ \A i \in 1 .. Len(q) : t[Len(p) + i] = q[i]
      /\ \A k \in 1 .. Len(t) : k \in 1 .. Len(p) \/ \E i \in 1 .. Len(q) : k = Len(p) + i
  BY ConcatParts
<1> HIDE DEF t
<1> SUFFICES ASSUME NEW k \in 1 .. Len(t), t[k].register = r
             PROVE  \E i \in 1 .. k - 1 :
                        /\ t[i].register = x
                        /\ t[i].value = v
                        /\ \A m \in i + 1 .. k - 1 : t[m].register = x => t[m].value = v
  BY DEF Before, t
<1>2. CASE k \in 1 .. Len(p)
  <2>1. PICK i \in 1 .. k - 1 :
          /\ p[i].register = x /\ p[i].value = v
          /\ \A m \in i + 1 .. k - 1 : p[m].register = x => p[m].value = v
    BY <1>1, <1>2 DEF Before
  <2>2. \A m \in 1 .. k - 1 : t[m] = p[m]
    BY <1>1, <1>2
  <2>3. \A m \in i + 1 .. k - 1 : m \in 1 .. k - 1
    BY <1>1, <1>2
  <2>4. QED
    BY <2>1, <2>2, <2>3
<1>3. CASE \E n \in 1 .. Len(q) : k = Len(p) + n
  <2>1. PICK n \in 1 .. Len(q) : k = Len(p) + n
    BY <1>3
  <2>2. q[n].register = r
    BY <1>1, <2>1
  <2>3. PICK i \in 1 .. n - 1 :
          /\ q[i].register = x /\ q[i].value = v
          /\ \A m \in i + 1 .. n - 1 : q[m].register = x => q[m].value = v
    BY <2>2 DEF Before
  <2>4. Len(p) + i \in 1 .. k - 1 /\ t[Len(p) + i] = q[i]
    BY <1>1, <2>1
  <2>5. ASSUME NEW m \in Len(p) + i + 1 .. k - 1, t[m].register = x PROVE t[m].value = v
    <3>1. m \in 1 .. Len(t) /\ m \notin 1 .. Len(p)
      BY <1>1, <2>1
    <3>2. PICK l \in 1 .. Len(q) : m = Len(p) + l
      BY <1>1, <3>1
    <3>3. l \in i + 1 .. n - 1 /\ t[m] = q[l]
      BY <1>1, <2>1, <3>2
    <3>4. QED
      BY <2>3, <2>5, <3>3
  <2>6. QED
    BY <2>3, <2>4, <2>5
<1>4. QED
  BY <1>1, <1>2, <1>3

\* A plan that begins by writing v to x and never writes anything else to it.
LEMMA HeadBefore ==
    ASSUME NEW p \in Seq(PlanItem), 1 \in 1 .. Len(p), NEW r, NEW x, NEW v,
           p[1].register = x, p[1].value = v, r # x, Keeps(p, x, v)
    PROVE  Before(p, r, x, v)
<1> SUFFICES ASSUME NEW k \in 1 .. Len(p), p[k].register = r
             PROVE  \E i \in 1 .. k - 1 :
                        /\ p[i].register = x
                        /\ p[i].value = v
                        /\ \A m \in i + 1 .. k - 1 : p[m].register = x => p[m].value = v
  BY DEF Before
<1>1. k # 1 /\ Len(p) \in Nat
  OBVIOUS
<1>2. 1 \in 1 .. k - 1 /\ \A m \in 1 + 1 .. k - 1 : m \in 1 .. Len(p)
  BY <1>1
<1>3. QED
  BY <1>2 DEF Keeps

\* A mode writes its parameters after it stopped the scan and before it starts it.
LEMMA ModeStopsBefore ==
    ASSUME NEW j \in ModeJob, NEW p, IsPlanOf(p, j), NEW r \in ParameterReg
    PROVE  Before(p, r, "scan_control", [interval |-> j.config, state |-> 0])
<1> DEFINE q == ModePlan(j)
           S == [interval |-> j.config, state |-> 0]
<1>1. r # "scan_control" /\ j.config \in Config
  BY PlanAssumption DEF ModeJob
<1>2. /\ q \in Seq(PlanItem) /\ 1 \in 1 .. Len(q)
      /\ q[1].register = "scan_control" /\ q[1].value = S
  BY ModePlanStops, ScanItemFields
<1>3. Keeps(q, "scan_control", S)
  BY ModePlanSettles
<1> HIDE DEF q, S
<1>4. Before(q, r, "scan_control", S)
  BY <1>1, <1>2, <1>3, HeadBefore
<1>5. CASE j.start
  <2> DEFINE e == Item("scan_control", [LastScanControl(q) EXCEPT !.state = 1])
  <2>1. WithStart(q) = Append(q, e) /\ WithStart(q) \in Seq(PlanItem)
    BY <1>2, WithStartType DEF WithStart
  <2>2. e \in PlanItem
    <3>1. Len(q) + 1 \in 1 .. Len(Append(q, e)) /\ Append(q, e)[Len(q) + 1] = e
      BY <1>2
    <3> HIDE DEF e
    <3>2. QED
      BY <2>1, <3>1
  <2>3. e.register = "scan_control"
    BY DEF Item
  <2> HIDE DEF e
  <2>4. <<e>> \in Seq(PlanItem) /\ Avoids(<<e>>, r)
    BY <1>1, <2>2, <2>3, SingleLeaves
  <2>5. Append(q, e) = q \o <<e>>
    BY <1>2, <2>2, AppendIsConcat
  <2>6. Before(q \o <<e>>, r, "scan_control", S)
    BY <1>2, <1>4, <2>4, AvoidsBefore, ConcatBefore
  <2>7. p = WithStart(q)
    BY <1>5 DEF IsPlanOf, q
  <2>8. QED
    BY <2>1, <2>5, <2>6, <2>7 DEF S
<1>6. CASE ~j.start
  <2>1. p = q
    BY <1>6 DEF IsPlanOf, q
  <2>2. QED
    BY <1>4, <2>1 DEF S
<1>7. QED
  BY <1>5, <1>6

\* So does DL5 on its own, when it stops the scan.
LEMMA Dl5StopsBefore ==
    ASSUME NEW j \in Dl5Job, j.stop, NEW p, IsPlanOf(p, j), NEW r \in ParameterReg
    PROVE  \E x \in Config \cup {Zero} :
                Before(p, r, "scan_control", [interval |-> x, state |-> 0])
<1>1. PICK x \in Config \cup {Zero}, y \in Config \cup {Zero} :
          p = Dl5Plan(j.config, j.on, TRUE, j.start, x, y)
  BY DEF IsPlanOf, Dl5Job
<1> DEFINE S == [interval |-> x, state |-> 0]
           s == ScanItem(x, 0)
           t == SafeLaserPlan(j.config, j.on)
           e == IF j.start THEN <<ScanItem(y, 1)>> ELSE <<>>
           h == <<s>> \o t
<1>2. r # "scan_control" /\ j.config \in Config /\ j.on \in 0 .. 1
  BY PlanAssumption DEF Dl5Job
<1>3. t \in Seq(PlanItem) /\ Avoids(t, "scan_control")
  BY <1>2, SafeLaserPlanLeaves
<1>4. s \in PlanItem /\ s.register = "scan_control" /\ s.value = S
  BY <1>1, ScanItemType, ScanItemFields
<1>5. e \in Seq(PlanItem) /\ Avoids(e, r)
  <2>1. ScanItem(y, 1) \in PlanItem /\ ScanItem(y, 1).register # r
    <3>1. ScanItem(y, 1) \in PlanItem
      BY <1>1, ScanItemType
    <3>2. ScanItem(y, 1).register = "scan_control"
      BY ScanItemFields
    <3>3. QED
      BY ONLY <3>1, <3>2, <1>2
  <2>2. <<ScanItem(y, 1)>> \in Seq(PlanItem) /\ Avoids(<<ScanItem(y, 1)>>, r)
    BY <2>1, SingleLeaves
  <2>3. <<>> \in Seq(PlanItem) /\ Avoids(<<>>, r)
    BY DEF Avoids
  <2>4. QED
    BY <2>2, <2>3
<1>6. p = h \o e
  BY <1>1 DEF Dl5Plan
<1> HIDE DEF s, t, e, S
<1>7. <<s>> \in Seq(PlanItem) /\ Keeps(<<s>>, "scan_control", S)
  BY <1>4, SingleLeaves
<1>8. h \in Seq(PlanItem) /\ 1 \in 1 .. Len(h) /\ h[1] = s
  BY <1>3, <1>4
<1>9. Keeps(h, "scan_control", S)
  BY <1>3, <1>7, AvoidsKeeps, ConcatLeaves
<1> HIDE DEF h
<1>10. Before(h, r, "scan_control", S)
  BY <1>2, <1>4, <1>8, <1>9, HeadBefore
<1>11. Before(p, r, "scan_control", S)
  BY <1>5, <1>6, <1>8, <1>10, AvoidsBefore, ConcatBefore
<1>12. QED
  BY <1>1, <1>11 DEF S

\* to_safe_apply_registers switches laser mode off before it writes the timing, and
\* on afterwards.
LEMMA SafeLaserBefore ==
    ASSUME NEW c \in Config, NEW on \in 0 .. 1, NEW r \in LaserReg
    PROVE  Before(SafeLaserPlan(c, on), r, "laser_mode_en", 0)
<1> DEFINE g == Items(LaserRegs, c)
           z == Item("laser_mode_en", 0)
           e == Item("laser_mode_en", on)
           h == <<z>> \o g
<1>1. /\ g \in Seq(PlanItem) /\ z \in PlanItem /\ e \in PlanItem
      /\ \A s : s \notin ParameterReg => Avoids(g, s)
  BY ItemsLeave, FlagItemType
<1>2. z.register = "laser_mode_en" /\ z.value = 0 /\ e.register = "laser_mode_en"
  BY DEF Item
<1>3. /\ <<z>> \in Seq(PlanItem) /\ <<e>> \in Seq(PlanItem)
      /\ Keeps(<<z>>, "laser_mode_en", 0)
      /\ \A s : s # "laser_mode_en" => Avoids(<<e>>, s)
  BY <1>1, <1>2, SingleLeaves
<1>4. r # "laser_mode_en" /\ "laser_mode_en" \notin ParameterReg
  BY PlanAssumption DEF FlagRegs, ParameterReg
<1>5. SafeLaserPlan(c, on) = h \o <<e>>
  BY DEF SafeLaserPlan
<1>6. h \in Seq(PlanItem) /\ 1 \in 1 .. Len(h) /\ h[1] = z
  <2>1. 1 \in 1 .. Len(<<z>>) /\ <<z>>[1] = z
    OBVIOUS
  <2> HIDE DEF z, g
  <2>2. QED
    BY <1>1, <1>3, <2>1, ConcatHead
<1> HIDE DEF g, z, e
<1>7. Keeps(h, "laser_mode_en", 0)
  <2>1. Keeps(g, "laser_mode_en", 0)
    BY <1>1, <1>4, AvoidsKeeps
  <2>2. QED
    BY <1>1, <1>3, <2>1, ConcatLeaves
<1> HIDE DEF h
<1>8. Before(h, r, "laser_mode_en", 0)
  BY <1>2, <1>4, <1>6, <1>7, HeadBefore
<1>9. Before(<<e>>, r, "laser_mode_en", 0)
  BY <1>3, <1>4, AvoidsBefore
<1>10. QED
  BY <1>3, <1>5, <1>6, <1>8, <1>9, ConcatBefore

\* No other write of a plan is to the laser timing.
LEMMA OthersAvoidLaser ==
    ASSUME NEW c \in Config, NEW r \in LaserReg
    PROVE  /\ \A d, s : ScanItem(d, s).register # r
           /\ \A v : Item("laser_mode_en", v).register # r /\ Item("ultrafast", v).register # r
           /\ Avoids(Items(GeomRegs, c), r) /\ Avoids(Items(UltraRegs, c), r)
           /\ Avoids(ScanPlan(c), r)
<1>1. /\ r # "scan_control" /\ r \notin FlagRegs
      /\ r \notin GeomReg /\ r \notin UltraReg
  BY PlanAssumption DEF ParameterReg
<1>2. \A d, s : ScanItem(d, s).register # r
  BY <1>1, ScanItemFields
<1>3. \A v : Item("laser_mode_en", v).register # r /\ Item("ultrafast", v).register # r
  BY <1>1 DEF Item, FlagRegs
<1>4. ASSUME NEW regs \in {GeomRegs, UltraRegs}, NEW k \in 1 .. Len(Items(regs, c))
      PROVE  Items(regs, c)[k].register # r
  <2>1. regs \in Seq(STRING) /\ r \notin {regs[i] : i \in 1 .. Len(regs)}
    BY <1>1, PlanAssumption DEF GeomReg, UltraReg
  <2>2. Len(Items(regs, c)) = Len(regs)
    <3>1. Len(regs) \in Nat /\ DOMAIN Items(regs, c) = 1 .. Len(regs)
      BY <2>1 DEF Items
    <3>2. Items(regs, c) \in Seq(PlanItem)
      BY ItemsType
    <3>3. QED
      BY <3>1, <3>2
  <2>3. Items(regs, c)[k] = Item(regs[k], c)
    BY <2>2 DEF Items
  <2>4. Items(regs, c)[k].register = regs[k]
    BY <2>3 DEF Item
  <2>5. QED
    BY <2>1, <2>2, <2>4
<1>5. Avoids(Items(GeomRegs, c), r) /\ Avoids(Items(UltraRegs, c), r)
  BY <1>4 DEF Avoids
<1>6. Avoids(ScanPlan(c), r)
  <2>1. ScanItem(c, 0) \in PlanItem /\ Items(GeomRegs, c) \in Seq(PlanItem)
    BY ScanItemType, ItemsType
  <2>2. <<ScanItem(c, 0)>> \in Seq(PlanItem) /\ Avoids(<<ScanItem(c, 0)>>, r)
    BY <1>2, <2>1, SingleLeaves
  <2>3. QED
    BY <1>5, <2>1, <2>2, ConcatAvoids DEF ScanPlan
<1>7. QED
  BY <1>2, <1>3, <1>5, <1>6

\* Two or three single writes avoid what each of them avoids.
LEMMA ShortAvoids ==
    ASSUME NEW x \in PlanItem, NEW y \in PlanItem, NEW z \in PlanItem, NEW r,
           x.register # r, y.register # r, z.register # r
    PROVE  /\ <<x, y>> \in Seq(PlanItem) /\ Avoids(<<x, y>>, r)
           /\ <<x, y, z>> \in Seq(PlanItem) /\ Avoids(<<x, y, z>>, r)
BY DEF Avoids

\* The plan of a mode writes the laser timing, if it does, while laser mode is off.
LEMMA ModeLaserBefore ==
    ASSUME NEW j \in ModeJob, NEW r \in LaserReg
    PROVE  Before(ModePlan(j), r, "laser_mode_en", 0)
<1> DEFINE c == j.config
           s == ScanItem(c, 0)
           l == Item("laser_mode_en", 0)
           u == Item("ultrafast", 0)
           q == ScanPlan(c)
<1>1. c \in Config /\ j.kind \in {"normal", "ultrafast", "laser"}
  BY DEF ModeJob
<1>2. s \in PlanItem /\ l \in PlanItem /\ u \in PlanItem /\ q \in Seq(PlanItem)
  BY <1>1, ScanItemType, FlagItemType, PlansType
<1>3. s.register # r /\ l.register # r /\ u.register # r /\ Avoids(q, r)
  BY <1>1, OthersAvoidLaser
<1>4. CASE j.kind = "normal"
  <2>1. ModePlan(j) = <<s, l, u>> \o q
    BY <1>4 DEF ModePlan, NormalPlan
  <2> HIDE DEF s, l, u, q
  <2>2. <<s, l, u>> \in Seq(PlanItem) /\ Avoids(<<s, l, u>>, r)
    BY <1>2, <1>3, ShortAvoids
  <2>3. Avoids(ModePlan(j), r)
    BY <1>2, <1>3, <2>1, <2>2, ConcatAvoids
  <2>4. QED
    BY <2>3, AvoidsBefore
<1>5. CASE j.kind = "ultrafast"
  <2> DEFINE g == Items(UltraRegs, c)
             e == Item("ultrafast", 1)
             h == <<s, l>> \o q
  <2>1. g \in Seq(PlanItem) /\ e \in PlanItem /\ Avoids(g, r) /\ e.register # r
    BY <1>1, ItemsType, FlagItemType, OthersAvoidLaser
  <2>2. ModePlan(j) = (h \o g) \o <<e>>
    BY <1>5 DEF ModePlan, UltrafastPlan
  <2> HIDE DEF s, l, u, q, g, e
  <2>3. <<s, l>> \in Seq(PlanItem) /\ Avoids(<<s, l>>, r)
    BY <1>2, <1>3, ShortAvoids
  <2>4. h \in Seq(PlanItem) /\ Avoids(h, r)
    BY <1>2, <1>3, <2>3, ConcatAvoids, ConcatParts
  <2> HIDE DEF h
  <2>5. h \o g \in Seq(PlanItem) /\ Avoids(h \o g, r)
    BY <2>1, <2>4, ConcatAvoids, ConcatParts
  <2>6. <<e>> \in Seq(PlanItem) /\ Avoids(<<e>>, r)
    BY <2>1, SingleLeaves
  <2>7. Avoids(ModePlan(j), r)
    BY <2>2, <2>5, <2>6, ConcatAvoids
  <2>8. QED
    BY <2>7, AvoidsBefore
<1>6. CASE j.kind = "laser"
  <2> DEFINE t == SafeLaserPlan(c, j.on)
             h == <<s, u>> \o q
  <2>1. j.on \in 0 .. 1
    BY <1>6 DEF ModeJob
  <2>2. t \in Seq(PlanItem) /\ Before(t, r, "laser_mode_en", 0)
    BY <1>1, <2>1, PlansType, SafeLaserBefore
  <2>3. ModePlan(j) = h \o t
    BY <1>6 DEF ModePlan, LaserPlan
  <2> HIDE DEF s, l, u, q, t
  <2>4. <<s, u>> \in Seq(PlanItem) /\ Avoids(<<s, u>>, r)
    BY <1>2, <1>3, ShortAvoids
  <2>5. h \in Seq(PlanItem) /\ Avoids(h, r)
    BY <1>2, <1>3, <2>4, ConcatAvoids, ConcatParts
  <2> HIDE DEF h
  <2>6. Before(h, r, "laser_mode_en", 0)
    BY <2>5, AvoidsBefore
  <2>7. QED
    BY <2>2, <2>3, <2>5, <2>6, ConcatBefore
<1>7. QED
  BY <1>1, <1>4, <1>5, <1>6

\* So does every plan there is.
LEMMA LaserOffBefore ==
    ASSUME NEW j \in Job, NEW p, IsPlanOf(p, j), NEW r \in LaserReg
    PROVE  Before(p, r, "laser_mode_en", 0)
<1>1. CASE j \in ModeJob
  <2> DEFINE q == ModePlan(j)
             e == Item("scan_control", [LastScanControl(q) EXCEPT !.state = 1])
  <2>1. q \in Seq(PlanItem) /\ 1 \in 1 .. Len(q) /\ q[1].register = "scan_control"
    <3>1. q \in Seq(PlanItem) /\ 1 \in 1 .. Len(q) /\ q[1] = ScanItem(j.config, 0)
      BY <1>1, ModePlanStops
    <3>2. ScanItem(j.config, 0).register = "scan_control"
      BY ScanItemFields
    <3> HIDE DEF q
    <3>3. QED
      BY <3>1, <3>2
  <2>2. Before(q, r, "laser_mode_en", 0)
    BY <1>1, ModeLaserBefore
  <2>3. e.register = "scan_control" /\ r # "scan_control"
    BY PlanAssumption DEF Item, ParameterReg
  <2>4. WithStart(q) = Append(q, e) /\ WithStart(q) \in Seq(PlanItem)
    <3> HIDE DEF q
    <3>1. WithStart(q) = Append(q, e)
      BY DEF WithStart
    <3>2. WithStart(q) \in Seq(PlanItem)
      BY <2>1, WithStartType
    <3>3. QED
      BY <3>1, <3>2
  <2>5. p = q \/ p = WithStart(q)
    BY <1>1 DEF IsPlanOf
  <2> HIDE DEF q, e
  <2>6. e \in PlanItem
    <3>1. Len(q) + 1 \in 1 .. Len(Append(q, e)) /\ Append(q, e)[Len(q) + 1] = e
      BY <2>1
    <3>2. QED
      BY <2>4, <3>1
  <2>7. <<e>> \in Seq(PlanItem) /\ Avoids(<<e>>, r)
    BY <2>3, <2>6, SingleLeaves
  <2>8. Append(q, e) = q \o <<e>>
    BY <2>1, <2>6, AppendIsConcat
  <2>9. Before(q \o <<e>>, r, "laser_mode_en", 0)
    BY <2>1, <2>2, <2>7, AvoidsBefore, ConcatBefore
  <2>10. QED
    BY <2>2, <2>4, <2>5, <2>8, <2>9
<1>2. CASE j \in Dl5Job
  <2>1. PICK x \in Config \cup {Zero}, y \in Config \cup {Zero} :
          p = Dl5Plan(j.config, j.on, j.stop, j.start, x, y)
    BY <1>2 DEF IsPlanOf
  <2> DEFINE t == SafeLaserPlan(j.config, j.on)
             h == IF j.stop THEN <<ScanItem(x, 0)>> ELSE <<>>
             e == IF j.start THEN <<ScanItem(y, 1)>> ELSE <<>>
  <2>2. j.config \in Config /\ j.on \in 0 .. 1
    BY <1>2 DEF Dl5Job
  <2>3. t \in Seq(PlanItem) /\ Before(t, r, "laser_mode_en", 0)
    BY <2>2, PlansType, SafeLaserBefore
  <2>4. ASSUME NEW d \in Config \cup {Zero}, NEW s \in 0 .. 1
        PROVE  /\ <<ScanItem(d, s)>> \in Seq(PlanItem)
               /\ Avoids(<<ScanItem(d, s)>>, r)
    <3>1. ScanItem(d, s) \in PlanItem /\ ScanItem(d, s).register # r
      BY <2>2, ScanItemType, OthersAvoidLaser
    <3>2. QED
      BY <3>1, SingleLeaves
  <2>5. <<>> \in Seq(PlanItem) /\ Avoids(<<>>, r)
    BY DEF Avoids
  <2>6. h \in Seq(PlanItem) /\ Avoids(h, r)
    <3>1. <<ScanItem(x, 0)>> \in Seq(PlanItem) /\ Avoids(<<ScanItem(x, 0)>>, r)
      <4>1. x \in Config \cup {Zero} /\ 0 \in 0 .. 1
        BY <2>1
      <4>2. QED
        BY ONLY <2>4, <4>1, Zenon
    <3>2. h = <<ScanItem(x, 0)>> \/ h = <<>>
      OBVIOUS
    <3> HIDE DEF h
    <3>3. QED
      BY <2>5, <3>1, <3>2
  <2>7. e \in Seq(PlanItem) /\ Avoids(e, r)
    <3>1. <<ScanItem(y, 1)>> \in Seq(PlanItem) /\ Avoids(<<ScanItem(y, 1)>>, r)
      <4>1. y \in Config \cup {Zero} /\ 1 \in 0 .. 1
        BY <2>1
      <4>2. QED
        BY ONLY <2>4, <4>1, Zenon
    <3>2. e = <<ScanItem(y, 1)>> \/ e = <<>>
      OBVIOUS
    <3> HIDE DEF e
    <3>3. QED
      BY <2>5, <3>1, <3>2
  <2>8. p = (h \o t) \o e
    BY <2>1 DEF Dl5Plan
  <2> HIDE DEF h, t, e
  <2>9. h \o t \in Seq(PlanItem) /\ Before(h \o t, r, "laser_mode_en", 0)
    BY <2>3, <2>6, AvoidsBefore, ConcatBefore, ConcatParts
  <2>10. QED
    BY <2>7, <2>8, <2>9, AvoidsBefore, ConcatBefore
<1>3. CASE j \in ScanJob
  <2>1. j.config \in Config /\ p = ScanPlan(j.config)
    BY <1>3 DEF IsPlanOf, ScanJob
  <2>2. QED
    BY <2>1, OthersAvoidLaser, AvoidsBefore
<1>4. CASE j \in ControlJob
  <2>1. PICK c \in Config \cup {Zero} : p = <<ScanItem(c, j.state)>>
    BY <1>4 DEF IsPlanOf
  <2>2. j.state \in 0 .. 1
    BY <1>4 DEF ControlJob
  <2>3. ScanItem(c, j.state).register # r
    <3>1. r # "scan_control"
      BY PlanAssumption DEF ParameterReg
    <3>2. ScanItem(c, j.state).register = "scan_control"
      BY ScanItemFields
    <3>3. QED
      BY <3>1, <3>2
  <2>4. Avoids(<<ScanItem(c, j.state)>>, r)
    BY <2>2, <2>3, ScanItemType, SingleLeaves
  <2>5. QED
    BY <2>1, <2>4, AvoidsBefore
<1>5. QED
  BY <1>1, <1>2, <1>3, <1>4 DEF Job

\* A step that changes a register is the write of an item of the plan.
LEMMA ChangeIsItem ==
    ASSUME TypeOK, [Next]_vars, NEW r \in Register, register'[r] # register[r]
    PROVE  job # None /\ pos \in 1 .. Len(plan) /\ plan[pos].register = r
<1>1. InProgress /\ Set(plan[pos])
  BY DEF Next, ApplyMode, ApplyDl5, ApplyScan, Control, Begin, Step,
         ItemVerified, ItemMismatch, ItemRaises, Finish, vars
<1>2. QED
  BY <1>1 DEF InProgress, Set, TypeOK

\* The order of the writes keeps parameters and a running scan apart.
LEMMA ParametersStep ==
    ASSUME TypeOK, PlanInForce, PlanOfJob, [Next]_vars, NEW r \in ParameterReg,
           register'[r] # register[r], ~failed, StopsFirst
    PROVE  register["scan_control"].state = 0
<1>1. job # None /\ pos \in 1 .. Len(plan) /\ plan[pos].register = r
  BY ChangeIsItem DEF Register
<1>2. InForce(plan, pos - 1) /\ IsPlanOf(plan, job)
  BY <1>1 DEF PlanInForce, PlanOfJob
<1>3. \E x : Before(plan, r, "scan_control", [interval |-> x, state |-> 0])
  <2>1. CASE job \in ModeJob
    BY <1>2, <2>1, ModeStopsBefore
  <2>2. CASE job \in Dl5Job /\ job.stop
    BY <1>2, <2>2, Dl5StopsBefore
  <2>3. QED
    BY <2>1, <2>2 DEF StopsFirst
<1>4. PICK x : Before(plan, r, "scan_control", [interval |-> x, state |-> 0])
  BY <1>3
<1>5. register["scan_control"] = [interval |-> x, state |-> 0]
  BY <1>1, <1>2, <1>4, ForceBefore
<1>6. QED
  BY <1>5

\* And the laser timing apart from laser mode.
LEMMA LaserTimingStep ==
    ASSUME TypeOK, PlanInForce, PlanOfJob, [Next]_vars, NEW r \in LaserReg,
           register'[r] # register[r], ~failed
    PROVE  register["laser_mode_en"] = 0
<1>1. job # None /\ pos \in 1 .. Len(plan) /\ plan[pos].register = r
  BY ChangeIsItem DEF Register, ParameterReg
<1>2. InForce(plan, pos - 1) /\ IsPlanOf(plan, job) /\ job \in Job
  BY <1>1 DEF PlanInForce, PlanOfJob, TypeOK
<1>3. Before(plan, r, "laser_mode_en", 0)
  BY <1>2, LaserOffBefore
<1>4. QED
  BY <1>1, <1>2, <1>3, ForceBefore

\* Whatever the configuration and the lists of registers: as long as the writes of an
\* operation that stops the scan first verify, parameters change only while the scan is
\* stopped.
THEOREM ParametersChangeStoppedAlways == Spec => ParametersChangeStopped
<1>1. TypeOK /\ PlanInForce /\ PlanOfJob /\ [Next]_vars
        => [\A r \in ParameterReg :
                register'[r] # register[r] /\ ~failed /\ StopsFirst
                    => register["scan_control"].state = 0]_vars
  BY ParametersStep
<1>2. QED
  BY <1>1, ModeApplyTyped, PlanInForceAlways, PlanOfJobAlways, PTL DEF Spec, ParametersChangeStopped

\* And laser timing changes only while laser mode is off, whichever operation writes
\* it: the laser mode or DL5 on its own.
THEOREM LaserTimingChangesOffAlways == Spec => LaserTimingChangesOff
<1>1. TypeOK /\ PlanInForce /\ PlanOfJob /\ [Next]_vars
        => [\A r \in LaserReg :
                register'[r] # register[r] /\ ~failed => register["laser_mode_en"] = 0]_vars
  BY LaserTimingStep
<1>2. QED
  BY <1>1, ModeApplyTyped, PlanInForceAlways, PlanOfJobAlways, PTL DEF Spec, LaserTimingChangesOff
=============================================================================
