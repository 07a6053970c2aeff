----------------------- MODULE CpuidCollector_proofs ------------------------
(* collector.c reports what the host has, for any tables of XED within its  *)
(* limits, any width of the registers and any host, and the earlier reader  *)
(* for any cpuid.txt; of the columns that each leaves in doubt, anything.   *)
EXTENDS CpuidCollector, OldCpuidReader, SequenceTheorems, TLAPS

----------------------------------------------------------------------------
(* What the two loops have found out: no group that was left behind is      *)
(* supported, and every record that was passed is satisfied.                *)
LoopsInv ==
  /\ pc \in {"group", "record"} <=> isa <= Len(IsaOrder)
  /\ isa <= Len(IsaOrder) => \A k \in 1..i : ~HasGroup(host, Groups[k])
  /\ pc = "record" => \A k \in 1..j : RecordHolds(Records[k])

XtestInv ==
  /\ pc = "_xtest" => handled = Signals
  /\ pc # "done" => xtest_available

CollectorInv == TypeOK /\ LoopsInv /\ XtestInv

----------------------------------------------------------------------------
(* The tables.                                                              *)
LEMMA TableFacts ==
  ASSUME isa \in 1..Len(IsaOrder)
  PROVE  /\ IsaOrder[isa] \in DOMAIN GroupsOf
         /\ Groups \in Seq(DOMAIN RecsOf)
         /\ Len(Groups) <= MAX_CPUID_GROUPS_PER_ISA_SET
BY TablesAssumption DEF Groups

LEMMA GroupFacts ==
  ASSUME NEW g \in DOMAIN RecsOf
  PROVE  /\ RecsOf[g] \in Seq(DOMAIN CpuidRec)
         /\ Len(RecsOf[g]) <= MAX_CPUID_RECS_PER_GROUP
         /\ DOMAIN RecsOf[g] = 1..Len(RecsOf[g])
BY TablesAssumption

(* Of a leaf that the host has, a record is read as its bits are.           *)
LEMMA RecordExact ==
  ASSUME host \in Hosts, NEW r, CpuidRec[r].leaf \in DOMAIN host.regs
  PROVE  RecordHolds(r) <=> Advertises(host, r)
<1>1. CASE r \in KnownRecs /\ CpuidRec[r].reg \in GPRs
  <2> DEFINE v == host.regs[CpuidRec[r].leaf][CpuidRec[r].reg]
             s == CpuidRec[r].bit_start
             e == CpuidRec[r].bit_end
  <2>1. v \in Words
    BY <1>1, HostsAssumption
  <2>2. s \in Bits /\ e \in Bits /\ s <= e /\ CpuidRec[r].value \in Words
    BY <1>1, TablesAssumption DEF Bits
  <2>3. HostVal(v, s, e) = CpuidRec[r].value <=> FieldIs(v, s, e, CpuidRec[r].value)
    BY <2>1, <2>2, FieldsAssumption
  <2>4. Cpuid(CpuidRec[r].leaf) = host.regs[CpuidRec[r].leaf]
    BY DEF Cpuid
  <2> QED
    BY <1>1, <2>3, <2>4 DEF RecordHolds, Advertises
<1>2. CASE ~(r \in KnownRecs /\ CpuidRec[r].reg \in GPRs)
  BY <1>2 DEF RecordHolds, Advertises
<1> QED
  BY <1>1, <1>2

LEMMA GroupFails ==
  ASSUME host \in Hosts, NEW g \in DOMAIN RecsOf, NEW k \in DOMAIN RecsOf[g], ~RecordHolds(RecsOf[g][k])
  PROVE  ~HasGroup(host, g)
<1>1. ~Advertises(host, RecsOf[g][k])
  <2>1. CASE CpuidRec[RecsOf[g][k]].leaf \in DOMAIN host.regs
    BY <2>1, RecordExact
  <2>2. CASE CpuidRec[RecsOf[g][k]].leaf \notin DOMAIN host.regs
    BY <2>2 DEF Advertises
  <2> QED
    BY <2>1, <2>2
<1> QED
  BY <1>1 DEF HasGroup

(* Records that are all satisfied are the host's, or mislead.              *)
LEMMA GroupHolds ==
  ASSUME host \in Hosts, NEW g \in DOMAIN RecsOf, \A k \in DOMAIN RecsOf[g] : RecordHolds(RecsOf[g][k])
  PROVE  HasGroup(host, g) \/ Misleads(host, g)
<1>1. \A m \in DOMAIN RecsOf[g] :
        CpuidRec[RecsOf[g][m]].leaf \in DOMAIN host.regs => Advertises(host, RecsOf[g][m])
  BY RecordExact
<1>2. \A m \in DOMAIN RecsOf[g] : RecsOf[g][m] \in KnownRecs /\ CpuidRec[RecsOf[g][m]].reg \in GPRs
  BY DEF RecordHolds
<1>3. CASE \E m \in DOMAIN RecsOf[g] : CpuidRec[RecsOf[g][m]].leaf \notin DOMAIN host.regs
  BY <1>1, <1>2, <1>3 DEF Misleads
<1>4. CASE \A m \in DOMAIN RecsOf[g] : CpuidRec[RecsOf[g][m]].leaf \in DOMAIN host.regs
  BY <1>1, <1>4 DEF HasGroup
<1> QED
  BY <1>3, <1>4

----------------------------------------------------------------------------
LEMMA InitCollectorInv == Init => CollectorInv
<1> SUFFICES ASSUME Init PROVE CollectorInv
  OBVIOUS
<1> USE DEF Init
<1>1. Len(IsaOrder) \in Nat \ {0} /\ isa \in 1..Len(IsaOrder)
  BY TablesAssumption
<1>2. Groups \in Seq(DOMAIN RecsOf)
  BY <1>1, TableFacts
<1>3. TypeOK
  BY <1>1, <1>2 DEF TypeOK
<1>4. LoopsInv
  BY <1>1 DEF LoopsInv
<1> QED
  BY <1>3, <1>4 DEF CollectorInv, XtestInv

(* The next ISA-SET, after is_isa_set_supported has returned b.             *)
LEMMA ReportsInv ==
  ASSUME CollectorInv, NEW b \in BOOLEAN, isa \in 1..Len(IsaOrder), pc \in {"group", "record"},
         Reports(b), UNCHANGED <<host, handled, xtest_available>>
  PROVE  CollectorInv'
<1> USE DEF Reports
<1>1. isa' \in 1..(Len(IsaOrder) + 1) /\ i' = 0 /\ pc' \in {"group", "xtest"} /\ Len(IsaOrder) \in Nat
  BY TablesAssumption
<1>2. isa' <= Len(IsaOrder) <=> pc' = "group"
  BY <1>1
<1>3. isa' <= Len(IsaOrder) => Len(Groups') \in Nat
  <2> SUFFICES ASSUME isa' <= Len(IsaOrder) PROVE Len(Groups') \in Nat
    OBVIOUS
  <2>1. IsaOrder[isa'] \in DOMAIN GroupsOf
    BY <1>1, TablesAssumption
  <2> QED
    BY <2>1, TablesAssumption DEF Groups
<1>4. row' \in Seq(BOOLEAN) /\ Len(row') = isa' - 1
  BY DEF CollectorInv, TypeOK
<1>5. TypeOK'
  BY <1>1, <1>2, <1>3, <1>4 DEF CollectorInv, TypeOK
<1>6. LoopsInv'
  BY <1>1, <1>2 DEF LoopsInv
<1>7. XtestInv'
  BY <1>1 DEF CollectorInv, XtestInv
<1> QED
  BY <1>5, <1>6, <1>7 DEF CollectorInv

LEMMA CollectorInvStep == CollectorInv /\ [Next]_vars => CollectorInv'
<1> SUFFICES ASSUME CollectorInv, [Next]_vars PROVE CollectorInv'
  OBVIOUS
<1>a. TypeOK /\ LoopsInv /\ XtestInv
  BY DEF CollectorInv
<1>b. pc \in {"group", "record"} => isa \in 1..Len(IsaOrder) /\ i \in 0..Len(Groups) /\ Len(Groups) \in Nat
  BY <1>a, TableFacts, TablesAssumption DEF TypeOK, LoopsInv
<1>c. pc = "record" => /\ Groups[i + 1] \in DOMAIN RecsOf /\ i + 1 \in 1..Len(Groups)
                      /\ Len(Records) \in Nat /\ DOMAIN Records = 1..Len(Records)
  <2> SUFFICES ASSUME pc = "record" PROVE /\ Groups[i + 1] \in DOMAIN RecsOf /\ i + 1 \in 1..Len(Groups)
                                         /\ Len(Records) \in Nat /\ DOMAIN Records = 1..Len(Records)
    OBVIOUS
  <2>1. i + 1 \in 1..Len(Groups)
    BY <1>a, <1>b DEF TypeOK
  <2>2. Groups[i + 1] \in DOMAIN RecsOf
    BY <1>b, <2>1, TableFacts
  <2> QED
    BY <2>1, <2>2, GroupFacts DEF Records
<1>1. CASE NoMoreGroups
  BY <1>1, <1>b, ReportsInv DEF NoMoreGroups
<1>2. CASE NextGroup
  <2> USE <1>2 DEF NextGroup
  <2>1. Groups' = Groups /\ Records' = Records
    BY DEF Groups, Records
  <2>2. Groups[i + 1] \in DOMAIN RecsOf
    BY <1>a, <1>b, TableFacts DEF TypeOK
  <2>3. Len(Records) \in Nat
    BY <2>2, GroupFacts DEF Records
  <2>4. TypeOK'
    BY <1>a, <1>b, <2>1, <2>3 DEF TypeOK
  <2>5. LoopsInv'
    BY <1>a, <1>b, <2>1 DEF LoopsInv
  <2> QED
    BY <1>a, <2>4, <2>5 DEF CollectorInv, XtestInv
<1>3. CASE RecordSatisfied
  <2> USE <1>3 DEF RecordSatisfied
  <2>1. Groups' = Groups /\ Records' = Records /\ j \in Nat /\ j' \in 0..Len(Records)
    BY <1>a, <1>c DEF Groups, Records, TypeOK
  <2>2. TypeOK'
    BY <1>a, <1>b, <2>1 DEF TypeOK
  <2>3. \A k \in 1..j' : RecordHolds(Records[k])
    BY <1>a, <2>1 DEF LoopsInv
  <2>4. \A r : RecordHolds(r)' <=> RecordHolds(r)
    BY DEF RecordHolds, Cpuid
  <2>5. LoopsInv'
    BY <1>a, <1>b, <2>1, <2>3, <2>4 DEF LoopsInv
  <2> QED
    BY <1>a, <2>2, <2>5 DEF CollectorInv, XtestInv
<1>4. CASE RecordFails
  <2> USE <1>4 DEF RecordFails
  <2>1. Groups' = Groups
    BY DEF Groups
  <2>2. j + 1 \in DOMAIN RecsOf[Groups[i + 1]] /\ ~RecordHolds(RecsOf[Groups[i + 1]][j + 1])
    BY <1>a, <1>c DEF Records, TypeOK
  <2>3. ~HasGroup(host, Groups[i + 1])
    BY <1>a, <1>c, <2>2, GroupFails DEF TypeOK
  <2>4. TypeOK'
    BY <1>a, <1>b, <1>c, <2>1 DEF TypeOK
  <2>5. LoopsInv'
    BY <1>a, <1>b, <1>c, <2>1, <2>3 DEF LoopsInv
  <2> QED
    BY <1>a, <2>4, <2>5 DEF CollectorInv, XtestInv
<1>5. CASE GroupSupported
  BY <1>5, <1>b, ReportsInv DEF GroupSupported
<1>6. CASE InstallHandlers
  <2> USE <1>6 DEF InstallHandlers
  <2>1. Groups' = Groups
    BY DEF Groups
  <2>2. handled' = Signals
    BY <1>a DEF TypeOK
  <2> QED
    BY <1>a, <2>1, <2>2 DEF CollectorInv, TypeOK, LoopsInv, XtestInv
<1>7. CASE Xtest
  <2> USE <1>7 DEF Xtest
  <2>1. Groups' = Groups
    BY DEF Groups
  <2>2. host.xtest \in handled \cup {"runs"}
    BY <1>a, HostsAssumption DEF TypeOK, XtestInv
  <2>3. pc' = "done" /\ row' = Append(row, host.xtest = "runs")
    BY <1>a, <2>2 DEF XtestInv
  <2>4. row' \in Seq(BOOLEAN)
    BY <1>a, <2>3 DEF TypeOK
  <2> QED
    BY <1>a, <2>1, <2>3, <2>4 DEF CollectorInv, TypeOK, LoopsInv, XtestInv
<1>8. CASE UNCHANGED vars
  <2>1. Groups' = Groups /\ Records' = Records /\ \A r : RecordHolds(r)' <=> RecordHolds(r)
    BY <1>8 DEF vars, Groups, Records, RecordHolds, Cpuid
  <2> QED
    BY <1>a, <1>8, <2>1 DEF CollectorInv, TypeOK, LoopsInv, XtestInv, vars
<1> QED
  BY <1>1, <1>2, <1>3, <1>4, <1>5, <1>6, <1>7, <1>8 DEF Next

(* The inductive invariant of the collector.                                *)
THEOREM CollectorInvariance == Spec => []CollectorInv
BY InitCollectorInv, CollectorInvStep, PTL DEF Spec

(* The loops stay within XED's lists, a row is never ahead of the ISA-SETs, *)
(* and no signal of _xtest finds the process without a handler.             *)
THEOREM CollectorTypeCorrect == Spec => []TypeOK
<1>1. CollectorInv => TypeOK
  BY DEF CollectorInv
<1> QED
  BY CollectorInvariance, <1>1, PTL

----------------------------------------------------------------------------
(* Each step writes a column that is true or in doubt, or none.            *)
LEMMA HostFixed ==
  ASSUME UNCHANGED host
  PROVE  UNCHANGED <<Truth, Doubtful>>
BY DEF Truth, Doubtful

LEMMA ColumnWritten ==
  ASSUME TypeOK, NEW b \in BOOLEAN, isa \in Columns, Len(row) = isa - 1,
         row' = Append(row, b), isa \in Doubtful \/ b = Truth[isa], UNCHANGED host
  PROVE  Report!Next
<1>1. Truth' = Truth /\ Doubtful' = Doubtful
  BY HostFixed
<1>2. isa \in Int /\ row \in Seq(BOOLEAN) /\ Len(row) \in Nat /\ DOMAIN row = 1..Len(row)
  BY TablesAssumption DEF Columns, TypeOK
<1>3. isa \notin DOMAIN row
  BY <1>2
<1>4. row' = [f \in DOMAIN row \cup {isa} |-> IF f = isa THEN b ELSE row[f]]
  <2>1. DOMAIN row' = DOMAIN row \cup {isa} /\ \A f \in DOMAIN row : f # isa /\ row'[f] = row[f]
    BY <1>2, <1>3
  <2>2. row'[isa] = b
    BY <1>2
  <2>3. row' \in Seq(BOOLEAN)
    BY <1>2
  <2>4. row' = [f \in DOMAIN row' |-> row'[f]]
    BY <2>3, LenProperties
  <2> QED
    BY <2>1, <2>2, <2>4
<1>5. Report!Write(isa, b)
  BY <1>1, <1>3, <1>4 DEF Report!Write
<1> QED
  BY <1>5 DEF Report!Next

LEMMA NothingWritten ==
  ASSUME UNCHANGED <<host, row>>
  PROVE  UNCHANGED <<Truth, Doubtful, row>>
BY HostFixed

LEMMA ReportInit == Init => Report!Init
<1> SUFFICES ASSUME Init PROVE Report!Init
  OBVIOUS
<1>1. \A c \in Columns : Truth[c] \in BOOLEAN
  BY DEF Truth, HasIsaSet, HasGroup
<1>2. Truth \in [Columns -> BOOLEAN]
  BY <1>1 DEF Truth
<1>3. Doubtful \in SUBSET Columns
  <2>1. 1..Len(IsaOrder) \subseteq Columns
    BY TablesAssumption DEF Columns
  <2> QED
    BY <2>1 DEF Doubtful
<1> QED
  BY <1>2, <1>3 DEF Init, Report!Init

LEMMA ReportStep ==
  ASSUME CollectorInv, CollectorInv', [Next]_vars
  PROVE  [Report!Next]_<<Truth, Doubtful, row>>
<1>a. TypeOK /\ LoopsInv /\ XtestInv
  BY DEF CollectorInv
<1>b. pc \in {"group", "record"} =>
        /\ isa \in 1..Len(IsaOrder) /\ isa \in Columns /\ Len(row) = isa - 1
        /\ i \in 0..Len(Groups) /\ Len(Groups) \in Nat /\ Groups \in Seq(DOMAIN RecsOf)
        /\ Truth[isa] = HasIsaSet(host, IsaOrder[isa])
        /\ Groups = GroupsOf[IsaOrder[isa]] /\ Len(Groups) <= MAX_CPUID_GROUPS_PER_ISA_SET
  BY <1>a, TableFacts, TablesAssumption DEF TypeOK, LoopsInv, Columns, Truth, Groups
<1>1. CASE NoMoreGroups
  <2> DEFINE b == i # MAX_CPUID_GROUPS_PER_ISA_SET /\ i = 0
  <2>1. pc = "group" /\ i = Len(Groups) /\ Reports(b) /\ (UNCHANGED host) /\ (b <=> i = 0)
    BY <1>1, <1>b, TablesAssumption DEF NoMoreGroups
  <2>2. HasIsaSet(host, IsaOrder[isa]) <=> i = 0
    <3>1. CASE i = 0
      BY <1>b, <2>1, <3>1, EmptySeq DEF HasIsaSet
    <3>2. CASE i # 0
      <4>1. Groups # <<>> /\ DOMAIN Groups = 1..i
        BY <1>b, <2>1, <3>2, EmptySeq
      <4> QED
        BY <1>a, <1>b, <2>1, <3>2, <4>1 DEF HasIsaSet, LoopsInv
    <3> QED
      BY <3>1, <3>2
  <2>3. b = Truth[isa] /\ b \in BOOLEAN
    BY <1>b, <2>1, <2>2 DEF HasIsaSet, HasGroup
  <2> QED
    BY <1>a, <1>b, <2>1, <2>3, ColumnWritten DEF Reports
<1>2. CASE GroupSupported
  <2>1. pc = "record" /\ Reports(TRUE) /\ UNCHANGED host
    BY <1>2 DEF GroupSupported
  <2>2. i + 1 \in DOMAIN Groups /\ Groups[i + 1] \in DOMAIN RecsOf /\ j \in 0..Len(Records)
    BY <1>a, <1>b, <2>1 DEF TypeOK
  <2>3. j = Len(Records) /\ DOMAIN Records = 1..j
    BY <1>2, <2>2, GroupFacts, TablesAssumption DEF GroupSupported, Records
  <2>4. HasGroup(host, Groups[i + 1]) \/ Misleads(host, Groups[i + 1])
    BY <1>a, <2>1, <2>2, <2>3, GroupHolds DEF LoopsInv, Records, TypeOK
  <2>5. isa \in Doubtful \/ Truth[isa] = TRUE
    <3>1. CASE HasIsaSet(host, IsaOrder[isa])
      BY <1>b, <2>1, <3>1
    <3>2. CASE ~HasIsaSet(host, IsaOrder[isa])
      <4>1. Misleads(host, Groups[i + 1])
        BY <1>b, <2>1, <2>2, <2>4, <3>2 DEF HasIsaSet
      <4> QED
        BY <1>b, <2>1, <2>2, <3>2, <4>1 DEF Doubtful
    <3> QED
      BY <3>1, <3>2
  <2> QED
    BY <1>a, <1>b, <2>1, <2>5, ColumnWritten DEF Reports
<1>3. CASE Xtest
  <2> USE <1>3 DEF Xtest
  <2>1. host.xtest \in handled \cup {"runs"}
    BY <1>a, HostsAssumption DEF TypeOK, XtestInv
  <2>2. row' = Append(row, host.xtest = "runs") /\ UNCHANGED host
    BY <1>a, <2>1 DEF XtestInv
  <2>3. isa = Len(IsaOrder) + 1 /\ Len(row) = isa - 1
    BY <1>a, TablesAssumption DEF TypeOK, LoopsInv
  <2>4. isa \in Columns /\ Truth[isa] = (host.xtest = "runs")
    BY <2>3, TablesAssumption DEF Columns, Truth
  <2> QED
    BY <1>a, <2>2, <2>3, <2>4, ColumnWritten
<1>4. CASE NextGroup \/ RecordSatisfied \/ RecordFails \/ InstallHandlers \/ UNCHANGED vars
  <2>1. UNCHANGED <<host, row>>
    BY <1>4 DEF NextGroup, RecordSatisfied, RecordFails, InstallHandlers, vars
  <2> QED
    BY <2>1, NothingWritten
<1> QED
  BY <1>1, <1>2, <1>3, <1>4 DEF Next

(* collector.c implements FeatureReport: whatever it has printed is true of *)
(* the host, column by column and in XED's order, unless the host lacks the *)
(* ISA-SET and a leaf that only its absence decides; and it is not killed   *)
(* by a signal of _xtest.                                                   *)
THEOREM CollectorImplementsReport == Spec => ImplementsReport
<1>1. CollectorInv /\ CollectorInv' /\ [Next]_vars => [Report!Next]_<<Truth, Doubtful, row>>
  BY ReportStep
<1>2. CollectorInv => pc # "killed"
  BY DEF CollectorInv, TypeOK
<1> QED
  BY ReportInit, CollectorInvariance, <1>1, <1>2, PTL DEF Spec, ImplementsReport, Report!Spec

----------------------------------------------------------------------------
(* The earlier reader.                                                      *)
LEMMA ItemsFacts ==
  /\ Len(Items) \in Nat \ {0}
  /\ \A k \in 1..Len(Items) : DOMAIN Items[k] = 1..Len(Items[k])
BY ItemsAssumption

(* Of a readable condition, the bit is the one that the line names.         *)
LEMMA ReadableExact ==
  ASSUME NEW c, Readable(c)
  PROVE  CpuidAvailable(c) = {HasBit(c)}
<1>1. Queried(c) = c.leaf /\ c.leaf \in DOMAIN cpu.regs
  BY DEF Readable, Queried
<1> QED
  BY <1>1 DEF CpuidAvailable, RegBit, HasBit

LEMMA ConditionType ==
  ASSUME NEW c, NEW b \in CpuidAvailable(c)
  PROVE  b \in BOOLEAN
BY DEF CpuidAvailable

LEMMA RtmType ==
  ASSUME cpu \in OldHosts, NEW b \in RtmVisible
  PROVE  b \in BOOLEAN /\ cpu.rtm \in BOOLEAN /\ (b # cpu.rtm => cpu.rtm)
BY OldHostsAssumption DEF RtmVisible

LEMMA InitOldInv == OldInit => OldInv
BY ItemsFacts DEF OldInit, OldInv, Conditions

(* A new item starts with nothing known of its conditions.                  *)
LEMMA NextItemInv ==
  ASSUME OldInv, NEW b \in BOOLEAN, step = "items", item <= Len(Items), values' = Append(values, b),
         NextItem, UNCHANGED <<cpu, handlers>>
  PROVE  OldInv'
<1> USE DEF NextItem
<1>1. item \in 1..Len(Items) /\ Len(Items) \in Nat /\ values \in Seq(BOOLEAN) /\ Len(values) = item - 1
  BY ItemsFacts DEF OldInv
<1>2. values' \in Seq(BOOLEAN) /\ Len(values') = item
  BY <1>1
<1>3. item' = item + 1 /\ Len(values') = item' - 1
  BY <1>1, <1>2
<1>4. \/ step' = "items" /\ item' \in 1..Len(Items)
      \/ step' = "xtest" /\ Len(values') = Len(Items)
  BY <1>1, <1>2
<1>5. step' = "items" => Len(Conditions') \in Nat
  BY <1>4, ItemsAssumption DEF Conditions
<1> QED
  BY <1>1, <1>2, <1>3, <1>4, <1>5 DEF OldInv

(* After one more condition, is_available still says what they do.          *)
LEMMA ConditionInv ==
  ASSUME OldInv, EvaluateCondition
  PROVE  OldInv'
<1> USE DEF EvaluateCondition
<1>1. item \in 1..Len(Items) /\ Len(Conditions) \in Nat
  BY ItemsAssumption DEF OldInv, Conditions
<1>2. PICK b \in CpuidAvailable(Conditions[cond]) : is_available' = (is_available /\ b)
  OBVIOUS
<1>3. b \in BOOLEAN /\ (Readable(Conditions[cond]) => (b <=> HasBit(Conditions[cond])))
  BY <1>2, ConditionType, ReadableExact
<1>4. /\ Conditions' = Conditions /\ cond \in Nat \ {0} /\ cond' = cond + 1
      /\ \A c : (Readable(c)' <=> Readable(c)) /\ (HasBit(c)' <=> HasBit(c))
  BY DEF Conditions, Readable, HasBit, OldInv
<1>5. is_available' \in BOOLEAN
  BY <1>2, <1>3 DEF OldInv
<1>6. /\ cond' <= Len(Conditions') + 1
      /\ is_available' => \A m \in 1..(cond' - 1) : Readable(Conditions[m]) => HasBit(Conditions[m])
      /\ ~is_available' => \E m \in 1..(cond' - 1) : Readable(Conditions[m]) => ~HasBit(Conditions[m])
  <2>2. 1..(cond' - 1) = 1..(cond - 1) \cup {cond}
    BY <1>4
  <2>3. /\ is_available => \A m \in 1..(cond - 1) : Readable(Conditions[m]) => HasBit(Conditions[m])
        /\ ~is_available => \E m \in 1..(cond - 1) : Readable(Conditions[m]) => ~HasBit(Conditions[m])
    BY DEF OldInv
  <2>4. cond' <= Len(Conditions') + 1
    BY <1>1, <1>4
  <2> QED
    BY <1>2, <1>3, <2>2, <2>3, <2>4
<1> QED
  BY <1>4, <1>5, <1>6 DEF OldInv

LEMMA OldInvStep == OldInv /\ [OldNext]_oldVars => OldInv'
<1> SUFFICES ASSUME OldInv, [OldNext]_oldVars PROVE OldInv'
  OBVIOUS
<1>0. step = "items" => item <= Len(Items)
  BY ItemsFacts DEF OldInv
<1>1. CASE EvaluateRtm
  <2>1. PICK b \in RtmVisible : values' = Append(values, b)
    BY <1>1 DEF EvaluateRtm
  <2>2. b \in BOOLEAN
    BY <2>1, RtmType DEF OldInv
  <2> QED
    BY <1>0, <1>1, <2>1, <2>2, NextItemInv DEF EvaluateRtm
<1>2. CASE EvaluateCondition
  BY <1>2, ConditionInv
<1>3. CASE SetValue
  <2>1. is_available \in BOOLEAN
    BY DEF OldInv
  <2> QED
    BY <1>0, <1>3, <2>1, NextItemInv DEF SetValue
<1>4. CASE TryXtest
  <2>1. \A b \in BOOLEAN : Append(values, b) \in Seq(BOOLEAN)
    BY DEF OldInv
  <2>2. cpu.xtest \in handlers \cup {"runs"}
    BY <1>4, OldHostsAssumption DEF TryXtest, OldInv
  <2>3. values' \in Seq(BOOLEAN) /\ step' = "lscpu"
    BY <1>4, <2>1, <2>2 DEF TryXtest
  <2> QED
    BY <1>4, <2>3 DEF TryXtest, OldInv, Conditions, Readable, HasBit
<1>5. CASE ReadItems
  BY <1>5 DEF ReadItems, OldInv, Conditions, Readable, HasBit
<1>6. CASE Sigsetjmp
  BY <1>6 DEF Sigsetjmp, OldInv, Conditions, Readable, HasBit
<1>7. CASE Describe \/ CreateCsv \/ UNCHANGED oldVars
  BY <1>7 DEF Describe, CreateCsv, oldVars, OldInv, Conditions, Readable, HasBit
<1> QED
  BY <1>1, <1>2, <1>3, <1>4, <1>5, <1>6, <1>7 DEF OldNext

(* A value that is appended fills the next column.                          *)
LEMMA ValueWritten ==
  ASSUME OldInv, NEW b \in BOOLEAN, values' = Append(values, b), UNCHANGED cpu,
         Len(values) + 1 \in OldColumns,
         Len(values) + 1 \in OldDoubtful \/ b = OldTruth[Len(values) + 1]
  PROVE  OldReport!Next
<1> DEFINE n == Len(values) + 1
<1>1. OldTruth' = OldTruth /\ OldDoubtful' = OldDoubtful
  BY DEF OldTruth, Has, HasBit, OldDoubtful, Unsettled, Readable
<1>2. values \in Seq(BOOLEAN) /\ Len(values) \in Nat
  BY DEF OldInv
<1>3. /\ DOMAIN values = 1..Len(values) /\ DOMAIN values' = DOMAIN values \cup {n}
      /\ \A k \in DOMAIN values : values'[k] = values[k]
      /\ values'[n] = b /\ n \notin DOMAIN values
  BY <1>2
<1>6. values' = [k \in DOMAIN values' |-> values'[k]]
  <2>1. values' \in Seq(BOOLEAN)
    BY <1>2
  <2> QED
    BY <2>1, LenProperties
<1> HIDE DEF n
<1>4. values' = [g \in DOMAIN values \cup {n} |-> IF g = n THEN b ELSE values[g]]
  BY <1>3, <1>6
<1>5. OldReport!Write(n, b)
  BY <1>1, <1>3, <1>4 DEF OldReport!Write, n
<1> QED
  BY <1>5 DEF OldReport!Next, n

LEMMA OldReportInit == OldInit => OldReport!Init
<1> SUFFICES ASSUME OldInit PROVE OldReport!Init
  OBVIOUS
<1>1. cpu.rtm \in BOOLEAN
  BY OldHostsAssumption DEF OldInit
<1>2. \A k : Has(k) \in BOOLEAN
  BY DEF Has
<1>3. OldTruth \in [OldColumns -> BOOLEAN]
  BY <1>1, <1>2 DEF OldTruth
<1>4. OldDoubtful \in SUBSET OldColumns
  <2>1. 1..Len(Items) \subseteq OldColumns
    BY ItemsFacts DEF OldColumns
  <2> QED
    BY <2>1 DEF OldDoubtful
<1> QED
  BY <1>3, <1>4 DEF OldReport!Init, OldInit

LEMMA OldReportStep ==
  ASSUME OldInv, [OldNext]_oldVars
  PROVE  [OldReport!Next]_<<OldTruth, OldDoubtful, values>>
<1>a. step = "items" => item \in 1..Len(Items) /\ Len(values) + 1 = item /\ item \in OldColumns
                       /\ item # Len(Items) + 1 /\ Len(Items) \in Nat
  BY ItemsFacts DEF OldInv, OldColumns
<1>1. CASE EvaluateRtm
  <2>1. PICK b \in RtmVisible : values' = Append(values, b)
    BY <1>1 DEF EvaluateRtm
  <2>2. b \in BOOLEAN /\ (b # cpu.rtm => cpu.rtm) /\ UNCHANGED cpu /\ step = "items" /\ item = RtmIndex
    BY <1>1, <2>1, RtmType DEF EvaluateRtm, OldInv
  <2>3. OldTruth[item] = cpu.rtm
    BY <1>a, <2>2 DEF OldTruth
  <2>4. cpu.rtm => item \in OldDoubtful
    BY <1>a, <2>2 DEF OldDoubtful
  <2>5. item \in OldDoubtful \/ b = OldTruth[item]
    BY <2>2, <2>3, <2>4
  <2> QED
    BY <1>a, <2>1, <2>2, <2>5, ValueWritten
<1>2. CASE SetValue
  <2>1. /\ step = "items" /\ item # RtmIndex /\ UNCHANGED cpu
        /\ values' = Append(values, is_available) /\ is_available \in BOOLEAN
    BY <1>2 DEF SetValue, OldInv
  <2>2. DOMAIN Items[item] = 1..(cond - 1)
    <3>1. Len(Conditions) \in Nat /\ DOMAIN Items[item] = 1..Len(Conditions)
      BY <1>a, <2>1, ItemsFacts, ItemsAssumption DEF Conditions
    <3>2. cond = Len(Conditions) + 1
      BY <1>2, <1>a, <2>1, <3>1 DEF SetValue, OldInv
    <3> QED
      BY <3>1, <3>2
  <2>3. /\ is_available => \A m \in DOMAIN Items[item] : Readable(Items[item][m]) => HasBit(Items[item][m])
        /\ ~is_available => \E m \in DOMAIN Items[item] : Readable(Items[item][m]) => ~HasBit(Items[item][m])
    BY <2>1, <2>2 DEF OldInv, Conditions
  <2>4. OldTruth[item] = Has(item)
    BY <1>a, <2>1 DEF OldTruth
  <2>5. item \in OldDoubtful <=> Unsettled(item)
    BY <1>a, <2>1 DEF OldDoubtful
  <2>6. item \in OldDoubtful \/ is_available = OldTruth[item]
    <3>1. CASE Unsettled(item)
      BY <2>5, <3>1
    <3>2. CASE ~Unsettled(item)
      <4>1. is_available <=> Has(item)
        BY <2>3, <3>2 DEF Unsettled, Has
      <4> QED
        BY <2>1, <2>4, <4>1 DEF Has
    <3> QED
      BY <3>1, <3>2
  <2> QED
    BY <1>a, <2>1, <2>6, ValueWritten
<1>3. CASE TryXtest /\ values' # values
  <2>1. values' = Append(values, cpu.xtest = "runs") /\ UNCHANGED cpu
    BY <1>3 DEF TryXtest
  <2>2. Len(values) = Len(Items) /\ Len(values) + 1 \in OldColumns
    BY <1>3, ItemsFacts DEF TryXtest, OldInv, OldColumns
  <2>3. OldTruth[Len(values) + 1] = (cpu.xtest = "runs")
    BY <2>2 DEF OldTruth
  <2> QED
    BY <2>1, <2>2, <2>3, ValueWritten
<1>4. CASE UNCHANGED <<cpu, values>>
  BY <1>4 DEF OldTruth, OldDoubtful, Unsettled, Has, HasBit, Readable
<1> QED
  BY <1>1, <1>2, <1>3, <1>4
     DEF OldNext, ReadItems, EvaluateCondition, Sigsetjmp, TryXtest, Describe, CreateCsv, oldVars

(* The earlier reader implements FeatureReport, too: each line comes out    *)
(* as its readable conditions settle it, in whatever way the queries that   *)
(* fail or ask for another leaf turn out, and the next line starts afresh.  *)
THEOREM OldReaderImplementsReport == OldSpec => OldImplementsReport
<1>1. OldSpec => []OldInv
  BY InitOldInv, OldInvStep, PTL DEF OldSpec
<1>2. OldInv /\ [OldNext]_oldVars => [OldReport!Next]_<<OldTruth, OldDoubtful, values>>
  BY OldReportStep
<1>3. OldInv => step # "killed"
  BY DEF OldInv
<1> QED
  BY OldReportInit, <1>1, <1>2, <1>3, PTL DEF OldSpec, OldImplementsReport, OldReport!Spec

============================================================================
