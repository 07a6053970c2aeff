--------------------------- MODULE CpuidCollector ---------------------------
(* src/cpu_feature_collector/collector.c: is_isa_set_supported, try_xtest   *)
(* and main, against the host's CPUID instruction and XED's tables.         *)
EXTENDS Integers, Sequences

CONSTANTS IsaOrder,    \* the ISA-SETs in the order of their enumeration
          GroupsOf,    \* XED: the CPUID groups of an ISA-SET
          RecsOf,      \* XED: the records of a group
          CpuidRec,    \* XED: leaf, reg, bit_start, bit_end and value of a record
          KnownRecs,   \* the records that xed_get_cpuid_rec finds
          MAX_CPUID_GROUPS_PER_ISA_SET, MAX_CPUID_RECS_PER_GROUP,
          RegBits,     \* 32: the width of a register
          Hosts        \* the CPUs a reader may run on

GPRs == {"EAX", "EBX", "ECX", "EDX"}

Words == 0..(2^RegBits - 1)
Bits  == 0..(RegBits - 1)

Signals == {"SIGILL", "SIGSEGV"}

(* XED's limits are what its lists are at most, and there is an ISA-SET.    *)
ASSUME TablesAssumption ==
  /\ IsaOrder \in Seq(DOMAIN GroupsOf) /\ IsaOrder # <<>>
  /\ MAX_CPUID_GROUPS_PER_ISA_SET \in Nat \ {0}
  /\ MAX_CPUID_RECS_PER_GROUP \in Nat
  /\ \A s \in DOMAIN GroupsOf : /\ GroupsOf[s] \in Seq(DOMAIN RecsOf)
                                /\ Len(GroupsOf[s]) <= MAX_CPUID_GROUPS_PER_ISA_SET
  /\ \A g \in DOMAIN RecsOf : /\ RecsOf[g] \in Seq(DOMAIN CpuidRec)
                              /\ Len(RecsOf[g]) <= MAX_CPUID_RECS_PER_GROUP
  /\ \A r \in KnownRecs : /\ CpuidRec[r].bit_start \in Bits
                          /\ CpuidRec[r].bit_end \in CpuidRec[r].bit_start..(RegBits - 1)
                          /\ CpuidRec[r].value \in Words

ASSUME HostsAssumption ==
  \A h \in Hosts : /\ h.xtest \in Signals \cup {"runs"}
                  /\ \A leaf \in DOMAIN h.regs : h.regs[leaf] \in [GPRs -> Words]

VARIABLES host,             \* the CPU this process runs on
          pc,               \* "group", "record", "xtest", "_xtest", "done" or "killed"
          isa,              \* main's loop variable, as a position in IsaOrder
          i, j,             \* the loops of is_isa_set_supported, from 0
          row,              \* the second line of the CSV so far
          handled,          \* signals that have a handler
          xtest_available

vars == <<host, pc, isa, i, j, row, handled, xtest_available>>

----------------------------------------------------------------------------
(* The CPU. host.regs[leaf] are the registers of an implemented leaf (with  *)
(* its subleaf); any other leaf returns host.beyond, which is all zeros on  *)
(* AMD and the highest basic leaf on Intel.                                 *)
Cpuid(leaf) == IF leaf \in DOMAIN host.regs THEN host.regs[leaf] ELSE host.beyond

(* (1U << width) - 1: on x86 the shift count is taken modulo the width.     *)
Shl1(width) == 2^(width % RegBits)

Mask(width) == IF width = RegBits THEN 2^RegBits - 1 ELSE Shl1(width) - 1

(* (host_reg_val >> bit_start) & mask, for a mask of ones.                  *)
HostVal(host_reg_val, bit_start, bit_end) ==
  (host_reg_val \div 2^bit_start) % (Mask(bit_end - bit_start + 1) + 1)

(* One pass of the record loop's body, lines 47 to 92.                      *)
RecordHolds(r) ==
  /\ r \in KnownRecs
  /\ CpuidRec[r].reg \in GPRs
  /\ HostVal(Cpuid(CpuidRec[r].leaf)[CpuidRec[r].reg], CpuidRec[r].bit_start, CpuidRec[r].bit_end)
       = CpuidRec[r].value

Groups  == GroupsOf[IsaOrder[isa]]
Records == RecsOf[Groups[i + 1]]

----------------------------------------------------------------------------
(* is_isa_set_supported returns b, and main goes on with the next ISA-SET.  *)
Reports(b) ==
  /\ row' = Append(row, b)
  /\ isa' = isa + 1
  /\ i' = 0
  /\ pc' = IF isa = Len(IsaOrder) THEN "xtest" ELSE "group"

(* An INVALID group: supported if it is the first, that is, if there is     *)
(* none. After MAX_CPUID_GROUPS_PER_ISA_SET groups the loop just ends.      *)
NoMoreGroups ==
  /\ pc = "group"
  /\ i = MAX_CPUID_GROUPS_PER_ISA_SET \/ i = Len(Groups)
  /\ Reports(i # MAX_CPUID_GROUPS_PER_ISA_SET /\ i = 0)
  /\ UNCHANGED <<host, j, handled, xtest_available>>

NextGroup_KeepsJ ==
  /\ pc = "group"
  /\ i < MAX_CPUID_GROUPS_PER_ISA_SET
  /\ i < Len(Groups)
  /\ pc' = "record"
  /\ UNCHANGED <<host, isa, i, j, row, handled, xtest_available>>

NextGroup ==
  /\ pc = "group"
  /\ i < MAX_CPUID_GROUPS_PER_ISA_SET
  /\ i < Len(Groups)
  /\ j' = 0
  /\ pc' = "record"
  /\ UNCHANGED <<host, isa, i, row, handled, xtest_available>>

RecordSatisfied ==
  /\ pc = "record"
  /\ j < MAX_CPUID_RECS_PER_GROUP
  /\ j < Len(Records)
  /\ RecordHolds(Records[j + 1])
  /\ j' = j + 1
  /\ UNCHANGED <<host, pc, isa, i, row, handled, xtest_available>>

RecordFails ==
  /\ pc = "record"
  /\ j < MAX_CPUID_RECS_PER_GROUP
  /\ j < Len(Records)
  /\ ~RecordHolds(Records[j + 1])
  /\ i' = i + 1
  /\ pc' = "group"
  /\ UNCHANGED <<host, isa, j, row, handled, xtest_available>>

GroupSupported ==
  /\ pc = "record"
  /\ j = MAX_CPUID_RECS_PER_GROUP \/ j = Len(Records)
  /\ Reports(TRUE)
  /\ UNCHANGED <<host, j, handled, xtest_available>>

----------------------------------------------------------------------------
(* try_xtest: sigsetjmp, the handlers, then the instruction.                *)
InstallHandlers ==
  /\ pc = "xtest"
  /\ handled' = handled \cup Signals
  /\ pc' = "_xtest"
  /\ UNCHANGED <<host, isa, i, j, row, xtest_available>>

(* _xtest either runs or raises host.xtest. The handler, if there is one,   *)
(* clears the flag and jumps back to sigsetjmp, which returns it; without a *)
(* handler the process dies, and with it what it has buffered.              *)
Xtest ==
  /\ pc = "_xtest"
  /\ xtest_available' = (xtest_available /\ host.xtest = "runs")
  /\ IF host.xtest \in handled \cup {"runs"}
     THEN pc' = "done" /\ row' = Append(row, xtest_available')
     ELSE pc' = "killed" /\ UNCHANGED row
  /\ UNCHANGED <<host, isa, i, j, handled>>

----------------------------------------------------------------------------
Init ==
  /\ host \in Hosts
  /\ pc = "group"
  /\ isa = 1 /\ i = 0 /\ j = 0
  /\ row = <<>>
  /\ handled = {}
  /\ xtest_available = TRUE

Next == \/ NoMoreGroups \/ NextGroup
        \/ RecordSatisfied \/ RecordFails \/ GroupSupported
        \/ InstallHandlers \/ Xtest

Spec == Init /\ [][Next]_vars

----------------------------------------------------------------------------
(* The reference, stated bit by bit and without XED's encoding of an AND    *)
(* of records in an OR of groups as two loops with early exits.             *)
BitOf(v, b) == (v \div 2^b) % 2

FieldIs(v, bit_start, bit_end, value) ==
  \A b \in Bits : BitOf(value, b) = IF b <= bit_end - bit_start THEN BitOf(v, bit_start + b) ELSE 0

Advertises(h, r) ==
  /\ r \in KnownRecs
  /\ CpuidRec[r].reg \in GPRs
  /\ CpuidRec[r].leaf \in DOMAIN h.regs
  /\ FieldIs(h.regs[CpuidRec[r].leaf][CpuidRec[r].reg], CpuidRec[r].bit_start, CpuidRec[r].bit_end,
             CpuidRec[r].value)

HasGroup(h, g) == \A k \in DOMAIN RecsOf[g] : Advertises(h, RecsOf[g][k])

HasIsaSet(h, s) == \/ GroupsOf[s] = <<>>
                   \/ \E k \in DOMAIN GroupsOf[s] : HasGroup(h, GroupsOf[s][k])

Columns == 1..(Len(IsaOrder) + 1)

Truth == [c \in Columns |-> IF c <= Len(IsaOrder) THEN HasIsaSet(host, IsaOrder[c])
                                                 ELSE host.xtest = "runs"]

(* The code executes CPUID without asking for the highest leaf: the records  *)
(* of a leaf that the CPU does not have are compared with what it answers    *)
(* instead. That decides nothing if a record of the same group, on a leaf    *)
(* that exists, fails. XED has groups without such a record: those of AVX2   *)
(* and AVX_VNNI are one record each, on leaf 7 and its subleaf 1.            *)
Misleads(h, g) ==
  /\ \E k \in DOMAIN RecsOf[g] : CpuidRec[RecsOf[g][k]].leaf \notin DOMAIN h.regs
  /\ \A k \in DOMAIN RecsOf[g] : LET r == RecsOf[g][k] IN
       /\ r \in KnownRecs
       /\ CpuidRec[r].reg \in GPRs
       /\ CpuidRec[r].leaf \in DOMAIN h.regs => Advertises(h, r)

(* The ISA-SETs that may be taken for supported on a CPU without them.      *)
Doubtful == { c \in 1..Len(IsaOrder) :
                /\ ~HasIsaSet(host, IsaOrder[c])
                /\ \E k \in DOMAIN GroupsOf[IsaOrder[c]] : Misleads(host, GroupsOf[IsaOrder[c]][k]) }

(* The shift and the mask read a field as its bits are.                     *)
ASSUME FieldsAssumption ==
  \A v, value \in Words, bit_start, bit_end \in Bits :
    bit_start <= bit_end
      => (HostVal(v, bit_start, bit_end) = value <=> FieldIs(v, bit_start, bit_end, value))

(* The two loops of is_isa_set_supported stay within XED's lists, and a     *)
(* process that still runs has written one bit for every ISA-SET it passed; *)
(* no signal that _xtest can raise finds it without a handler.              *)
TypeOK ==
  /\ host \in Hosts
  /\ pc \in {"group", "record", "xtest", "_xtest", "done"}
  /\ isa \in 1..(Len(IsaOrder) + 1)
  /\ isa <= Len(IsaOrder) => i \in 0..Len(Groups)
  /\ pc = "record" => (isa <= Len(IsaOrder) /\ i < Len(Groups) /\ j \in 0..Len(Records))
  /\ row \in Seq(BOOLEAN)
  /\ (pc # "done") => (Len(row) = isa - 1)
  /\ handled \subseteq Signals

Report == INSTANCE FeatureReport
            WITH Features <- Columns, truth <- Truth, doubtful <- Doubtful, report <- row

(* What the collector prints, column by column, is what the host has, but   *)
(* for the ISA-SETs it lacks together with a leaf that none of the other    *)
(* records gives away; and no signal of _xtest kills it before it has       *)
(* printed the row (is_isa_set_supported, try_xtest and main).              *)
ImplementsReport == Report!Spec /\ [](pc # "killed")
============================================================================
