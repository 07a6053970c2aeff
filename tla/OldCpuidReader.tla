--------------------------- MODULE OldCpuidReader ---------------------------
(* src/old/cpu_feature_collector/get_cpuid: main.c with cpuid_info.c, tsx.c  *)
(* and csv_util.c. It reads the conditions from cpuid.txt, ANDs the ones of  *)
(* a line and writes cpuid.csv at the end.                                   *)
EXTENDS Integers, Sequences

CONSTANTS Items,      \* the lines of cpuid.txt: sequences of [leaf, reg, bit]
          Atoi,       \* the leaf that atoi makes of the hexadecimal leaf of a line
          RtmIndex,   \* the line whose value comes from lscpu
          OldHosts

ASSUME ItemsAssumption ==
  Items # <<>> /\ Items \in Seq(Seq([leaf : DOMAIN Atoi, reg : {"EAX", "EBX", "ECX", "EDX"}, bit : 0..31]))

ASSUME OldHostsAssumption ==
  \A h \in OldHosts : h.rtm \in BOOLEAN /\ h.xtest \in {"SIGILL", "SIGSEGV", "runs"}

VARIABLES cpu,        \* the CPU, as in CpuidCollector, with lscpu's rtm flag
          step,       \* "init", "items", "xtest", "_xtest", "lscpu", "csv", "done", "exit" or "killed"
          item,       \* main's i, from 1
          cond,       \* main's j, from 1
          is_available,
          values,     \* main's values, as far as they are set
          handlers,   \* signals with a handler
          csv         \* cpuid.csv: "image" (the one that comes with the AMI) or "values"

oldVars == <<cpu, step, item, cond, is_available, values, handlers, csv>>

----------------------------------------------------------------------------
(* is_cpuid_available ignores the result of __get_cpuid_count, which leaves  *)
(* the registers uninitialised when the CPU does not have the leaf: any bit. *)
Queried(c) == Atoi[c.leaf]

RegBit(c) == (cpu.regs[Queried(c)][c.reg] \div 2^c.bit) % 2

CpuidAvailable(c) == IF Queried(c) \in DOMAIN cpu.regs THEN {RegBit(c) = 1} ELSE BOOLEAN

(* is_rtm_visible: 0 as well if the pipe cannot be opened.                   *)
RtmVisible == {cpu.rtm, FALSE}

OldInit ==
  /\ cpu \in OldHosts
  /\ step = "init"
  /\ item = 1
  /\ cond = 1
  /\ is_available = TRUE
  /\ values = <<>>
  /\ handlers = {}
  /\ csv = "image"

(* init_info_array exits if cpuid.txt cannot be opened.                      *)
ReadItems ==
  /\ step = "init"
  /\ step' \in {"items", "exit"}
  /\ UNCHANGED <<cpu, item, cond, is_available, values, handlers, csv>>

Conditions == Items[item]

NextItem_KeepsAvailable ==
  /\ item' = item + 1
  /\ cond' = 1
  /\ step' = IF item = Len(Items) THEN "xtest" ELSE "items"
  /\ UNCHANGED is_available

(* The next pass of main's loop starts with is_available = true.             *)
NextItem ==
  /\ item' = item + 1
  /\ cond' = 1
  /\ is_available' = TRUE
  /\ step' = IF item = Len(Items) THEN "xtest" ELSE "items"

EvaluateRtm ==
  /\ step = "items"
  /\ item = RtmIndex
  /\ \E b \in RtmVisible : values' = Append(values, b)
  /\ NextItem
  /\ UNCHANGED <<cpu, handlers, csv>>

(* The inner loop goes on after a condition that does not hold.              *)
EvaluateCondition ==
  /\ step = "items"
  /\ item # RtmIndex
  /\ cond <= Len(Conditions)
  /\ \E b \in CpuidAvailable(Conditions[cond]) : is_available' = (is_available /\ b)
  /\ cond' = cond + 1
  /\ UNCHANGED <<cpu, step, item, values, handlers, csv>>

SetValue ==
  /\ step = "items"
  /\ item # RtmIndex
  /\ cond > Len(Conditions)
  /\ values' = Append(values, is_available)
  /\ NextItem
  /\ UNCHANGED <<cpu, handlers, csv>>

(* try_xtest                                                                 *)
Sigsetjmp ==
  /\ step = "xtest"
  /\ handlers' = handlers \cup {"SIGILL", "SIGSEGV"}
  /\ step' = "_xtest"
  /\ UNCHANGED <<cpu, item, cond, is_available, values, csv>>

TryXtest ==
  /\ step = "_xtest"
  /\ IF cpu.xtest \in handlers \cup {"runs"}
     THEN step' = "lscpu" /\ values' = Append(values, cpu.xtest = "runs")
     ELSE step' = "killed" /\ UNCHANGED values
  /\ UNCHANGED <<cpu, item, cond, is_available, handlers, csv>>

(* create_csv asks curl and lscpu first, and exits if one cannot be started. *)
Describe ==
  /\ step = "lscpu"
  /\ step' \in {"csv", "exit"}
  /\ UNCHANGED <<cpu, item, cond, is_available, values, handlers, csv>>

(* The CSV stays the image's if it cannot be opened: main ignores that.      *)
CreateCsv ==
  /\ step = "csv"
  /\ csv' \in {"values", "image"}
  /\ step' = "done"
  /\ UNCHANGED <<cpu, item, cond, is_available, values, handlers>>

OldNext == \/ ReadItems
           \/ EvaluateRtm \/ EvaluateCondition \/ SetValue
           \/ Sigsetjmp \/ TryXtest \/ Describe \/ CreateCsv

OldSpec == OldInit /\ [][OldNext]_oldVars

----------------------------------------------------------------------------
(* The reference: the bit that a line of cpuid.txt names, in the leaf it     *)
(* names; a leaf that the CPU does not have has no bit set.                  *)
HasBit(c) == c.leaf \in DOMAIN cpu.regs /\ (cpu.regs[c.leaf][c.reg] \div 2^c.bit) % 2 = 1

Has(k) == \A m \in DOMAIN Items[k] : HasBit(Items[k][m])

OldColumns == 1..(Len(Items) + 1)

OldTruth == [k \in OldColumns |-> IF k = Len(Items) + 1 THEN cpu.xtest = "runs"
                                ELSE IF k = RtmIndex THEN cpu.rtm ELSE Has(k)]

(* A condition is read wrongly only if atoi changes its leaf (d, 80000001)   *)
(* or the CPU does not have it. One of the others that fails still settles   *)
(* its line.                                                                 *)
Readable(c) == Atoi[c.leaf] = c.leaf /\ c.leaf \in DOMAIN cpu.regs

Unsettled(k) == /\ \E m \in DOMAIN Items[k] : ~Readable(Items[k][m])
                /\ \A m \in DOMAIN Items[k] : Readable(Items[k][m]) => HasBit(Items[k][m])

(* RTM is in doubt if lscpu lists it: the pipe may not open.                 *)
OldDoubtful == { k \in 1..Len(Items) : IF k = RtmIndex THEN cpu.rtm ELSE Unsettled(k) }

OldReport == INSTANCE FeatureReport
               WITH Features <- OldColumns, truth <- OldTruth, doubtful <- OldDoubtful, report <- values

(* What the earlier reader finds is what the host has, in every line that    *)
(* its readable conditions settle: a query that fails, or that asks for      *)
(* another leaf, spoils no more than its own line, and only if no other      *)
(* condition of it fails; no column is filled twice, and no signal of        *)
(* _xtest kills the process (main, is_cpuid_available, parse_cpuid).         *)
OldImplementsReport == OldReport!Spec /\ [](step # "killed")

(* What CpuidCollector_proofs needs of it: values are as many as the lines   *)
(* that were evaluated, and is_available is what the conditions so far say.  *)
OldInv ==
  /\ cpu \in OldHosts
  /\ step \in {"init", "items", "xtest", "_xtest", "lscpu", "csv", "done", "exit"}
  /\ values \in Seq(BOOLEAN)
  /\ is_available \in BOOLEAN
  /\ cond \in Nat \ {0}
  /\ step \in {"init", "items"} => item \in 1..Len(Items) /\ Len(values) = item - 1
  /\ step \in {"xtest", "_xtest"} => Len(values) = Len(Items)
  /\ step = "_xtest" => {"SIGILL", "SIGSEGV"} \subseteq handlers
  /\ (step \in {"init", "items"} /\ item # RtmIndex) =>
       /\ cond <= Len(Conditions) + 1
       /\ is_available => \A m \in 1..(cond - 1) : Readable(Conditions[m]) => HasBit(Conditions[m])
       /\ ~is_available => \E m \in 1..(cond - 1) : Readable(Conditions[m]) => ~HasBit(Conditions[m])
=============================================================================
