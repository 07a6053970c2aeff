-------------------------- MODULE MCFeatureReaders --------------------------
(* Both CPU feature readers on one host, and on every host of a small set.  *)
(* Registers have two bits, so that a field can be as wide as a register.   *)
EXTENDS CpuidCollector, OldCpuidReader, TLC

CONSTANTS base, sse, ssse, avx2, amx, keylocker, broken,
          g_sse, g_ssse, g_avx2, g_amx, g_kl, g_broken, g_odd,
          r_sse, r_ssse, r_avx2, r_amx, r_kl, r_klenabled, r_broken, r_odd

MCIsaOrder == <<base, sse, avx2, amx, keylocker, broken, ssse>>

(* base predates CPUID; ssse has two groups; avx2 is one record on leaf 7;  *)
(* keylocker is announced in leaf 7 and described in leaf 19; two groups    *)
(* cannot be evaluated.                                                     *)
MCGroupsOf == base :> <<>> @@ sse :> <<g_sse>> @@ avx2 :> <<g_avx2>> @@ amx :> <<g_amx>>
              @@ keylocker :> <<g_kl>> @@ broken :> <<g_broken, g_odd>> @@ ssse :> <<g_ssse, g_amx>>

MCRecsOf == g_sse :> <<r_sse>> @@ g_ssse :> <<r_sse, r_ssse>> @@ g_avx2 :> <<r_avx2>>
            @@ g_amx :> <<r_amx>> @@ g_kl :> <<r_kl, r_klenabled>> @@ g_broken :> <<r_broken>>
            @@ g_odd :> <<r_odd>>

Rec(leaf, reg, start, end, value) ==
  [leaf |-> leaf, reg |-> reg, bit_start |-> start, bit_end |-> end, value |-> value]

MCCpuidRec == r_sse :> Rec("1", "EDX", 0, 0, 1) @@ r_ssse :> Rec("1", "ECX", 1, 1, 1)
              @@ r_avx2 :> Rec("7", "EBX", 0, 0, 1)
              @@ r_amx :> Rec("7", "EDX", 0, 1, 2) @@ r_kl :> Rec("7", "ECX", 1, 1, 1)
              @@ r_klenabled :> Rec("19", "EBX", 0, 0, 1)
              @@ r_broken :> Rec("1", "EDX", 0, 0, 1) @@ r_odd :> Rec("1", "XCR0", 0, 0, 1)

MCKnownRecs == {r_sse, r_ssse, r_avx2, r_amx, r_kl, r_klenabled, r_odd}

Regs(ebx, ecx, edx) == [EAX |-> 0, EBX |-> ebx, ECX |-> ecx, EDX |-> edx]

(* Leaf 7, or 7 and 19, may be missing: CPUID answers with zeros or with   *)
(* the registers of the highest leaf there is. Leaf 7 announces leaf 19.    *)
Leaf7 == { Regs(ebx, ecx, edx) : ebx \in {0, 1}, ecx \in {0, 2}, edx \in {1, 2, 3} }

HighLeaves == {<<>>} \cup { "7" :> r @@ (IF r.ECX = 2 THEN "19" :> Regs(1, 0, 0) ELSE <<>>) : r \in Leaf7 }

MCHosts ==
  { [regs |-> "0" :> Regs(0, 0, 1) @@ "1" :> Regs(0, ecx1, edx1) @@ high,
     beyond |-> b, xtest |-> x, rtm |-> x = "runs"] :
      ecx1 \in {0, 2}, edx1 \in {0, 1, 3}, high \in HighLeaves,
      b \in {Regs(0, 0, 0), Regs(1, 1, 3)}, x \in {"runs", "SIGILL", "SIGSEGV"} }

Cond(leaf, reg, bit) == [leaf |-> leaf, reg |-> reg, bit |-> bit]

(* Lines of cpuid.txt: SSE, SSSE3, RTM, AVX2, XSAVEC on leaf d, FXSAVE64   *)
(* and KEYLOCKER, of whose two leaves atoi misreads the second.             *)
MCItems == << <<Cond("1", "EDX", 0)>>, <<Cond("1", "EDX", 0), Cond("1", "ECX", 1)>>,
              <<Cond("7", "EBX", 1)>>, <<Cond("7", "EBX", 0)>>, <<Cond("d", "EAX", 0)>>,
              <<Cond("1", "EDX", 1), Cond("80000001", "EDX", 1)>>,
              <<Cond("7", "ECX", 1), Cond("19", "EBX", 0)>> >>

MCAtoi == "1" :> "1" @@ "7" :> "7" @@ "d" :> "0" @@ "19" :> "13" @@ "80000001" :> "none"

BothInit == Init /\ cpu = host /\ OldInit

(* The new reader, then the old one: they share nothing but the host.       *)
BothNext == \/ Next /\ UNCHANGED oldVars
            \/ pc \in {"done", "killed"} /\ OldNext /\ UNCHANGED vars

BothSpec == BothInit /\ [][BothNext]_<<vars, oldVars>>
============================================================================
