---------------------------- MODULE MCWorkloads ----------------------------
(* All programs on generations of Intel and AMD instances, and on virtual   *)
(* machines that hide AVX-512 but not VNNI, or AVX-512BW alone. The         *)
(* functions of the workload "sha" do not run here; TLC evaluates the       *)
(* assumptions about their flow.                                            *)
EXTENDS Workloads, MCShaFlow

Old       == {"SSE4"}
Ivy       == Old \cup {"RDRAND"}
Broadwell == Ivy \cup {"RDSEED", "AVX2", "BMI2", "ADOX_ADCX"}
Skylake   == Broadwell \cup {"PKU", "AVX512F_512", "AVX512BW_512"}
Cascade   == Skylake \cup {"AVX512_VNNI_512"}
Zen       == Broadwell \cup {"SHA"}
Zen3      == Zen \cup {"PKU"}
Masked    == Broadwell \cup {"AVX512_VNNI_512"}

NoBW      == Skylake \ {"AVX512BW_512"}

MCHosts == {Old, Ivy, Broadwell, Skylake, Cascade, Zen, Zen3, Masked, NoBW}

(* libc adds with AVX; loads may have an address that looks like cold code, *)
(* and OpenSSL reaches some of its code in ways the tracker does not see.   *)
MCOtherCode == { <<"vpaddd", "AVX">> }

MCPassedOver == {"vmovdqu32", "pmovzxbw", "rorx"}

(* Bytes have two bits and words six, so that the sums wrap; two turns of   *)
(* the widest kernel.                                                       *)
N == 128

Vectors == { [k \in 1..N |-> (k * x + y) % 4] : x \in {0, 1}, y \in {2, 3} }
           \cup { [k \in 1..N |-> IF k = p THEN 3 ELSE 0] : p \in {1, 9, 32, 60, 65, 126} }

MCInputs == Vectors \X Vectors

MCInit == Init /\ RefInit /\ mem = <<CHOOSE s \in Statics : TRUE>>

MCNext == Next /\ UNCHANGED refVars

MCSpec == MCInit /\ [][MCNext]_<<vars, refVars>>
============================================================================
