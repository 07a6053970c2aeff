----------------------------- MODULE Workloads -----------------------------
(* A workload on an instance: it looks for CPU features once, chooses a     *)
(* kernel and repeats it. When it has printed its ready string it is        *)
(* analysed, dumped and restored on another instance, where a script looks  *)
(* whether it still works. The analysis predicts whether it will.           *)
EXTENDS Int8Dot, FiniteSets

CONSTANTS Hosts,   \* instances: the ISA-SETs in their isaset.csv
          OtherCode,   \* instructions of the interpreter and the libraries: <<mnemonic, ISA-SET>>
          PassedOver,  \* mnemonics that the tracker may pass over
          Inputs,  \* what int8dot_test.py may draw
          Keys,    \* the protection keys besides key 0; 15 on x86
          Pages    \* pages of memory

ASSUME KeysAssumption == Keys \subseteq Nat \ {0} /\ Keys # {}

(* Two arrays of DATA_SIZE = 2^25 bytes, which all kernels' steps divide.   *)
ASSUME InputsAssumption ==
  \A d \in Inputs : /\ d \in Seq(0 .. Byte - 1) \X Seq(0 .. Byte - 1)
                    /\ Size(d[1]) = Size(d[2])
                    /\ Size(d[1]) % 64 = 0

VARIABLES source,   \* where the workload was started
          host,     \* where it runs
          work,     \* the program
          status,   \* "running", "exited", "SIGILL", "SIGSEGV", or "undefined": jumped into a frame that is gone
          pc,       \* the next step of the program
          kernel,   \* the kernel chosen at the start; 0 before
          ready,    \* has the ready string been printed, since the start or the restore?
          moved,    \* has it been restored?
          isaset,   \* what the analysis on the source has found
          verdict,  \* of the script: "none", "success", "crashed" or "timeout"
          data,     \* int8dot: the vectors of this turn
          result,   \* int8dot: what it prints
          pages,    \* pku: page -> its key and mprotect's protection
          buffer,   \* pku: the page in use
          value,    \* pku: what is written there
          keys,     \* pku: keys that are allocated
          pkey,     \* pku: the key of this turn
          rights,   \* pku: PKRU, what the thread may do with pages of a key
          blocked   \* pku: is SIGSEGV blocked?

int8dotVars == <<data, result>>
pkuVars     == <<pages, buffer, value, keys, pkey, rights, blocked>>
vars        == <<source, host, work, status, pc, kernel, ready, moved, isaset, verdict, int8dotVars, pkuVars>>

----------------------------------------------------------------------------
(* A program's kernels in the order of preference: the features it tests    *)
(* for, and the instructions that it then executes, as the compiler makes   *)
(* them of the kernel's intrinsics. ISA-SETs that come with one that is     *)
(* named (AVX with AVX2) are left out.                                      *)
K(tests, code) == [tests |-> tests, code |-> code]

Of(isa, mnemonics) == mnemonics \X {isa}

rdseed == Of("RDSEED", {"rdseed"})
rdrand == Of("RDRAND", {"rdrand"})

(* rand.c as a program of its own, and its functions as rand.py calls them. *)
rand_c  == <<K({"RDSEED"}, rdseed), K({"RDRAND"}, rdrand)>>
rand_py == <<K({"RDSEED"}, rdseed), K({}, rdrand)>>

(* The AVX2 and the AVX-512BW kernel share all mnemonics that widen and     *)
(* multiply. _mm512_reduce_add_epi32 ends with 256-bit instructions.        *)
vnni    == Of("AVX512_VNNI_512", {"vpdpbusd"}) \cup Of("AVX512F_512", {"vmovdqu32", "vextracti64x4"})
           \cup Of("AVX2", {"vextracti128", "vpaddd"})
avx512f == Of("AVX512BW_512", {"vpmovzxbw", "vpmovsxbw", "vpmaddwd"})
           \cup Of("AVX512F_512", {"vpaddd", "vextracti64x4"}) \cup Of("AVX2", {"vextracti128", "vpaddd"})
avx2    == Of("AVX2", {"vpmovzxbw", "vpmovsxbw", "vpmaddwd", "vpaddd", "vextracti128"})
sse     == Of("SSE4", {"pmovzxbw", "pmovsxbw"})

int8dot == <<K({"AVX512_VNNI_512"}, vnni), K({"AVX512F_512", "AVX512BW_512"}, avx512f), K({"AVX2"}, avx2),
             K({"SSE4"}, sse)>>

(* pkey_set reads PKRU and writes it.                                       *)
pku == <<K({"PKU"}, Of("PKU", {"rdpkru", "wrpkru"})), K({}, {})>>

(* OpenSSL looks for features when it is loaded, and tests what it found    *)
(* in every call.                                                           *)
sha_c == <<K({"SHA"}, Of("SHA", {"sha256rnds2"})),
           K({"AVX2", "BMI2"}, Of("AVX2", {"vinserti128", "vpaddd"}) \cup Of("BMI2", {"rorx"})), K({}, {})>>
rsa_c == <<K({"BMI2", "ADOX_ADCX"}, Of("BMI2", {"mulx"}) \cup Of("ADOX_ADCX", {"adcx", "adox"})), K({}, {})>>

Kernels == [rand_c |-> rand_c, rand_py |-> rand_py, int8dot |-> int8dot, sha_c |-> sha_c, rsa_c |-> rsa_c,
            pku |-> pku, old_pku |-> pku]

Programs == DOMAIN Kernels

PkuPrograms == {"pku", "old_pku"}

Runs == { c[2] : c \in Kernels[work][kernel].code }

----------------------------------------------------------------------------
NoRights == [k \in Keys \cup {0} |-> IF k = 0 THEN "rw" ELSE "none"]

Fresh == [key |-> 0, prot |-> "rw"]

Init ==
  /\ source \in Hosts
  /\ host = source
  /\ work \in Programs
  /\ status = "running"
  /\ pc = "detect"
  /\ kernel = 0
  /\ ready = FALSE
  /\ moved = FALSE
  /\ isaset = {}
  /\ verdict = "none"
  /\ data = <<>> /\ result = 0
  /\ pages = [p \in Pages |-> Fresh]
  /\ buffer \in Pages
  /\ value = "none"
  /\ keys = {} /\ pkey = 0
  /\ rights = NoRights
  /\ blocked = FALSE

Active(step) == status = "running" /\ verdict = "none" /\ pc = step

Proceeds(step) == pc' = step /\ UNCHANGED status

Ends(how) == status' = how /\ UNCHANGED pc

(* An instruction of the chosen kernel.                                     *)
Executes(step) == IF Runs \subseteq host THEN Proceeds(step) ELSE Ends("SIGILL")

----------------------------------------------------------------------------
(* The kernels whose features a program finds. The earlier pku program asks *)
(* CPUID for leaf 7 with whatever subleaf is in ECX (pku.c:39), and may see *)
(* no protection keys where there are some.                                 *)
Usable == { k \in DOMAIN Kernels[work] : Kernels[work][k].tests \subseteq host }

Findable == IF work = "old_pku" THEN {Usable, Usable \ {1}} ELSE {Usable}

(* The first kernel whose features are there; a program without such a      *)
(* kernel says so and exits.                                                *)
Detect ==
  /\ Active("detect")
  /\ \E found \in Findable :
       IF found = {} THEN Ends("exited") /\ UNCHANGED kernel
       ELSE /\ kernel' \in { k \in found : \A j \in found : k <= j }
            /\ Proceeds("loop")
  /\ UNCHANGED <<source, host, work, ready, moved, isaset, verdict, int8dotVars, pkuVars>>

(* One turn of rand.c's and OpenSSL's loops. That RDRAND or RDSEED has no   *)
(* number yet and is executed again is a stutter.                           *)
Compute ==
  /\ Active("loop")
  /\ work \notin PkuPrograms \cup {"int8dot"}
  /\ Executes("print")
  /\ UNCHANGED <<source, host, work, kernel, ready, moved, isaset, verdict, int8dotVars, pkuVars>>

dot_product(a, b) == CASE kernel = 1 -> dot_product_vnni(a, b)
                       [] kernel = 2 -> dot_product_avx512f(a, b)
                       [] kernel = 3 -> dot_product_avx2(a, b)
                       [] kernel = 4 -> dot_product_sse(a, b)

DotProduct ==
  /\ Active("loop")
  /\ work = "int8dot"
  /\ Executes("print")
  /\ data' \in Inputs
  /\ result' = dot_product(data'[1], data'[2])
  /\ UNCHANGED <<source, host, work, kernel, ready, moved, isaset, verdict, pkuVars>>

(* The ready string, at the end of a turn; then the program sleeps.         *)
PrintResult ==
  /\ Active("print")
  /\ ready' = TRUE
  /\ data' = <<>> /\ result' = 0
  /\ Proceeds("loop")
  /\ UNCHANGED <<source, host, work, kernel, moved, isaset, verdict, pkuVars>>

----------------------------------------------------------------------------
(* The pku programs: pku_test.py with pku.c, and the earlier program. Both  *)
(* write to a page, protect it, try to write, lift the protection and write *)
(* again. mmap gives pku a page without a key; the page that the earlier    *)
(* program gets from the heap still has the key of an earlier turn.         *)
Map ==
  /\ Active("loop")
  /\ work \in PkuPrograms
  /\ buffer' \in Pages
  /\ pages' = IF work = "pku" THEN [pages EXCEPT ![buffer'] = Fresh] ELSE pages
  /\ value' = "none"
  /\ Proceeds("before")
  /\ UNCHANGED <<source, host, work, kernel, ready, moved, isaset, verdict, int8dotVars, keys, pkey, rights, blocked>>

(* The hardware looks at the key of a page only if it has keys.             *)
Allowed == IF "PKU" \in host THEN rights[pages[buffer].key] ELSE "rw"

Writable == pages[buffer].prot = "rw" /\ Allowed = "rw"

Readable == Allowed # "none"

Writes(v, step) ==
  /\ Writable
  /\ value' = v
  /\ Proceeds(step)
  /\ UNCHANGED <<rights, blocked>>

(* The handler runs with SIGSEGV blocked and with the rights that Linux     *)
(* gives to a handler. It leaves by siglongjmp, which restores the signal   *)
(* mask as sigsetjmp(jump_buffer, 1) saved it, but not the rights.          *)
Jumped_NoMask == blocked' = TRUE /\ rights' = NoRights

Jumped == blocked' = FALSE /\ rights' = NoRights

(* write_memory turns the fault into a RuntimeError, which only the second  *)
(* write expects. The earlier program expects a fault in its thread, which  *)
(* has rights and a mask of its own; any other jumps where nothing waits.   *)
Segfaults(step) ==
  /\ ~Writable
  /\ UNCHANGED value
  /\ CASE blocked -> Ends("SIGSEGV") /\ UNCHANGED <<rights, blocked>>
       [] ~blocked /\ work = "pku" -> Jumped /\ (IF pc = "during" THEN Proceeds(step) ELSE Ends("exited"))
       [] ~blocked /\ work = "old_pku" ->
            (IF pc = "during" THEN Proceeds(step) ELSE Ends("undefined")) /\ UNCHANGED <<rights, blocked>>

Write(step) ==
  /\ Active(pc)
  /\ Writes(pc, step) \/ Segfaults(step)
  /\ UNCHANGED <<source, host, work, kernel, ready, moved, isaset, verdict, int8dotVars, pages, buffer, keys, pkey>>

WriteBefore == pc = "before" /\ Write("protect")
WriteDuring == pc = "during" /\ Write("unprotect")
WriteAfter  == pc = "after" /\ Write("read")

(* protect_memory_pku: allocate a key, with all rights ...                  *)
pkey_alloc ==
  /\ Active("protect")
  /\ kernel = 1
  /\ IF "PKU" \in host /\ Keys \ keys # {}
     THEN /\ pkey' \in { k \in Keys \ keys : \A j \in Keys \ keys : k <= j }
          /\ keys' = keys \cup {pkey'}
          /\ rights' = [rights EXCEPT ![pkey'] = "rw"]
          /\ Proceeds("pkey_mprotect")
     ELSE Ends("exited") /\ UNCHANGED <<pkey, keys, rights>>
  /\ UNCHANGED <<source, host, work, kernel, ready, moved, isaset, verdict, int8dotVars, pages, buffer, value, blocked>>

(* ... give it to the page, which fails for a key that is not allocated ... *)
pkey_mprotect ==
  /\ Active("pkey_mprotect")
  /\ IF pkey \in keys
     THEN pages' = [pages EXCEPT ![buffer] = [key |-> pkey, prot |-> "rw"]] /\ Proceeds("pkey_set")
     ELSE Ends("exited") /\ UNCHANGED pages
  /\ UNCHANGED <<source, host, work, kernel, ready, moved, isaset, verdict, int8dotVars, buffer, value, keys, pkey, rights,
                 blocked>>

(* ... and take the right to write. unprotect_memory gives it back.         *)
pkey_set(step, right, next) ==
  /\ Active(step)
  /\ kernel = 1
  /\ Executes(next)
  /\ rights' = IF "PKU" \in host THEN [rights EXCEPT ![pkey] = right] ELSE rights
  /\ UNCHANGED <<source, host, work, kernel, ready, moved, isaset, verdict, int8dotVars, pages, buffer, value, keys, pkey,
                 blocked>>

(* protect_memory_mprotect and unprotect_memory.                            *)
mprotect(step, prot, next) ==
  /\ Active(step)
  /\ kernel = 2
  /\ pages' = [pages EXCEPT ![buffer].prot = prot]
  /\ Proceeds(next)
  /\ UNCHANGED <<source, host, work, kernel, ready, moved, isaset, verdict, int8dotVars, buffer, value, keys, pkey, rights,
                 blocked>>

protect   == pkey_set("pkey_set", "r", "during") \/ mprotect("protect", "r", "during")
unprotect == pkey_set("unprotect", "rw", "after") \/ mprotect("unprotect", "rw", "after")

(* read_memory, the ready string, and the end of a turn.                    *)
Read ==
  /\ Active("read")
  /\ IF Readable THEN Proceeds("close") ELSE Ends("undefined")
  /\ UNCHANGED <<source, host, work, kernel, ready, moved, isaset, verdict, int8dotVars, pkuVars>>

(* pku never calls pkey_free; the earlier program frees the key after the   *)
(* page that has it.                                                        *)
Close ==
  /\ Active("close")
  /\ keys' = IF work = "old_pku" /\ kernel = 1 THEN keys \ {pkey} ELSE keys
  /\ ready' = TRUE
  /\ Proceeds("loop")
  /\ UNCHANGED <<source, host, work, kernel, moved, isaset, verdict, int8dotVars, pages, buffer, value, pkey, rights, blocked>>

----------------------------------------------------------------------------
(* The code that the tracker walks through holds every kernel, chosen or    *)
(* not. dis_func decodes a mnemonic once, where it meets it first, which    *)
(* depends on the order of a set of functions; if that line is taken for    *)
(* cold code, or never reached, the mnemonic is not decoded at all.         *)
Instructions(w) == UNION { Kernels[w][k].code : k \in DOMAIN Kernels[w] } \cup OtherCode

Mnemonics(w) == { c[1] : c \in Instructions(w) }

DecodedOnce(w, decoded) ==
  \A m \in Mnemonics(w) :
    /\ \A c, d \in decoded : c[1] = m /\ d[1] = m => c = d
    /\ m \notin PassedOver => \E c \in decoded : c[1] = m

Analyses == [w \in Programs |->
  { { c[2] : c \in decoded } : decoded \in { x \in SUBSET Instructions(w) : DecodedOnce(w, x) } }]

(* 1-collect-info.sh analyses the process when it is ready and dumps it, at *)
(* whatever step that leaves it; 2-compatibility-check.sh restores it       *)
(* everywhere, and looks for the ready string in what it prints from then   *)
(* on. CRIU does not know the keys: they may or may not survive.            *)
Migrate(d) ==
  /\ status = "running" /\ verdict = "none"
  /\ ready /\ ~moved
  /\ d # source
  /\ isaset' \in Analyses[work]
  /\ host' = d
  /\ moved' = TRUE
  /\ ready' = FALSE
  /\ \/ "PKU" \in d /\ UNCHANGED <<pages, keys>>
     \/ keys' = {} /\ pages' = [p \in Pages |-> [pages[p] EXCEPT !.key = 0]]
  /\ UNCHANGED <<source, work, status, pc, kernel, verdict, int8dotVars, buffer, value, pkey, rights, blocked>>

(* One look of the polling loop at the process: is it there, has it printed *)
(* the ready string, have 600 seconds passed?                               *)
Poll ==
  /\ moved
  /\ verdict = "none"
  /\ verdict' \in (IF status # "running" THEN {"crashed"} ELSE IF ready THEN {"success"} ELSE {"timeout"})
  /\ UNCHANGED <<source, host, work, status, pc, kernel, ready, moved, isaset, int8dotVars, pkuVars>>

Next ==
  \/ Detect \/ Compute \/ DotProduct \/ PrintResult
  \/ Map \/ WriteBefore \/ WriteDuring \/ WriteAfter \/ Read \/ Close
  \/ pkey_alloc \/ pkey_mprotect \/ protect \/ unprotect
  \/ \E d \in Hosts : Migrate(d)
  \/ Poll

Spec == Init /\ [][Next]_vars

----------------------------------------------------------------------------
(* evaluate_combination: of the ISA-SETs that the analysis has found, the   *)
(* ones that the source does not have itself cannot be needed.              *)
Predicted_Reversed == (isaset \cap host) \ source = {}

Predicted == (isaset \cap source) \ host = {}

Exhausted == work = "pku" /\ pc = "protect" /\ keys = Keys

LostKey == work \in PkuPrograms /\ pc = "pkey_mprotect" /\ pkey \notin keys

(* An ISA-SET that the tracker finds for certain: one of its mnemonics is   *)
(* not passed over and is no other ISA-SET's.                               *)
Certain == { c[2] : c \in { x \in Instructions(work) : /\ x[1] \notin PassedOver
                                             /\ \A y \in Instructions(work) : y[1] = x[1] => y[2] = x[2] } }

(* What the kernel needs and the host lacks are other ISA-SETs only.        *)
Overlooked == Runs \ host # {} /\ Runs \cap Certain \subseteq host

(* A workload that is predicted to be compatible does not crash after it    *)
(* has been restored, at whatever point of its loop it was dumped, although *)
(* it chose its kernel by the features of the source, and the analysis has  *)
(* decoded each mnemonic once, in whatever order (dis_func): unless pku has *)
(* used up the protection keys, which it never frees (pku.c:47), or was     *)
(* dumped just after it got a key that CRIU lost, or none of the ISA-SETs   *)
(* it misses has a mnemonic of its own that the tracker cannot overlook.    *)
NoFalsePositive == Predicted /\ verdict = "crashed" => Exhausted \/ LostKey \/ Overlooked

(* While the page is protected the second write does not get through, if    *)
(* CRIU has not lost the key of the page; when the protection is lifted     *)
(* again, the third one does, whatever rights the fault has left.           *)
PageProtected ==
  /\ Active("unprotect") /\ value # "before" => kernel = 1 /\ pages[buffer].key = 0
  /\ Active("read") => value = "after"
  /\ status \notin {"SIGSEGV", "undefined"}

(* All kernels compute the same product modulo 2^32, except that the SSE    *)
(* kernel leaves out every second group of eight (int8dot_module.c:51).     *)
ResultExact ==
  data # <<>> => result = Dot(data[1], data[2], IF kernel = 4 THEN LowHalves(data[1]) ELSE All(data[1]))
============================================================================
