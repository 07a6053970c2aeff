------------------------------ MODULE Int8Dot ------------------------------
(* The four kernels of int8dot_module.c, on vectors of bytes: the elements  *)
(* of a count as unsigned and those of b as signed. A kernel keeps its sum  *)
(* in the 32-bit lanes of a register. Positions in a vector count from 0.   *)
EXTENDS Sums

CONSTANTS Byte,   \* 2^8
          Word    \* 2^32

ASSUME WidthAssumption == Byte \in Nat \ {0} /\ Word \in Nat \ {0}

Size(v) == Len(v)

Lane(v, i) == v[i + 1]

(* The cast of b's buffer to a pointer to int8_t.                           *)
Signed(x) == IF x < Byte \div 2 THEN x ELSE x - Byte

(* An int32_t. The additions of the registers wrap; the code adds the lanes *)
(* as C integers, which is undefined when it overflows, and wraps as built. *)
Wrap(x) == LET r == x % Word IN IF r < Word \div 2 THEN r ELSE r - Word

(* _mm*_madd_epi16 of n bytes from i on, after _mm*_cvtepu8_epi16 and       *)
(* _mm*_cvtepi8_epi16: two neighbours' products for every lane.             *)
Product(a, b, i) == Lane(a, i) * Signed(Lane(b, i))

Madd(a, b, i, n) == [l \in 1 .. n \div 2 |-> Product(a, b, i + 2 * l - 2) + Product(a, b, i + 2 * l - 1)]

(* _mm512_dpbusd_epi32: four neighbours'.                                   *)
Dpbusd(a, b, i, n) ==
  [l \in 1 .. n \div 4 |-> Product(a, b, i + 4 * l - 4) + Product(a, b, i + 4 * l - 3)
                         + Product(a, b, i + 4 * l - 2) + Product(a, b, i + 4 * l - 1)]

Plus(acc, term) == [l \in DOMAIN acc |-> Wrap(acc[l] + term[l])]

(* The rounds of the loop "for (i = 0; i < size; i += step)".                *)
Rounds(size, step) == (size + step - 1) \div step

(* The register after n additions ...                                       *)
Accumulator(term, lanes, n) ==
  LET acc[k \in 0 .. n] == IF k = 0 THEN [l \in 1 .. lanes |-> 0] ELSE Plus(acc[k - 1], term[k]) IN acc

(* ... and the sum of its lanes.                                            *)
Accumulated(term, lanes, n) == Wrap(SumTo(Accumulator(term, lanes, n)[n], lanes))

----------------------------------------------------------------------------
(* _mm_cvtepu8_epi16 takes the low eight of the sixteen bytes it is given.  *)
dot_product_sse(a, b) ==
  LET n == Rounds(Size(a), 16) IN
  Accumulated([k \in 1 .. n |-> Madd(a, b, 16 * (k - 1), 8)], 4, n)

(* This kernel and the next add twice in a round.                            *)
dot_product_avx2_LowOnly(a, b) ==
  LET n == Rounds(Size(a), 32) IN
  Accumulated([k \in 1 .. n |-> Madd(a, b, 32 * (k - 1), 16)], 8, n)

dot_product_avx2(a, b) ==
  LET n == 2 * Rounds(Size(a), 32) IN
  Accumulated([k \in 1 .. n |-> Madd(a, b, 16 * (k - 1), 16)], 8, n)

dot_product_avx512f(a, b) ==
  LET n == 2 * Rounds(Size(a), 64) IN
  Accumulated([k \in 1 .. n |-> Madd(a, b, 32 * (k - 1), 32)], 16, n)

dot_product_vnni(a, b) ==
  LET n == Rounds(Size(a), 64) IN
  Accumulated([k \in 1 .. n |-> Dpbusd(a, b, 64 * (k - 1), 64)], 16, n)

----------------------------------------------------------------------------
(* The dot product itself, over the positions S.                            *)
Terms(a, b, S) == [j \in 1 .. Size(a) |-> IF j - 1 \in S THEN Product(a, b, j - 1) ELSE 0]

Dot(a, b, S) == Wrap(SumTo(Terms(a, b, S), Size(a)))

All(a) == 0 .. Size(a) - 1

(* What the SSE kernel looks at (int8dot_module.c:51).                      *)
LowHalves(a) == { i \in All(a) : i % 16 < 8 }
============================================================================
