-------------------------- MODULE SoilSensor_proofs --------------------------
(***************************************************************************)
(* What soil_read returns for every sample and every calibration.          *)
(***************************************************************************)
EXTENDS SoilSensor, TLAPS

(* Division of naturals rounds down.                                       *)
LEMMA Quotient ==
    ASSUME NEW i \in Nat, NEW k \in Nat \ {0}
    PROVE  /\ i \div k \in Nat
           /\ k * (i \div k) <= i
           /\ i < k * (i \div k) + k
  OBVIOUS

(* A quotient is between those of the bounds of its dividend.              *)
LEMMA QuotientBound ==
    ASSUME NEW i \in Nat, NEW k \in Nat \ {0}, i <= 100 * k
    PROVE  i \div k \in 0 .. 100
<1> DEFINE q == i \div k
<1>1. q \in Nat /\ k * q <= i
  BY Quotient
<1>2. ASSUME q >= 101 PROVE FALSE
  <2>1. k * q >= k * 101
    BY <1>1, <1>2
  <2>2. k * 101 > 100 * k
    OBVIOUS
  <2>. QED
    BY <1>1, <2>1, <2>2
<1>. QED
  BY <1>1, <1>2

(* Division by a positive number is monotone.                              *)
LEMMA QuotientMonotone ==
    ASSUME NEW i \in Nat, NEW j \in Nat, NEW k \in Nat \ {0}, i <= j
    PROVE  i \div k <= j \div k
<1> DEFINE p == i \div k
           q == j \div k
<1>1. p \in Nat /\ q \in Nat /\ k * p <= i /\ j < k * q + k
  BY Quotient
<1>2. ASSUME p >= q + 1 PROVE FALSE
  <2>1. k * p >= k * (q + 1)
    BY <1>1, <1>2
  <2>2. k * (q + 1) = k * q + k
    BY <1>1
  <2>. QED
    BY <1>1, <2>1, <2>2
<1>. QED
  BY <1>1, <1>2

(* Between the wet and the dry value, what C computes is the rounded down  *)
(* share of the range that lies above the sample.                          *)
LEMMA Between ==
    ASSUME NEW moisture \in Int, NEW dry \in Int, NEW wet \in Int,
           wet < dry, wet <= moisture, moisture <= dry
    PROVE  Percentage(moisture, dry, wet) = ((dry - moisture) * 100) \div (dry - wet)
<1> DEFINE i == (moisture - dry) * 100
           j == wet - dry
<1>1. Magnitude(j) = dry - wet /\ j < 0
  BY DEF Magnitude
<1>2. Magnitude(i) = (dry - moisture) * 100
  BY DEF Magnitude
<1>3. CASE moisture = dry
  <2>1. i = 0 /\ (dry - moisture) * 100 = 0
    BY <1>3
  <2>2. 0 \div (dry - wet) = 0
    <3>1. dry - wet \in Nat \ {0}
      OBVIOUS
    <3>2. 0 \div (dry - wet) \in Nat /\ (dry - wet) * (0 \div (dry - wet)) <= 0
      BY <3>1, Quotient
    <3>3. ASSUME 0 \div (dry - wet) >= 1 PROVE FALSE
      <4> DEFINE k == dry - wet
                 q == 0 \div k
      <4>1. k \in Nat /\ k >= 1 /\ q \in Nat /\ q >= 1
        BY <3>1, <3>2, <3>3
      <4>2. k * q <= 0
        BY <3>2
      <4> HIDE DEF k, q
      <4>3. k * q >= 1
        BY <4>1
      <4>. QED
        BY <4>1, <4>2, <4>3
    <3>. QED
      BY <3>2, <3>3
  <2>. QED
    BY <1>1, <1>2, <2>1, <2>2 DEF Percentage, Truncated
<1>4. CASE moisture < dry
  <2>1. i < 0
    BY <1>4
  <2>. QED
    BY <1>1, <1>2, <2>1 DEF Percentage, Truncated
<1>. QED
  BY <1>3, <1>4

(* Between the wet and the dry value the percentage is 0 to 100            *)
(* (main.c:29-30).                                                         *)
LEMMA PercentageBound ==
    ASSUME NEW moisture \in Int, NEW dry \in Int, NEW wet \in Int,
           wet < dry, wet <= moisture, moisture <= dry
    PROVE  Percentage(moisture, dry, wet) \in 0 .. 100
<1> DEFINE i == (dry - moisture) * 100
           k == dry - wet
<1>1. k \in Nat \ {0} /\ i \in Nat /\ i <= 100 * k
  OBVIOUS
<1>2. Percentage(moisture, dry, wet) = i \div k
  BY Between
<1> HIDE DEF i, k
<1>3. i \div k \in 0 .. 100
  BY <1>1, QuotientBound
<1>. QED
  BY <1>2, <1>3

(* Between the wet and the dry value the cut to eight bits changes nothing *)
(* and soil_read is a percentage (main.c:27-33, METHODS.md:16).            *)
THEOREM InRange ==
    ASSUME NEW moisture \in Int, NEW dry \in Int, NEW wet \in Int,
           wet < dry, wet <= moisture, moisture <= dry
    PROVE  /\ soil_read(moisture, dry, wet) = Percentage(moisture, dry, wet)
           /\ soil_read(moisture, dry, wet) \in 0 .. 100
<1> DEFINE percentage == Percentage(moisture, dry, wet)
<1>1. percentage \in 0 .. 100
  BY PercentageBound
<1>2. soil_read(moisture, dry, wet) = percentage % 256
  BY DEF soil_read
<1> HIDE DEF percentage
<1>3. percentage % 256 = percentage
  BY <1>1
<1>. QED
  BY <1>1, <1>2, <1>3 DEF percentage

(* Between the wet and the dry value drier soil never reads wetter, for    *)
(* every calibration (main.c:27-33).                                       *)
THEOREM DrierReadsDrier ==
    ASSUME NEW moisture \in Int, NEW drier \in Int, NEW dry \in Int, NEW wet \in Int,
           wet < dry, wet <= moisture, moisture <= drier, drier <= dry
    PROVE  soil_read(drier, dry, wet) <= soil_read(moisture, dry, wet)
<1> DEFINE i == (dry - drier) * 100
           j == (dry - moisture) * 100
           k == dry - wet
<1>1. k \in Nat \ {0} /\ i \in Nat /\ j \in Nat /\ i <= j
  OBVIOUS
<1>2. wet <= drier /\ moisture <= dry
  OBVIOUS
<1>3. Percentage(drier, dry, wet) = i \div k
  BY <1>2, Between
<1>4. Percentage(moisture, dry, wet) = j \div k
  BY <1>2, Between
<1>5. soil_read(drier, dry, wet) = Percentage(drier, dry, wet)
  BY <1>2, InRange
<1>6. soil_read(moisture, dry, wet) = Percentage(moisture, dry, wet)
  BY <1>2, InRange
<1> HIDE DEF i, j, k
<1>7. i \div k <= j \div k
  BY <1>1, QuotientMonotone
<1>. QED
  BY <1>3, <1>4, <1>5, <1>6, <1>7

(* A quotient below a bound, for a dividend below its multiple.            *)
LEMMA QuotientBelow ==
    ASSUME NEW i \in Nat, NEW k \in Nat \ {0}, NEW c \in Nat, i < k * c
    PROVE  i \div k < c
<1> DEFINE q == i \div k
<1>1. q \in Nat /\ k * q <= i
  BY Quotient
<1> HIDE DEF q
<1>2. ASSUME q >= c PROVE FALSE
  <2>1. k * q >= k * c
    BY <1>1, <1>2
  <2>. QED
    BY <1>1, <2>1
<1>. QED
  BY <1>1, <1>2 DEF q

(* A quotient above a bound, for a dividend above its multiple.            *)
LEMMA QuotientAbove ==
    ASSUME NEW i \in Nat, NEW k \in Nat \ {0}, NEW c \in Nat, k * c <= i
    PROVE  c <= i \div k
<1> DEFINE q == i \div k
<1>1. q \in Nat /\ i < k * q + k
  BY Quotient
<1> HIDE DEF q
<1>2. ASSUME q + 1 <= c PROVE FALSE
  <2>1. k * (q + 1) <= k * c
    BY <1>1, <1>2
  <2>2. k * (q + 1) = k * q + k
    BY <1>1
  <2>. QED
    BY <1>1, <2>1, <2>2
<1>. QED
  BY <1>1, <1>2 DEF q

(* Drier than the dry value by at least a hundredth of the range, and by   *)
(* less than 156, no sample passes for a percentage (main.c:32).           *)
THEOREM TooDryIsNone ==
    ASSUME NEW moisture \in Int, NEW dry \in Int, NEW wet \in Int, wet < dry,
           dry - wet <= 100 * (moisture - dry), 100 * (moisture - dry) < 156 * (dry - wet)
    PROVE  soil_read(moisture, dry, wet) \in 101 .. 255
<1> DEFINE k == dry - wet
           i == (moisture - dry) * 100
           q == i \div k
<1>1. k \in Nat \ {0} /\ wet - dry < 0 /\ Magnitude(wet - dry) = k
  BY DEF Magnitude
<1>2. i \in Nat /\ i > 0 /\ k * 1 <= i /\ i < k * 156
  BY <1>1
<1>3. Percentage(moisture, dry, wet) = -q
  BY <1>1, <1>2 DEF Percentage, Truncated, Magnitude
<1>4. q \in Nat
  BY <1>1, <1>2, Quotient
<1> HIDE DEF i, k
<1>5. 1 <= q /\ q < 156
  BY <1>1, <1>2, QuotientBelow, QuotientAbove
<1> HIDE DEF q
<1>6. (-q) % 256 \in 101 .. 255
  BY <1>4, <1>5
<1>. QED
  BY <1>3, <1>6 DEF soil_read

(* Nor does one that is wetter than the wet value by as much               *)
(* (main.c:32).                                                            *)
THEOREM TooWetIsNone ==
    ASSUME NEW moisture \in Int, NEW dry \in Int, NEW wet \in Int, wet < dry,
           dry - wet <= 100 * (wet - moisture), 100 * (wet - moisture) < 156 * (dry - wet)
    PROVE  soil_read(moisture, dry, wet) \in 101 .. 255
<1> DEFINE k == dry - wet
           i == (dry - moisture) * 100
           q == i \div k
<1>1. k \in Nat \ {0} /\ wet - dry < 0 /\ Magnitude(wet - dry) = k
  BY DEF Magnitude
<1>2. i \in Nat /\ (moisture - dry) * 100 = -i /\ i > 0 /\ k * 101 <= i /\ i < k * 256
  BY <1>1
<1>3. Percentage(moisture, dry, wet) = q
  BY <1>1, <1>2 DEF Percentage, Truncated, Magnitude
<1>4. q \in Nat
  BY <1>1, <1>2, Quotient
<1> HIDE DEF i, k
<1>5. 101 <= q /\ q < 256
  BY <1>1, <1>2, QuotientBelow, QuotientAbove
<1> HIDE DEF q
<1>6. q % 256 \in 101 .. 255
  BY <1>4, <1>5
<1>. QED
  BY <1>3, <1>6 DEF soil_read
=============================================================================
