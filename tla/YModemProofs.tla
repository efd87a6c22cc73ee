---------------------------- MODULE YModemProofs ----------------------------
(***************************************************************************)
(* Arithmetic of the block number, for every modulus.                      *)
(***************************************************************************)
EXTENDS YModem, TLAPS

USE NumModAssumption

(* A remainder is the only one below the modulus.                          *)
LEMMA ModUnique ==
  ASSUME NEW m \in Nat \ {0}, NEW q \in Int, NEW r \in 0..(m - 1)
  PROVE  (m * q + r) % m = r
<1> DEFINE x == m * q + r
           s == x % m
           p == x \div m
<1>1. x \in Int /\ s \in 0..(m - 1) /\ p \in Int /\ x = m * p + s
  OBVIOUS
<1> HIDE DEF x, s, p
<1>2. CASE p < q
  <2>1. q - p >= 1  BY <1>1, <1>2
  <2>2. m * (q - p) >= m  BY <1>1, <2>1
  <2>3. m * (q - p) = m * q - m * p  BY <1>1
  <2>4. x = m * q + r  BY DEF x
  <2> QED BY <1>1, <2>2, <2>3, <2>4
<1>3. CASE q < p
  <2>1. p - q >= 1  BY <1>1, <1>3
  <2>2. m * (p - q) >= m  BY <1>1, <2>1
  <2>3. m * (p - q) = m * p - m * q  BY <1>1
  <2>4. x = m * q + r  BY DEF x
  <2> QED BY <1>1, <2>2, <2>3, <2>4
<1>4. CASE p = q
  BY <1>1, <1>4 DEF x, s
<1> QED BY <1>1, <1>2, <1>3, <1>4 DEF x, s

(* Block numbers follow the chunks across the wrap.                        *)
LEMMA NumOfNext ==
  ASSUME NEW k \in Nat
  PROVE  (k + 1) % NumMod = ((k % NumMod) + 1) % NumMod
<1> DEFINE r == k % NumMod
           q == k \div NumMod
<1>1. r \in 0..(NumMod - 1) /\ q \in Int /\ k = NumMod * q + r
  OBVIOUS
<1> HIDE DEF r, q
<1>2. CASE r + 1 < NumMod
  <2>1. (NumMod * q + (r + 1)) % NumMod = r + 1  BY <1>1, <1>2, ModUnique
  <2>2. (NumMod * 0 + (r + 1)) % NumMod = r + 1  BY <1>1, <1>2, ModUnique
  <2> QED BY <1>1, <2>1, <2>2 DEF r
<1>3. CASE r + 1 = NumMod
  <2>1. (NumMod * (q + 1) + 0) % NumMod = 0  BY <1>1, ModUnique
  <2>2. (NumMod * 1 + 0) % NumMod = 0  BY ModUnique
  <2>3. NumMod * (q + 1) = NumMod * q + NumMod  BY <1>1
  <2> QED BY <1>1, <1>3, <2>1, <2>2, <2>3 DEF r
<1> QED BY <1>1, <1>2, <1>3

(* The number before the next one is this one, and the two have different  *)
(* parities, so a block and its successor never share a buffer.            *)
LEMMA BuffersAlternate ==
  ASSUME NEW b \in 0..(NumMod - 1)
  PROVE  LET n == (b + 1) % NumMod
         IN  /\ n \in 0..(NumMod - 1)
             /\ (n + NumMod - 1) % NumMod = b
             /\ b % 2 \in 0..1 /\ n % 2 \in 0..1 /\ n % 2 # b % 2
<1> DEFINE n == (b + 1) % NumMod
<1>1. CASE b + 1 < NumMod
  <2>1. (NumMod * 0 + (b + 1)) % NumMod = b + 1  BY <1>1, ModUnique
  <2>2. n = b + 1  BY <2>1
  <2>3. (NumMod * 1 + b) % NumMod = b  BY ModUnique
  <2> QED BY <1>1, <2>2, <2>3
<1>2. CASE b + 1 = NumMod
  <2>1. (NumMod * 1 + 0) % NumMod = 0  BY ModUnique
  <2>2. n = 0  BY <1>2, <2>1
  <2>3. (NumMod * 0 + b) % NumMod = b  BY ModUnique
  <2> QED BY <1>2, <2>2, <2>3
<1> QED BY <1>1, <1>2

(* Two numbers less than a modulus apart that have the same remainder are  *)
(* the same: a block is not taken for the one of another wrap.             *)
LEMMA NumTells ==
  ASSUME NEW a \in Nat, NEW d \in 0..(NumMod - 1), (a + d) % NumMod = a % NumMod
  PROVE  d = 0
<1> DEFINE r == a % NumMod
           q == a \div NumMod
<1>1. r \in 0..(NumMod - 1) /\ q \in Int /\ a = NumMod * q + r
  OBVIOUS
<1> HIDE DEF q
<1>2. (a + d) % NumMod = r
  OBVIOUS
<1> HIDE DEF r
<1>3. CASE r + d < NumMod
  <2>1. NumMod \in Nat \ {0} /\ r + d \in 0..(NumMod - 1) /\ a + d = NumMod * q + (r + d)
    BY <1>1, <1>3
  <2>2. (a + d) % NumMod = r + d
    BY <1>1, <2>1, ModUnique
  <2> QED
    BY <1>1, <1>2, <2>2
<1>4. CASE r + d >= NumMod
  <2>1. NumMod * (q + 1) = NumMod * q + NumMod
    BY <1>1
  <2>2. /\ NumMod \in Nat \ {0} /\ r + d - NumMod \in 0..(NumMod - 1) /\ q + 1 \in Int
        /\ a + d = NumMod * (q + 1) + (r + d - NumMod)
    BY <1>1, <1>4, <2>1
  <2>3. (a + d) % NumMod = r + d - NumMod
    BY <2>2, ModUnique
  <2> QED
    BY <1>1, <1>2, <2>3
<1> QED
  BY <1>1, <1>3, <1>4
=============================================================================
