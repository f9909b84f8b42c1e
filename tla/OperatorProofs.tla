----------------------------- MODULE OperatorProofs -----------------------------
(***************************************************************************)
(* Facts about the operators of Protocol, Vectors and VectorFrames, for    *)
(* the proofs of every component that uses them: the sixteen-bit sums;     *)
(* numbers as the wires carry them, bit by bit; the vectors of issp.c as   *)
(* the frames the chip reads in them; and the calls of each of its         *)
(* functions.  No state is involved.                                       *)
(***************************************************************************)
EXTENDS VectorFrames, WellFoundedInduction, SequenceTheorems, TLAPS

(***************************************************************************)
(* The sums.  The induction over the length of a sum is carried by the     *)
(* least number at which a claim would fail.                               *)
(***************************************************************************)
LessThan == {p \in Nat \X Nat : p[1] < p[2]}

\* A set of naturals that is not empty has a least element.
LEMMA LeastNatural ==
  ASSUME NEW T, T \subseteq Nat, T # {}
  PROVE  \E m \in T : \A k \in T : m <= k
<1>1. LessThan = OpToRel(<, Nat)
  BY DEF LessThan, OpToRel
<1>2. IsWellFoundedOn(LessThan, Nat)
  BY <1>1, NatLessThanWellFounded
<1>3. PICK m \in T : \A k \in T : <<k, m>> \notin LessThan
  BY <1>2, WFMin
<1>4. ASSUME NEW k \in T PROVE m <= k
  <2>1. k \in Nat /\ m \in Nat /\ ~(k < m)
    BY <1>3, <1>4 DEF LessThan
  <2> QED
    BY <2>1
<1> QED
  BY <1>4

\* What a running sum of the first n values looks like.
IsRunningSum(s, values, n) ==
  /\ s \in [0..n -> Word]
  /\ \A i \in 0..n : s[i] = IF i = 0 THEN 0 ELSE (s[i - 1] + values[i]) % 65536

\* Adding in sixteen bits gives sixteen bits.
LEMMA SumInWord ==
  \A a \in Word, v \in Int : (a + v) % 65536 \in Word
<1>1. \A x \in Int : x % 65536 \in Word
  BY SMTT(60) DEF Word
<1>2. \A a \in Word, v \in Int : a + v \in Int
  BY SMTT(30) DEF Word
<1> QED
  BY <1>1, <1>2

\* There is a running sum for every number of values: the loop that computes it ends.
LEMMA RunningSumExists ==
  ASSUME NEW n \in Nat, NEW values, \A i \in 1..n : values[i] \in Int
  PROVE  \E s : IsRunningSum(s, values, n)
<1> DEFINE T == {k \in 0..n : ~ \E s : IsRunningSum(s, values, k)}
<1>1. SUFFICES ASSUME n \in T PROVE FALSE
  OBVIOUS
<1>2. PICK m \in T : \A k \in T : m <= k
  <2>1. T \subseteq Nat
    OBVIOUS
  <2> QED
    BY <1>1, <2>1, LeastNatural
<1>3. CASE m = 0
  <2> DEFINE z == [i \in 0..0 |-> 0]
  <2>1. z \in [0..0 -> Word]
    BY DEF Word
  <2>2. \A i \in 0..0 : i = 0 /\ z[i] = 0
    OBVIOUS
  <2>3. IsRunningSum(z, values, 0)
    BY <2>1, <2>2 DEF IsRunningSum
  <2> QED
    BY <1>2, <1>3, <2>3
<1>4. CASE m # 0
  <2>1. m \in 1..n /\ m - 1 \in 0..n /\ m - 1 \notin T
    BY <1>2, <1>4
  <2>2. PICK s : IsRunningSum(s, values, m - 1)
    BY <2>1
  <2> DEFINE t == [i \in 0..m |-> IF i < m THEN s[i] ELSE (s[m - 1] + values[m]) % 65536]
  <2>3. \A i \in 0..(m - 1) : s[i] \in Word
    BY <2>2 DEF IsRunningSum
  <2>4. (s[m - 1] + values[m]) % 65536 \in Word
    BY <2>1, <2>3, SumInWord
  <2>5. t \in [0..m -> Word]
    BY <2>1, <2>3, <2>4
  <2>6. ASSUME NEW i \in 0..m
        PROVE  t[i] = IF i = 0 THEN 0 ELSE (t[i - 1] + values[i]) % 65536
    <3>1. CASE i = m
      BY <2>1, <3>1
    <3>2. CASE i # m
      <4>1. i \in 0..(m - 1) /\ i < m /\ i - 1 < m
        BY <2>1, <3>2
      <4>2. s[i] = IF i = 0 THEN 0 ELSE (s[i - 1] + values[i]) % 65536
        BY <2>2, <4>1 DEF IsRunningSum
      <4>3. t[i] = s[i] /\ (i # 0 => t[i - 1] = s[i - 1])
        BY <2>1, <4>1
      <4> QED
        BY <4>2, <4>3
    <3> QED
      BY <3>1, <3>2
  <2>7. IsRunningSum(t, values, m)
    BY <2>5, <2>6 DEF IsRunningSum
  <2> QED
    BY <1>2, <2>7
<1> QED
  BY <1>3, <1>4

\* The recursive definition is such a sum: every partial sum is sixteen bits wide and is
\* the one before it plus the next value.
LEMMA RunningSumIs ==
  ASSUME NEW n \in Nat, NEW values, \A i \in 1..n : values[i] \in Int
  PROVE  IsRunningSum(RunningSum(values, n), values, n)
<1> DEFINE Body(s, i) == IF i = 0 THEN 0 ELSE (s[i - 1] + values[i]) % 65536
<1> DEFINE sum == RunningSum(values, n)
<1>1. PICK s : IsRunningSum(s, values, n)
  BY RunningSumExists
<1>2. s = [i \in 0..n |-> Body(s, i)]
  BY <1>1 DEF IsRunningSum
<1>3. sum = CHOOSE t : t = [i \in 0..n |-> Body(t, i)]
  BY DEF RunningSum
<1>4. sum = [i \in 0..n |-> Body(sum, i)]
  <2> HIDE DEF Body, sum
  <2> QED
    BY <1>2, <1>3
<1>5. ASSUME NEW i \in 0..n, \A k \in 0..n : k < i => sum[k] \in Word
      PROVE  sum[i] \in Word
  <2>1. CASE i = 0
    BY <1>4, <2>1 DEF Word
  <2>2. CASE i # 0
    <3>1. i - 1 \in 0..n /\ i - 1 < i /\ i \in 1..n
      BY <2>2
    <3>2. sum[i] = (sum[i - 1] + values[i]) % 65536
      BY <1>4, <2>2
    <3> HIDE DEF sum
    <3> QED
      BY <1>5, <3>1, <3>2, SumInWord
  <2> QED
    BY <2>1, <2>2
<1>6. ASSUME NEW j \in 0..n PROVE sum[j] \in Word
  <2> DEFINE T == {k \in 0..n : sum[k] \notin Word}
  <2>1. SUFFICES ASSUME j \in T PROVE FALSE
    OBVIOUS
  <2>2. PICK m \in T : \A k \in T : m <= k
    <3>1. T \subseteq Nat
      OBVIOUS
    <3> QED
      BY <2>1, <3>1, LeastNatural
  <2>3. \A k \in 0..n : k < m => sum[k] \in Word
    BY <2>2
  <2> QED
    BY <1>5, <2>2, <2>3
<1>7. sum \in [0..n -> Word]
  BY <1>4, <1>6
<1>8. \A i \in 0..n : sum[i] = Body(sum, i)
  BY <1>4
<1> QED
  BY <1>7, <1>8 DEF IsRunningSum

\* targetLoad returns a uint16_t for every block it is given.
THEOREM BlockSumInWord == \A data \in Block : BlockSum(data) \in Word
<1> SUFFICES ASSUME NEW data \in Block PROVE BlockSum(data) \in Word
  OBVIOUS
<1>1. BlockSize \in Nat /\ \A i \in 1..BlockSize : data[i] \in Int
  <2>1. BlockSize \in Nat
    BY ProtocolAssumption DEF ProtocolAssumption
  <2>2. \A i \in 1..BlockSize : data[i] \in Byte
    BY DEF Block
  <2>3. \A b \in Byte : b \in Int
    BY DEF Byte
  <2> QED
    BY <2>1, <2>2, <2>3
<1>2. IsRunningSum(RunningSum(data, BlockSize), data, BlockSize)
  BY <1>1, RunningSumIs
<1> QED
  BY <1>1, <1>2 DEF IsRunningSum, BlockSum

\* The sum of a bank, of the blocks' sums, is sixteen bits wide too.
LEMMA BankSumInWord ==
  ASSUME NEW bank \in Image
  PROVE  BankSum(bank) \in Word
<1> DEFINE values == [i \in 1..NumBlocks |-> BlockSum(bank[i - 1])]
<1>1. NumBlocks \in Nat
  BY ProtocolAssumption DEF ProtocolAssumption
<1>2. ASSUME NEW i \in 1..NumBlocks PROVE values[i] \in Int
  <2>1. i - 1 \in BlockIdx
    BY <1>1 DEF BlockIdx
  <2>2. BlockSum(bank[i - 1]) \in Word
    BY <2>1, BlockSumInWord DEF Image
  <2>3. \A w \in Word : w \in Int
    BY DEF Word
  <2> QED
    BY <2>2, <2>3
<1>3. IsRunningSum(RunningSum(values, NumBlocks), values, NumBlocks)
  <2> HIDE DEF values
  <2> QED
    BY <1>1, <1>2, RunningSumIs
<1>4. BankSum(bank) = RunningSum(values, NumBlocks)[NumBlocks]
  BY DEF BankSum
<1> HIDE DEF values
<1> QED
  BY <1>1, <1>3, <1>4 DEF IsRunningSum

\* The sums of the first blocks of a bank.
BankSums(bank) == RunningSum([i \in 1..NumBlocks |-> BlockSum(bank[i - 1])], NumBlocks)

\* The sum over no block is zero, that over all blocks the sum of the bank, and each
\* block adds its own.
LEMMA SumsGrow ==
  ASSUME NEW bank \in Image
  PROVE  /\ BankSums(bank)[0] = 0 /\ BankSums(bank)[NumBlocks] = BankSum(bank)
         /\ \A b \in BlockIdx :
              BankSums(bank)[b + 1] = (BankSums(bank)[b] + BlockSum(bank[b])) % 65536
<1> DEFINE values == [i \in 1..NumBlocks |-> BlockSum(bank[i - 1])]
<1>1. NumBlocks \in Nat /\ BlockIdx = 0..(NumBlocks - 1)
  BY ProtocolAssumption DEF ProtocolAssumption, BlockIdx
<1>2. \A i \in 1..NumBlocks : values[i] \in Int
  <2>1. ASSUME NEW i \in 1..NumBlocks PROVE BlockSum(bank[i - 1]) \in Int
    <3>1. i - 1 \in BlockIdx
      BY <1>1
    <3>2. BlockSum(bank[i - 1]) \in Word
      BY <3>1, BlockSumInWord DEF Image
    <3>3. \A w \in Word : w \in Int
      BY DEF Word
    <3> QED
      BY <3>2, <3>3
  <2> QED
    BY <2>1
<1>3. IsRunningSum(RunningSum(values, NumBlocks), values, NumBlocks)
  <2> HIDE DEF values
  <2> QED
    BY <1>1, <1>2, RunningSumIs
<1>4. BankSums(bank) = RunningSum(values, NumBlocks)
  BY DEF BankSums
<1>5. BankSums(bank)[NumBlocks] = BankSum(bank)
  BY DEF BankSums, BankSum
<1>6. BankSums(bank)[0] = 0
  <2>1. 0 \in 0..NumBlocks
    BY <1>1
  <2> HIDE DEF values
  <2> QED
    BY <1>3, <1>4, <2>1 DEF IsRunningSum
<1>7. ASSUME NEW b \in BlockIdx
      PROVE  BankSums(bank)[b + 1] = (BankSums(bank)[b] + BlockSum(bank[b])) % 65536
  <2>1. b + 1 \in 1..NumBlocks /\ b + 1 \in 0..NumBlocks /\ b + 1 # 0 /\ (b + 1) - 1 = b
    BY <1>1
  <2>2. values[b + 1] = BlockSum(bank[b])
    BY <2>1
  <2>3. BankSums(bank)[b + 1] = (BankSums(bank)[(b + 1) - 1] + values[b + 1]) % 65536
    <3> HIDE DEF values
    <3> QED
      BY <1>3, <1>4, <2>1 DEF IsRunningSum
  <2> HIDE DEF values
  <2> QED
    BY <2>1, <2>2, <2>3
<1> QED
  BY <1>5, <1>6, <1>7

-----------------------------------------------------------------------------

(***************************************************************************)
(* Numbers bit by bit.  byteSend shifts a byte left and looks at its       *)
(* highest bit, the chip gathers what it is sent from the highest bit      *)
(* down: both see a number without its lowest bits.                        *)
(***************************************************************************)
\* The powers of two that occur; the provers know `^' for literals only.
LEMMA Powers ==
  /\ 2^0 = 1 /\ 2^1 = 2 /\ 2^2 = 4 /\ 2^3 = 8
  /\ 2^4 = 16 /\ 2^5 = 32 /\ 2^6 = 64 /\ 2^7 = 128
  /\ 2^8 = 256 /\ 2^9 = 512 /\ 2^10 = 1024 /\ 2^11 = 2048
  /\ 2^12 = 4096 /\ 2^13 = 8192 /\ 2^14 = 16384 /\ 2^15 = 32768
  /\ 2^16 = 65536 /\ 2^17 = 131072 /\ 2^18 = 262144 /\ 2^19 = 524288
  /\ 2^20 = 1048576 /\ 2^21 = 2097152 /\ 2^22 = 4194304 /\ 2^23 = 8388608
  /\ 2^24 = 16777216 /\ 2^25 = 33554432 /\ 2^26 = 67108864 /\ 2^27 = 134217728
OBVIOUS

\* One more bit of a number.
LEMMA OneMore ==
  ASSUME NEW X \in Nat, NEW k \in 0..21
  PROVE  /\ 2 * Upper(X, k + 1) + BitAt(X, k) = Upper(X, k)
         /\ Upper(X, k) \in Nat /\ Upper(X, k + 1) \in Nat
         /\ BitAt(X, k) \in {0, 1}
         /\ Upper(X, k) % 2 = BitAt(X, k)
<1>0. CASE k = 0 BY <1>0, Powers, SMT DEF BitAt, Upper
<1>1. CASE k = 1 BY <1>1, Powers, SMT DEF BitAt, Upper
<1>2. CASE k = 2 BY <1>2, Powers, SMT DEF BitAt, Upper
<1>3. CASE k = 3 BY <1>3, Powers, SMT DEF BitAt, Upper
<1>4. CASE k = 4 BY <1>4, Powers, SMT DEF BitAt, Upper
<1>5. CASE k = 5 BY <1>5, Powers, SMT DEF BitAt, Upper
<1>6. CASE k = 6 BY <1>6, Powers, SMT DEF BitAt, Upper
<1>7. CASE k = 7 BY <1>7, Powers, SMT DEF BitAt, Upper
<1>8. CASE k = 8 BY <1>8, Powers, SMT DEF BitAt, Upper
<1>9. CASE k = 9 BY <1>9, Powers, SMT DEF BitAt, Upper
<1>10. CASE k = 10 BY <1>10, Powers, SMT DEF BitAt, Upper
<1>11. CASE k = 11 BY <1>11, Powers, SMT DEF BitAt, Upper
<1>12. CASE k = 12 BY <1>12, Powers, SMT DEF BitAt, Upper
<1>13. CASE k = 13 BY <1>13, Powers, SMT DEF BitAt, Upper
<1>14. CASE k = 14 BY <1>14, Powers, SMT DEF BitAt, Upper
<1>15. CASE k = 15 BY <1>15, Powers, SMT DEF BitAt, Upper
<1>16. CASE k = 16 BY <1>16, Powers, SMT DEF BitAt, Upper
<1>17. CASE k = 17 BY <1>17, Powers, SMT DEF BitAt, Upper
<1>18. CASE k = 18 BY <1>18, Powers, SMT DEF BitAt, Upper
<1>19. CASE k = 19 BY <1>19, Powers, SMT DEF BitAt, Upper
<1>20. CASE k = 20 BY <1>20, Powers, SMT DEF BitAt, Upper
<1>21. CASE k = 21 BY <1>21, Powers, SMT DEF BitAt, Upper
<1> QED BY <1>0, <1>1, <1>2, <1>3, <1>4, <1>5, <1>6, <1>7, <1>8, <1>9, <1>10, <1>11,
     <1>12, <1>13, <1>14, <1>15, <1>16, <1>17, <1>18, <1>19, <1>20, <1>21

\* Taking no bits away leaves the number.
LEMMA UpperAll == ASSUME NEW X \in Nat PROVE Upper(X, 0) = X
  BY Powers DEF Upper

\* One bit more taken away is one halving more.
LEMMA UpperHalf ==
  ASSUME NEW X \in Nat, NEW k \in 0..21
  PROVE  Upper(X, k + 1) = Upper(X, k) \div 2
<1>1. PICK u \in Nat, v \in Nat, w \in {0, 1} : u = Upper(X, k + 1) /\ v = Upper(X, k) /\ 2 * u + w = v
  <2>1. /\ 2 * Upper(X, k + 1) + BitAt(X, k) = Upper(X, k)
        /\ Upper(X, k) \in Nat /\ Upper(X, k + 1) \in Nat /\ BitAt(X, k) \in {0, 1}
    BY OneMore
  <2> QED BY <2>1
<1> QED BY <1>1

\* Bits taken away in two goes.
LEMMA UpperUpper ==
  ASSUME NEW X \in Nat, NEW a \in 0..9, NEW b \in 0..17, a + b <= 22
  PROVE  Upper(Upper(X, a), b) = Upper(X, a + b)
<1>1. PICK Y \in Nat : Y = Upper(X, a)
  <2>1. a \in 0..21
    OBVIOUS
  <2>2. Upper(X, a) \in Nat
    BY <2>1, OneMore
  <2> QED BY <2>2
<1> DEFINE Same(k) == a + k <= 22 => Upper(Y, k) = Upper(X, a + k)
<1>2. ASSUME NEW k \in 0..16, Same(k) PROVE Same(k + 1)
  <2>1. SUFFICES ASSUME a + (k + 1) <= 22 PROVE Upper(Y, k + 1) = Upper(X, a + (k + 1))
    OBVIOUS
  <2>2. PICK c \in 0..21 : c = a + k /\ a + (k + 1) = c + 1
    BY <2>1
  <2>3. Upper(Y, k + 1) = Upper(Y, k) \div 2
    BY UpperHalf
  <2>4. Upper(X, c + 1) = Upper(X, c) \div 2
    BY UpperHalf
  <2> QED BY <1>2, <2>1, <2>2, <2>3, <2>4
<1>3. Same(0)
  BY <1>1, UpperAll
<1> HIDE DEF Same
<1>4. Same(1)
  BY <1>2, <1>3
<1>5. Same(2)
  BY <1>2, <1>4
<1>6. Same(3)
  BY <1>2, <1>5
<1>7. Same(4)
  BY <1>2, <1>6
<1>8. Same(5)
  BY <1>2, <1>7
<1>9. Same(6)
  BY <1>2, <1>8
<1>10. Same(7)
  BY <1>2, <1>9
<1>11. Same(8)
  BY <1>2, <1>10
<1>12. Same(9)
  BY <1>2, <1>11
<1>13. Same(10)
  BY <1>2, <1>12
<1>14. Same(11)
  BY <1>2, <1>13
<1>15. Same(12)
  BY <1>2, <1>14
<1>16. Same(13)
  BY <1>2, <1>15
<1>17. Same(14)
  BY <1>2, <1>16
<1>18. Same(15)
  BY <1>2, <1>17
<1>19. Same(16)
  BY <1>2, <1>18
<1>20. Same(17)
  BY <1>2, <1>19
<1>c. b \in {0, 1, 2, 3, 4, 5, 6, 7, 8, 9, 10, 11, 12, 13, 14, 15, 16, 17}
  OBVIOUS
<1>e. Same(b)
  BY <1>c, <1>3, <1>4, <1>5, <1>6, <1>7, <1>8, <1>9, <1>10, <1>11, <1>12, <1>13, <1>14, <1>15, <1>16, <1>17, <1>18, <1>19, <1>20
<1> QED BY <1>1, <1>e DEF Same

\* A number of l bits and one bit more make a number of l + 1 bits.
LEMMA OneBitMore ==
  ASSUME NEW l \in 0..20, NEW b \in 0..(2^l - 1), NEW v \in {0, 1}
  PROVE  2 * b + v \in 0..(2^(l + 1) - 1)
<1>1. 2^(l + 1) = 2 * 2^l /\ 2^l \in Nat
  <2>0. CASE l = 0 BY <2>0, Powers, SMT
  <2>1. CASE l = 1 BY <2>1, Powers, SMT
  <2>2. CASE l = 2 BY <2>2, Powers, SMT
  <2>3. CASE l = 3 BY <2>3, Powers, SMT
  <2>4. CASE l = 4 BY <2>4, Powers, SMT
  <2>5. CASE l = 5 BY <2>5, Powers, SMT
  <2>6. CASE l = 6 BY <2>6, Powers, SMT
  <2>7. CASE l = 7 BY <2>7, Powers, SMT
  <2>8. CASE l = 8 BY <2>8, Powers, SMT
  <2>9. CASE l = 9 BY <2>9, Powers, SMT
  <2>10. CASE l = 10 BY <2>10, Powers, SMT
  <2>11. CASE l = 11 BY <2>11, Powers, SMT
  <2>12. CASE l = 12 BY <2>12, Powers, SMT
  <2>13. CASE l = 13 BY <2>13, Powers, SMT
  <2>14. CASE l = 14 BY <2>14, Powers, SMT
  <2>15. CASE l = 15 BY <2>15, Powers, SMT
  <2>16. CASE l = 16 BY <2>16, Powers, SMT
  <2>17. CASE l = 17 BY <2>17, Powers, SMT
  <2>18. CASE l = 18 BY <2>18, Powers, SMT
  <2>19. CASE l = 19 BY <2>19, Powers, SMT
  <2>20. CASE l = 20 BY <2>20, Powers, SMT
  <2> QED BY <2>0, <2>1, <2>2, <2>3, <2>4, <2>5, <2>6, <2>7, <2>8, <2>9, <2>10, <2>11, <2>12, <2>13, <2>14, <2>15, <2>16, <2>17, <2>18, <2>19, <2>20
<1>2. PICK q \in Nat, r \in Nat : q = 2^l /\ r = 2^(l + 1) /\ r = 2 * q
  BY <1>1
<1>3. b \in 0..(q - 1)
  BY <1>2
<1>4. 2 * b + v \in 0..(r - 1)
  BY <1>2, <1>3
<1> QED BY <1>2, <1>4

\* The number of no bits.
LEMMA NoBits == 0 \in 0..(2^0 - 1)
  BY Powers

\* Bit k of a number that lost its lowest s bits.
LEMMA UpperBit ==
  ASSUME NEW X \in Nat, NEW s \in 0..9, NEW k \in 0..12
  PROVE  BitAt(Upper(X, s), k) = BitAt(X, s + k)
<1>1. s \in 0..21 /\ k \in 0..21 /\ k \in 0..17 /\ s + k \in 0..21 /\ s + k <= 22
  OBVIOUS
<1>2. PICK Y \in Nat : Y = Upper(X, s)
  BY <1>1, OneMore
<1>3. Upper(Y, k) % 2 = BitAt(Y, k)
  BY <1>1, OneMore
<1>4. PICK e \in 0..21 : e = s + k
  BY <1>1
<1>5. Upper(X, e) % 2 = BitAt(X, e)
  BY OneMore
<1>6. Upper(Upper(X, s), k) = Upper(X, s + k)
  BY <1>1, UpperUpper
<1> QED BY <1>2, <1>3, <1>4, <1>5, <1>6

\* Zero has no bits.
LEMMA BitOfZero == ASSUME NEW k \in 0..21 PROVE BitAt(0, k) = 0
<1>0. CASE k = 0 BY <1>0, Powers DEF BitAt
<1>1. CASE k = 1 BY <1>1, Powers DEF BitAt
<1>2. CASE k = 2 BY <1>2, Powers DEF BitAt
<1>3. CASE k = 3 BY <1>3, Powers DEF BitAt
<1>4. CASE k = 4 BY <1>4, Powers DEF BitAt
<1>5. CASE k = 5 BY <1>5, Powers DEF BitAt
<1>6. CASE k = 6 BY <1>6, Powers DEF BitAt
<1>7. CASE k = 7 BY <1>7, Powers DEF BitAt
<1>8. CASE k = 8 BY <1>8, Powers DEF BitAt
<1>9. CASE k = 9 BY <1>9, Powers DEF BitAt
<1>10. CASE k = 10 BY <1>10, Powers DEF BitAt
<1>11. CASE k = 11 BY <1>11, Powers DEF BitAt
<1>12. CASE k = 12 BY <1>12, Powers DEF BitAt
<1>13. CASE k = 13 BY <1>13, Powers DEF BitAt
<1>14. CASE k = 14 BY <1>14, Powers DEF BitAt
<1>15. CASE k = 15 BY <1>15, Powers DEF BitAt
<1>16. CASE k = 16 BY <1>16, Powers DEF BitAt
<1>17. CASE k = 17 BY <1>17, Powers DEF BitAt
<1>18. CASE k = 18 BY <1>18, Powers DEF BitAt
<1>19. CASE k = 19 BY <1>19, Powers DEF BitAt
<1>20. CASE k = 20 BY <1>20, Powers DEF BitAt
<1>21. CASE k = 21 BY <1>21, Powers DEF BitAt
<1> QED BY <1>0, <1>1, <1>2, <1>3, <1>4, <1>5, <1>6, <1>7, <1>8, <1>9, <1>10, <1>11, <1>12, <1>13, <1>14, <1>15, <1>16, <1>17, <1>18, <1>19, <1>20, <1>21

\* The upper bits of a byte are a byte: no bit of it at first, all of it at the end.
LEMMA UpperByte ==
  ASSUME NEW x \in Byte, NEW s \in 0..8
  PROVE  Upper(x, s) \in Byte /\ (s = 8 => Upper(x, s) = 0) /\ (s = 0 => Upper(x, s) = x)
<1>1. x \in 0..255
  BY DEF Byte
<1>2. CASE s = 0 BY <1>1, <1>2, Powers DEF Upper, Byte
<1>3. CASE s = 1 BY <1>1, <1>3, Powers DEF Upper, Byte
<1>4. CASE s = 2 BY <1>1, <1>4, Powers DEF Upper, Byte
<1>5. CASE s = 3 BY <1>1, <1>5, Powers DEF Upper, Byte
<1>6. CASE s = 4 BY <1>1, <1>6, Powers DEF Upper, Byte
<1>7. CASE s = 5 BY <1>1, <1>7, Powers DEF Upper, Byte
<1>8. CASE s = 6 BY <1>1, <1>8, Powers DEF Upper, Byte
<1>9. CASE s = 7 BY <1>1, <1>9, Powers DEF Upper, Byte
<1>10. CASE s = 8 BY <1>1, <1>10, Powers DEF Upper, Byte
<1> QED BY <1>2, <1>3, <1>4, <1>5, <1>6, <1>7, <1>8, <1>9, <1>10

\* One more bit of a byte, as byteReceive gathers them.
LEMMA BitOfByte ==
  ASSUME NEW x \in Byte, NEW s \in 0..7
  PROVE  2 * Upper(x, s + 1) + BitAt(x, s) = Upper(x, s) /\ BitAt(x, s) \in {0, 1}
<1>1. PICK X \in Nat, k \in 0..21 : X = x /\ k = s
  BY DEF Byte
<1>2. 2 * Upper(X, k + 1) + BitAt(X, k) = Upper(X, k) /\ BitAt(X, k) \in {0, 1}
  BY OneMore
<1> QED BY <1>1, <1>2

\* Without its lowest two bits, a number's bit k is the one that was two places higher.
LEMMA Shift2 ==
  ASSUME NEW w \in Nat, NEW k \in 0..25
  PROVE  BitAt(w \div 4, k) = BitAt(w, k + 2)
<1>0. CASE k = 0 BY <1>0, Powers, SMTT(30) DEF BitAt
<1>1. CASE k = 1 BY <1>1, Powers, SMTT(30) DEF BitAt
<1>2. CASE k = 2 BY <1>2, Powers, SMTT(30) DEF BitAt
<1>3. CASE k = 3 BY <1>3, Powers, SMTT(30) DEF BitAt
<1>4. CASE k = 4 BY <1>4, Powers, SMTT(30) DEF BitAt
<1>5. CASE k = 5 BY <1>5, Powers, SMTT(30) DEF BitAt
<1>6. CASE k = 6 BY <1>6, Powers, SMTT(30) DEF BitAt
<1>7. CASE k = 7 BY <1>7, Powers, SMTT(30) DEF BitAt
<1>8. CASE k = 8 BY <1>8, Powers, SMTT(30) DEF BitAt
<1>9. CASE k = 9 BY <1>9, Powers, SMTT(30) DEF BitAt
<1>10. CASE k = 10 BY <1>10, Powers, SMTT(30) DEF BitAt
<1>11. CASE k = 11 BY <1>11, Powers, SMTT(30) DEF BitAt
<1>12. CASE k = 12 BY <1>12, Powers, SMTT(30) DEF BitAt
<1>13. CASE k = 13 BY <1>13, Powers, SMTT(30) DEF BitAt
<1>14. CASE k = 14 BY <1>14, Powers, SMTT(30) DEF BitAt
<1>15. CASE k = 15 BY <1>15, Powers, SMTT(30) DEF BitAt
<1>16. CASE k = 16 BY <1>16, Powers, SMTT(30) DEF BitAt
<1>17. CASE k = 17 BY <1>17, Powers, SMTT(30) DEF BitAt
<1>18. CASE k = 18 BY <1>18, Powers, SMTT(30) DEF BitAt
<1>19. CASE k = 19 BY <1>19, Powers, SMTT(30) DEF BitAt
<1>20. CASE k = 20 BY <1>20, Powers, SMTT(30) DEF BitAt
<1>21. CASE k = 21 BY <1>21, Powers, SMTT(30) DEF BitAt
<1>22. CASE k = 22 BY <1>22, Powers, SMTT(30) DEF BitAt
<1>23. CASE k = 23 BY <1>23, Powers, SMTT(30) DEF BitAt
<1>24. CASE k = 24 BY <1>24, Powers, SMTT(30) DEF BitAt
<1>25. CASE k = 25 BY <1>25, Powers, SMTT(30) DEF BitAt
<1> QED BY <1>0, <1>1, <1>2, <1>3, <1>4, <1>5, <1>6, <1>7, <1>8, <1>9, <1>10,
           <1>11, <1>12, <1>13, <1>14, <1>15, <1>16, <1>17, <1>18, <1>19, <1>20, <1>21,
           <1>22, <1>23, <1>24, <1>25

\* And of its lowest four.
LEMMA Shift4 ==
  ASSUME NEW w \in Nat, NEW k \in 0..23
  PROVE  BitAt(w \div 16, k) = BitAt(w, k + 4)
<1>1. w \div 4 \in Nat /\ (w \div 4) \div 4 = w \div 16
  BY SMT
<1>2. BitAt((w \div 4) \div 4, k) = BitAt(w \div 4, k + 2)
  BY <1>1, Shift2
<1>3. BitAt(w \div 4, k + 2) = BitAt(w, (k + 2) + 2)
  BY Shift2
<1> QED BY <1>1, <1>2, <1>3

\* And of its lowest six.
LEMMA Shift6 ==
  ASSUME NEW w \in Nat, NEW k \in 0..21
  PROVE  BitAt(w \div 64, k) = BitAt(w, k + 6)
<1>1. w \div 16 \in Nat /\ (w \div 16) \div 4 = w \div 64
  BY SMT
<1>2. BitAt((w \div 16) \div 4, k) = BitAt(w \div 16, k + 2)
  BY <1>1, Shift2
<1>3. BitAt(w \div 16, k + 2) = BitAt(w, (k + 2) + 4)
  BY Shift4
<1> QED BY <1>1, <1>2, <1>3

\* And of its lowest eight.
LEMMA Shift8 ==
  ASSUME NEW w \in Nat, NEW k \in 0..19
  PROVE  BitAt(w \div 256, k) = BitAt(w, k + 8)
<1>1. w \div 64 \in Nat /\ (w \div 64) \div 4 = w \div 256
  BY SMT
<1>2. BitAt((w \div 64) \div 4, k) = BitAt(w \div 64, k + 2)
  BY <1>1, Shift2
<1>3. BitAt(w \div 64, k + 2) = BitAt(w, (k + 2) + 6)
  BY Shift6
<1> QED BY <1>1, <1>2, <1>3

\* A number with a bit above its eleven.
LEMMA BitBelow ==
  ASSUME NEW Q \in Nat, NEW k \in 0..10
  PROVE  BitAt(2048 + Q, k) = BitAt(Q, k)
<1>0. CASE k = 0
  <2>1. ((2048 + Q) \div 1) % 2 = (Q \div 1) % 2
    OBVIOUS
  <2> QED BY <2>1, <1>0, Powers DEF BitAt
<1>1. CASE k = 1
  <2>1. ((2048 + Q) \div 2) % 2 = (Q \div 2) % 2
    OBVIOUS
  <2> QED BY <2>1, <1>1, Powers DEF BitAt
<1>2. CASE k = 2
  <2>1. ((2048 + Q) \div 4) % 2 = (Q \div 4) % 2
    OBVIOUS
  <2> QED BY <2>1, <1>2, Powers DEF BitAt
<1>3. CASE k = 3
  <2>1. ((2048 + Q) \div 8) % 2 = (Q \div 8) % 2
    OBVIOUS
  <2> QED BY <2>1, <1>3, Powers DEF BitAt
<1>4. CASE k = 4
  <2>1. ((2048 + Q) \div 16) % 2 = (Q \div 16) % 2
    OBVIOUS
  <2> QED BY <2>1, <1>4, Powers DEF BitAt
<1>5. CASE k = 5
  <2>1. ((2048 + Q) \div 32) % 2 = (Q \div 32) % 2
    OBVIOUS
  <2> QED BY <2>1, <1>5, Powers DEF BitAt
<1>6. CASE k = 6
  <2>1. ((2048 + Q) \div 64) % 2 = (Q \div 64) % 2
    OBVIOUS
  <2> QED BY <2>1, <1>6, Powers DEF BitAt
<1>7. CASE k = 7
  <2>1. ((2048 + Q) \div 128) % 2 = (Q \div 128) % 2
    OBVIOUS
  <2> QED BY <2>1, <1>7, Powers DEF BitAt
<1>8. CASE k = 8
  <2>1. ((2048 + Q) \div 256) % 2 = (Q \div 256) % 2
    OBVIOUS
  <2> QED BY <2>1, <1>8, Powers DEF BitAt
<1>9. CASE k = 9
  <2>1. ((2048 + Q) \div 512) % 2 = (Q \div 512) % 2
    OBVIOUS
  <2> QED BY <2>1, <1>9, Powers DEF BitAt
<1>10. CASE k = 10
  <2>1. ((2048 + Q) \div 1024) % 2 = (Q \div 1024) % 2
    OBVIOUS
  <2> QED BY <2>1, <1>10, Powers DEF BitAt
<1> QED BY <1>0, <1>1, <1>2, <1>3, <1>4, <1>5, <1>6, <1>7, <1>8, <1>9, <1>10

(***************************************************************************)
(* Frames of 22 bits, laid over bytes of eight.                            *)
(***************************************************************************)
\* Low22 keeps the lowest 22 bits as they are.
LEMMA LowBit ==
  ASSUME NEW w \in Nat, NEW k \in 0..21
  PROVE  BitAt(Low22(w), k) = BitAt(w, k)
<1>0. CASE k = 0 BY <1>0, Powers, SMT DEF BitAt, Low22
<1>1. CASE k = 1 BY <1>1, Powers, SMT DEF BitAt, Low22
<1>2. CASE k = 2 BY <1>2, Powers, SMT DEF BitAt, Low22
<1>3. CASE k = 3 BY <1>3, Powers, SMT DEF BitAt, Low22
<1>4. CASE k = 4 BY <1>4, Powers, SMT DEF BitAt, Low22
<1>5. CASE k = 5 BY <1>5, Powers, SMT DEF BitAt, Low22
<1>6. CASE k = 6 BY <1>6, Powers, SMT DEF BitAt, Low22
<1>7. CASE k = 7 BY <1>7, Powers, SMT DEF BitAt, Low22
<1>8. CASE k = 8 BY <1>8, Powers, SMT DEF BitAt, Low22
<1>9. CASE k = 9 BY <1>9, Powers, SMT DEF BitAt, Low22
<1>10. CASE k = 10 BY <1>10, Powers, SMT DEF BitAt, Low22
<1>11. CASE k = 11 BY <1>11, Powers, SMT DEF BitAt, Low22
<1>12. CASE k = 12 BY <1>12, Powers, SMT DEF BitAt, Low22
<1>13. CASE k = 13 BY <1>13, Powers, SMT DEF BitAt, Low22
<1>14. CASE k = 14 BY <1>14, Powers, SMT DEF BitAt, Low22
<1>15. CASE k = 15 BY <1>15, Powers, SMT DEF BitAt, Low22
<1>16. CASE k = 16 BY <1>16, Powers, SMTT(30) DEF BitAt, Low22
<1>17. CASE k = 17 BY <1>17, Powers, SMT DEF BitAt, Low22
<1>18. CASE k = 18 BY <1>18, Powers, SMT DEF BitAt, Low22
<1>19. CASE k = 19 BY <1>19, Powers, SMT DEF BitAt, Low22
<1>20. CASE k = 20 BY <1>20, Powers, SMT DEF BitAt, Low22
<1>21. CASE k = 21 BY <1>21, Powers, SMT DEF BitAt, Low22
<1> QED BY <1>0, <1>1, <1>2, <1>3, <1>4, <1>5, <1>6, <1>7, <1>8, <1>9, <1>10,
           <1>11, <1>12, <1>13, <1>14, <1>15, <1>16, <1>17, <1>18, <1>19, <1>20, <1>21

\* The bits of two bytes put together: the low byte's eight, and then the high one's.
LEMMA ByteBit ==
  ASSUME NEW hi \in Nat, NEW lo \in Byte, NEW k \in 0..27
  PROVE  BitAt(Join(hi, lo), k) = IF k < 8 THEN BitAt(lo, k) ELSE BitAt(hi, k - 8)
<1>b. lo \in 0..255
  BY DEF Byte
<1>0. CASE k = 0 BY <1>b, <1>0, Powers, SMT DEF BitAt, Join
<1>1. CASE k = 1 BY <1>b, <1>1, Powers, SMT DEF BitAt, Join
<1>2. CASE k = 2 BY <1>b, <1>2, Powers, SMT DEF BitAt, Join
<1>3. CASE k = 3 BY <1>b, <1>3, Powers, SMT DEF BitAt, Join
<1>4. CASE k = 4 BY <1>b, <1>4, Powers, SMT DEF BitAt, Join
<1>5. CASE k = 5 BY <1>b, <1>5, Powers, SMT DEF BitAt, Join
<1>6. CASE k = 6 BY <1>b, <1>6, Powers, SMT DEF BitAt, Join
<1>7. CASE k = 7 BY <1>b, <1>7, Powers, SMT DEF BitAt, Join
<1>8. CASE k >= 8
  <2>1. Join(hi, lo) \div 256 = hi /\ Join(hi, lo) \in Nat
    BY <1>b, SMT DEF Join
  <2>2. k - 8 \in 0..19 /\ (k - 8) + 8 = k
    BY <1>8
  <2> QED BY <1>8, <2>1, <2>2, Shift8
<1> QED BY <1>0, <1>1, <1>2, <1>3, <1>4, <1>5, <1>6, <1>7, <1>8

\* The bits of three bytes put together.
LEMMA WordBit ==
  ASSUME NEW a \in Nat, NEW b \in Byte, NEW c \in Byte, NEW k \in 0..27
  PROVE  /\ BitAt(Word3(a, b, c), k) = IF k < 8 THEN BitAt(c, k)
                                     ELSE IF k < 16 THEN BitAt(b, k - 8) ELSE BitAt(a, k - 16)
         /\ Word3(a, b, c) \in Nat
<1>1. Join(a, b) \in Nat BY DEF Join, Byte
<1>2. Join(Join(a, b), c) \in Nat BY <1>1, SMT DEF Join, Byte
<1>3. BitAt(Join(Join(a, b), c), k) = IF k < 8 THEN BitAt(c, k) ELSE BitAt(Join(a, b), k - 8)
  BY <1>1, ByteBit
<1>4. k >= 8 => BitAt(Join(a, b), k - 8) = IF k - 8 < 8 THEN BitAt(b, k - 8) ELSE BitAt(a, (k - 8) - 8)
  BY ByteBit
<1>5. (k - 8) - 8 = k - 16 OBVIOUS
<1> QED BY <1>2, <1>3, <1>4, <1>5 DEF Word3

\* Bit i of frame j of a vector.
LEMMA FrameBit ==
  ASSUME NEW V \in Seq(Byte), NEW j \in Nat, 22 * (j + 1) <= 8 * Len(V), NEW i \in 0..21
  PROVE  BitOf(V, 22 * j + i + 1) = BitAt(FrameAt(V, j), 21 - i)
<1>1. PICK g \in Nat : g = j \div 4 /\ (j = 4 * g \/ j = 4 * g + 1 \/ j = 4 * g + 2 \/ j = 4 * g + 3)
  <2>1. j \div 4 \in Nat /\ j = 4 * (j \div 4) + (j % 4) /\ j % 4 \in 0..3
    OBVIOUS
  <2> QED BY <2>1
<1>2. Len(V) \in Nat /\ \A k \in 1..Len(V) : V[k] \in Byte
  OBVIOUS
<1>3. CASE j = 4 * g + 0
  <2>1. PICK b1 \in Byte, b2 \in Byte, b3 \in Byte :
          V[11 * g + 1] = b1 /\ V[11 * g + 2] = b2 /\ V[11 * g + 3] = b3
    BY <1>2, <1>3
  <2>2. PICK k \in 0..21 : k = 21 - i
    OBVIOUS
  <2>3. PICK e \in 0..27 : e = k + 2
    OBVIOUS
  <2>4. PICK w : w = Word3(b1, b2, b3)
    OBVIOUS
  <2>5. FrameAt(V, j) = Low22(w \div 4)
    <3>1. j % 4 = 0
      BY <1>3
    <3>2. FrameAt(V, j) = FrameFrom(V, 11 * g, 0)
      BY <1>1, <3>1 DEF FrameAt
    <3> QED BY <3>2, <2>1, <2>4 DEF FrameFrom
  <2>h. b1 \in Nat
    BY DEF Byte
  <2>6. w \in Nat /\ BitAt(w, e) = IF e < 8 THEN BitAt(b3, e) ELSE IF e < 16 THEN BitAt(b2, e - 8)
                                  ELSE BitAt(b1, e - 16)
    <3>1. w = Word3(b1, b2, b3)
      BY <2>4, <2>h
    <3> QED BY <3>1, <2>h, WordBit
  <2>s. BitAt(FrameAt(V, j), k) = BitAt(w, e)
    <3>1. PICK x \in Nat : x = w \div 4
      BY <2>6, SMT
    <3>0. k \in 0..25
      OBVIOUS
    <3>2. BitAt(x, k) = BitAt(w, e)
      BY <2>3, <2>6, <3>0, <3>1, Shift2
    <3>3. BitAt(Low22(x), k) = BitAt(x, k)
      BY LowBit
    <3> QED BY <2>5, <3>1, <3>2, <3>3
  <2>7. ((22 * j + i + 1) - 1) % 8 = (i + 0) % 8
    BY <1>3
  <2>8. CASE i \in 0..7
    <3>1. ((22 * j + i + 1) - 1) \div 8 + 1 = 11 * g + 1
      BY <1>3, <2>8
    <3>2. e - 16 = 7 - ((i + 0) % 8)
      BY <2>8, <2>2, <2>3
    <3>3. BitAt(w, e) = BitAt(b1, e - 16)
      BY <2>8, <2>2, <2>3, <2>6
    <3>4. BitOf(V, 22 * j + i + 1) = BitAt(b1, 7 - ((i + 0) % 8))
      BY <3>1, <2>1, <2>7, Zenon DEF BitOf, BitAt
    <3> QED BY <2>2, <2>s, <3>2, <3>3, <3>4
  <2>9. CASE i \in 8..15
    <3>1. ((22 * j + i + 1) - 1) \div 8 + 1 = 11 * g + 2
      BY <1>3, <2>9
    <3>2. e - 8 = 7 - ((i + 0) % 8)
      BY <2>9, <2>2, <2>3
    <3>3. BitAt(w, e) = BitAt(b2, e - 8)
      BY <2>9, <2>2, <2>3, <2>6
    <3>4. BitOf(V, 22 * j + i + 1) = BitAt(b2, 7 - ((i + 0) % 8))
      BY <3>1, <2>1, <2>7, Zenon DEF BitOf, BitAt
    <3> QED BY <2>2, <2>s, <3>2, <3>3, <3>4
  <2>10. CASE i \in 16..21
    <3>1. ((22 * j + i + 1) - 1) \div 8 + 1 = 11 * g + 3
      BY <1>3, <2>10
    <3>2. e = 7 - ((i + 0) % 8)
      BY <2>10, <2>2, <2>3
    <3>3. BitAt(w, e) = BitAt(b3, e)
      BY <2>10, <2>2, <2>3, <2>6
    <3>4. BitOf(V, 22 * j + i + 1) = BitAt(b3, 7 - ((i + 0) % 8))
      BY <3>1, <2>1, <2>7, Zenon DEF BitOf, BitAt
    <3> QED BY <2>2, <2>s, <3>2, <3>3, <3>4
  <2> QED BY <2>8, <2>9, <2>10
<1>4. CASE j = 4 * g + 1
  <2>1. PICK b1 \in Byte, b2 \in Byte, b3 \in Byte, b4 \in Byte :
          V[11 * g + 3] = b1 /\ V[11 * g + 4] = b2 /\ V[11 * g + 5] = b3 /\ V[11 * g + 6] = b4
    BY <1>2, <1>4
  <2>2. PICK k \in 0..21 : k = 21 - i
    OBVIOUS
  <2>3. PICK e \in 0..27 : e = k + 4
    OBVIOUS
  <2>4. PICK w : w = Word3(Join(b1, b2), b3, b4)
    OBVIOUS
  <2>5. FrameAt(V, j) = Low22(w \div 16)
    <3>1. j % 4 = 1
      BY <1>4
    <3>2. FrameAt(V, j) = FrameFrom(V, 11 * g, 1)
      BY <1>1, <3>1 DEF FrameAt
    <3> QED BY <3>2, <2>1, <2>4 DEF FrameFrom
  <2>h. PICK h \in Nat : h = Join(b1, b2)
    BY DEF Byte, Join
  <2>b. e >= 16 => BitAt(h, e - 16) = IF e - 16 < 8 THEN BitAt(b2, e - 16) ELSE BitAt(b1, (e - 16) - 8)
    <3>1. b1 \in Nat BY DEF Byte
    <3>2. e >= 16 => e - 16 \in 0..27 OBVIOUS
    <3> QED BY <2>h, <3>1, <3>2, ByteBit
  <2>6. w \in Nat /\ BitAt(w, e) = IF e < 8 THEN BitAt(b4, e) ELSE IF e < 16 THEN BitAt(b3, e - 8)
                                  ELSE BitAt(h, e - 16)
    <3>1. w = Word3(h, b3, b4)
      BY <2>4, <2>h
    <3> QED BY <3>1, <2>h, WordBit
  <2>s. BitAt(FrameAt(V, j), k) = BitAt(w, e)
    <3>1. PICK x \in Nat : x = w \div 16
      BY <2>6, SMT
    <3>0. k \in 0..23
      OBVIOUS
    <3>2. BitAt(x, k) = BitAt(w, e)
      BY <2>3, <2>6, <3>0, <3>1, Shift4
    <3>3. BitAt(Low22(x), k) = BitAt(x, k)
      BY LowBit
    <3> QED BY <2>5, <3>1, <3>2, <3>3
  <2>7. ((22 * j + i + 1) - 1) % 8 = (i + 6) % 8
    BY <1>4
  <2>8. CASE i \in 0..1
    <3>1. ((22 * j + i + 1) - 1) \div 8 + 1 = 11 * g + 3
      BY <1>4, <2>8
    <3>2. (e - 16) - 8 = 7 - ((i + 6) % 8)
      BY <2>8, <2>2, <2>3
    <3>3. BitAt(w, e) = BitAt(b1, (e - 16) - 8)
      BY <2>8, <2>2, <2>3, <2>6, <2>b
    <3>4. BitOf(V, 22 * j + i + 1) = BitAt(b1, 7 - ((i + 6) % 8))
      BY <3>1, <2>1, <2>7, Zenon DEF BitOf, BitAt
    <3> QED BY <2>2, <2>s, <3>2, <3>3, <3>4
  <2>9. CASE i \in 2..9
    <3>1. ((22 * j + i + 1) - 1) \div 8 + 1 = 11 * g + 4
      BY <1>4, <2>9
    <3>2. e - 16 = 7 - ((i + 6) % 8)
      BY <2>9, <2>2, <2>3
    <3>3. BitAt(w, e) = BitAt(b2, e - 16)
      BY <2>9, <2>2, <2>3, <2>6, <2>b
    <3>4. BitOf(V, 22 * j + i + 1) = BitAt(b2, 7 - ((i + 6) % 8))
      BY <3>1, <2>1, <2>7, Zenon DEF BitOf, BitAt
    <3> QED BY <2>2, <2>s, <3>2, <3>3, <3>4
  <2>10. CASE i \in 10..17
    <3>1. ((22 * j + i + 1) - 1) \div 8 + 1 = 11 * g + 5
      BY <1>4, <2>10
    <3>2. e - 8 = 7 - ((i + 6) % 8)
      BY <2>10, <2>2, <2>3
    <3>3. BitAt(w, e) = BitAt(b3, e - 8)
      BY <2>10, <2>2, <2>3, <2>6, <2>b
    <3>4. BitOf(V, 22 * j + i + 1) = BitAt(b3, 7 - ((i + 6) % 8))
      BY <3>1, <2>1, <2>7, Zenon DEF BitOf, BitAt
    <3> QED BY <2>2, <2>s, <3>2, <3>3, <3>4
  <2>11. CASE i \in 18..21
    <3>1. ((22 * j + i + 1) - 1) \div 8 + 1 = 11 * g + 6
      BY <1>4, <2>11
    <3>2. e = 7 - ((i + 6) % 8)
      BY <2>11, <2>2, <2>3
    <3>3. BitAt(w, e) = BitAt(b4, e)
      BY <2>11, <2>2, <2>3, <2>6, <2>b
    <3>4. BitOf(V, 22 * j + i + 1) = BitAt(b4, 7 - ((i + 6) % 8))
      BY <3>1, <2>1, <2>7, Zenon DEF BitOf, BitAt
    <3> QED BY <2>2, <2>s, <3>2, <3>3, <3>4
  <2> QED BY <2>8, <2>9, <2>10, <2>11
<1>5. CASE j = 4 * g + 2
  <2>1. PICK b1 \in Byte, b2 \in Byte, b3 \in Byte, b4 \in Byte :
          V[11 * g + 6] = b1 /\ V[11 * g + 7] = b2 /\ V[11 * g + 8] = b3 /\ V[11 * g + 9] = b4
    BY <1>2, <1>5
  <2>2. PICK k \in 0..21 : k = 21 - i
    OBVIOUS
  <2>3. PICK e \in 0..27 : e = k + 6
    OBVIOUS
  <2>4. PICK w : w = Word3(Join(b1, b2), b3, b4)
    OBVIOUS
  <2>5. FrameAt(V, j) = Low22(w \div 64)
    <3>1. j % 4 = 2
      BY <1>5
    <3>2. FrameAt(V, j) = FrameFrom(V, 11 * g, 2)
      BY <1>1, <3>1 DEF FrameAt
    <3> QED BY <3>2, <2>1, <2>4 DEF FrameFrom
  <2>h. PICK h \in Nat : h = Join(b1, b2)
    BY DEF Byte, Join
  <2>b. e >= 16 => BitAt(h, e - 16) = IF e - 16 < 8 THEN BitAt(b2, e - 16) ELSE BitAt(b1, (e - 16) - 8)
    <3>1. b1 \in Nat BY DEF Byte
    <3>2. e >= 16 => e - 16 \in 0..27 OBVIOUS
    <3> QED BY <2>h, <3>1, <3>2, ByteBit
  <2>6. w \in Nat /\ BitAt(w, e) = IF e < 8 THEN BitAt(b4, e) ELSE IF e < 16 THEN BitAt(b3, e - 8)
                                  ELSE BitAt(h, e - 16)
    <3>1. w = Word3(h, b3, b4)
      BY <2>4, <2>h
    <3> QED BY <3>1, <2>h, WordBit
  <2>s. BitAt(FrameAt(V, j), k) = BitAt(w, e)
    <3>1. PICK x \in Nat : x = w \div 64
      BY <2>6, SMT
    <3>2. BitAt(x, k) = BitAt(w, e)
      BY <2>3, <2>6, <3>1, Shift6
    <3>3. BitAt(Low22(x), k) = BitAt(x, k)
      BY LowBit
    <3> QED BY <2>5, <3>1, <3>2, <3>3
  <2>7. ((22 * j + i + 1) - 1) % 8 = (i + 4) % 8
    BY <1>5
  <2>8. CASE i \in 0..3
    <3>1. ((22 * j + i + 1) - 1) \div 8 + 1 = 11 * g + 6
      BY <1>5, <2>8
    <3>2. (e - 16) - 8 = 7 - ((i + 4) % 8)
      BY <2>8, <2>2, <2>3
    <3>3. BitAt(w, e) = BitAt(b1, (e - 16) - 8)
      BY <2>8, <2>2, <2>3, <2>6, <2>b
    <3>4. BitOf(V, 22 * j + i + 1) = BitAt(b1, 7 - ((i + 4) % 8))
      BY <3>1, <2>1, <2>7, Zenon DEF BitOf, BitAt
    <3> QED BY <2>2, <2>s, <3>2, <3>3, <3>4
  <2>9. CASE i \in 4..11
    <3>1. ((22 * j + i + 1) - 1) \div 8 + 1 = 11 * g + 7
      BY <1>5, <2>9
    <3>2. e - 16 = 7 - ((i + 4) % 8)
      BY <2>9, <2>2, <2>3
    <3>3. BitAt(w, e) = BitAt(b2, e - 16)
      BY <2>9, <2>2, <2>3, <2>6, <2>b
    <3>4. BitOf(V, 22 * j + i + 1) = BitAt(b2, 7 - ((i + 4) % 8))
      BY <3>1, <2>1, <2>7, Zenon DEF BitOf, BitAt
    <3> QED BY <2>2, <2>s, <3>2, <3>3, <3>4
  <2>10. CASE i \in 12..19
    <3>1. ((22 * j + i + 1) - 1) \div 8 + 1 = 11 * g + 8
      BY <1>5, <2>10
    <3>2. e - 8 = 7 - ((i + 4) % 8)
      BY <2>10, <2>2, <2>3
    <3>3. BitAt(w, e) = BitAt(b3, e - 8)
      BY <2>10, <2>2, <2>3, <2>6, <2>b
    <3>4. BitOf(V, 22 * j + i + 1) = BitAt(b3, 7 - ((i + 4) % 8))
      BY <3>1, <2>1, <2>7, Zenon DEF BitOf, BitAt
    <3> QED BY <2>2, <2>s, <3>2, <3>3, <3>4
  <2>11. CASE i \in 20..21
    <3>1. ((22 * j + i + 1) - 1) \div 8 + 1 = 11 * g + 9
      BY <1>5, <2>11
    <3>2. e = 7 - ((i + 4) % 8)
      BY <2>11, <2>2, <2>3
    <3>3. BitAt(w, e) = BitAt(b4, e)
      BY <2>11, <2>2, <2>3, <2>6, <2>b
    <3>4. BitOf(V, 22 * j + i + 1) = BitAt(b4, 7 - ((i + 4) % 8))
      BY <3>1, <2>1, <2>7, Zenon DEF BitOf, BitAt
    <3> QED BY <2>2, <2>s, <3>2, <3>3, <3>4
  <2> QED BY <2>8, <2>9, <2>10, <2>11
<1>6. CASE j = 4 * g + 3
  <2>1. PICK b1 \in Byte, b2 \in Byte, b3 \in Byte :
          V[11 * g + 9] = b1 /\ V[11 * g + 10] = b2 /\ V[11 * g + 11] = b3
    BY <1>2, <1>6
  <2>2. PICK k \in 0..21 : k = 21 - i
    OBVIOUS
  <2>3. PICK e \in 0..27 : e = k + 0
    OBVIOUS
  <2>4. PICK w : w = Word3(b1, b2, b3)
    OBVIOUS
  <2>5. FrameAt(V, j) = Low22(w)
    <3>1. j % 4 = 3
      BY <1>6
    <3>2. FrameAt(V, j) = FrameFrom(V, 11 * g, 3)
      BY <1>1, <3>1 DEF FrameAt
    <3> QED BY <3>2, <2>1, <2>4 DEF FrameFrom
  <2>h. b1 \in Nat
    BY DEF Byte
  <2>6. w \in Nat /\ BitAt(w, e) = IF e < 8 THEN BitAt(b3, e) ELSE IF e < 16 THEN BitAt(b2, e - 8)
                                  ELSE BitAt(b1, e - 16)
    <3>1. w = Word3(b1, b2, b3)
      BY <2>4, <2>h
    <3> QED BY <3>1, <2>h, WordBit
  <2>s. BitAt(FrameAt(V, j), k) = BitAt(w, e)
    <3>1. BitAt(Low22(w), k) = BitAt(w, k)
      BY <2>6, LowBit
    <3> QED BY <2>3, <2>5, <3>1
  <2>7. ((22 * j + i + 1) - 1) % 8 = (i + 2) % 8
    BY <1>6
  <2>8. CASE i \in 0..5
    <3>1. ((22 * j + i + 1) - 1) \div 8 + 1 = 11 * g + 9
      BY <1>6, <2>8
    <3>2. e - 16 = 7 - ((i + 2) % 8)
      BY <2>8, <2>2, <2>3
    <3>3. BitAt(w, e) = BitAt(b1, e - 16)
      BY <2>8, <2>2, <2>3, <2>6
    <3>4. BitOf(V, 22 * j + i + 1) = BitAt(b1, 7 - ((i + 2) % 8))
      BY <3>1, <2>1, <2>7, Zenon DEF BitOf, BitAt
    <3> QED BY <2>2, <2>s, <3>2, <3>3, <3>4
  <2>9. CASE i \in 6..13
    <3>1. ((22 * j + i + 1) - 1) \div 8 + 1 = 11 * g + 10
      BY <1>6, <2>9
    <3>2. e - 8 = 7 - ((i + 2) % 8)
      BY <2>9, <2>2, <2>3
    <3>3. BitAt(w, e) = BitAt(b2, e - 8)
      BY <2>9, <2>2, <2>3, <2>6
    <3>4. BitOf(V, 22 * j + i + 1) = BitAt(b2, 7 - ((i + 2) % 8))
      BY <3>1, <2>1, <2>7, Zenon DEF BitOf, BitAt
    <3> QED BY <2>2, <2>s, <3>2, <3>3, <3>4
  <2>10. CASE i \in 14..21
    <3>1. ((22 * j + i + 1) - 1) \div 8 + 1 = 11 * g + 11
      BY <1>6, <2>10
    <3>2. e = 7 - ((i + 2) % 8)
      BY <2>10, <2>2, <2>3
    <3>3. BitAt(w, e) = BitAt(b3, e)
      BY <2>10, <2>2, <2>3, <2>6
    <3>4. BitOf(V, 22 * j + i + 1) = BitAt(b3, 7 - ((i + 2) % 8))
      BY <3>1, <2>1, <2>7, Zenon DEF BitOf, BitAt
    <3> QED BY <2>2, <2>s, <3>2, <3>3, <3>4
  <2> QED BY <2>8, <2>9, <2>10
<1> QED BY <1>1, <1>3, <1>4, <1>5, <1>6

\* The bits of a vector, read off its table of frames.
LEMMA TableBit ==
  ASSUME NEW V, NEW F, NEW m \in Nat, Table(V, F, m),
         NEW j \in 0..(m - 1), NEW i \in 0..21
  PROVE  BitOf(V, 22 * j + i + 1) = BitAt(F[j + 1], 21 - i)
<1>1. FrameAt(V, j) = F[j + 1] /\ V \in Seq(Byte) /\ 22 * (j + 1) <= 8 * Len(V)
  BY DEF Table
<1>2. j \in Nat
  OBVIOUS
<1> QED BY <1>1, <1>2, FrameBit

\* The first frames of a table are a table.
LEMMA TablePart ==
  ASSUME NEW V, NEW F, NEW m \in Nat, NEW k \in 0..m, Table(V, F, m)
  PROVE  Table(V, F, k)
<1>1. V \in Seq(Byte) /\ 22 * m <= 8 * Len(V) /\ Len(V) \in Nat
  BY DEF Table
<1>2. 22 * k <= 8 * Len(V)
  BY <1>1
<1> QED BY <1>1, <1>2 DEF Table

\* An opcode with its address, a byte and three ones, put together, are an instruction.
LEMMA FrameOf ==
  ASSUME NEW a \in Byte, NEW d \in Byte
  PROVE  /\ ((1024 + a) * 256 + d) * 8 + 7 = Instruction(4, a, d)
         /\ Instruction(4, a, d) \in Nat
<1>1. a \in Nat /\ d \in Nat
  BY DEF Byte
<1> QED BY <1>1 DEF Instruction

\* Bits of the pieces a frame is put together from.
LEMMA Extended ==
  ASSUME NEW P \in Nat, NEW d \in Byte
  PROVE  /\ P * 256 + d \in Nat /\ Upper(P * 256 + d, 8) = P
         /\ \A k \in 0..7 : BitAt(P * 256 + d, k) = BitAt(d, k)
<1>1. d \in Nat /\ d < 256
  BY DEF Byte
<1>2. (P * 256 + d) \div 256 = P /\ P * 256 + d \in Nat
  BY <1>1
<1>3. ASSUME NEW k \in 0..7 PROVE BitAt(P * 256 + d, k) = BitAt(d, k)
  <2>1. k \in 0..27 /\ k < 8 OBVIOUS
  <2>2. BitAt(Join(P, d), k) = BitAt(d, k)
    BY <2>1, ByteBit
  <2> QED BY <2>2 DEF Join
<1> QED BY <1>2, <1>3, Powers DEF Upper

\* And of the three ones that close it.
LEMMA Closed ==
  ASSUME NEW Q \in Nat
  PROVE  /\ Q * 8 + 7 \in Nat /\ Upper(Q * 8 + 7, 3) = Q
         /\ \A k \in 0..2 : BitAt(Q * 8 + 7, k) = 1
<1>1. Q * 8 + 7 \in Nat /\ (Q * 8 + 7) \div 8 = Q
  OBVIOUS
<1>2. (Q * 8 + 7) \div 1 % 2 = 1 /\ ((Q * 8 + 7) \div 2) % 2 = 1 /\ ((Q * 8 + 7) \div 4) % 2 = 1
  OBVIOUS
<1>3. ASSUME NEW k \in 0..2 PROVE BitAt(Q * 8 + 7, k) = 1
  <2>1. CASE k = 0 BY <1>2, <2>1, Powers DEF BitAt
  <2>2. CASE k = 1 BY <1>2, <2>2, Powers DEF BitAt
  <2>3. CASE k = 2 BY <1>2, <2>3, Powers DEF BitAt
  <2> QED BY <2>1, <2>2, <2>3
<1> QED BY <1>1, <1>3, Powers DEF Upper

(***************************************************************************)
(* The tables of issp.c are frames that write RAM and registers, but for   *)
(* the first frames of init1_v and the zeros of init3_3v that run an       *)
(* instruction.                                                            *)
(***************************************************************************)
\* init1_v is 18 frames.
LEMMA Init1Table == Table(init1_v, Init1Frames, 18)
<1> DEFINE F == Init1Frames
        Row(j) == FrameAt(init1_v, j)
<1>1. init1_v \in Seq(Byte) /\ Len(init1_v) = 50
  BY DEF init1_v, Byte
<1>2. /\ Row(0) = F[1] /\ Row(1) = F[2] /\ Row(2) = F[3] /\ Row(3) = F[4]
      /\ Row(4) = F[5] /\ Row(5) = F[6] /\ Row(6) = F[7] /\ Row(7) = F[8]
      /\ Row(8) = F[9] /\ Row(9) = F[10] /\ Row(10) = F[11] /\ Row(11) = F[12]
      /\ Row(12) = F[13] /\ Row(13) = F[14] /\ Row(14) = F[15] /\ Row(15) = F[16]
      /\ Row(16) = F[17] /\ Row(17) = F[18]
  BY SMTT(60) DEF FrameAt, FrameFrom, Word3, Join, Low22, init1_v, Init1Frames,
                     ToRam, ToReg, Instruction
<1> HIDE DEF F, Row
<1>3. \A j \in 0..17 : Row(j) = F[j + 1]
  BY <1>2
<1> QED BY <1>1, <1>3 DEF Table, F, Row

\* init2_v is 13 frames.
LEMMA Init2Table == Table(init2_v, Init2Frames, 13)
<1> DEFINE F == Init2Frames
        Row(j) == FrameAt(init2_v, j)
<1>1. init2_v \in Seq(Byte) /\ Len(init2_v) = 36
  BY DEF init2_v, Byte
<1>2. /\ Row(0) = F[1] /\ Row(1) = F[2] /\ Row(2) = F[3] /\ Row(3) = F[4]
      /\ Row(4) = F[5] /\ Row(5) = F[6] /\ Row(6) = F[7] /\ Row(7) = F[8]
      /\ Row(8) = F[9] /\ Row(9) = F[10] /\ Row(10) = F[11] /\ Row(11) = F[12]
      /\ Row(12) = F[13]
  BY SMTT(60) DEF FrameAt, FrameFrom, Word3, Join, Low22, init2_v, Init2Frames,
                     ToRam, ToReg, Instruction
<1> HIDE DEF F, Row
<1>3. \A j \in 0..12 : Row(j) = F[j + 1]
  BY <1>2
<1> QED BY <1>1, <1>3 DEF Table, F, Row

\* init3_3v is 38 frames.
LEMMA Init3Table == Table(init3_3v, Init3Frames, 38)
<1> DEFINE F == Init3Frames
        Row(j) == FrameAt(init3_3v, j)
<1>1. init3_3v \in Seq(Byte) /\ Len(init3_3v) = 105
  BY DEF init3_3v, Byte
<1>2. /\ Row(0) = F[1] /\ Row(1) = F[2] /\ Row(2) = F[3] /\ Row(3) = F[4]
      /\ Row(4) = F[5] /\ Row(5) = F[6] /\ Row(6) = F[7] /\ Row(7) = F[8]
      /\ Row(8) = F[9] /\ Row(9) = F[10] /\ Row(10) = F[11] /\ Row(11) = F[12]
      /\ Row(12) = F[13] /\ Row(13) = F[14] /\ Row(14) = F[15] /\ Row(15) = F[16]
      /\ Row(16) = F[17] /\ Row(17) = F[18] /\ Row(18) = F[19] /\ Row(19) = F[20]
  BY SMTT(60) DEF FrameAt, FrameFrom, Word3, Join, Low22, init3_3v, Init3Frames,
                     ToRam, ToReg, Instruction
<1>3. /\ Row(20) = F[21] /\ Row(21) = F[22] /\ Row(22) = F[23] /\ Row(23) = F[24]
      /\ Row(24) = F[25] /\ Row(25) = F[26] /\ Row(26) = F[27] /\ Row(27) = F[28]
      /\ Row(28) = F[29] /\ Row(29) = F[30] /\ Row(30) = F[31] /\ Row(31) = F[32]
      /\ Row(32) = F[33] /\ Row(33) = F[34] /\ Row(34) = F[35] /\ Row(35) = F[36]
      /\ Row(36) = F[37] /\ Row(37) = F[38]
  BY SMTT(60) DEF FrameAt, FrameFrom, Word3, Join, Low22, init3_3v, Init3Frames,
                     ToRam, ToReg, Instruction
<1> HIDE DEF F, Row
<1>4. \A j \in 0..37 : Row(j) = F[j + 1]
  BY <1>2, <1>3
<1> QED BY <1>1, <1>4 DEF Table, F, Row

\* id_setup_v is 15 frames.
LEMMA IdSetupTable == Table(id_setup_v, IdSetupFrames, 15)
<1> DEFINE F == IdSetupFrames
        Row(j) == FrameAt(id_setup_v, j)
<1>1. id_setup_v \in Seq(Byte) /\ Len(id_setup_v) = 42
  BY DEF id_setup_v, Byte
<1>2. /\ Row(0) = F[1] /\ Row(1) = F[2] /\ Row(2) = F[3] /\ Row(3) = F[4]
      /\ Row(4) = F[5] /\ Row(5) = F[6] /\ Row(6) = F[7] /\ Row(7) = F[8]
      /\ Row(8) = F[9] /\ Row(9) = F[10] /\ Row(10) = F[11] /\ Row(11) = F[12]
      /\ Row(12) = F[13] /\ Row(13) = F[14] /\ Row(14) = F[15]
  BY SMTT(60) DEF FrameAt, FrameFrom, Word3, Join, Low22, id_setup_v, IdSetupFrames,
                     ToRam, ToReg, Instruction
<1> HIDE DEF F, Row
<1>3. \A j \in 0..14 : Row(j) = F[j + 1]
  BY <1>2
<1> QED BY <1>1, <1>3 DEF Table, F, Row

\* erase_all_v is 14 frames.
LEMMA EraseAllTable == Table(erase_all_v, EraseAllFrames, 14)
<1> DEFINE F == EraseAllFrames
        Row(j) == FrameAt(erase_all_v, j)
<1>1. erase_all_v \in Seq(Byte) /\ Len(erase_all_v) = 39
  BY DEF erase_all_v, Byte
<1>2. /\ Row(0) = F[1] /\ Row(1) = F[2] /\ Row(2) = F[3] /\ Row(3) = F[4]
      /\ Row(4) = F[5] /\ Row(5) = F[6] /\ Row(6) = F[7] /\ Row(7) = F[8]
      /\ Row(8) = F[9] /\ Row(9) = F[10] /\ Row(10) = F[11] /\ Row(11) = F[12]
      /\ Row(12) = F[13] /\ Row(13) = F[14]
  BY SMTT(60) DEF FrameAt, FrameFrom, Word3, Join, Low22, erase_all_v, EraseAllFrames,
                     ToRam, ToReg, Instruction
<1> HIDE DEF F, Row
<1>3. \A j \in 0..13 : Row(j) = F[j + 1]
  BY <1>2
<1> QED BY <1>1, <1>3 DEF Table, F, Row

\* program_block is 14 frames.
LEMMA ProgramBlockTable == Table(program_block, ProgramBlockFrames, 14)
<1> DEFINE F == ProgramBlockFrames
        Row(j) == FrameAt(program_block, j)
<1>1. program_block \in Seq(Byte) /\ Len(program_block) = 39
  BY DEF program_block, Byte
<1>2. /\ Row(0) = F[1] /\ Row(1) = F[2] /\ Row(2) = F[3] /\ Row(3) = F[4]
      /\ Row(4) = F[5] /\ Row(5) = F[6] /\ Row(6) = F[7] /\ Row(7) = F[8]
      /\ Row(8) = F[9] /\ Row(9) = F[10] /\ Row(10) = F[11] /\ Row(11) = F[12]
      /\ Row(12) = F[13] /\ Row(13) = F[14]
  BY SMTT(60) DEF FrameAt, FrameFrom, Word3, Join, Low22, program_block, ProgramBlockFrames,
                     ToRam, ToReg, Instruction
<1> HIDE DEF F, Row
<1>3. \A j \in 0..13 : Row(j) = F[j + 1]
  BY <1>2
<1> QED BY <1>1, <1>3 DEF Table, F, Row

\* verify_setup_v is 12 frames.
LEMMA VerifySetupTable == Table(verify_setup_v, VerifySetupFrames, 12)
<1> DEFINE F == VerifySetupFrames
        Row(j) == FrameAt(verify_setup_v, j)
<1>1. verify_setup_v \in Seq(Byte) /\ Len(verify_setup_v) = 33
  BY DEF verify_setup_v, Byte
<1>2. /\ Row(0) = F[1] /\ Row(1) = F[2] /\ Row(2) = F[3] /\ Row(3) = F[4]
      /\ Row(4) = F[5] /\ Row(5) = F[6] /\ Row(6) = F[7] /\ Row(7) = F[8]
      /\ Row(8) = F[9] /\ Row(9) = F[10] /\ Row(10) = F[11] /\ Row(11) = F[12]
  BY SMTT(60) DEF FrameAt, FrameFrom, Word3, Join, Low22, verify_setup_v, VerifySetupFrames,
                     ToRam, ToReg, Instruction
<1> HIDE DEF F, Row
<1>3. \A j \in 0..11 : Row(j) = F[j + 1]
  BY <1>2
<1> QED BY <1>1, <1>3 DEF Table, F, Row

\* checksum_v is 13 frames.
LEMMA ChecksumTable == Table(checksum_v, ChecksumFrames, 13)
<1> DEFINE F == ChecksumFrames
        Row(j) == FrameAt(checksum_v, j)
<1>1. checksum_v \in Seq(Byte) /\ Len(checksum_v) = 36
  BY DEF checksum_v, Byte
<1>2. /\ Row(0) = F[1] /\ Row(1) = F[2] /\ Row(2) = F[3] /\ Row(3) = F[4]
      /\ Row(4) = F[5] /\ Row(5) = F[6] /\ Row(6) = F[7] /\ Row(7) = F[8]
      /\ Row(8) = F[9] /\ Row(9) = F[10] /\ Row(10) = F[11] /\ Row(11) = F[12]
      /\ Row(12) = F[13]
  BY SMTT(60) DEF FrameAt, FrameFrom, Word3, Join, Low22, checksum_v, ChecksumFrames,
                     ToRam, ToReg, Instruction
<1> HIDE DEF F, Row
<1>3. \A j \in 0..12 : Row(j) = F[j + 1]
  BY <1>2
<1> QED BY <1>1, <1>3 DEF Table, F, Row

\* security_v is 14 frames.
LEMMA SecurityFTable == Table(security_v, SecurityFFrames, 14)
<1> DEFINE F == SecurityFFrames
        Row(j) == FrameAt(security_v, j)
<1>1. security_v \in Seq(Byte) /\ Len(security_v) = 39
  BY DEF security_v, Byte
<1>2. /\ Row(0) = F[1] /\ Row(1) = F[2] /\ Row(2) = F[3] /\ Row(3) = F[4]
      /\ Row(4) = F[5] /\ Row(5) = F[6] /\ Row(6) = F[7] /\ Row(7) = F[8]
      /\ Row(8) = F[9] /\ Row(9) = F[10] /\ Row(10) = F[11] /\ Row(11) = F[12]
      /\ Row(12) = F[13] /\ Row(13) = F[14]
  BY SMTT(60) DEF FrameAt, FrameFrom, Word3, Join, Low22, security_v, SecurityFFrames,
                     ToRam, ToReg, Instruction
<1> HIDE DEF F, Row
<1>3. \A j \in 0..13 : Row(j) = F[j + 1]
  BY <1>2
<1> QED BY <1>1, <1>3 DEF Table, F, Row

\* securityVerification_v is 14 frames.
LEMMA SecurityVerificationTable == Table(securityVerification_v, SecurityVerificationFrames, 14)
<1> DEFINE F == SecurityVerificationFrames
        Row(j) == FrameAt(securityVerification_v, j)
<1>1. securityVerification_v \in Seq(Byte) /\ Len(securityVerification_v) = 39
  BY DEF securityVerification_v, Byte
<1>2. /\ Row(0) = F[1] /\ Row(1) = F[2] /\ Row(2) = F[3] /\ Row(3) = F[4]
      /\ Row(4) = F[5] /\ Row(5) = F[6] /\ Row(6) = F[7] /\ Row(7) = F[8]
      /\ Row(8) = F[9] /\ Row(9) = F[10] /\ Row(10) = F[11] /\ Row(11) = F[12]
      /\ Row(12) = F[13] /\ Row(13) = F[14]
  BY SMTT(60) DEF FrameAt, FrameFrom, Word3, Join, Low22, securityVerification_v, SecurityVerificationFrames,
                     ToRam, ToReg, Instruction
<1> HIDE DEF F, Row
<1>3. \A j \in 0..13 : Row(j) = F[j + 1]
  BY <1>2
<1> QED BY <1>1, <1>3 DEF Table, F, Row

(***************************************************************************)
(* What byteSend puts on the wire.                                         *)
(***************************************************************************)
\* The bits of a vector.
LEMMA BitOfType ==
  ASSUME NEW V \in Seq(Byte), NEW k \in 1..(8 * Len(V))
  PROVE  BitOf(V, k) \in {0, 1}
<1>1. Len(V) \in Nat
  OBVIOUS
<1>2. PICK q \in Nat, r \in 0..7 : q = (k - 1) \div 8 /\ r = 7 - ((k - 1) % 8) /\ q + 1 \in 1..Len(V)
  BY <1>1
<1>3. PICK x \in Nat : x = V[q + 1]
  <2>1. V[q + 1] \in Byte
    BY <1>2
  <2>2. V[q + 1] \in Nat
    <3>1. \A z \in Byte : z \in Nat
      BY DEF Byte
    <3> QED BY <2>1, <3>1
  <2> QED BY <2>2
<1>4. r \in 0..21
  OBVIOUS
<1>5. BitAt(x, r) \in {0, 1}
  BY <1>4, OneMore
<1> QED BY <1>2, <1>3, <1>5 DEF BitOf, BitAt

\* Eight bits of one byte.
LEMMA ByteBits ==
  ASSUME NEW x \in Byte, NEW k \in 0..7
  PROVE  BitOf(<<x>>, k + 1) = BitAt(x, 7 - k) /\ BitAt(x, 7 - k) \in {0, 1}
<1>1. ((k + 1) - 1) \div 8 = 0 /\ ((k + 1) - 1) % 8 = k
  OBVIOUS
<1>2. <<x>>[1] = x
  OBVIOUS
<1>3. 7 - k \in 0..21 /\ x \in Nat
  BY DEF Byte
<1>4. BitAt(x, 7 - k) \in {0, 1}
  BY <1>3, OneMore
<1> QED BY <1>1, <1>2, <1>4 DEF BitOf, BitAt

\* The bits of the last byte of a frame.
LEMMA ExtendedBit ==
  ASSUME NEW P \in Nat, NEW d \in Byte, NEW k \in 0..7
  PROVE  BitAt(P * 256 + d, 7 - k) = BitOf(<<d>>, k + 1)
<1>1. PICK j \in 0..7 : j = 7 - k
  OBVIOUS
<1>2. BitAt(P * 256 + d, j) = BitAt(d, j)
  BY Extended, ZenonT(60)
<1> QED BY <1>1, <1>2, ByteBits

\* The three ones.
LEMMA Ones == ASSUME NEW k \in 0..2 PROVE BitOf(<<224>>, k + 1) = 1
<1>1. 224 \in Byte /\ k \in 0..7
  BY DEF Byte
<1>2. BitOf(<<224>>, k + 1) = BitAt(224, 7 - k)
  BY <1>1, ByteBits
<1>3. 7 - k \in {7, 6, 5}
  OBVIOUS
<1>4. BitAt(224, 7) = 1 /\ BitAt(224, 6) = 1 /\ BitAt(224, 5) = 1
  BY Powers DEF BitAt
<1> QED BY <1>2, <1>3, <1>4

\* The first sixteen bits of a vector.
LEMMA TwoBytes ==
  ASSUME NEW V, NEW a \in Byte, NEW b \in Byte, V[1] = a, V[2] = b, NEW i \in 0..15
  PROVE  BitOf(V, i + 1) = BitAt(Join(a, b), 15 - i)
<1>1. a \in Nat /\ b \in Nat
  BY DEF Byte
<1>2. CASE i < 8
  <2>1. ((i + 1) - 1) \div 8 = 0 /\ ((i + 1) - 1) % 8 = i
    BY <1>2
  <2>2. BitOf(V, i + 1) = BitAt(a, 7 - i)
    BY <2>1 DEF BitOf, BitAt
  <2>3. PICK k \in 0..27 : k = 15 - i /\ k >= 8 /\ k - 8 = 7 - i
    BY <1>2
  <2>4. BitAt(Join(a, b), k) = BitAt(a, k - 8)
    BY <1>1, <2>3, ByteBit
  <2> QED BY <2>2, <2>3, <2>4
<1>3. CASE i >= 8
  <2>1. ((i + 1) - 1) \div 8 = 1 /\ ((i + 1) - 1) % 8 = i - 8 /\ 7 - (i - 8) = 15 - i
    BY <1>3
  <2>2. BitOf(V, i + 1) = BitAt(b, 15 - i)
    BY <2>1 DEF BitOf, BitAt
  <2>3. PICK k \in 0..27 : k = 15 - i /\ k < 8
    BY <1>3
  <2>4. BitAt(Join(a, b), k) = BitAt(b, k)
    BY <1>1, <2>3, ByteBit
  <2> QED BY <2>2, <2>3, <2>4
<1> QED BY <1>2, <1>3

\* The address a vector of reads puts on the wire: its first eleven bits; the eleven bits
\* after the first.
CarriesAddress(V, X, s) == \A i \in 0..10 : BitOf(V, s + i + 1) = BitAt(X, 10 - i)

\* The eleven bits a vector opens with, when its first two bytes are known.
LEMMA SentFirst ==
  ASSUME NEW V, NEW a \in Byte, NEW b \in Byte, V[1] = a, V[2] = b, NEW P, P = Join(a, b) \div 32
  PROVE  CarriesAddress(V, P, 0)
<1> SUFFICES ASSUME NEW i \in 0..10 PROVE BitOf(V, i + 1) = BitAt(P, 10 - i)
  BY DEF CarriesAddress
<1>1. PICK W \in Nat : W = Join(a, b)
  BY DEF Join, Byte
<1>2. i \in 0..15
  OBVIOUS
<1>3. BitOf(V, i + 1) = BitAt(Join(a, b), 15 - i)
  BY <1>2, TwoBytes
<1>4. PICK k \in 0..12, s \in 0..9 : k = 10 - i /\ s = 5 /\ s + k = 15 - i
  OBVIOUS
<1>5. BitAt(Upper(W, s), k) = BitAt(W, s + k)
  BY UpperBit
<1>6. P = Upper(W, s)
  BY <1>1, <1>4, Powers DEF Upper
<1> QED BY <1>1, <1>3, <1>4, <1>5, <1>6

\* The eleven bits after the one a vector opens with.
LEMMA SentLater ==
  ASSUME NEW V, NEW a \in Byte, NEW b \in Byte, V[1] = a, V[2] = b, NEW Q \in Nat, 2048 + Q = Join(a, b) \div 16
  PROVE  CarriesAddress(V, Q, 1)
<1> SUFFICES ASSUME NEW i \in 0..10 PROVE BitOf(V, 1 + i + 1) = BitAt(Q, 10 - i)
  BY DEF CarriesAddress
<1>1. PICK W \in Nat : W = Join(a, b)
  BY DEF Join, Byte
<1>2. PICK j \in 0..15 : j = 1 + i
  OBVIOUS
<1>3. BitOf(V, j + 1) = BitAt(Join(a, b), 15 - j)
  BY TwoBytes
<1>4. PICK k \in 0..12, s \in 0..9 : k = 10 - i /\ s = 4 /\ s + k = 15 - j
  BY <1>2
<1>5. BitAt(Upper(W, s), k) = BitAt(W, s + k)
  BY UpperBit
<1>6. 2048 + Q = Upper(W, s)
  BY <1>1, <1>4, Powers DEF Upper
<1>7. k \in 0..10
  BY <1>4
<1>8. BitAt(2048 + Q, k) = BitAt(Q, k)
  BY <1>7, BitBelow
<1> QED BY <1>1, <1>2, <1>3, <1>4, <1>5, <1>6, <1>8

\* Five bits of a byte that opens a frame for the buffer, and six of the address.
LEMMA DataAddress ==
  ASSUME NEW n \in 0..63
  PROVE  /\ \A k \in 0..4 : /\ BitAt(1152 + n, 10 - k) = BitAt(144, 7 - k)
                            /\ BitAt(1408 + n, 10 - k) = BitAt(176, 7 - k)
         /\ \A k \in 0..5 : /\ BitAt(1152 + n, 5 - k) = BitAt((4 * n) % 256, 7 - k)
                            /\ BitAt(1408 + n, 5 - k) = BitAt((4 * n) % 256, 7 - k)
         /\ BitAt(1152 + n, 10) = 1 /\ BitAt(1408 + n, 10) = 1 /\ (4 * n) % 256 \in Byte
<1>0. PICK x \in Nat, y \in Nat, z \in Nat : x = 1152 + n /\ y = 1408 + n /\ z = (4 * n) % 256
  OBVIOUS
<1>1. (x \div 1024) % 2 = (144 \div 128) % 2 /\ (y \div 1024) % 2 = (176 \div 128) % 2
  BY <1>0
<1>2. (x \div 512) % 2 = (144 \div 64) % 2 /\ (y \div 512) % 2 = (176 \div 64) % 2
  BY <1>0
<1>3. (x \div 256) % 2 = (144 \div 32) % 2 /\ (y \div 256) % 2 = (176 \div 32) % 2
  BY <1>0
<1>4. (x \div 128) % 2 = (144 \div 16) % 2 /\ (y \div 128) % 2 = (176 \div 16) % 2
  BY <1>0
<1>5. (x \div 64) % 2 = (144 \div 8) % 2 /\ (y \div 64) % 2 = (176 \div 8) % 2
  BY <1>0
<1>6. (x \div 32) % 2 = (z \div 128) % 2 /\ (y \div 32) % 2 = (z \div 128) % 2
  BY <1>0
<1>7. (x \div 16) % 2 = (z \div 64) % 2 /\ (y \div 16) % 2 = (z \div 64) % 2
  BY <1>0
<1>8. (x \div 8) % 2 = (z \div 32) % 2 /\ (y \div 8) % 2 = (z \div 32) % 2
  BY <1>0
<1>9. (x \div 4) % 2 = (z \div 16) % 2 /\ (y \div 4) % 2 = (z \div 16) % 2
  BY <1>0
<1>10. (x \div 2) % 2 = (z \div 8) % 2 /\ (y \div 2) % 2 = (z \div 8) % 2
  BY <1>0
<1>11. (x \div 1) % 2 = (z \div 4) % 2 /\ (y \div 1) % 2 = (z \div 4) % 2
  BY <1>0
<1>a. ASSUME NEW k \in 0..4 PROVE BitAt(x, 10 - k) = BitAt(144, 7 - k) /\ BitAt(y, 10 - k) = BitAt(176, 7 - k)
  <2>0. CASE k = 0
    <3>1. 10 - k = 10 /\ 7 - k = 7
      BY <2>0
    <3>2. BitAt(x, 10) = BitAt(144, 7) /\ BitAt(y, 10) = BitAt(176, 7)
      BY <1>1, Powers DEF BitAt
    <3> QED BY <3>1, <3>2
  <2>1. CASE k = 1
    <3>1. 10 - k = 9 /\ 7 - k = 6
      BY <2>1
    <3>2. BitAt(x, 9) = BitAt(144, 6) /\ BitAt(y, 9) = BitAt(176, 6)
      BY <1>2, Powers DEF BitAt
    <3> QED BY <3>1, <3>2
  <2>2. CASE k = 2
    <3>1. 10 - k = 8 /\ 7 - k = 5
      BY <2>2
    <3>2. BitAt(x, 8) = BitAt(144, 5) /\ BitAt(y, 8) = BitAt(176, 5)
      BY <1>3, Powers DEF BitAt
    <3> QED BY <3>1, <3>2
  <2>3. CASE k = 3
    <3>1. 10 - k = 7 /\ 7 - k = 4
      BY <2>3
    <3>2. BitAt(x, 7) = BitAt(144, 4) /\ BitAt(y, 7) = BitAt(176, 4)
      BY <1>4, Powers DEF BitAt
    <3> QED BY <3>1, <3>2
  <2>4. CASE k = 4
    <3>1. 10 - k = 6 /\ 7 - k = 3
      BY <2>4
    <3>2. BitAt(x, 6) = BitAt(144, 3) /\ BitAt(y, 6) = BitAt(176, 3)
      BY <1>5, Powers DEF BitAt
    <3> QED BY <3>1, <3>2
  <2> QED BY <2>0, <2>1, <2>2, <2>3, <2>4
<1>b. ASSUME NEW k \in 0..5 PROVE BitAt(x, 5 - k) = BitAt(z, 7 - k) /\ BitAt(y, 5 - k) = BitAt(z, 7 - k)
  <2>0. CASE k = 0
    <3>1. 5 - k = 5 /\ 7 - k = 7
      BY <2>0
    <3>2. BitAt(x, 5) = BitAt(z, 7) /\ BitAt(y, 5) = BitAt(z, 7)
      BY <1>6, Powers DEF BitAt
    <3> QED BY <3>1, <3>2
  <2>1. CASE k = 1
    <3>1. 5 - k = 4 /\ 7 - k = 6
      BY <2>1
    <3>2. BitAt(x, 4) = BitAt(z, 6) /\ BitAt(y, 4) = BitAt(z, 6)
      BY <1>7, Powers DEF BitAt
    <3> QED BY <3>1, <3>2
  <2>2. CASE k = 2
    <3>1. 5 - k = 3 /\ 7 - k = 5
      BY <2>2
    <3>2. BitAt(x, 3) = BitAt(z, 5) /\ BitAt(y, 3) = BitAt(z, 5)
      BY <1>8, Powers DEF BitAt
    <3> QED BY <3>1, <3>2
  <2>3. CASE k = 3
    <3>1. 5 - k = 2 /\ 7 - k = 4
      BY <2>3
    <3>2. BitAt(x, 2) = BitAt(z, 4) /\ BitAt(y, 2) = BitAt(z, 4)
      BY <1>9, Powers DEF BitAt
    <3> QED BY <3>1, <3>2
  <2>4. CASE k = 4
    <3>1. 5 - k = 1 /\ 7 - k = 3
      BY <2>4
    <3>2. BitAt(x, 1) = BitAt(z, 3) /\ BitAt(y, 1) = BitAt(z, 3)
      BY <1>10, Powers DEF BitAt
    <3> QED BY <3>1, <3>2
  <2>5. CASE k = 5
    <3>1. 5 - k = 0 /\ 7 - k = 2
      BY <2>5
    <3>2. BitAt(x, 0) = BitAt(z, 2) /\ BitAt(y, 0) = BitAt(z, 2)
      BY <1>11, Powers DEF BitAt
    <3> QED BY <3>1, <3>2
  <2> QED BY <2>0, <2>1, <2>2, <2>3, <2>4, <2>5
<1>c. (x \div 1024) % 2 = 1 /\ (y \div 1024) % 2 = 1 /\ z \in 0..255
  BY <1>0
<1> QED BY <1>0, <1>a, <1>b, <1>c, Powers DEF BitAt, Byte

\* The two bytes of read_byte_v: five bits of the first, and one to end the frame.
LEMMA ReadByteSent ==
  /\ \A k \in 0..4 : BitOf(read_byte_v, k + 1) = BitAt(176, 7 - k)
  /\ BitOf(From(read_byte_v, 1), 1) \in {0, 1}
<1>1. ASSUME NEW k \in 0..4 PROVE BitOf(read_byte_v, k + 1) = BitAt(176, 7 - k)
  <2>1. BitOf(read_byte_v, k + 1) = BitOf(<<176>>, k + 1)
    BY DEF BitOf, read_byte_v
  <2>2. 176 \in Byte /\ k \in 0..7
    BY DEF Byte
  <2> QED BY <2>1, <2>2, ByteBits
<1>2. From(read_byte_v, 1) \in Seq(Byte) /\ Len(From(read_byte_v, 1)) = 1
  BY DEF From, read_byte_v, Byte
<1>3. 1 \in 1..(8 * Len(From(read_byte_v, 1)))
  BY <1>2
<1> QED BY <1>1, <1>2, <1>3, BitOfType

\* Forty zeros.
LEMMA ZerosSent ==
  /\ wait_and_poll_end \in Seq(Byte) /\ 8 * Len(wait_and_poll_end) = 40
  /\ \A b \in 0..39 : BitOf(wait_and_poll_end, b + 1) = 0
<1>1. wait_and_poll_end \in Seq(Byte) /\ Len(wait_and_poll_end) = 5
  BY DEF wait_and_poll_end, Byte
<1>2. ASSUME NEW b \in 0..39 PROVE BitOf(wait_and_poll_end, b + 1) = 0
  <2>1. PICK q \in 0..4, r \in 0..7 : ((b + 1) - 1) \div 8 = q /\ ((b + 1) - 1) % 8 = r
    OBVIOUS
  <2>2. wait_and_poll_end[q + 1] = 0
    BY DEF wait_and_poll_end
  <2>3. BitOf(wait_and_poll_end, b + 1) = (0 \div 2^(7 - r)) % 2
    BY <2>1, <2>2 DEF BitOf
  <2>4. PICK e \in 0..7 : e = 7 - r
    OBVIOUS
  <2>5. 2^e \in Nat \ {0}
    <3>1. e = 0 \/ e = 1 \/ e = 2 \/ e = 3 \/ e = 4 \/ e = 5 \/ e = 6 \/ e = 7
      OBVIOUS
    <3>2. CASE e = 0
      BY <3>2, Powers
    <3>3. CASE e = 1
      BY <3>3, Powers
    <3>4. CASE e = 2
      BY <3>4, Powers
    <3>5. CASE e = 3
      BY <3>5, Powers
    <3>6. CASE e = 4
      BY <3>6, Powers
    <3>7. CASE e = 5
      BY <3>7, Powers
    <3>8. CASE e = 6
      BY <3>8, Powers
    <3>9. CASE e = 7
      BY <3>9, Powers
    <3> QED BY <3>1, <3>2, <3>3, <3>4, <3>5, <3>6, <3>7, <3>8, <3>9
  <2>6. \A p \in Nat \ {0} : (0 \div p) % 2 = 0
    OBVIOUS
  <2> QED BY <2>3, <2>4, <2>5, <2>6
<1> QED BY <1>1, <1>2

(***************************************************************************)
(* What the functions of issp.c call, in which order.                      *)
(***************************************************************************)
\* What the block of calls in Polled is.
PollsAt(C, c, V, L) ==
  /\ c + 8 <= Len(C) /\ Len(C) \in Nat
  /\ C[c + 1] = pp /\ C[c + 2] = [do |-> "send", bytes |-> V, n |-> L] /\ C[c + 3] = hiz
  /\ C[c + 4] = clock /\ C[c + 5] = poll
  /\ C[c + 6] = pp /\ C[c + 7] = [do |-> "send", bytes |-> wait_and_poll_end, n |-> 40]
  /\ C[c + 8] = hiz

\* The blocks of calls the functions are made of, from call c on.
SelectsAt(C, c) ==
  /\ c + 6 <= Len(C) /\ Len(C) \in Nat
  /\ C[c + 1] = pp /\ C[c + 2] = [do |-> "send", bytes |-> set_block_number, n |-> 11]
  /\ C[c + 3] = hiz /\ C[c + 4] = pp
  /\ C[c + 5] = [do |-> "block", n |-> 8] /\ C[c + 6] = byteSend(\hE0, 3)

\* At call c: two bytes are read, each by eleven bits of a vector, two clocks, eight bits and
\* one clock more.
ReadsAt(C, c, V, W) ==
  /\ c + 17 <= Len(C) /\ Len(C) \in Nat
  /\ C[c + 1] = pp /\ C[c + 2] = [do |-> "send", bytes |-> V, n |-> 11] /\ C[c + 3] = hiz
  /\ C[c + 4] = clock /\ C[c + 5] = clock /\ C[c + 6] = receive /\ C[c + 7] = clock
  /\ C[c + 8] = pp /\ C[c + 9] = [do |-> "send", bytes |-> From(V, 2), n |-> 12] /\ C[c + 10] = hiz
  /\ C[c + 11] = clock /\ C[c + 12] = clock /\ C[c + 13] = receive /\ C[c + 14] = clock
  /\ C[c + 15] = pp /\ C[c + 16] = [do |-> "send", bytes |-> W, n |-> 1] /\ C[c + 17] = hiz

\* At call c: byte i of the block is written, as WriteByte does.
WritesAt(C, c, i) ==
  /\ c + 4 <= Len(C) /\ Len(C) \in Nat
  /\ C[c + 1] = byteSend(\h90, 5) /\ C[c + 2] = byteSend((4 * (i - 1)) % 256, 6)
  /\ C[c + 3] = [do |-> "data", i |-> i, n |-> 8] /\ C[c + 4] = byteSend(\hE0, 3)

\* At call c: byte i is read back and compared, as ReadByte does.
ComparesAt(C, c, i) ==
  /\ c + 14 <= Len(C) /\ Len(C) \in Nat
  /\ C[c + 1] = pp /\ C[c + 2] = [do |-> "send", bytes |-> read_byte_v, n |-> 5] /\ C[c + 3] = hiz
  /\ C[c + 4] = pp /\ C[c + 5] = byteSend((4 * (i - 1)) % 256, 6)
  /\ C[c + 6] = clock /\ C[c + 7] = clock /\ C[c + 8] = hiz /\ C[c + 9] = receive /\ C[c + 10] = clock
  /\ C[c + 11] = pp /\ C[c + 12] = [do |-> "send", bytes |-> From(read_byte_v, 1), n |-> 1]
  /\ C[c + 13] = hiz /\ C[c + 14] = [do |-> "compare", i |-> i]

\* At call e: the line is released, and a byte clocked in.
AnswersAt(C, e) ==
  /\ e + 5 <= Len(C) /\ Len(C) \in Nat
  /\ C[e + 1] = hiz /\ C[e + 2] = clock /\ C[e + 3] = clock /\ C[e + 4] = receive /\ C[e + 5] = clock

\* A read of two bytes has two answers.
LEMMA AnswersOf ==
  ASSUME NEW c \in Nat, NEW C, NEW V, NEW W, ReadsAt(C, c, V, W)
  PROVE  AnswersAt(C, c + 2) /\ AnswersAt(C, c + 9)
<1>1. PICK e \in Nat : e = c + 2
  OBVIOUS
<1>2. AnswersAt(C, e)
  <2>1. e + 1 = c + 3 /\ e + 2 = c + 4 /\ e + 3 = c + 5 /\ e + 4 = c + 6 /\ e + 5 = c + 7
    BY <1>1
  <2>2. C[c + 3] = hiz /\ C[c + 4] = clock /\ C[c + 5] = clock /\ C[c + 6] = receive /\ C[c + 7] = clock
    BY DEF ReadsAt
  <2>3. c + 7 <= Len(C) /\ Len(C) \in Nat
    BY DEF ReadsAt
  <2> QED BY <2>1, <2>2, <2>3 DEF AnswersAt
<1>3. PICK f \in Nat : f = c + 9
  OBVIOUS
<1>4. AnswersAt(C, f)
  <2>1. f + 1 = c + 10 /\ f + 2 = c + 11 /\ f + 3 = c + 12 /\ f + 4 = c + 13 /\ f + 5 = c + 14
    BY <1>3
  <2>2. C[c + 10] = hiz /\ C[c + 11] = clock /\ C[c + 12] = clock /\ C[c + 13] = receive /\ C[c + 14] = clock
    BY DEF ReadsAt
  <2>3. c + 14 <= Len(C) /\ Len(C) \in Nat
    BY DEF ReadsAt
  <2> QED BY <2>1, <2>2, <2>3 DEF AnswersAt
<1> QED BY <1>1, <1>2, <1>3, <1>4

\* The loops.
LEMMA WriteBytesCalls ==
  ASSUME NEW n \in Nat
  PROVE  /\ Len(WriteBytes(n)) = 1 + 4 * n /\ WriteBytes(n)[1] = pp
         /\ \A q \in 0..(n - 1) : WritesAt(WriteBytes(n), 1 + 4 * q, q + 1)
<1> DEFINE S == [k \in 1..(4 * n) |-> WriteByte(((k - 1) \div 4) + 1)[((k - 1) % 4) + 1]]
<1>1. 4 * n \in Nat /\ Len(S) = 4 * n
  OBVIOUS
<1>2. Len(WriteBytes(n)) = 1 + 4 * n /\ WriteBytes(n)[1] = pp /\ \A k \in 1..(4 * n) : WriteBytes(n)[1 + k] = S[k]
  <2>1. WriteBytes(n) = <<pp>> \o S
    BY DEF WriteBytes
  <2>2. PICK range : S \in [1..(4 * n) -> range] /\ pp \in range
    <3>1. PICK range : range = {S[k] : k \in 1..(4 * n)} \cup {pp}
      OBVIOUS
    <3>2. \A k \in 1..(4 * n) : S[k] \in range
      BY <3>1
    <3>3. S = [k \in 1..(4 * n) |-> S[k]]
      OBVIOUS
    <3> HIDE DEF S
    <3>4. S \in [1..(4 * n) -> range]
      BY <3>2, <3>3
    <3> QED BY <3>1, <3>4
  <2> HIDE DEF S
  <2>3. S \in Seq(range) /\ <<pp>> \in Seq(range) /\ Len(S) = 4 * n /\ Len(<<pp>>) = 1
    BY <1>1, <2>2
  <2>4. /\ Len(<<pp>> \o S) = 1 + 4 * n /\ (<<pp>> \o S)[1] = pp
        /\ \A j \in 2..(1 + 4 * n) : (<<pp>> \o S)[j] = S[j - 1]
    BY <2>3
  <2>5. ASSUME NEW k \in 1..(4 * n) PROVE WriteBytes(n)[1 + k] = S[k]
    <3>1. 1 + k \in 2..(1 + 4 * n) /\ (1 + k) - 1 = k
      BY <1>1
    <3> QED BY <2>1, <2>4, <3>1
  <2> QED BY <2>1, <2>4, <2>5
<1>3. ASSUME NEW q \in 0..(n - 1), NEW r \in 1..4 PROVE WriteBytes(n)[1 + 4 * q + r] = WriteByte(q + 1)[r]
  <2>1. PICK k \in 1..(4 * n) : k = 4 * q + r /\ 1 + 4 * q + r = 1 + k
    OBVIOUS
  <2>2. (k - 1) \div 4 = q /\ ((k - 1) % 4) + 1 = r
    BY <2>1
  <2>3. S[k] = WriteByte(q + 1)[r]
    BY <2>2
  <2> QED BY <1>2, <2>1, <2>3
<1> HIDE DEF S
<1>4. ASSUME NEW q \in 0..(n - 1) PROVE WritesAt(WriteBytes(n), 1 + 4 * q, q + 1)
  <2>1. /\ WriteBytes(n)[1 + 4 * q + 1] = WriteByte(q + 1)[1] /\ WriteBytes(n)[1 + 4 * q + 2] = WriteByte(q + 1)[2]
        /\ WriteBytes(n)[1 + 4 * q + 3] = WriteByte(q + 1)[3] /\ WriteBytes(n)[1 + 4 * q + 4] = WriteByte(q + 1)[4]
    BY <1>3
  <2>2. /\ WriteByte(q + 1)[1] = byteSend(\h90, 5) /\ WriteByte(q + 1)[2] = byteSend((4 * ((q + 1) - 1)) % 256, 6)
        /\ WriteByte(q + 1)[3] = [do |-> "data", i |-> q + 1, n |-> 8] /\ WriteByte(q + 1)[4] = byteSend(\hE0, 3)
    BY DEF WriteByte
  <2>3. 1 + 4 * q + 4 <= 1 + 4 * n /\ 1 + 4 * n \in Nat
    OBVIOUS
  <2> QED BY <1>2, <2>1, <2>2, <2>3 DEF WritesAt
<1> QED BY <1>2, <1>4

\* WriteBytes is a sequence.
LEMMA WriteBytesSeq ==
  ASSUME NEW n \in Nat
  PROVE  /\ WriteBytes(n) = [i \in 1..(1 + 4 * n) |-> WriteBytes(n)[i]]
         /\ \E range : WriteBytes(n) \in Seq(range)
<1> DEFINE S == [k \in 1..(4 * n) |-> WriteByte(((k - 1) \div 4) + 1)[((k - 1) % 4) + 1]]
<1>1. WriteBytes(n) = <<pp>> \o S
  BY DEF WriteBytes
<1>2. S = [i \in 1..(4 * n) |-> S[i]] /\ 4 * n \in Nat
  OBVIOUS
<1> HIDE DEF S
<1>3. PICK range : range = {S[i] : i \in 1..(4 * n)} \cup {pp}
  OBVIOUS
<1>4. S \in Seq(range) /\ Len(S) = 4 * n
  BY <1>2, <1>3
<1>5. <<pp>> \in Seq(range) /\ Len(<<pp>>) = 1
  BY <1>3
<1>6. <<pp>> \o S \in Seq(range) /\ Len(<<pp>> \o S) = 1 + 4 * n
  BY <1>4, <1>5
<1>7. \A T \in Seq(range) : T = [i \in 1..Len(T) |-> T[i]]
  OBVIOUS
<1> QED BY <1>1, <1>6, <1>7

\* The fourteen calls of ReadByte.
LEMMA ReadByteCalls ==
  ASSUME NEW i
  PROVE  Len(ReadByte(i)) = 14 /\ ComparesAt(ReadByte(i), 0, i)
<1> DEFINE C == ReadByte(i)
<1>1. Len(C) = 14
  BY DEF ReadByte, vectorSend
<1>2. /\ C[1] = pp /\ C[2] = [do |-> "send", bytes |-> read_byte_v, n |-> 5] /\ C[3] = hiz
      /\ C[4] = pp /\ C[5] = byteSend((4 * (i - 1)) % 256, 6)
      /\ C[6] = clock /\ C[7] = clock /\ C[8] = hiz /\ C[9] = receive /\ C[10] = clock
  BY DEF ReadByte, vectorSend
<1>3. /\ C[11] = pp /\ C[12] = [do |-> "send", bytes |-> From(read_byte_v, 1), n |-> 1]
      /\ C[13] = hiz /\ C[14] = [do |-> "compare", i |-> i]
  BY DEF ReadByte, vectorSend
<1> HIDE DEF C
<1> QED BY <1>1, <1>2, <1>3 DEF ComparesAt, C

\* The loop of targetBlockVerify and targetSecurityVerify: fourteen calls for every byte.
LEMMA ReadBytesCalls ==
  ASSUME NEW n \in Nat
  PROVE  /\ Len(ReadBytes(n)) = 14 * n
         /\ \A q \in 0..(n - 1) : ComparesAt(ReadBytes(n), 14 * q, q + 1)
<1> DEFINE S == ReadBytes(n)
<1>1. 14 * n \in Nat /\ Len(S) = 14 * n
  BY DEF ReadBytes
<1>2. ASSUME NEW q \in 0..(n - 1), NEW r \in 1..14 PROVE S[14 * q + r] = ReadByte(q + 1)[r]
  <2>1. PICK k \in 1..(14 * n) : k = 14 * q + r
    OBVIOUS
  <2>2. (k - 1) \div 14 = q /\ ((k - 1) % 14) + 1 = r
    BY <2>1
  <2>3. S[k] = ReadByte(q + 1)[r]
    BY <2>2 DEF ReadBytes
  <2> QED BY <2>1, <2>3
<1> HIDE DEF S
<1>3. ASSUME NEW q \in 0..(n - 1) PROVE ComparesAt(S, 14 * q, q + 1)
  <2>1. PICK C : C = ReadByte(q + 1)
    OBVIOUS
  <2>2. ComparesAt(C, 0, q + 1)
    BY <2>1, ReadByteCalls
  <2>3. /\ S[14 * q + 1] = C[1] /\ S[14 * q + 2] = C[2] /\ S[14 * q + 3] = C[3] /\ S[14 * q + 4] = C[4]
        /\ S[14 * q + 5] = C[5] /\ S[14 * q + 6] = C[6] /\ S[14 * q + 7] = C[7] /\ S[14 * q + 8] = C[8]
        /\ S[14 * q + 9] = C[9] /\ S[14 * q + 10] = C[10] /\ S[14 * q + 11] = C[11] /\ S[14 * q + 12] = C[12]
        /\ S[14 * q + 13] = C[13] /\ S[14 * q + 14] = C[14]
    BY <1>2, <2>1
  <2>4. 14 * q + 14 <= Len(S)
    BY <1>1
  <2>5. /\ C[1] = pp /\ C[2] = [do |-> "send", bytes |-> read_byte_v, n |-> 5] /\ C[3] = hiz
        /\ C[4] = pp /\ C[5] = byteSend((4 * ((q + 1) - 1)) % 256, 6)
        /\ C[6] = clock /\ C[7] = clock /\ C[8] = hiz /\ C[9] = receive /\ C[10] = clock
        /\ C[11] = pp /\ C[12] = [do |-> "send", bytes |-> From(read_byte_v, 1), n |-> 1]
        /\ C[13] = hiz /\ C[14] = [do |-> "compare", i |-> q + 1]
    BY <2>2 DEF ComparesAt
  <2> QED BY <1>1, <2>3, <2>4, <2>5 DEF ComparesAt
<1> QED BY <1>1, <1>3 DEF S

\* Where a loop is, call by call.
LEMMA LoopTurn ==
  ASSUME NEW c \in Nat, NEW s \in {4, 14}, NEW n \in Nat, NEW x \in Nat, c <= x, x < c + s * n
  PROVE  \E q \in 0..(n - 1) : x \in (c + s * q)..(c + s * q + s - 1)
<1>1. CASE s = 4
  <2>1. PICK q \in Nat : q = (x - c) \div 4
    OBVIOUS
  <2>2. q \in 0..(n - 1) /\ x \in (c + 4 * q)..(c + 4 * q + 3)
    BY <1>1, <2>1
  <2> QED BY <1>1, <2>2
<1>2. CASE s = 14
  <2>1. PICK q \in Nat : q = (x - c) \div 14
    OBVIOUS
  <2>2. q \in 0..(n - 1) /\ x \in (c + 14 * q)..(c + 14 * q + 13)
    BY <1>2, <2>1
  <2> QED BY <1>2, <2>2
<1> QED BY <1>1, <1>2

\* A sequence of calls before a loop of them.
LEMMA Joined ==
  ASSUME NEW A, NEW m \in Nat, NEW f, NEW n \in Nat,
         A = [i \in 1..m |-> A[i]], f = [i \in 1..n |-> f[i]]
  PROVE  /\ Len(A \o f) = m + n
         /\ \A i \in 1..m : (A \o f)[i] = A[i]
         /\ \A i \in 1..n : (A \o f)[m + i] = f[i]
<1>1. PICK range : range = {A[i] : i \in 1..m} \cup {f[i] : i \in 1..n}
  OBVIOUS
<1>2. A \in [1..m -> range]
  BY <1>1
<1>3. f \in [1..n -> range]
  BY <1>1
<1>4. A \in Seq(range) /\ Len(A) = m /\ f \in Seq(range) /\ Len(f) = n
  BY <1>2, <1>3
<1>5. /\ Len(A \o f) = m + n
      /\ \A i \in 1..(m + n) : (A \o f)[i] = IF i <= m THEN A[i] ELSE f[i - m]
  BY <1>4
<1> QED BY <1>5

\* The calls of targetSecurityFlash can be read as the loop followed by the polled vector.
LEMMA Associates ==
  ASSUME NEW A, NEW range, A \in Seq(range)
  PROVE  (A \o vectorSend(security_v, 308)) \o Execute = A \o (vectorSend(security_v, 308) \o Execute)
  BY DEF vectorSend, Execute

\* Calls that compare still do where they stand behind others.
LEMMA ComparesMoved ==
  ASSUME NEW B, NEW C, NEW x, NEW y, NEW i, ComparesAt(B, x, i),
         \A r \in 1..14 : C[y + r] = B[x + r], y + 14 <= Len(C), Len(C) \in Nat
  PROVE  ComparesAt(C, y, i)
<1>1. /\ C[y + 1] = B[x + 1] /\ C[y + 2] = B[x + 2] /\ C[y + 3] = B[x + 3] /\ C[y + 4] = B[x + 4]
      /\ C[y + 5] = B[x + 5] /\ C[y + 6] = B[x + 6] /\ C[y + 7] = B[x + 7] /\ C[y + 8] = B[x + 8]
      /\ C[y + 9] = B[x + 9] /\ C[y + 10] = B[x + 10] /\ C[y + 11] = B[x + 11] /\ C[y + 12] = B[x + 12]
      /\ C[y + 13] = B[x + 13] /\ C[y + 14] = B[x + 14]
  OBVIOUS
<1> QED BY <1>1 DEF ComparesAt

\* The calls of targetInitialize: the reset, two polled vectors, and the third followed by
\* forty zeros.
LEMMA InitializeCalls ==
  LET C == Calls["initialize"] IN
  /\ Len(C) = 25 /\ C[1] = hiz /\ C[2] = reset
  /\ PollsAt(C, 2, init1_v, 396) /\ PollsAt(C, 10, init2_v, 286)
  /\ C[19] = pp /\ C[20] = [do |-> "send", bytes |-> init3_3v, n |-> 836] /\ C[21] = hiz
  /\ C[22] = clock /\ C[23] = pp /\ C[24] = [do |-> "send", bytes |-> wait_and_poll_end, n |-> 40]
  /\ C[25] = hiz
<1> DEFINE C == initializeCalls
<1>0. Calls["initialize"] = C
  BY DEF Calls, Functions
<1>1. Len(C) = 25
  BY DEF initializeCalls, vectorSend, Execute
<1>2. /\ C[1] = hiz /\ C[2] = reset
      /\ C[3] = pp /\ C[4] = [do |-> "send", bytes |-> init1_v, n |-> 396] /\ C[5] = hiz
      /\ C[6] = clock /\ C[7] = poll
      /\ C[8] = pp /\ C[9] = [do |-> "send", bytes |-> wait_and_poll_end, n |-> 40] /\ C[10] = hiz
  BY DEF initializeCalls, vectorSend, Execute
<1>3. /\ C[11] = pp /\ C[12] = [do |-> "send", bytes |-> init2_v, n |-> 286] /\ C[13] = hiz
      /\ C[14] = clock /\ C[15] = poll
      /\ C[16] = pp /\ C[17] = [do |-> "send", bytes |-> wait_and_poll_end, n |-> 40] /\ C[18] = hiz
  BY DEF initializeCalls, vectorSend, Execute
<1>4. /\ C[19] = pp /\ C[20] = [do |-> "send", bytes |-> init3_3v, n |-> 836] /\ C[21] = hiz
      /\ C[22] = clock /\ C[23] = pp /\ C[24] = [do |-> "send", bytes |-> wait_and_poll_end, n |-> 40]
      /\ C[25] = hiz
  BY DEF initializeCalls, vectorSend, Execute
<1> HIDE DEF C
<1>5. PollsAt(C, 2, init1_v, 396)
  BY <1>1, <1>2 DEF PollsAt
<1>6. PollsAt(C, 10, init2_v, 286)
  BY <1>1, <1>3 DEF PollsAt
<1> QED BY <1>0, <1>1, <1>2, <1>4, <1>5, <1>6

\* The calls of targetSiliconIDVerify: a polled vector, two bytes read, the comparison.
LEMMA SiliconIDCalls ==
  LET C == Calls["siliconID"] IN
  /\ Len(C) = 26 /\ PollsAt(C, 0, id_setup_v, 330)
  /\ ReadsAt(C, 8, read_id_v, From(read_id_v, 4)) /\ C[26] = [do |-> "id"]
<1> DEFINE C == siliconIDCalls
<1>0. Calls["siliconID"] = C
  BY DEF Calls, Functions
<1>1. Len(C) = 26
  BY DEF siliconIDCalls, vectorSend, Execute, ReadTwice
<1>2. /\ C[1] = pp /\ C[2] = [do |-> "send", bytes |-> id_setup_v, n |-> 330] /\ C[3] = hiz
      /\ C[4] = clock /\ C[5] = poll
      /\ C[6] = pp /\ C[7] = [do |-> "send", bytes |-> wait_and_poll_end, n |-> 40] /\ C[8] = hiz
  BY DEF siliconIDCalls, vectorSend, Execute, ReadTwice
<1>3. /\ C[9] = pp /\ C[10] = [do |-> "send", bytes |-> read_id_v, n |-> 11] /\ C[11] = hiz
      /\ C[12] = clock /\ C[13] = clock /\ C[14] = receive /\ C[15] = clock
      /\ C[16] = pp /\ C[17] = [do |-> "send", bytes |-> From(read_id_v, 2), n |-> 12] /\ C[18] = hiz
  BY DEF siliconIDCalls, vectorSend, Execute, ReadTwice
<1>4. /\ C[19] = clock /\ C[20] = clock /\ C[21] = receive /\ C[22] = clock
      /\ C[23] = pp /\ C[24] = [do |-> "send", bytes |-> From(read_id_v, 4), n |-> 1] /\ C[25] = hiz
      /\ C[26] = [do |-> "id"]
  BY DEF siliconIDCalls, vectorSend, Execute, ReadTwice
<1> HIDE DEF C
<1>5. PollsAt(C, 0, id_setup_v, 330)
  BY <1>1, <1>2 DEF PollsAt
<1>6. ReadsAt(C, 8, read_id_v, From(read_id_v, 4))
  BY <1>1, <1>3, <1>4 DEF ReadsAt
<1> QED BY <1>0, <1>1, <1>4, <1>5, <1>6

\* The calls of targetBankChecksumGet: a polled vector and two bytes read.
LEMMA BankChecksumCalls ==
  LET C == Calls["bankChecksum"] IN
  /\ Len(C) = 25 /\ PollsAt(C, 0, checksum_v, 286)
  /\ ReadsAt(C, 8, read_checksum_v, From(read_checksum_v, 3))
<1> DEFINE C == bankChecksumCalls
<1>0. Calls["bankChecksum"] = C
  BY DEF Calls, Functions
<1>1. Len(C) = 25
  BY DEF bankChecksumCalls, vectorSend, Execute, ReadTwice
<1>2. /\ C[1] = pp /\ C[2] = [do |-> "send", bytes |-> checksum_v, n |-> 286] /\ C[3] = hiz
      /\ C[4] = clock /\ C[5] = poll
      /\ C[6] = pp /\ C[7] = [do |-> "send", bytes |-> wait_and_poll_end, n |-> 40] /\ C[8] = hiz
  BY DEF bankChecksumCalls, vectorSend, Execute, ReadTwice
<1>3. /\ C[9] = pp /\ C[10] = [do |-> "send", bytes |-> read_checksum_v, n |-> 11] /\ C[11] = hiz
      /\ C[12] = clock /\ C[13] = clock /\ C[14] = receive /\ C[15] = clock
      /\ C[16] = pp /\ C[17] = [do |-> "send", bytes |-> From(read_checksum_v, 2), n |-> 12] /\ C[18] = hiz
  BY DEF bankChecksumCalls, vectorSend, Execute, ReadTwice
<1>4. /\ C[19] = clock /\ C[20] = clock /\ C[21] = receive /\ C[22] = clock
      /\ C[23] = pp /\ C[24] = [do |-> "send", bytes |-> From(read_checksum_v, 3), n |-> 1] /\ C[25] = hiz
  BY DEF bankChecksumCalls, vectorSend, Execute, ReadTwice
<1> HIDE DEF C
<1>5. PollsAt(C, 0, checksum_v, 286)
  BY <1>1, <1>2 DEF PollsAt
<1>6. ReadsAt(C, 8, read_checksum_v, From(read_checksum_v, 3))
  BY <1>1, <1>3, <1>4 DEF ReadsAt
<1> QED BY <1>0, <1>1, <1>5, <1>6

\* The calls of targetErase: one polled vector.
LEMMA EraseCalls ==
  LET C == Calls["erase"] IN Len(C) = 8 /\ PollsAt(C, 0, erase_all_v, 308)
<1> DEFINE C == eraseCalls
<1>0. Calls["erase"] = C
  BY DEF Calls, Functions
<1>1. Len(C) = 8
  BY DEF eraseCalls, vectorSend, Execute
<1>2. /\ C[1] = pp /\ C[2] = [do |-> "send", bytes |-> erase_all_v, n |-> 308] /\ C[3] = hiz
      /\ C[4] = clock /\ C[5] = poll
      /\ C[6] = pp /\ C[7] = [do |-> "send", bytes |-> wait_and_poll_end, n |-> 40] /\ C[8] = hiz
  BY DEF eraseCalls, vectorSend, Execute
<1> HIDE DEF C
<1> QED BY <1>0, <1>1, <1>2 DEF PollsAt

\* The only call of targetReStart.
LEMMA ReStartCalls == LET C == Calls["reStart"] IN Len(C) = 1 /\ C[1] = reset
  BY DEF Calls, Functions

\* The calls of targetBlockProgram: the block's number, and a polled vector.
LEMMA BlockProgramCalls ==
  LET C == Calls["blockProgram"] IN
  Len(C) = 14 /\ SelectsAt(C, 0) /\ PollsAt(C, 6, program_block, 308)
<1> DEFINE C == blockProgramCalls
<1>0. Calls["blockProgram"] = C
  BY DEF Calls, Functions
<1>1. Len(C) = 14
  BY DEF blockProgramCalls, SelectBlock, vectorSend, Execute
<1>2. /\ C[1] = pp /\ C[2] = [do |-> "send", bytes |-> set_block_number, n |-> 11]
      /\ C[3] = hiz /\ C[4] = pp /\ C[5] = [do |-> "block", n |-> 8] /\ C[6] = byteSend(\hE0, 3)
  BY DEF blockProgramCalls, SelectBlock, vectorSend, Execute
<1>3. /\ C[7] = pp /\ C[8] = [do |-> "send", bytes |-> program_block, n |-> 308] /\ C[9] = hiz
      /\ C[10] = clock /\ C[11] = poll
      /\ C[12] = pp /\ C[13] = [do |-> "send", bytes |-> wait_and_poll_end, n |-> 40] /\ C[14] = hiz
  BY DEF blockProgramCalls, SelectBlock, vectorSend, Execute
<1> HIDE DEF C
<1>4. SelectsAt(C, 0)
  BY <1>1, <1>2 DEF SelectsAt
<1>5. PollsAt(C, 6, program_block, 308)
  BY <1>1, <1>3 DEF PollsAt
<1> QED BY <1>0, <1>1, <1>4, <1>5
=================================================================================
