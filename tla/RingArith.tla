------------------------------ MODULE RingArith ------------------------------
(***************************************************************************)
(* Facts about the modular arithmetic of ring indices: a counter of width  *)
(* w is kept modulo M = 2^w, a ring of N slots is indexed by counter % N   *)
(* and its lap parity is (counter \div N) % 2, where N divides M (and, for *)
(* the parity, 2 * N divides M).  The provers do not know exponentiation,  *)
(* so the facts are stated for any M and N with those divisibilities.      *)
(***************************************************************************)
EXTENDS Integers, TLAPS

(* x \div N and x % N are the quotient and remainder of Euclidean division. *)
LEMMA DivMod ==
  ASSUME NEW x \in Int, NEW N \in Nat \ {0}
  PROVE  /\ x = N * (x \div N) + (x % N)
         /\ (x % N) \in 0 .. N - 1
         /\ x \div N \in Int
BY SMT

(* Quotient and remainder are unique.                                      *)
LEMMA DivModUnique ==
  ASSUME NEW x \in Int, NEW N \in Nat \ {0}, NEW q \in Int, NEW r \in 0 .. N - 1,
         x = N * q + r
  PROVE  x % N = r /\ x \div N = q
BY SMT

(* A multiple of N added to x changes neither x % N nor, by more than the  *)
(* multiple, x \div N.                                                     *)
LEMMA ModShift ==
  ASSUME NEW x \in Int, NEW N \in Nat \ {0}, NEW j \in Int
  PROVE  /\ (x + N * j) % N = x % N
         /\ (x + N * j) \div N = (x \div N) + j
<1>1. /\ x = N * (x \div N) + (x % N)
      /\ (x % N) \in 0 .. N - 1
      /\ x \div N \in Int
  BY DivMod
<1>2. x + N * j = N * ((x \div N) + j) + (x % N)
  BY <1>1, SMT
<1>3. (x \div N) + j \in Int /\ x + N * j \in Int
  BY <1>1, SMT
<1>4. QED
  BY <1>1, <1>2, <1>3, DivModUnique, Zenon

(* A value of 0 .. N - 1 is its own remainder.                             *)
LEMMA ModSmall ==
  ASSUME NEW x \in Int, NEW N \in Nat \ {0}, x \in 0 .. N - 1
  PROVE  x % N = x
BY DivModUnique

(* Taking the remainder modulo a multiple M of N first does not change the *)
(* remainder modulo N.                                                     *)
LEMMA ModMod ==
  ASSUME NEW x \in Int, NEW N \in Nat \ {0}, NEW M \in Nat \ {0}, M % N = 0
  PROVE  (x % M) % N = x % N
<1>0. M = N * (M \div N) + (M % N) /\ M \div N \in Int
  BY DivMod
<1>1. PICK c \in Int : M = N * c
  BY <1>0, SMT
<1>2. PICK d \in Int : x = M * d + (x % M)
  BY DivMod
<1>3. (x % M) \in Int
  BY DivMod
<1>4. x = (x % M) + N * (c * d) /\ c * d \in Int
  <2>1. c * d \in Int
    BY SMTT(20)
  <2>2. M * d = N * (c * d)
    <3>1. M * d = (N * c) * d
      BY <1>1, Zenon
    <3>2. (N * c) * d = N * (c * d)
      BY SMTT(20)
    <3>3. QED
      BY <3>1, <3>2, Zenon
  <2>3. x = N * (c * d) + (x % M)
    BY <1>2, <2>2, Zenon
  <2>4. QED
    BY <1>3, <2>1, <2>3, SMTT(20)
<1>5. ((x % M) + N * (c * d)) % N = (x % M) % N
  BY <1>3, <1>4, ModShift
<1>6. QED
  BY <1>4, <1>5, Zenon

(* A positive multiple of 2 * N is a multiple of N and at least 2 * N.    *)
LEMMA DoubleDivides ==
  ASSUME NEW N \in Nat \ {0}, NEW M \in Nat \ {0}, M % (2 * N) = 0
  PROVE  M % N = 0 /\ 2 * N <= M
<1>1. 2 * N \in Nat \ {0}
  OBVIOUS
<1>3. PICK c \in Int : M = (2 * N) * c
  BY <1>1, DivMod
<1>4. c > 0
  BY <1>3, SMT
<1>5. M = N * (2 * c) + 0 /\ 2 * c \in Int
  BY <1>3, SMT
<1>6. M % N = 0
  BY <1>5, DivModUnique
<1>7. 2 * N <= M
  BY <1>3, <1>4, SMT
<1>8. QED
  BY <1>6, <1>7

(* The remainder of a sum or difference may be taken of its terms first.   *)
LEMMA ModAdd ==
  ASSUME NEW x \in Int, NEW y \in Int, NEW M \in Nat \ {0}
  PROVE  /\ ((x % M) + y) % M = (x + y) % M
         /\ (y - (x % M)) % M = (y - x) % M
<1>1. PICK d \in Int : x = M * d + (x % M)
  BY DivMod
<1>2. (x % M) \in Int
  BY DivMod
<1>3. ((x % M) + y) + M * d = x + y /\ (x % M) + y \in Int
  BY <1>1, <1>2, SMT
<1>4. (y - (x % M)) + M * (-d) = y - x /\ y - (x % M) \in Int /\ -d \in Int
  BY <1>1, <1>2, SMT
<1>5. (((x % M) + y) + M * d) % M = ((x % M) + y) % M
  BY <1>3, ModShift
<1>6. ((y - (x % M)) + M * (-d)) % M = (y - (x % M)) % M
  BY <1>4, ModShift
<1>7. QED
  BY <1>3, <1>4, <1>5, <1>6, Zenon

(* Two integers less than N apart with the same remainder are equal.      *)
LEMMA ModInjective ==
  ASSUME NEW a \in Int, NEW b \in Int, NEW N \in Nat \ {0},
         a % N = b % N, 0 <= b - a, b - a < N
  PROVE  a = b
<1>1. PICK qa \in Int : a = N * qa + (a % N)
  BY DivMod
<1>2. PICK qb \in Int : b = N * qb + (b % N)
  BY DivMod
<1>3. (a % N) \in Int
  BY DivMod
<1>4. b - a = N * (qb - qa)
  BY <1>1, <1>2, <1>3, SMT
<1>5. qb - qa = 0
  BY <1>4, SMT
<1>6. QED
  BY <1>4, <1>5, SMT

(* The lap parity of a counter is the same whether it is taken of the      *)
(* counter or of its value modulo M, when 2 * N divides M.                 *)
LEMMA LapOfMod ==
  ASSUME NEW x \in Int, NEW N \in Nat \ {0}, NEW M \in Nat \ {0},
         M % (2 * N) = 0
  PROVE  ((x % M) \div N) % 2 = (x \div N) % 2
<1>1. 2 * N \in Nat \ {0}
  OBVIOUS
<1>2. PICK c \in Int : M = (2 * N) * c
  BY <1>1, DivMod
<1>3. PICK d \in Int : x = M * d + (x % M)
  BY DivMod
<1>4. (x % M) \in Int /\ x \div N \in Int
  BY DivMod
<1>5. PICK e \in Int : M * d = N * e /\ e = 2 * (c * d)
  <2>1. 2 * (c * d) \in Int
    BY SMTT(20)
  <2>2. M * d = ((2 * N) * c) * d
    BY <1>2, Zenon
  <2>3. ((2 * N) * c) * d = N * (2 * (c * d))
    BY SMTT(20)
  <2>4. QED
    BY <2>1, <2>2, <2>3, Zenon
<1>b. N * (-e) = -(N * e) /\ -e \in Int
  BY SMT
<1>c. M * d = N * e
  BY <1>5
<1>6. x % M = x + N * (-e) /\ -e \in Int
  BY <1>3, <1>b, <1>c, SMT
<1>7. (x + N * (-e)) \div N = (x \div N) + (-e)
  BY <1>6, ModShift
<1>8. c * d \in Int /\ -e = 2 * (-(c * d)) /\ -(c * d) \in Int
  BY <1>5, SMT
<1>9. ((x \div N) + 2 * (-(c * d))) % 2 = (x \div N) % 2
  BY <1>4, <1>8, ModShift
<1>10. QED
  BY <1>6, <1>7, <1>8, <1>9, SMT

(* One lap further, the parity is the other one.                          *)
LEMMA LapNext ==
  ASSUME NEW x \in Int, NEW N \in Nat \ {0}
  PROVE  ((x + N) \div N) % 2 # (x \div N) % 2
<1>0. 1 \in Int
  OBVIOUS
<1>1. (x + N * 1) \div N = (x \div N) + 1
  BY <1>0, ModShift, Zenon
<1>2. x \div N \in Int
  BY DivMod
<1>3. QED
  BY <1>1, <1>2, SMT

-----------------------------------------------------------------------------
(* The distance (a - b) % M from a consumer index b to a producer index a, *)
(* both counters modulo M: b plus the distance is a.                       *)
LEMMA DistFacts ==
  ASSUME NEW M \in Nat \ {0}, NEW a \in 0 .. M - 1, NEW b \in Int
  PROVE  /\ (a - b) % M \in 0 .. M - 1
         /\ (b + ((a - b) % M)) % M = a
<1>1. a - b \in Int /\ a \in Int
  OBVIOUS
<1>2. (a - b) % M \in 0 .. M - 1
  BY <1>1, DivMod, Zenon
<1>3. (((a - b) % M) + b) % M = ((a - b) + b) % M
  BY <1>1, ModAdd, Zenon
<1>4. a % M = a
  BY ModSmall
<1>5. QED
  BY <1>2, <1>3, <1>4

(* The producer's increment adds one to the distance, below M - 1.         *)
LEMMA DistAdvance ==
  ASSUME NEW M \in Nat \ {0}, NEW a \in Int, NEW b \in Int,
         (a - b) % M < M - 1
  PROVE  (((a + 1) % M) - b) % M = ((a - b) % M) + 1
<1>1. -b \in Int /\ a + 1 \in Int /\ a - b \in Int /\ 1 \in Int
  OBVIOUS
<1>2. (((a + 1) % M) + (-b)) % M = ((a + 1) + (-b)) % M
  BY <1>1, ModAdd, Zenon
<1>3. (((a - b) % M) + 1) % M = ((a - b) + 1) % M
  BY <1>1, ModAdd, Zenon
<1>4. (a - b) % M \in 0 .. M - 1
  BY <1>1, DivMod, Zenon
<1>5. ((a - b) % M) + 1 \in 0 .. M - 1
  BY <1>4
<1>6. (((a - b) % M) + 1) % M = ((a - b) % M) + 1
  BY <1>5, ModSmall
<1>7. QED
  BY <1>2, <1>3, <1>6

(* The consumer's increment takes one from a positive distance.            *)
LEMMA DistRetreat ==
  ASSUME NEW M \in Nat \ {0}, NEW a \in Int, NEW b \in Int,
         (a - b) % M > 0
  PROVE  (a - ((b + 1) % M)) % M = ((a - b) % M) - 1
<1>1. b + 1 \in Int /\ a - b \in Int /\ -1 \in Int
  OBVIOUS
<1>2. (a - ((b + 1) % M)) % M = (a - (b + 1)) % M
  BY <1>1, ModAdd, Zenon
<1>3. (((a - b) % M) + (-1)) % M = ((a - b) + (-1)) % M
  BY <1>1, ModAdd, Zenon
<1>4. (a - b) % M \in 0 .. M - 1
  BY <1>1, DivMod, Zenon
<1>5. ((a - b) % M) - 1 \in 0 .. M - 1
  BY <1>4
<1>6. (((a - b) % M) - 1) % M = ((a - b) % M) - 1
  BY <1>5, ModSmall
<1>7. QED
  BY <1>2, <1>3, <1>6

(* Index k after the incremented index b is index k + 1 after b.           *)
LEMMA DistShift ==
  ASSUME NEW M \in Nat \ {0}, NEW b \in Int, NEW k \in Int
  PROVE  (((b + 1) % M) + k) % M = (b + (k + 1)) % M
<1>1. b + 1 \in Int
  OBVIOUS
<1>2. (((b + 1) % M) + k) % M = ((b + 1) + k) % M
  BY <1>1, ModAdd, Zenon
<1>3. QED
  BY <1>2

(* Indices of a counter modulo M less than N apart fall in different       *)
(* slots of a ring of N slots, when N divides M.                           *)
LEMMA SlotDistinct ==
  ASSUME NEW M \in Nat \ {0}, NEW N \in Nat \ {0}, M % N = 0, NEW c \in Int,
         NEW k1 \in 0 .. N - 1, NEW k2 \in 0 .. N - 1, k1 < k2
  PROVE  ((c + k1) % M) % N # ((c + k2) % M) % N
<1>1. c + k1 \in Int /\ c + k2 \in Int
  OBVIOUS
<1>a. ((c + k1) % M) % N = (c + k1) % N
  BY <1>1, ModMod, ZenonT(30)
<1>b. ((c + k2) % M) % N = (c + k2) % N
  BY <1>1, ModMod, ZenonT(30)
<1>2. ((c + k1) % M) % N = (c + k1) % N /\ ((c + k2) % M) % N = (c + k2) % N
  BY <1>a, <1>b
<1>3. SUFFICES ASSUME (c + k1) % N = (c + k2) % N PROVE FALSE
  BY <1>2
<1>4. 0 <= (c + k2) - (c + k1) /\ (c + k2) - (c + k1) < N
  OBVIOUS
<1>5. c + k1 = c + k2
  BY <1>1, <1>3, <1>4, ModInjective, Zenon
<1>6. QED
  BY <1>5

=============================================================================
