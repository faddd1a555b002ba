--------------------------- MODULE HidReportProofs ---------------------------
(***************************************************************************)
(* Proofs about HidReport: what bit-fields and descriptors do for every    *)
(* list of fields and every value they can hold, and from it that a host   *)
(* reads the player's hand.                                                *)
(***************************************************************************)
EXTENDS HidReport, WellFoundedInduction, TLAPS

-----------------------------------------------------------------------------
(* The recursions of the model are over data: the numbers up to some N are *)
(* in a set that holds zero and the successor of each of its members.      *)
LEMMA InductUpTo ==
  ASSUME NEW N \in Nat, NEW S, 0 \in S,
         \A n \in 0..(N - 1) : n \in S => n + 1 \in S
  PROVE  \A n \in 0..N : n \in S
<1> DEFINE R == OpToRel(<, Nat)
           T == (0..N) \ S
<1>1. IsWellFoundedOn(R, Nat)
  BY NatLessThanWellFounded
<1>2. \A x, y \in Nat : x < y => <<x, y>> \in R
  BY DEF OpToRel
<1> HIDE DEF R
<1>3. T \subseteq Nat
  OBVIOUS
<1> SUFFICES ASSUME T # {} PROVE FALSE
  OBVIOUS
<1>4. PICK x \in T : \A y \in T : ~ (<<y, x>> \in R)
  BY <1>1, <1>3, WFMin
<1>5. x \in Nat /\ x # 0 /\ x - 1 \in 0..(N - 1) /\ x - 1 < x /\ (x - 1) + 1 = x
  BY <1>4
<1>6. x - 1 \notin S
  BY <1>4, <1>5
<1>7. <<x - 1, x>> \in R
  BY <1>2, <1>5
<1> QED BY <1>4, <1>5, <1>6, <1>7

-----------------------------------------------------------------------------
(* Bit-fields                                                              *)

IsBitFields(fields) ==
    Len(fields) \in Nat /\ \A i \in 1..Len(fields) : fields[i].bits \in 1..8

\* Where the i-th field goes once the one before it has a place.
Place(fields, at, i) ==
    IF i = 1 THEN 0
    ELSE LET free == at[i - 1] + fields[i - 1].bits
         IN  IF (free % 8) + fields[i].bits > 8
             THEN free + 8 - (free % 8) ELSE free

LEMMA EndsBefore ==
  ASSUME NEW a \in Nat, NEW w \in Nat, NEW b \in Nat, NEW v \in Nat, NEW c \in Nat,
         a + w <= b, c >= b + v
  PROVE  a + w <= c
OBVIOUS

LEMMA NoCommonBit ==
  ASSUME NEW a \in Nat, NEW w \in 1..8, NEW b \in Nat, NEW k \in Nat,
         NEW j \in 0..(w - 1), a + j = b + k
  PROVE  ~(a + w <= b)
OBVIOUS

LEMMA FitsIfNotOver ==
  ASSUME NEW a \in Nat, NEW w \in Nat, ~(a + w > 8)
  PROVE  a + w <= 8
OBVIOUS

(* A place is the first bit that is free, or the start of the next byte.   *)
LEMMA PlaceIs ==
  ASSUME NEW fields, IsBitFields(fields), NEW at, NEW i \in 1..Len(fields), i # 1,
         at[i - 1] \in Nat
  PROVE  /\ Place(fields, at, i) \in Nat
         /\ Place(fields, at, i) >= at[i - 1] + fields[i - 1].bits
         /\ (Place(fields, at, i) % 8) + fields[i].bits <= 8
<1> DEFINE free == at[i - 1] + fields[i - 1].bits
<1>1. /\ i - 1 \in 1..Len(fields) /\ fields[i - 1].bits \in 1..8
      /\ fields[i].bits \in 1..8 /\ Len(fields) \in Nat
  BY DEF IsBitFields
<1>2. free \in Nat
  BY <1>1
<1>3. Place(fields, at, i) = IF (free % 8) + fields[i].bits > 8
                             THEN free + 8 - (free % 8) ELSE free
  BY DEF Place
<1> HIDE DEF free
<1>4. /\ free % 8 \in 0..7 /\ free + 8 - (free % 8) \in Nat
      /\ (free + 8 - (free % 8)) % 8 = 0
  BY <1>2
<1>5. CASE (free % 8) + fields[i].bits > 8
  <2>1. Place(fields, at, i) = free + 8 - (free % 8)
    BY <1>3, <1>5
  <2>2. free + 8 - (free % 8) >= free
    BY <1>2, <1>4
  <2>3. ((free + 8 - (free % 8)) % 8) + fields[i].bits <= 8
    BY <1>1, <1>4
  <2> QED BY <1>4, <2>1, <2>2, <2>3 DEF free
<1>6. CASE ~((free % 8) + fields[i].bits > 8)
  <2>1. Place(fields, at, i) = free
    BY <1>3, <1>6
  <2>2. free % 8 \in Nat /\ fields[i].bits \in Nat
    BY <1>1, <1>4
  <2>3. (free % 8) + fields[i].bits <= 8
    BY <2>2, <1>6, FitsIfNotOver
  <2> QED BY <1>2, <2>1, <2>3 DEF free
<1> QED BY <1>5, <1>6

LEMMA PlaceType ==
  ASSUME NEW fields, IsBitFields(fields), NEW at, NEW i \in 1..Len(fields),
         i = 1 \/ at[i - 1] \in Nat
  PROVE  Place(fields, at, i) \in Nat
<1>1. CASE i = 1
  BY <1>1 DEF Place
<1> QED BY <1>1, PlaceIs

(* The recursion in Starts has a solution: every field gets a place.       *)
LEMMA StartsDefined ==
  ASSUME NEW fields, IsBitFields(fields)
  PROVE  /\ Starts(fields) \in [1..Len(fields) -> Nat]
         /\ \A i \in 1..Len(fields) :
               Starts(fields)[i] = Place(fields, Starts(fields), i)
<1> DEFINE N == Len(fields)
           Placed(a, n) == \A i \in 1..n : a[i] = Place(fields, a, i)
           S == {n \in 0..N : \E a \in [1..N -> Nat] : Placed(a, n)}
<1>0. N \in Nat
  BY DEF IsBitFields
<1>1. 0 \in S
  <2> DEFINE z == [i \in 1..N |-> 0]
  <2>1. z \in [1..N -> Nat] /\ Placed(z, 0)
    OBVIOUS
  <2>2. 0 \in 0..N
    BY <1>0
  <2> HIDE DEF z, Placed
  <2> QED BY <2>1, <2>2
<1>2. ASSUME NEW n \in 0..(N - 1), n \in S
      PROVE  n + 1 \in S
  <2>1. PICK a \in [1..N -> Nat] : Placed(a, n)
    BY <1>2
  <2> DEFINE b == [a EXCEPT ![n + 1] = Place(fields, a, n + 1)]
  <2>2. Place(fields, a, n + 1) \in Nat
    <3>1. n + 1 \in 1..N /\ (n + 1 = 1 \/ a[(n + 1) - 1] \in Nat)
      BY <1>0, <2>1
    <3> QED BY <3>1, PlaceType
  <2>3. b \in [1..N -> Nat] /\ \A i \in 1..n : b[i] = a[i]
    BY <1>0, <2>2
  <2>4. b[n + 1] = Place(fields, a, n + 1)
    BY <1>0
  <2> HIDE DEF b
  <2>5. ASSUME NEW i \in 1..(n + 1)
        PROVE  Place(fields, b, i) = Place(fields, a, i)
    <3>1. i = 1 \/ b[i - 1] = a[i - 1]
      BY <1>0, <2>3
    <3> QED BY <3>1 DEF Place
  <2>6. Placed(b, n + 1)
    <3> SUFFICES ASSUME NEW i \in 1..(n + 1)
                 PROVE  b[i] = Place(fields, b, i)
      OBVIOUS
    <3>1. CASE i = n + 1
      BY <2>4, <2>5, <3>1
    <3>2. CASE i # n + 1
      <4>1. i \in 1..n
        BY <1>0, <3>2
      <4> QED BY <2>1, <2>3, <2>5, <4>1
    <3> QED BY <3>1, <3>2
  <2> QED BY <1>0, <2>3, <2>6
<1>3. N \in S
  <2>1. \A n \in 0..N : n \in S
    <3> HIDE DEF S
    <3> QED BY <1>0, <1>1, <1>2, InductUpTo
  <2> QED BY <1>0, <2>1
<1>4. PICK a \in [1..N -> Nat] : Placed(a, N)
  BY <1>3
<1> DEFINE F(f) == [i \in 1..N |-> Place(fields, f, i)]
<1>5. a = F(a)
  BY <1>4
<1>6. Starts(fields) = CHOOSE f : f = F(f)
  BY DEF Starts, Place
<1>7. Starts(fields) = F(Starts(fields))
  <2> HIDE DEF F
  <2> QED BY <1>5, <1>6
<1>8. \A i \in 1..N : Starts(fields)[i] = Place(fields, Starts(fields), i)
  BY <1>7
<1>9. \A i \in 1..N : Starts(fields)[i] \in Nat
  <2> DEFINE U == {n \in 0..N : n > 0 => Starts(fields)[n] \in Nat}
  <2>1. 0 \in U
    BY <1>0
  <2>2. ASSUME NEW n \in 0..(N - 1), n \in U
        PROVE  n + 1 \in U
    <3>1. /\ n + 1 \in 1..N
          /\ n + 1 = 1 \/ Starts(fields)[(n + 1) - 1] \in Nat
      BY <1>0, <2>2
    <3>2. Place(fields, Starts(fields), n + 1) \in Nat
      BY <3>1, PlaceType
    <3> QED BY <1>0, <1>8, <3>1, <3>2
  <2> HIDE DEF U
  <2>3. \A n \in 0..N : n \in U
    BY <1>0, <2>1, <2>2, InductUpTo
  <2> QED BY <1>0, <2>3 DEF U
<1> QED BY <1>7, <1>8, <1>9

(* Bit-fields of at most a byte never share a bit and never cross a byte,  *)
(* whatever their number, order and widths (the structs of hid_stuff.h and *)
(* hid.hpp).                                                               *)
LEMMA FieldsApart ==
  ASSUME NEW fields, IsBitFields(fields)
  PROVE  /\ \A i, j \in 1..Len(fields) :
               i < j => Starts(fields)[i] + fields[i].bits <= Starts(fields)[j]
         /\ \A i \in 1..Len(fields) :
               (Starts(fields)[i] % 8) + fields[i].bits <= 8
<1> DEFINE N == Len(fields)
           at == Starts(fields)
<1>0. /\ N \in Nat /\ \A i \in 1..N : fields[i].bits \in 1..8
      /\ \A i \in 1..N : at[i] \in Nat /\ at[i] = Place(fields, at, i)
  BY StartsDefined DEF IsBitFields
<1> HIDE DEF at
<1>1. ASSUME NEW i \in 1..N, i # 1
      PROVE  at[i] >= at[i - 1] + fields[i - 1].bits /\ (at[i] % 8) + fields[i].bits <= 8
  <2>1. i - 1 \in 1..N /\ at[i - 1] \in Nat
    BY <1>0, <1>1
  <2> QED BY <1>0, <1>1, <2>1, PlaceIs
<1>2. ASSUME NEW i \in 1..N
      PROVE  (at[i] % 8) + fields[i].bits <= 8
  <2>1. CASE i = 1
    <3>1. at[i] = 0
      BY <1>0, <2>1 DEF Place
    <3> QED BY <1>0, <3>1
  <2> QED BY <1>1, <2>1
<1>3. ASSUME NEW i \in 1..N
      PROVE  \A j \in 1..N : i < j => at[i] + fields[i].bits <= at[j]
  <2> DEFINE U == {n \in 0..N : n > i => at[i] + fields[i].bits <= at[n]}
  <2>1. 0 \in U
    BY <1>0
  <2>2. ASSUME NEW n \in 0..(N - 1), n \in U
        PROVE  n + 1 \in U
    <3>1. CASE n < i
      BY <1>0, <3>1
    <3>2. CASE n >= i
      <4>1. /\ n \in 1..N /\ n + 1 \in 1..N /\ n + 1 # 1 /\ (n + 1) - 1 = n
            /\ fields[n].bits \in 1..8 /\ at[n] \in Nat /\ at[i] \in Nat
            /\ fields[i].bits \in 1..8 /\ at[n + 1] \in Nat
        BY <1>0, <3>2
      <4>2. at[n + 1] >= at[n] + fields[n].bits
        BY <1>1, <4>1
      <4>3. at[n] >= at[i]
        BY <1>0, <2>2, <3>2, <4>1
      <4>4. n = i \/ at[i] + fields[i].bits <= at[n]
        BY <2>2, <3>2, <4>1
      <4>5. at[i] + fields[i].bits <= at[n + 1]
        <5>1. CASE n = i
          BY <4>2, <5>1
        <5>2. CASE n # i
          <6>1. fields[i].bits \in Nat /\ fields[n].bits \in Nat
            BY <4>1
          <6> QED BY <4>1, <4>2, <4>4, <5>2, <6>1, EndsBefore
        <5> QED BY <5>1, <5>2
      <4> QED BY <4>1, <4>5
    <3> QED BY <1>0, <3>1, <3>2
  <2> HIDE DEF U
  <2>3. \A n \in 0..N : n \in U
    BY <1>0, <2>1, <2>2, InductUpTo
  <2> QED BY <1>0, <2>3 DEF U
<1> QED BY <1>2, <1>3 DEF at

(* Each bit of a field is in the payload exactly if it is set in the value. *)
LEMMA FieldBit ==
  ASSUME NEW fields, IsBitFields(fields), NEW r,
         NEW i \in 1..Len(fields), fields[i].name # "pad",
         NEW j \in 0..(fields[i].bits - 1)
  PROVE  Starts(fields)[i] + j \in Payload(fields, r)
            <=> (r[fields[i].name] \div 2^j) % 2 = 1
<1> DEFINE at == Starts(fields)
           shown == {n \in 1..Len(fields) : fields[n].name # "pad"}
           set(n) == {k \in 0..(fields[n].bits - 1) :
                         (r[fields[n].name] \div 2^k) % 2 = 1}
<1>0. /\ Len(fields) \in Nat
      /\ \A n \in 1..Len(fields) : fields[n].bits \in 1..8 /\ at[n] \in Nat
  BY StartsDefined DEF IsBitFields
<1>1. Payload(fields, r) = UNION {{at[n] + k : k \in set(n)} : n \in shown}
  BY DEF Payload
<1>2. ASSUME j \in set(i) PROVE at[i] + j \in Payload(fields, r)
  <2> HIDE DEF set, at
  <2> QED BY <1>1, <1>2
<1>3. ASSUME at[i] + j \in Payload(fields, r) PROVE j \in set(i)
  <2>1. PICK n \in shown : \E k \in set(n) : at[i] + j = at[n] + k
    <3> HIDE DEF set, at
    <3> QED BY <1>1, <1>3
  <2>2. PICK k \in set(n) : at[i] + j = at[n] + k
    BY <2>1
  <2>3. /\ n \in 1..Len(fields) /\ k \in 0..(fields[n].bits - 1)
        /\ i < n => at[i] + fields[i].bits <= at[n]
        /\ n < i => at[n] + fields[n].bits <= at[i]
    BY FieldsApart
  <2> HIDE DEF at
  <2>4. n = i
    <3>1. /\ at[i] \in Nat /\ at[n] \in Nat /\ k \in 0..(fields[n].bits - 1)
          /\ fields[i].bits \in 1..8 /\ fields[n].bits \in 1..8
          /\ j \in Nat /\ k \in Nat
      BY <1>0, <2>3
    <3>2. ~(i < n)
      BY <2>2, <2>3, <3>1, NoCommonBit
    <3>3. ~(n < i)
      BY <2>2, <2>3, <3>1, NoCommonBit
    <3> QED BY <1>0, <2>3, <3>2, <3>3
  <2>5. k = j
    BY <1>0, <2>2, <2>3, <2>4
  <2> QED BY <2>2, <2>4, <2>5
<1> QED BY <1>2, <1>3

-----------------------------------------------------------------------------
(* Numbers                                                                 *)

LEMMA PowersOfTwo ==
  /\ 2^0 = 1 /\ 2^1 = 2 /\ 2^2 = 4 /\ 2^3 = 8 /\ 2^4 = 16
  /\ 2^5 = 32 /\ 2^6 = 64 /\ 2^7 = 128 /\ 2^8 = 256
OBVIOUS

LEMMA PowerOfTwo ==
  ASSUME NEW k \in 0..8
  PROVE  2^k \in Nat /\ 2^k >= 1 /\ 0 \div 2^k = 0 /\ (k # 0 => 2^k >= 2)
<1>0. k \in {0, 1, 2, 3, 4, 5, 6, 7, 8}
  OBVIOUS
<1>1. CASE k = 0
  BY <1>1, PowersOfTwo
<1>2. CASE k = 1
  BY <1>2, PowersOfTwo
<1>3. CASE k = 2
  BY <1>3, PowersOfTwo
<1>4. CASE k = 3
  BY <1>4, PowersOfTwo
<1>5. CASE k = 4
  BY <1>5, PowersOfTwo
<1>6. CASE k = 5
  BY <1>6, PowersOfTwo
<1>7. CASE k = 6
  BY <1>7, PowersOfTwo
<1>8. CASE k = 7
  BY <1>8, PowersOfTwo
<1>9. CASE k = 8
  BY <1>9, PowersOfTwo
<1> QED BY <1>0, <1>1, <1>2, <1>3, <1>4, <1>5, <1>6, <1>7, <1>8, <1>9

(* One more bit of a number is one more term of its sum.                   *)
LEMMA LowBits ==
  ASSUME NEW v \in Nat, NEW j \in 1..8
  PROVE  v % 2^j = (v % 2^(j - 1))
                   + (IF (v \div 2^(j - 1)) % 2 = 1 THEN 2^(j - 1) ELSE 0)
<1>0. /\ v % 1 = 0 /\ v \div 1 = v
  OBVIOUS
<1>1. v % 2 = (v % 1) + (IF (v \div 1) % 2 = 1 THEN 1 ELSE 0)
  BY <1>0
<1>2. v % 4 = (v % 2) + (IF (v \div 2) % 2 = 1 THEN 2 ELSE 0)
  OBVIOUS
<1>3. v % 8 = (v % 4) + (IF (v \div 4) % 2 = 1 THEN 4 ELSE 0)
  OBVIOUS
<1>4. v % 16 = (v % 8) + (IF (v \div 8) % 2 = 1 THEN 8 ELSE 0)
  OBVIOUS
<1>5. v % 32 = (v % 16) + (IF (v \div 16) % 2 = 1 THEN 16 ELSE 0)
  OBVIOUS
<1>6. v % 64 = (v % 32) + (IF (v \div 32) % 2 = 1 THEN 32 ELSE 0)
  OBVIOUS
<1>7. v % 128 = (v % 64) + (IF (v \div 64) % 2 = 1 THEN 64 ELSE 0)
  OBVIOUS
<1>8. v % 256 = (v % 128) + (IF (v \div 128) % 2 = 1 THEN 128 ELSE 0)
  OBVIOUS
<1>9. j \in {1, 2, 3, 4, 5, 6, 7, 8}
  OBVIOUS
<1>10. CASE j = 1
  <2>1. j - 1 = 0
    BY <1>10
  <2> QED BY <1>1, <1>10, <2>1, PowersOfTwo
<1>11. CASE j = 2
  <2>1. j - 1 = 1
    BY <1>11
  <2> QED BY <1>2, <1>11, <2>1, PowersOfTwo
<1>12. CASE j = 3
  <2>1. j - 1 = 2
    BY <1>12
  <2> QED BY <1>3, <1>12, <2>1, PowersOfTwo
<1>13. CASE j = 4
  <2>1. j - 1 = 3
    BY <1>13
  <2> QED BY <1>4, <1>13, <2>1, PowersOfTwo
<1>14. CASE j = 5
  <2>1. j - 1 = 4
    BY <1>14
  <2> QED BY <1>5, <1>14, <2>1, PowersOfTwo
<1>15. CASE j = 6
  <2>1. j - 1 = 5
    BY <1>15
  <2> QED BY <1>6, <1>15, <2>1, PowersOfTwo
<1>16. CASE j = 7
  <2>1. j - 1 = 6
    BY <1>16
  <2> QED BY <1>7, <1>16, <2>1, PowersOfTwo
<1>17. CASE j = 8
  <2>1. j - 1 = 7
    BY <1>17
  <2> QED BY <1>8, <1>17, <2>1, PowersOfTwo
<1> QED BY <1>9, <1>10, <1>11, <1>12, <1>13, <1>14, <1>15, <1>16, <1>17

(* Bits that are those of a value spell that value, up to the width of an  *)
(* axis.                                                                   *)
LEMMA NumberIs ==
  ASSUME NEW bits, NEW at \in Nat, NEW size \in 1..8,
         NEW v \in Nat, v < 2^size,
         \A j \in 0..(size - 1) : at + j \in bits <=> (v \div 2^j) % 2 = 1
  PROVE  Number(bits, at, size) = v
<1> DEFINE term(j) == IF at + j - 1 \in bits THEN 2^(j - 1) ELSE 0
           F(f) == [j \in 0..size |-> IF j = 0 THEN 0 ELSE f[j - 1] + term(j)]
           w == [j \in 0..size |-> v % 2^j]
           value == CHOOSE f : f = F(f)
<1>1. Number(bits, at, size) = value[size]
  BY DEF Number
<1>2. ASSUME NEW j \in 1..size
      PROVE  w[j] = w[j - 1] + term(j)
  <2>1. j \in 1..8 /\ j - 1 \in 0..(size - 1) /\ j \in 0..size /\ j - 1 \in 0..size
        /\ at + j - 1 = at + (j - 1)
    OBVIOUS
  <2>2. term(j) = IF (v \div 2^(j - 1)) % 2 = 1 THEN 2^(j - 1) ELSE 0
    BY <2>1
  <2>3. w[j] = v % 2^j /\ w[j - 1] = v % 2^(j - 1)
    BY <2>1
  <2> HIDE DEF term, w
  <2> QED BY <2>1, <2>2, <2>3, LowBits
<1>3. w[0] = 0
  BY PowersOfTwo
<1>4. w = F(w)
  <2>1. \A j \in 0..size : w[j] = F(w)[j]
    <3> SUFFICES ASSUME NEW j \in 0..size PROVE w[j] = F(w)[j]
      OBVIOUS
    <3>1. j = 0 \/ j \in 1..size
      OBVIOUS
    <3> HIDE DEF w, term
    <3> QED BY <1>2, <1>3, <3>1
  <2> HIDE DEF term
  <2> QED BY <2>1
<1>5. value = F(value)
  <2> HIDE DEF F, w
  <2> QED BY <1>4
<1>6. value[0] = 0 /\ \A j \in 1..size : value[j] = value[j - 1] + term(j)
  <2> HIDE DEF value, term
  <2>1. \A j \in 0..size : value[j] = IF j = 0 THEN 0 ELSE value[j - 1] + term(j)
    BY <1>5
  <2> QED BY <2>1
<1>7. value[size] = w[size]
  <2> DEFINE U == {n \in 0..size : value[n] = w[n]}
  <2>1. 0 \in U
    BY <1>3, <1>6
  <2>2. ASSUME NEW n \in 0..(size - 1), n \in U
        PROVE  n + 1 \in U
    <3>1. n + 1 \in 1..size /\ (n + 1) - 1 = n /\ value[n] = w[n]
      BY <2>2
    <3> HIDE DEF value, w, term
    <3> QED BY <1>2, <1>6, <3>1
  <2> HIDE DEF U
  <2>3. \A n \in 0..size : n \in U
    BY <2>1, <2>2, InductUpTo
  <2> HIDE DEF value, w
  <2> QED BY <2>3 DEF U
<1>8. v % 2^size = v
  <2>1. \/ size = 1 \/ size = 2 \/ size = 3 \/ size = 4 \/ size = 5 \/ size = 6
        \/ size = 7 \/ size = 8
    OBVIOUS
  <2> QED BY <2>1, PowersOfTwo
<1> QED BY <1>1, <1>7, <1>8

(* Whatever struct is packed and whatever it holds: the bits at a field's  *)
(* place spell the field's value, so a host whose descriptor looks there   *)
(* with the field's width reads what the firmware stored (to_packed and    *)
(* the packed structs of hid_stuff.h, hid.hpp).                            *)
THEOREM FieldsAreRead ==
  ASSUME NEW fields, IsBitFields(fields), NEW r,
         NEW i \in 1..Len(fields), fields[i].name # "pad",
         r[fields[i].name] \in Nat, r[fields[i].name] < 2^fields[i].bits
  PROVE  Number(Payload(fields, r), Starts(fields)[i], fields[i].bits)
            = r[fields[i].name]
<1> DEFINE v == r[fields[i].name]
           at == Starts(fields)[i]
           size == fields[i].bits
           bits == Payload(fields, r)
<1>1. at \in Nat /\ size \in 1..8 /\ v \in Nat /\ v < 2^size
  BY StartsDefined DEF IsBitFields
<1>2. \A j \in 0..(size - 1) : at + j \in bits <=> (v \div 2^j) % 2 = 1
  BY FieldBit
<1> HIDE DEF v, at, size, bits
<1>3. Number(bits, at, size) = v
  BY <1>1, <1>2, NumberIs
<1> QED BY <1>3 DEF v, at, size, bits

(* A payload has no bit outside its struct.                                *)
LEMMA PayloadFits ==
  ASSUME NEW fields, IsBitFields(fields), NEW r, Len(fields) # 0
  PROVE  Payload(fields, r) \subseteq 0..(8 * Sizeof(fields) - 1)
<1> DEFINE N == Len(fields)
           at == Starts(fields)
           shown == {n \in 1..N : fields[n].name # "pad"}
           set(n) == {k \in 0..(fields[n].bits - 1) :
                         (r[fields[n].name] \div 2^k) % 2 = 1}
           end == at[N] + fields[N].bits
<1>0. /\ N \in Nat /\ N \in 1..N
      /\ \A n \in 1..N : fields[n].bits \in 1..8 /\ at[n] \in Nat
  BY StartsDefined DEF IsBitFields
<1>1. Payload(fields, r) = UNION {{at[n] + k : k \in set(n)} : n \in shown}
  BY DEF Payload
<1>a. \A n \in 1..N : fields[n].bits \in Nat /\ at[n] \in Nat
  BY <1>0
<1>2. end \in Nat /\ end <= 8 * Sizeof(fields) /\ Sizeof(fields) \in Nat
  <2>1. Sizeof(fields) = (end + 7) \div 8
    BY DEF Sizeof
  <2>2. at[N] \in Nat /\ fields[N].bits \in Nat
    BY <1>0, <1>a
  <2>3. end \in Nat
    <3> HIDE DEF at
    <3> QED BY <2>2
  <2> HIDE DEF end
  <2> QED BY <2>1, <2>3
<1> SUFFICES ASSUME NEW b \in Payload(fields, r)
             PROVE  b \in 0..(8 * Sizeof(fields) - 1)
  OBVIOUS
<1>3. PICK n \in shown : \E k \in set(n) : b = at[n] + k
  <2> HIDE DEF set, at
  <2> QED BY <1>1
<1>4. PICK k \in set(n) : b = at[n] + k
  BY <1>3
<1>5. n \in 1..N /\ k \in Nat /\ k < fields[n].bits
  BY <1>0
<1>6. at[n] + fields[n].bits <= end
  <2>1. CASE n = N
    BY <1>0, <2>1
  <2>2. CASE n # N
    <3>1. n < N
      BY <1>0, <1>5, <2>2
    <3>2. at[n] + fields[n].bits <= at[N]
      BY <1>0, <1>5, <3>1, FieldsApart
    <3>3. at[n] \in Nat /\ fields[n].bits \in Nat /\ at[N] \in Nat /\ fields[N].bits \in Nat
      <4> HIDE DEF at
      <4> QED BY <1>0, <1>a, <1>5
    <3> HIDE DEF at
    <3> QED BY <3>2, <3>3, EndsBefore DEF end
  <2> QED BY <2>1, <2>2
<1>7. b \in Nat /\ b < end
  <2>1. at[n] \in Nat /\ fields[n].bits \in Nat
    BY <1>a, <1>5
  <2> HIDE DEF at, end, set
  <2>2. b = at[n] + k
    BY <1>4
  <2> QED BY <1>2, <1>5, <1>6, <2>1, <2>2
<1> HIDE DEF end
<1> QED BY <1>2, <1>7

-----------------------------------------------------------------------------
(* The two structs                                                         *)

LEMMA ClassicFields ==
  /\ IsBitFields(packed_report_t) /\ Len(packed_report_t) = 22
  /\ \A i \in 1..6 : packed_report_t[i] = Field(Axes[i], 8)
  /\ \A i \in 1..13 : packed_report_t[6 + i] = Field(Buttons[i], 1)
  /\ packed_report_t[20] = Field("pad", 3)
  /\ packed_report_t[21] = Field("hat", 4)
  /\ packed_report_t[22] = Field("pad", 4)
<1> DEFINE s1 == [i \in 1..6 |-> Field(Axes[i], 8)]
           s2 == [i \in 1..13 |-> Field(Buttons[i], 1)]
           s3 == <<Field("pad", 3), Field("hat", 4), Field("pad", 4)>>
<1>1. Len(Axes) = 6 /\ Len(Buttons) = 13 /\ HID_BUTTON_PADDING = 3
  BY DEF Axes, Buttons, HID_BUTTON_PADDING, HID_BUTTON_COUNT
<1>2. packed_report_t = s1 \o s2 \o s3
  BY <1>1 DEF packed_report_t
<1>3. Len(packed_report_t) = 22
  BY <1>2
<1>4. \A i \in 1..6 : packed_report_t[i] = Field(Axes[i], 8)
  BY <1>2
<1>5. \A i \in 1..13 : packed_report_t[6 + i] = Field(Buttons[i], 1)
  BY <1>2
<1>6. /\ packed_report_t[20] = Field("pad", 3)
      /\ packed_report_t[21] = Field("hat", 4)
      /\ packed_report_t[22] = Field("pad", 4)
  BY <1>2
<1>7. ASSUME NEW i \in 1..22 PROVE packed_report_t[i].bits \in 1..8
  <2>1. CASE i \in 1..6
    BY <1>4, <2>1 DEF Field
  <2>2. CASE i \in 7..19
    <3>1. i - 6 \in 1..13 /\ 6 + (i - 6) = i
      BY <2>2
    <3> QED BY <1>5, <3>1 DEF Field
  <2>3. CASE i \in {20, 21, 22}
    BY <1>6, <2>3 DEF Field
  <2> QED BY <2>1, <2>2, <2>3
<1> QED BY <1>3, <1>4, <1>5, <1>6, <1>7 DEF IsBitFields

LEMMA BleFields ==
  /\ IsBitFields(GamepadReport) /\ Len(GamepadReport) = 12
  /\ \A i \in 1..9 : GamepadReport[i] = Field(ButtonBits[i], 1)
  /\ GamepadReport[10] = Field("pad", 7)
  /\ GamepadReport[11] = Field("hat", 4)
  /\ GamepadReport[12] = Field("pad", 4)
<1> DEFINE s1 == [i \in 1..9 |-> Field(ButtonBits[i], 1)]
           s2 == <<Field("pad", 7), Field("hat", 4), Field("pad", 4)>>
<1>1. Len(ButtonBits) = 9 /\ GamepadReport = s1 \o s2
  BY DEF ButtonBits, GamepadReport
<1>2. Len(GamepadReport) = 12
  BY <1>1
<1>3. \A i \in 1..9 : GamepadReport[i] = Field(ButtonBits[i], 1)
  BY <1>1
<1>4. /\ GamepadReport[10] = Field("pad", 7)
      /\ GamepadReport[11] = Field("hat", 4)
      /\ GamepadReport[12] = Field("pad", 4)
  BY <1>1
<1>5. ASSUME NEW i \in 1..12 PROVE GamepadReport[i].bits \in 1..8
  <2>1. CASE i \in 1..9
    BY <1>3, <2>1 DEF Field
  <2>2. CASE i \in {10, 11, 12}
    BY <1>4, <2>2 DEF Field
  <2> QED BY <2>1, <2>2
<1> QED BY <1>2, <1>3, <1>4, <1>5 DEF IsBitFields

(* The bits where the fields of the two structs start.                     *)
LEMMA ClassicStarts ==
  /\ \A i \in 1..6 : Starts(packed_report_t)[i] = 8 * (i - 1)
  /\ \A i \in 1..13 : Starts(packed_report_t)[6 + i] = 47 + i
  /\ Starts(packed_report_t)[21] = 64 /\ Starts(packed_report_t)[22] = 68
<1> DEFINE at == Starts(packed_report_t)
<1>1. \A i \in 1..22 : at[i] = Place(packed_report_t, at, i)
  BY ClassicFields, StartsDefined
<1>2. /\ \A i \in 1..6 : packed_report_t[i].bits = 8
      /\ \A i \in 7..19 : packed_report_t[i].bits = 1
  <2>1. \A i \in 1..6 : packed_report_t[i].bits = 8
    BY ClassicFields DEF Field
  <2>2. ASSUME NEW i \in 7..19 PROVE packed_report_t[i].bits = 1
    <3>1. i - 6 \in 1..13 /\ 6 + (i - 6) = i
      OBVIOUS
    <3> QED BY <3>1, ClassicFields DEF Field
  <2> QED BY <2>1, <2>2
<1> HIDE DEF at
<1>3. at[1] = 0
  BY <1>1 DEF Place
<1>4. \A i \in 2..6 : at[i - 1] = 8 * (i - 2) => at[i] = 8 * (i - 1)
  <2> TAKE i \in 2..6
  <2>1. at[i] = Place(packed_report_t, at, i) /\ i # 1
    BY <1>1
  <2>2. packed_report_t[i].bits = 8 /\ packed_report_t[i - 1].bits = 8
    BY <1>2
  <2>3. HAVE at[i - 1] = 8 * (i - 2)
  <2>4. (at[i - 1] + 8) % 8 = 0 /\ at[i - 1] + 8 = 8 * (i - 1)
    BY <2>3
  <2> QED BY <2>1, <2>2, <2>4 DEF Place
<1>5. at[2] = 8 /\ at[3] = 16 /\ at[4] = 24 /\ at[5] = 32 /\ at[6] = 40
  BY <1>3, <1>4
<1>6. at[7] = 48
  BY <1>1, <1>2, <1>5 DEF Place
<1>7. ASSUME NEW i \in 8..19, at[i - 1] = 40 + i
      PROVE  at[i] = 41 + i
  <2>1. at[i] = Place(packed_report_t, at, i) /\ i # 1
    BY <1>1
  <2>2. packed_report_t[i].bits = 1 /\ packed_report_t[i - 1].bits = 1
    BY <1>2
  <2>3. at[i - 1] + 1 = 41 + i /\ ((41 + i) % 8) + 1 <= 8
    BY <1>7
  <2> QED BY <2>1, <2>2, <2>3 DEF Place
<1>8. /\ at[8] = 49 /\ at[9] = 50 /\ at[10] = 51 /\ at[11] = 52 /\ at[12] = 53
      /\ at[13] = 54 /\ at[14] = 55 /\ at[15] = 56 /\ at[16] = 57 /\ at[17] = 58
      /\ at[18] = 59 /\ at[19] = 60
  BY <1>6, <1>7
<1>9. /\ packed_report_t[20].bits = 3 /\ packed_report_t[21].bits = 4
      /\ packed_report_t[22].bits = 4 /\ packed_report_t[19].bits = 1
  BY <1>2, ClassicFields DEF Field
<1>10. at[20] = 61
  BY <1>1, <1>8, <1>9 DEF Place
<1>11. at[21] = 64
  BY <1>1, <1>9, <1>10 DEF Place
<1>12. at[22] = 68
  BY <1>1, <1>9, <1>11 DEF Place
<1> QED BY <1>3, <1>5, <1>6, <1>8, <1>11, <1>12 DEF at

LEMMA BleStarts ==
  /\ \A i \in 1..9 : Starts(GamepadReport)[i] = i - 1
  /\ Starts(GamepadReport)[11] = 16 /\ Starts(GamepadReport)[12] = 20
<1> DEFINE at == Starts(GamepadReport)
<1>1. \A i \in 1..12 : at[i] = Place(GamepadReport, at, i)
  BY BleFields, StartsDefined
<1>2. \A i \in 1..9 : GamepadReport[i].bits = 1
  BY BleFields DEF Field
<1> HIDE DEF at
<1>3. at[1] = 0
  BY <1>1 DEF Place
<1>4. ASSUME NEW i \in 2..9, at[i - 1] = i - 2
      PROVE  at[i] = i - 1
  <2>1. at[i] = Place(GamepadReport, at, i) /\ i # 1
    BY <1>1
  <2>2. GamepadReport[i].bits = 1 /\ GamepadReport[i - 1].bits = 1
    BY <1>2
  <2>3. at[i - 1] + 1 = i - 1 /\ ((i - 1) % 8) + 1 <= 8
    BY <1>4
  <2> QED BY <2>1, <2>2, <2>3 DEF Place
<1>5. /\ at[2] = 1 /\ at[3] = 2 /\ at[4] = 3 /\ at[5] = 4 /\ at[6] = 5
      /\ at[7] = 6 /\ at[8] = 7 /\ at[9] = 8
  BY <1>3, <1>4
<1>6. /\ GamepadReport[9].bits = 1 /\ GamepadReport[10].bits = 7
      /\ GamepadReport[11].bits = 4 /\ GamepadReport[12].bits = 4
  BY <1>2, BleFields DEF Field
<1>7. at[10] = 9
  BY <1>1, <1>5, <1>6 DEF Place
<1>8. at[11] = 16
  BY <1>1, <1>6, <1>7 DEF Place
<1>9. at[12] = 20
  BY <1>1, <1>6, <1>8 DEF Place
<1> QED BY <1>3, <1>5, <1>8, <1>9 DEF at

-----------------------------------------------------------------------------
(* The two descriptors                                                     *)

(* The bits where the items that have usages start.                        *)
LEMMA ClassicItems ==
  /\ Len(hid_descriptor) = 8
  /\ ItemStarts(hid_descriptor)[1] = 0 /\ ItemStarts(hid_descriptor)[2] = 16
  /\ ItemStarts(hid_descriptor)[3] = 32 /\ ItemStarts(hid_descriptor)[4] = 40
  /\ ItemStarts(hid_descriptor)[5] = 48 /\ ItemStarts(hid_descriptor)[7] = 64
  /\ ItemStarts(hid_descriptor)[9] = 72
<1> DEFINE wide(i) == hid_descriptor[i].size * hid_descriptor[i].count
           F(f) == [i \in 1..9 |-> IF i = 1 THEN 0 ELSE f[i - 1] + wide(i - 1)]
           w == [i \in 1..9 |-> <<0, 16, 32, 40, 48, 61, 64, 68, 72>>[i]]
           at == ItemStarts(hid_descriptor)
<1>1. Len(hid_descriptor) = 8
  BY DEF hid_descriptor
<1>2. /\ wide(1) = 16 /\ wide(2) = 16 /\ wide(3) = 8 /\ wide(4) = 8
      /\ wide(5) = 13 /\ wide(6) = 3 /\ wide(7) = 4 /\ wide(8) = 4
  <2>1. HID_BUTTON_COUNT = 13 /\ HID_BUTTON_PADDING = 3
    BY DEF HID_BUTTON_COUNT, HID_BUTTON_PADDING
  <2>2. /\ wide(1) = 8 * 2 /\ wide(2) = 8 * 2 /\ wide(3) = 8 * 1 /\ wide(4) = 8 * 1
        /\ wide(5) = 1 * 13 /\ wide(6) = 1 * 3 /\ wide(7) = 4 * 1 /\ wide(8) = 1 * 4
    BY <2>1 DEF hid_descriptor, Item
  <2> HIDE DEF wide
  <2> QED BY <2>2
<1>3. at = CHOOSE f : f = F(f)
  BY <1>1 DEF ItemStarts
<1> HIDE DEF wide, at
<1>4. w = F(w)
  <2>1. /\ w[1] = 0 /\ w[2] = 16 /\ w[3] = 32 /\ w[4] = 40 /\ w[5] = 48
        /\ w[6] = 61 /\ w[7] = 64 /\ w[8] = 68 /\ w[9] = 72
    OBVIOUS
  <2> HIDE DEF w
  <2>2. ASSUME NEW i \in 1..9 PROVE w[i] = F(w)[i]
    <3>1. i \in {1, 2, 3, 4, 5, 6, 7, 8, 9}
      OBVIOUS
    <3> QED BY <1>2, <2>1, <3>1
  <2> QED BY <2>2 DEF w
<1>5. at = F(at)
  <2> HIDE DEF F, w
  <2> QED BY <1>3, <1>4
<1>6. at[1] = 0 /\ \A i \in 2..9 : at[i] = at[i - 1] + wide(i - 1)
  <2>1. \A i \in 1..9 : at[i] = IF i = 1 THEN 0 ELSE at[i - 1] + wide(i - 1)
    BY <1>5
  <2> QED BY <2>1
<1>7. at[2] = 16
  BY <1>2, <1>6
<1>8. at[3] = 32
  BY <1>2, <1>6, <1>7
<1>9. at[4] = 40
  BY <1>2, <1>6, <1>8
<1>10. at[5] = 48
  BY <1>2, <1>6, <1>9
<1>11. at[6] = 61
  BY <1>2, <1>6, <1>10
<1>12. at[7] = 64
  BY <1>2, <1>6, <1>11
<1>13. at[8] = 68
  BY <1>2, <1>6, <1>12
<1>14. at[9] = 72
  BY <1>2, <1>6, <1>13
<1> QED BY <1>1, <1>6, <1>7, <1>8, <1>9, <1>10, <1>12, <1>14 DEF at

LEMMA BleItems ==
  /\ Len(gamepad_hid_report_descriptor) = 4
  /\ ItemStarts(gamepad_hid_report_descriptor)[1] = 0
  /\ ItemStarts(gamepad_hid_report_descriptor)[3] = 16
  /\ ItemStarts(gamepad_hid_report_descriptor)[5] = 24
<1> DEFINE d == gamepad_hid_report_descriptor
           wide(i) == d[i].size * d[i].count
           F(f) == [i \in 1..5 |-> IF i = 1 THEN 0 ELSE f[i - 1] + wide(i - 1)]
           w == [i \in 1..5 |-> <<0, 9, 16, 20, 24>>[i]]
           at == ItemStarts(d)
<1>1. Len(d) = 4
  BY DEF gamepad_hid_report_descriptor
<1>2. wide(1) = 9 /\ wide(2) = 7 /\ wide(3) = 4 /\ wide(4) = 4
  BY DEF gamepad_hid_report_descriptor, Item
<1>3. at = CHOOSE f : f = F(f)
  BY <1>1 DEF ItemStarts
<1> HIDE DEF wide, at
<1>4. w = F(w)
  <2>1. w[1] = 0 /\ w[2] = 9 /\ w[3] = 16 /\ w[4] = 20 /\ w[5] = 24
    OBVIOUS
  <2> HIDE DEF w
  <2>2. ASSUME NEW i \in 1..5 PROVE w[i] = F(w)[i]
    <3>1. i \in {1, 2, 3, 4, 5}
      OBVIOUS
    <3> QED BY <1>2, <2>1, <3>1
  <2> QED BY <2>2 DEF w
<1>5. at = F(at)
  <2> HIDE DEF F, w
  <2> QED BY <1>3, <1>4
<1>6. at[1] = 0 /\ \A i \in 2..5 : at[i] = at[i - 1] + wide(i - 1)
  <2>1. \A i \in 1..5 : at[i] = IF i = 1 THEN 0 ELSE at[i - 1] + wide(i - 1)
    BY <1>5
  <2> QED BY <2>1
<1>7. at[2] = 9
  BY <1>2, <1>6
<1>8. at[3] = 16
  BY <1>2, <1>6, <1>7
<1>9. at[4] = 20
  BY <1>2, <1>6, <1>8
<1>10. at[5] = 24
  BY <1>2, <1>6, <1>9
<1> QED BY <1>1, <1>6, <1>8, <1>10 DEF at

-----------------------------------------------------------------------------
(* The wiring                                                              *)

\* The program sends control c under usage u.
SentUnder(c, u) == \E s \in Sent : s[1] = c /\ <<u, s[2]>> \in Numbering

(* A pin moves the usages that the control behind it is sent under.        *)
LEMMA MovesBy ==
  ASSUME NEW p, NEW c, \A x : <<p, x>> \in Board <=> x = c
  PROVE  \A u : Moves(p, u) <=> SentUnder(c, u)
<1>1. \A b \in Board : b = <<b[1], b[2]>>
  BY DEF Board
<1>2. <<p, c>> \in Board
  OBVIOUS
<1>3. ASSUME NEW u, Moves(p, u)
      PROVE  SentUnder(c, u)
  <2>1. PICK b \in Board, s \in Sent :
             b[1] = p /\ s[1] = b[2] /\ <<u, s[2]>> \in Numbering
    BY <1>3 DEF Moves
  <2>2. <<p, b[2]>> \in Board
    BY <1>1, <2>1
  <2>3. b[2] = c
    BY <2>2
  <2> QED BY <2>1, <2>3 DEF SentUnder
<1>4. ASSUME NEW u, NEW s \in Sent, s[1] = c, <<u, s[2]>> \in Numbering
      PROVE  Moves(p, u)
  <2>1. <<p, c>>[1] = p /\ <<p, c>>[2] = c
    OBVIOUS
  <2> QED BY <1>2, <1>4, <2>1 DEF Moves
<1> QED BY <1>3, <1>4 DEF SentUnder

LEMMA BoardNets ==
  ASSUME NEW u
  PROVE  /\ Moves(1, u) <=> SentUnder("START", u)
         /\ Moves(2, u) <=> SentUnder("SELECT", u)
         /\ Moves(3, u) <=> SentUnder("STRUM_UP", u)
         /\ Moves(4, u) <=> SentUnder("STRUM_DOWN", u)
         /\ Moves(10, u) <=> SentUnder("ORANGE", u)
         /\ Moves(11, u) <=> SentUnder("BLUE", u)
         /\ Moves(12, u) <=> SentUnder("YELLOW", u)
         /\ Moves(13, u) <=> SentUnder("RED", u)
         /\ Moves(14, u) <=> SentUnder("GREEN", u)
<1>1. Moves(1, u) <=> SentUnder("START", u)
  <2>1. \A x : <<1, x>> \in Board <=> x = "START"
    BY DEF Board
  <2> QED BY <2>1, MovesBy
<1>2. Moves(2, u) <=> SentUnder("SELECT", u)
  <2>1. \A x : <<2, x>> \in Board <=> x = "SELECT"
    BY DEF Board
  <2> QED BY <2>1, MovesBy
<1>3. Moves(3, u) <=> SentUnder("STRUM_UP", u)
  <2>1. \A x : <<3, x>> \in Board <=> x = "STRUM_UP"
    BY DEF Board
  <2> QED BY <2>1, MovesBy
<1>4. Moves(4, u) <=> SentUnder("STRUM_DOWN", u)
  <2>1. \A x : <<4, x>> \in Board <=> x = "STRUM_DOWN"
    BY DEF Board
  <2> QED BY <2>1, MovesBy
<1>5. Moves(10, u) <=> SentUnder("ORANGE", u)
  <2>1. \A x : <<10, x>> \in Board <=> x = "ORANGE"
    BY DEF Board
  <2> QED BY <2>1, MovesBy
<1>6. Moves(11, u) <=> SentUnder("BLUE", u)
  <2>1. \A x : <<11, x>> \in Board <=> x = "BLUE"
    BY DEF Board
  <2> QED BY <2>1, MovesBy
<1>7. Moves(12, u) <=> SentUnder("YELLOW", u)
  <2>1. \A x : <<12, x>> \in Board <=> x = "YELLOW"
    BY DEF Board
  <2> QED BY <2>1, MovesBy
<1>8. Moves(13, u) <=> SentUnder("RED", u)
  <2>1. \A x : <<13, x>> \in Board <=> x = "RED"
    BY DEF Board
  <2> QED BY <2>1, MovesBy
<1>9. Moves(14, u) <=> SentUnder("GREEN", u)
  <2>1. \A x : <<14, x>> \in Board <=> x = "GREEN"
    BY DEF Board
  <2> QED BY <2>1, MovesBy
<1> QED BY <1>1, <1>2, <1>3, <1>4, <1>5, <1>6, <1>7, <1>8, <1>9

LEMMA ClassicUsages ==
  ASSUME firmware = "classic", NEW u
  PROVE  /\ Moves(14, u) <=> u = "A"
         /\ Moves(13, u) <=> u = "B"
         /\ Moves(12, u) <=> u = "Y"
         /\ Moves(11, u) <=> u = "X"
         /\ Moves(10, u) <=> u = "TL"
         /\ Moves(3, u) <=> u = "C"
         /\ Moves(4, u) <=> u = "Z"
         /\ Moves(1, u) <=> u = "SELECT"
         /\ Moves(2, u) <=> u = "START"
<1>1. Sent = { <<"GREEN", 0>>, <<"RED", 1>>, <<"YELLOW", 2>>, <<"BLUE", 3>>,
               <<"ORANGE", 4>>, <<"STRUM_UP", 14>>, <<"STRUM_UP", 17>>,
               <<"STRUM_DOWN", 15>>, <<"STRUM_DOWN", 18>>, <<"START", 8>>,
               <<"SELECT", 9>> }
  BY DEF Sent, Documented
<1>2. /\ <<u, 0>> \in Numbering <=> u = "A"
      /\ <<u, 1>> \in Numbering <=> u = "B"
      /\ <<u, 2>> \in Numbering <=> u = "Y"
      /\ <<u, 3>> \in Numbering <=> u = "X"
      /\ <<u, 4>> \in Numbering <=> u = "TL"
      /\ <<u, 8>> \in Numbering <=> u = "SELECT"
      /\ <<u, 9>> \in Numbering <=> u = "START"
      /\ <<u, 17>> \in Numbering <=> u = "C"
      /\ <<u, 18>> \in Numbering <=> u = "Z"
      /\ <<u, 14>> \notin Numbering /\ <<u, 15>> \notin Numbering
  BY DEF Numbering
<1>3. /\ SentUnder("GREEN", u) <=> u = "A"
      /\ SentUnder("RED", u) <=> u = "B"
      /\ SentUnder("YELLOW", u) <=> u = "Y"
      /\ SentUnder("BLUE", u) <=> u = "X"
      /\ SentUnder("ORANGE", u) <=> u = "TL"
      /\ SentUnder("STRUM_UP", u) <=> u = "C"
      /\ SentUnder("STRUM_DOWN", u) <=> u = "Z"
      /\ SentUnder("START", u) <=> u = "SELECT"
      /\ SentUnder("SELECT", u) <=> u = "START"
  BY <1>1, <1>2 DEF SentUnder
<1> QED BY <1>3, BoardNets

LEMMA BleUsages ==
  ASSUME firmware = "ble", NEW u
  PROVE  /\ Moves(1, u) <=> u = "Button1"
         /\ Moves(2, u) <=> u = "Button2"
         /\ Moves(3, u) <=> u = "Button3"
         /\ Moves(4, u) <=> u = "Button4"
         /\ Moves(10, u) <=> u = "Button5"
         /\ Moves(11, u) <=> u = "Button6"
         /\ Moves(12, u) <=> u = "Button7"
         /\ Moves(13, u) <=> u = "Button8"
         /\ Moves(14, u) <=> u = "Button9"
<1>1. Sent = { <<"START", 0>>, <<"SELECT", 1>>, <<"STRUM_UP", 2>>,
               <<"STRUM_DOWN", 3>>, <<"ORANGE", 4>>, <<"BLUE", 5>>,
               <<"YELLOW", 6>>, <<"RED", 7>>, <<"GREEN", 8>> }
  BY DEF Sent
<1>2. /\ <<u, 0>> \in Numbering <=> u = "Button1"
      /\ <<u, 1>> \in Numbering <=> u = "Button2"
      /\ <<u, 2>> \in Numbering <=> u = "Button3"
      /\ <<u, 3>> \in Numbering <=> u = "Button4"
      /\ <<u, 4>> \in Numbering <=> u = "Button5"
      /\ <<u, 5>> \in Numbering <=> u = "Button6"
      /\ <<u, 6>> \in Numbering <=> u = "Button7"
      /\ <<u, 7>> \in Numbering <=> u = "Button8"
      /\ <<u, 8>> \in Numbering <=> u = "Button9"
  BY DEF Numbering
<1>3. /\ SentUnder("START", u) <=> u = "Button1"
      /\ SentUnder("SELECT", u) <=> u = "Button2"
      /\ SentUnder("STRUM_UP", u) <=> u = "Button3"
      /\ SentUnder("STRUM_DOWN", u) <=> u = "Button4"
      /\ SentUnder("ORANGE", u) <=> u = "Button5"
      /\ SentUnder("BLUE", u) <=> u = "Button6"
      /\ SentUnder("YELLOW", u) <=> u = "Button7"
      /\ SentUnder("RED", u) <=> u = "Button8"
      /\ SentUnder("GREEN", u) <=> u = "Button9"
  BY <1>1, <1>2 DEF SentUnder
<1> QED BY <1>3, BoardNets

LEMMA ClassicNames ==
  ASSUME firmware = "classic"
  PROVE  /\ \A k \in 1..6 : Axes[k] \in Names
         /\ \A k \in 1..13 : Buttons[k] \in Names
<1>1. Struct = packed_report_t
  BY DEF Struct
<1>2. ASSUME NEW k \in 1..6 PROVE Axes[k] \in Names
  <2>1. k \in 1..Len(Struct) /\ Struct[k].name = Axes[k]
    BY <1>1, ClassicFields DEF Field
  <2>2. Axes[k] # "pad"
    <3>1. k \in {1, 2, 3, 4, 5, 6}
      OBVIOUS
    <3> QED BY <3>1 DEF Axes
  <2> QED BY <2>1, <2>2 DEF Names
<1>3. ASSUME NEW k \in 1..13 PROVE Buttons[k] \in Names
  <2>1. 6 + k \in 1..Len(Struct) /\ Struct[6 + k].name = Buttons[k]
    BY <1>1, ClassicFields DEF Field
  <2>2. Buttons[k] # "pad"
    <3>1. k \in {1, 2, 3, 4, 5, 6, 7, 8, 9, 10, 11, 12, 13}
      OBVIOUS
    <3> QED BY <3>1 DEF Buttons
  <2> QED BY <2>1, <2>2 DEF Names
<1> QED BY <1>2, <1>3

LEMMA BleNames ==
  ASSUME firmware = "ble"
  PROVE  \A k \in 1..9 : ButtonBits[k] \in Names
<1>1. Struct = GamepadReport
  BY DEF Struct
<1> TAKE k \in 1..9
<1>2. k \in 1..Len(Struct) /\ Struct[k].name = ButtonBits[k]
  BY <1>1, BleFields DEF Field
<1>3. ButtonBits[k] # "pad"
  <2>1. k \in {1, 2, 3, 4, 5, 6, 7, 8, 9}
    OBVIOUS
  <2> QED BY <2>1 DEF ButtonBits
<1> QED BY <1>2, <1>3 DEF Names

(* The named members of either struct lie exactly where its descriptor     *)
(* says: every usage has a member at its bits and of its width, and the    *)
(* struct ends where the description ends. What the classic message has    *)
(* too much is therefore transmit_report's doing alone (hid_stuff.h:40-176, *)
(* hid.cpp:14-56, hid.hpp:23-29, bt_init.cpp:32).                          *)
THEOREM StructsAsDescribed ==
  ASSUME firmware \in {"classic", "ble"}
  PROVE  /\ 8 * Sizeof(Struct) = DescribedBits
         /\ \A i \in 1..Len(Descriptor) : \A k \in 1..Len(Descriptor[i].usages) :
              \E f \in 1..Len(Struct) :
                 /\ Struct[f].name # "pad" /\ Struct[f].bits = Descriptor[i].size
                 /\ Starts(Struct)[f] =
                       ItemStarts(Descriptor)[i] + (k - 1) * Descriptor[i].size
<1> DEFINE LiesAt(i, k, f) ==
              /\ Struct[f].name # "pad" /\ Struct[f].bits = Descriptor[i].size
              /\ Starts(Struct)[f] =
                    ItemStarts(Descriptor)[i] + (k - 1) * Descriptor[i].size
<1>1. CASE firmware = "classic"
  <2>1. Struct = packed_report_t /\ Descriptor = hid_descriptor
    BY <1>1 DEF Struct, Descriptor
  <2>2. Len(Struct) = 22 /\ Len(Descriptor) = 8
    BY <2>1, ClassicFields, ClassicItems
  <2>3. 8 * Sizeof(Struct) = DescribedBits
    <3>1. Starts(Struct)[22] = 68 /\ Struct[22].bits = 4
      BY <2>1, ClassicStarts, ClassicFields DEF Field
    <3>2. ItemStarts(Descriptor)[8 + 1] = 72
      BY <2>1, ClassicItems
    <3>3. Sizeof(Struct) = (68 + 4 + 7) \div 8
      BY <2>2, <3>1 DEF Sizeof
    <3> QED BY <2>2, <3>2, <3>3 DEF DescribedBits
  <2>4. \A f \in 1..6 : /\ Struct[f].name # "pad" /\ Struct[f].bits = 8
                        /\ Starts(Struct)[f] = 8 * (f - 1)
    <3>1. \A f \in 1..6 : Axes[f] # "pad"
      BY <1>1, ClassicNames DEF Names
    <3> QED BY <2>1, <3>1, ClassicFields, ClassicStarts DEF Field
  <2>5. \A j \in 1..13 : /\ Struct[6 + j].name # "pad" /\ Struct[6 + j].bits = 1
                         /\ Starts(Struct)[6 + j] = 47 + j
    <3>1. \A j \in 1..13 : Buttons[j] # "pad"
      BY <1>1, ClassicNames DEF Names
    <3> QED BY <2>1, <3>1, ClassicFields, ClassicStarts DEF Field
  <2>6. /\ Struct[21].name # "pad" /\ Struct[21].bits = 4
        /\ Starts(Struct)[21] = 64
    BY <2>1, ClassicFields, ClassicStarts DEF Field
  <2>7. /\ Descriptor[1].size = 8 /\ Descriptor[2].size = 8
        /\ Descriptor[3].size = 8 /\ Descriptor[4].size = 8
        /\ Descriptor[5].size = 1 /\ Descriptor[7].size = 4
        /\ Len(Descriptor[1].usages) = 2 /\ Len(Descriptor[2].usages) = 2
        /\ Len(Descriptor[3].usages) = 1 /\ Len(Descriptor[4].usages) = 1
        /\ Len(Descriptor[5].usages) = 13 /\ Len(Descriptor[6].usages) = 0
        /\ Len(Descriptor[7].usages) = 1 /\ Len(Descriptor[8].usages) = 0
    BY <2>1 DEF hid_descriptor, Item, HID_BUTTON_USAGES
  <2>8. /\ ItemStarts(Descriptor)[1] = 0 /\ ItemStarts(Descriptor)[2] = 16
        /\ ItemStarts(Descriptor)[3] = 32 /\ ItemStarts(Descriptor)[4] = 40
        /\ ItemStarts(Descriptor)[5] = 48 /\ ItemStarts(Descriptor)[7] = 64
    BY <2>1, ClassicItems
  <2>9. ASSUME NEW i \in 1..8, NEW k \in 1..Len(Descriptor[i].usages)
        PROVE  \E f \in 1..22 : LiesAt(i, k, f)
    <3>1. CASE i = 1
      <4>1. Len(Descriptor[i].usages) = 2 /\ Descriptor[i].size = 8
        BY <2>7, <3>1
      <4>2. k \in 1..2
        BY <4>1
      <4>3. ItemStarts(Descriptor)[i] = 0
        BY <2>8, <3>1
      <4> DEFINE f == k
      <4>4. f \in 1..22 /\ f - 0 = k
        BY <4>2
      <4>5. /\ Struct[f].name # "pad" /\ Struct[f].bits = 8
            /\ Starts(Struct)[f] = 0 + (k - 1) * 8
        BY <2>4, <4>2
      <4> HIDE DEF f
      <4>6. LiesAt(i, k, f)
        BY <4>1, <4>3, <4>5
      <4> QED BY <4>4, <4>6
    <3>2. CASE i = 2
      <4>1. Len(Descriptor[i].usages) = 2 /\ Descriptor[i].size = 8
        BY <2>7, <3>2
      <4>2. k \in 1..2
        BY <4>1
      <4>3. ItemStarts(Descriptor)[i] = 16
        BY <2>8, <3>2
      <4> DEFINE f == k + 2
      <4>4. f \in 1..22 /\ f - 2 = k
        BY <4>2
      <4>5. /\ Struct[f].name # "pad" /\ Struct[f].bits = 8
            /\ Starts(Struct)[f] = 16 + (k - 1) * 8
        BY <2>4, <4>2
      <4> HIDE DEF f
      <4>6. LiesAt(i, k, f)
        BY <4>1, <4>3, <4>5
      <4> QED BY <4>4, <4>6
    <3>3. CASE i = 3
      <4>1. Len(Descriptor[i].usages) = 1 /\ Descriptor[i].size = 8
        BY <2>7, <3>3
      <4>2. k \in 1..1
        BY <4>1
      <4>3. ItemStarts(Descriptor)[i] = 32
        BY <2>8, <3>3
      <4>4. k = 1
        BY <4>2
      <4>5. LiesAt(i, k, 5)
        BY <4>1, <4>3, <4>4, <2>4
      <4> QED BY <4>5
    <3>4. CASE i = 4
      <4>1. Len(Descriptor[i].usages) = 1 /\ Descriptor[i].size = 8
        BY <2>7, <3>4
      <4>2. k \in 1..1
        BY <4>1
      <4>3. ItemStarts(Descriptor)[i] = 40
        BY <2>8, <3>4
      <4>4. k = 1
        BY <4>2
      <4>5. LiesAt(i, k, 6)
        BY <4>1, <4>3, <4>4, <2>4
      <4> QED BY <4>5
    <3>5. CASE i = 5
      <4>1. Len(Descriptor[i].usages) = 13 /\ Descriptor[i].size = 1
        BY <2>7, <3>5
      <4>2. k \in 1..13
        BY <4>1
      <4>3. ItemStarts(Descriptor)[i] = 48
        BY <2>8, <3>5
      <4> DEFINE f == 6 + k
      <4>4. f \in 1..22 /\ f - 6 = k
        BY <4>2
      <4>5. /\ Struct[f].name # "pad" /\ Struct[f].bits = 1
            /\ Starts(Struct)[f] = 48 + (k - 1) * 1
        <5>1. /\ Struct[6 + k].name # "pad" /\ Struct[6 + k].bits = 1
              /\ Starts(Struct)[6 + k] = 47 + k
          BY <2>5, <4>2
        <5>2. 47 + k = 48 + (k - 1) * 1
          BY <4>2
        <5> QED BY <5>1, <5>2
      <4> HIDE DEF f
      <4>6. LiesAt(i, k, f)
        BY <4>1, <4>3, <4>5
      <4> QED BY <4>4, <4>6
    <3>6. CASE i = 7
      <4>1. Len(Descriptor[i].usages) = 1 /\ Descriptor[i].size = 4
        BY <2>7, <3>6
      <4>2. k \in 1..1
        BY <4>1
      <4>3. ItemStarts(Descriptor)[i] = 64
        BY <2>8, <3>6
      <4>4. k = 1
        BY <4>2
      <4>5. LiesAt(i, k, 21)
        BY <4>1, <4>3, <4>4, <2>6
      <4> QED BY <4>5
    <3>7. CASE i \in {6, 8}
      <4>1. Len(Descriptor[i].usages) = 0
        BY <2>7, <3>7
      <4>2. k \in 1..0
        BY <4>1
      <4> QED BY <4>2
    <3> QED BY <3>1, <3>2, <3>3, <3>4, <3>5, <3>6, <3>7
  <2> QED BY <2>2, <2>3, <2>9
<1>2. CASE firmware = "ble"
  <2>1. Struct = GamepadReport /\ Descriptor = gamepad_hid_report_descriptor
    BY <1>2 DEF Struct, Descriptor
  <2>2. Len(Struct) = 12 /\ Len(Descriptor) = 4
    BY <2>1, BleFields, BleItems
  <2>3. 8 * Sizeof(Struct) = DescribedBits
    <3>1. Starts(Struct)[12] = 20 /\ Struct[12].bits = 4
      BY <2>1, BleStarts, BleFields DEF Field
    <3>2. ItemStarts(Descriptor)[4 + 1] = 24
      BY <2>1, BleItems
    <3>3. Sizeof(Struct) = (20 + 4 + 7) \div 8
      BY <2>2, <3>1 DEF Sizeof
    <3> QED BY <2>2, <3>2, <3>3 DEF DescribedBits
  <2>4. \A f \in 1..9 : /\ Struct[f].name # "pad" /\ Struct[f].bits = 1
                        /\ Starts(Struct)[f] = f - 1
    <3>1. \A f \in 1..9 : ButtonBits[f] # "pad"
      BY <1>2, BleNames DEF Names
    <3> QED BY <2>1, <3>1, BleFields, BleStarts DEF Field
  <2>5. /\ Struct[11].name # "pad" /\ Struct[11].bits = 4
        /\ Starts(Struct)[11] = 16
    BY <2>1, BleFields, BleStarts DEF Field
  <2>6. /\ Descriptor[1].size = 1 /\ Descriptor[3].size = 4
        /\ Len(Descriptor[1].usages) = 9 /\ Len(Descriptor[2].usages) = 0
        /\ Len(Descriptor[3].usages) = 1 /\ Len(Descriptor[4].usages) = 0
    BY <2>1 DEF gamepad_hid_report_descriptor, Item
  <2>7. ItemStarts(Descriptor)[1] = 0 /\ ItemStarts(Descriptor)[3] = 16
    BY <2>1, BleItems
  <2>8. ASSUME NEW i \in 1..4, NEW k \in 1..Len(Descriptor[i].usages)
        PROVE  \E f \in 1..12 : LiesAt(i, k, f)
    <3>1. CASE i = 1
      <4>1. Len(Descriptor[i].usages) = 9 /\ Descriptor[i].size = 1
        BY <2>6, <3>1
      <4>2. k \in 1..9
        BY <4>1
      <4>3. ItemStarts(Descriptor)[i] = 0
        BY <2>7, <3>1
      <4> DEFINE f == k
      <4>4. f \in 1..12 /\ f - 0 = k
        BY <4>2
      <4>5. /\ Struct[f].name # "pad" /\ Struct[f].bits = 1
            /\ Starts(Struct)[f] = 0 + (k - 1) * 1
        BY <2>4, <4>2
      <4> HIDE DEF f
      <4>6. LiesAt(i, k, f)
        BY <4>1, <4>3, <4>5
      <4> QED BY <4>4, <4>6
    <3>2. CASE i = 3
      <4>1. Len(Descriptor[i].usages) = 1 /\ Descriptor[i].size = 4
        BY <2>6, <3>2
      <4>2. k \in 1..1
        BY <4>1
      <4>3. ItemStarts(Descriptor)[i] = 16
        BY <2>7, <3>2
      <4>4. k = 1
        BY <4>2
      <4>5. LiesAt(i, k, 11)
        BY <4>1, <4>3, <4>4, <2>5
      <4> QED BY <4>5
    <3>3. CASE i \in {2, 4}
      <4>1. Len(Descriptor[i].usages) = 0
        BY <2>6, <3>3
      <4>2. k \in 1..0
        BY <4>1
      <4> QED BY <4>2
    <3> QED BY <3>1, <3>2, <3>3
  <2> QED BY <2>2, <2>3, <2>8
<1> QED BY <1>1, <1>2

(* The wiring of the BLE firmware, written out.                            *)
LEMMA BleMapping ==
  button_gpios = { <<1, "0">>, <<2, "1">>, <<3, "2">>, <<4, "3">>, <<10, "4">>,
                   <<11, "5">>, <<12, "6">>, <<13, "7">>, <<14, "8">> }
<1> DEFINE pins == <<1, 2, 3, 4, 10, 11, 12, 13, 14>>
<1>1. button_gpios = {<<pins[i], ButtonBits[i]>> : i \in 1..9}
  BY DEF button_gpios
<1>2. 1..9 = {1, 2, 3, 4, 5, 6, 7, 8, 9}
  OBVIOUS
<1>3. /\ ButtonBits[1] = "0" /\ ButtonBits[2] = "1" /\ ButtonBits[3] = "2"
      /\ ButtonBits[4] = "3" /\ ButtonBits[5] = "4" /\ ButtonBits[6] = "5"
      /\ ButtonBits[7] = "6" /\ ButtonBits[8] = "7" /\ ButtonBits[9] = "8"
  BY DEF ButtonBits
<1>4. /\ pins[1] = 1 /\ pins[2] = 2 /\ pins[3] = 3 /\ pins[4] = 4 /\ pins[5] = 10
      /\ pins[6] = 11 /\ pins[7] = 12 /\ pins[8] = 13 /\ pins[9] = 14
  OBVIOUS
<1> HIDE DEF pins
<1> QED BY <1>1, <1>2, <1>3, <1>4

(* No two buttons share a pin or a member of the report.                   *)
LEMMA WiredOneToOne ==
  ASSUME firmware \in {"classic", "ble"}
  PROVE  /\ \A m \in Mapping : m[1] \in Pins /\ m[2] \in Names
         /\ \A m, n \in Mapping : m[1] = n[1] \/ m[2] = n[2] => m = n
         /\ \A m \in Mapping : m = <<m[1], m[2]>>
<1>1. CASE firmware = "classic"
  <2>1. Mapping = pin_mappings
    BY <1>1 DEF Mapping
  <2>2. \A m \in pin_mappings : m = <<m[1], m[2]>>
    BY DEF pin_mappings
  <2>3. \A m, n \in pin_mappings : m[1] = n[1] \/ m[2] = n[2] => m = n
    BY DEF pin_mappings
  <2>4. \A m \in pin_mappings : \E k \in 1..13 : m[2] = Buttons[k]
    BY DEF pin_mappings, Buttons
  <2> QED BY <1>1, <2>1, <2>2, <2>3, <2>4, ClassicNames DEF Pins
<1>2. CASE firmware = "ble"
  <2>1. Mapping = button_gpios
    BY <1>2 DEF Mapping
  <2>2. \A m \in button_gpios : m = <<m[1], m[2]>>
    BY BleMapping
  <2>3. \A m, n \in button_gpios : m[1] = n[1] \/ m[2] = n[2] => m = n
    BY BleMapping
  <2>4. \A m \in button_gpios : \E k \in 1..9 : m[2] = ButtonBits[k]
    BY DEF button_gpios
  <2> QED BY <1>2, <2>1, <2>2, <2>3, <2>4, BleNames DEF Pins
<1> QED BY <1>1, <1>2

(* A pin moves the usage the descriptor gives the member it is wired to.   *)
LEMMA ClassicWiring ==
  ASSUME firmware = "classic", NEW m \in Mapping
  PROVE  /\ \A k \in 1..13 : Moves(m[1], HID_BUTTON_USAGES[k]) <=> m[2] = Buttons[k]
         /\ \A u \in {"X axis", "Y axis", "Rx", "Ry", "Z axis", "Rz"} : ~Moves(m[1], u)
         /\ \A k \in 1..6 : m[2] # Axes[k]
<1> DEFINE Is(n, u) == m[2] = n /\ \A v : Moves(m[1], v) <=> v = u
<1>1. m \in pin_mappings
  BY DEF Mapping
<1>2. \/ Is("b0", "A") \/ Is("b1", "B") \/ Is("b2", "Y") \/ Is("b3", "X")
      \/ Is("b4", "TL") \/ Is("b17", "C") \/ Is("b18", "Z")
      \/ Is("b8", "SELECT") \/ Is("b9", "START")
  <2>1. \/ m = <<14, "b0">> \/ m = <<13, "b1">>
        \/ m = <<12, "b2">> \/ m = <<11, "b3">>
        \/ m = <<10, "b4">> \/ m = <<3, "b17">>
        \/ m = <<4, "b18">> \/ m = <<1, "b8">>
        \/ m = <<2, "b9">>
    BY <1>1 DEF pin_mappings
  <2> QED BY <2>1, ClassicUsages
<1>3. ASSUME NEW k \in 1..13
      PROVE  Moves(m[1], HID_BUTTON_USAGES[k]) <=> m[2] = Buttons[k]
  <2>1. k \in {1, 2, 3, 4, 5, 6, 7, 8, 9, 10, 11, 12, 13}
    OBVIOUS
  <2> QED BY <1>2, <2>1 DEF HID_BUTTON_USAGES, Buttons
<1>4. ASSUME NEW k \in 1..6 PROVE m[2] # Axes[k]
  <2>1. k \in {1, 2, 3, 4, 5, 6}
    OBVIOUS
  <2> QED BY <1>2, <2>1 DEF Axes
<1> QED BY <1>2, <1>3, <1>4

BleUsageNames == <<"Button1", "Button2", "Button3", "Button4", "Button5",
                   "Button6", "Button7", "Button8", "Button9">>

LEMMA BleWiring ==
  ASSUME firmware = "ble", NEW m \in Mapping
  PROVE  \A k \in 1..9 : Moves(m[1], BleUsageNames[k]) <=> m[2] = ButtonBits[k]
<1> DEFINE Is(n, u) == m[2] = n /\ \A v : Moves(m[1], v) <=> v = u
<1>1. m \in button_gpios
  BY DEF Mapping
<1>2. \/ Is("0", "Button1") \/ Is("1", "Button2") \/ Is("2", "Button3")
      \/ Is("3", "Button4") \/ Is("4", "Button5") \/ Is("5", "Button6")
      \/ Is("6", "Button7") \/ Is("7", "Button8") \/ Is("8", "Button9")
  <2>1. \/ m = <<1, "0">> \/ m = <<2, "1">>
        \/ m = <<3, "2">> \/ m = <<4, "3">>
        \/ m = <<10, "4">> \/ m = <<11, "5">>
        \/ m = <<12, "6">> \/ m = <<13, "7">>
        \/ m = <<14, "8">>
    BY <1>1, BleMapping
  <2> QED BY <2>1, BleUsages
<1> TAKE k \in 1..9
<1>3. k \in {1, 2, 3, 4, 5, 6, 7, 8, 9}
  OBVIOUS
<1> QED BY <1>2, <1>3 DEF BleUsageNames, ButtonBits

-----------------------------------------------------------------------------
(* The programs                                                            *)

LEMMA StructIsPacked ==
  ASSUME firmware \in {"classic", "ble"}
  PROVE  IsBitFields(Struct) /\ Len(Struct) \in Nat \ {0}
<1>1. CASE firmware = "classic"
  <2>1. Struct = packed_report_t
    BY <1>1 DEF Struct
  <2>2. IsBitFields(packed_report_t) /\ Len(packed_report_t) = 22
    BY ClassicFields
  <2> QED BY <2>1, <2>2
<1>2. CASE firmware = "ble"
  <2>1. Struct = GamepadReport
    BY <1>2 DEF Struct
  <2>2. IsBitFields(GamepadReport) /\ Len(GamepadReport) = 12
    BY BleFields
  <2> QED BY <2>1, <2>2
<1> QED BY <1>1, <1>2

(* A report in which nothing is set has no bits.                           *)
LEMMA NothingSet ==
  ASSUME NEW fields, IsBitFields(fields), NEW r,
         \A i \in 1..Len(fields) : fields[i].name # "pad" => r[fields[i].name] = 0
  PROVE  Payload(fields, r) = {}
<1> DEFINE at == Starts(fields)
           shown == {n \in 1..Len(fields) : fields[n].name # "pad"}
           set(n) == {k \in 0..(fields[n].bits - 1) :
                         (r[fields[n].name] \div 2^k) % 2 = 1}
<1>1. Payload(fields, r) = UNION {{at[n] + k : k \in set(n)} : n \in shown}
  BY DEF Payload
<1>2. \A n \in shown : set(n) = {}
  <2> SUFFICES ASSUME NEW n \in shown, NEW k \in set(n) PROVE FALSE
    OBVIOUS
  <2>1. r[fields[n].name] = 0 /\ k \in 0..8
    <3>1. n \in 1..Len(fields) /\ fields[n].name # "pad"
      OBVIOUS
    <3>2. fields[n].bits \in 1..8
      BY <3>1 DEF IsBitFields
    <3>3. k \in 0..(fields[n].bits - 1)
      OBVIOUS
    <3>4. k \in 0..8
      BY <3>2, <3>3
    <3> QED BY <3>1, <3>4
  <2>2. (0 \div 2^k) % 2 = 1
    BY <2>1
  <2>3. 0 \div 2^k = 0
    BY <2>1, PowerOfTwo
  <2> QED BY <2>2, <2>3
<1> HIDE DEF at, set
<1> QED BY <1>1, <1>2

\* The report holds what the player holds, and the last message is that report.
HeldIsReported ==
    /\ firmware \in {"classic", "ble"}
    /\ held \subseteq Pins
    /\ report \in [Names -> {0, 1}]
    /\ \A n \in Names :
          report[n] = 1 <=> \E m \in Mapping : m[2] = n /\ m[1] \in held
    /\ message.payload = Payload(Struct, report)

LEMMA Invariant == Spec => []HeldIsReported
<1>1. Init => HeldIsReported
  <2> SUFFICES ASSUME Init PROVE HeldIsReported
    OBVIOUS
  <2>1. report \in [Names -> {0, 1}] /\ \A n \in Names : report[n] = 0
    BY DEF Init
  <2>2. Payload(Struct, report) = {}
    <3>1. \A i \in 1..Len(Struct) : Struct[i].name # "pad" => Struct[i].name \in Names
      BY DEF Names
    <3>2. IsBitFields(Struct)
      BY StructIsPacked DEF Init
    <3> QED BY <2>1, <3>1, <3>2, NothingSet
  <2> QED BY <2>1, <2>2 DEF Init, HeldIsReported
<1>2. HeldIsReported /\ [Next]_vars => HeldIsReported'
  <2> SUFFICES ASSUME HeldIsReported, [Next]_vars PROVE HeldIsReported'
    OBVIOUS
  <2>1. ASSUME NEW m \in Mapping, ButtonChanges(m) PROVE HeldIsReported'
    <3>1. firmware' = firmware
      BY <2>1 DEF ButtonChanges
    <3>2. /\ Struct' = Struct /\ Names' = Names /\ Mapping' = Mapping
          /\ Pins' = Pins
      BY <3>1 DEF Struct, Names, Mapping, Pins
    <3>3. held' = IF m[1] \in held THEN held \ {m[1]} ELSE held \cup {m[1]}
      BY <2>1 DEF ButtonChanges
    <3>4. report' = [report EXCEPT ![m[2]] = IF m[1] \in held' THEN 1 ELSE 0]
      BY <2>1 DEF ButtonChanges
    <3>5. /\ m[1] \in Pins /\ m[2] \in Names
          /\ \A n \in Mapping : m[1] = n[1] \/ m[2] = n[2] => m = n
      BY <2>1, WiredOneToOne DEF HeldIsReported
    <3>6. held' \subseteq Pins
      BY <3>3, <3>5 DEF HeldIsReported
    <3>7. report' \in [Names -> {0, 1}]
      BY <3>4, <3>5 DEF HeldIsReported
    <3>8. ASSUME NEW n \in Names
          PROVE  report'[n] = 1 <=> \E k \in Mapping : k[2] = n /\ k[1] \in held'
      <4>1. CASE n = m[2]
        <5>1. report'[n] = IF m[1] \in held' THEN 1 ELSE 0
          BY <3>4, <3>5, <4>1 DEF HeldIsReported
        <5>2. \A k \in Mapping : k[2] = n <=> k = m
          BY <2>1, <3>5, <4>1
        <5> QED BY <2>1, <5>1, <5>2
      <4>2. CASE n # m[2]
        <5>1. report'[n] = report[n]
          BY <3>4, <4>2 DEF HeldIsReported
        <5>2. \A k \in Mapping : k[2] = n => (k[1] \in held' <=> k[1] \in held)
          BY <3>3, <3>5, <4>2
        <5> QED BY <5>1, <5>2 DEF HeldIsReported
      <4> QED BY <4>1, <4>2
    <3>9. message'.payload = Payload(Struct, report')
      BY <2>1 DEF ButtonChanges, Transmit
    <3> QED BY <3>1, <3>2, <3>6, <3>7, <3>8, <3>9 DEF HeldIsReported
  <2>2. CASE UNCHANGED vars
    BY <2>2 DEF vars, HeldIsReported, Struct, Names, Mapping, Pins
  <2> QED BY <2>1, <2>2 DEF Next
<1> QED BY <1>1, <1>2, PTL DEF Spec

(* Every variable keeps its type; no message has a bit outside its struct. *)
THEOREM TypeCorrect == Spec => []TypeOK
<1>1. HeldIsReported => TypeOK
  <2> SUFFICES ASSUME HeldIsReported PROVE TypeOK
    OBVIOUS
  <2>1. message.payload \subseteq 0..(8 * Sizeof(Struct) - 1)
    BY StructIsPacked, PayloadFits DEF HeldIsReported
  <2> QED BY <2>1 DEF HeldIsReported, TypeOK
<1> QED BY <1>1, Invariant, PTL

(* A usage that the descriptor puts where the struct puts a member reads as *)
(* that member.                                                            *)
LEMMA ReadsMember ==
  ASSUME HeldIsReported, NEW f \in 1..Len(Struct), Struct[f].name # "pad",
         NEW i, NEW k, Struct[f].bits = Descriptor[i].size,
         Starts(Struct)[f] = ItemStarts(Descriptor)[i] + (k - 1) * Descriptor[i].size
  PROVE  Read(i, k) = report[Struct[f].name]
<1> DEFINE v == report[Struct[f].name]
<1>1. IsBitFields(Struct) /\ Struct[f].bits \in 1..8
  BY StructIsPacked DEF HeldIsReported, IsBitFields
<1>2. v \in {0, 1}
  BY DEF HeldIsReported, Names
<1>3. v \in Nat /\ v < 2^Struct[f].bits
  <2> DEFINE b == Struct[f].bits
  <2>1. b \in 0..8 /\ b # 0
    BY <1>1
  <2> HIDE DEF b, v
  <2>2. 2^b \in Nat /\ 2^b >= 2
    BY <2>1, PowerOfTwo
  <2>3. v < 2^b
    BY <1>2, <2>2
  <2> QED BY <1>2, <2>3 DEF b
<1>4. Number(Payload(Struct, report), Starts(Struct)[f], Struct[f].bits) = v
  BY <1>1, <1>3, FieldsAreRead
<1> HIDE DEF v
<1>5. Read(i, k) = v
  BY <1>4 DEF Read, HeldIsReported
<1> QED BY <1>5 DEF v

LEMMA ClassicReads ==
  ASSUME HeldIsReported, firmware = "classic"
  PROVE  HostReadsWhatIsHeld
<1>1. Struct = packed_report_t /\ Descriptor = hid_descriptor
  BY DEF Struct, Descriptor
<1>2. \A p \in held : \E m \in Mapping : m[1] = p
  BY DEF HeldIsReported, Pins
<1>3. ASSUME NEW f \in 1..6, NEW i, NEW k,
             Descriptor[i].size = 8,
             ItemStarts(Descriptor)[i] + (k - 1) * 8 = 8 * (f - 1)
      PROVE  Read(i, k) = 0
  <2>1. /\ f \in 1..Len(Struct) /\ Struct[f].name = Axes[f] /\ Struct[f].bits = 8
        /\ Starts(Struct)[f] = 8 * (f - 1)
    BY <1>1, ClassicFields, ClassicStarts DEF Field
  <2>2. Axes[f] \in Names
    BY ClassicNames
  <2>3. Axes[f] # "pad"
    BY <2>2 DEF Names
  <2>4. Read(i, k) = report[Axes[f]]
    BY <1>3, <2>1, <2>3, ReadsMember
  <2>5. report[Axes[f]] # 1
    <3>1. \A m \in Mapping : m[2] # Axes[f]
      BY ClassicWiring
    <3>2. report[Axes[f]] = 1 <=> \E m \in Mapping : m[2] = Axes[f] /\ m[1] \in held
      BY <2>2 DEF HeldIsReported
    <3> QED BY <3>1, <3>2
  <2>6. report[Axes[f]] \in {0, 1}
    BY <2>2 DEF HeldIsReported
  <2> QED BY <2>4, <2>5, <2>6
<1>4. ASSUME NEW k \in 1..13
      PROVE  Read(5, k) =
                IF \E p \in held : Moves(p, HID_BUTTON_USAGES[k]) THEN 1 ELSE 0
  <2>1. /\ 6 + k \in 1..Len(Struct) /\ Struct[6 + k].name = Buttons[k]
        /\ Struct[6 + k].bits = 1 /\ Starts(Struct)[6 + k] = 47 + k
    BY <1>1, ClassicFields, ClassicStarts DEF Field
  <2>2. Descriptor[5].size = 1 /\ ItemStarts(Descriptor)[5] = 48
    BY <1>1, ClassicItems DEF hid_descriptor, Item
  <2>3. Buttons[k] \in Names
    BY ClassicNames
  <2>4. Buttons[k] # "pad"
    BY <2>3 DEF Names
  <2>5. Starts(Struct)[6 + k] = ItemStarts(Descriptor)[5] + (k - 1) * Descriptor[5].size
    <3>1. 48 + (k - 1) * 1 = 47 + k
      OBVIOUS
    <3> QED BY <2>1, <2>2, <3>1
  <2>6. Read(5, k) = report[Buttons[k]]
    <3> DEFINE f == 6 + k
    <3>1. /\ f \in 1..Len(Struct) /\ Struct[f].name = Buttons[k]
          /\ Struct[f].bits = Descriptor[5].size
          /\ Starts(Struct)[f] = ItemStarts(Descriptor)[5] + (k - 1) * Descriptor[5].size
      BY <2>1, <2>2, <2>5
    <3> HIDE DEF f
    <3> QED BY <2>4, <3>1, ReadsMember
  <2>7. report[Buttons[k]] = 1 <=> \E m \in Mapping : m[2] = Buttons[k] /\ m[1] \in held
    BY <2>3 DEF HeldIsReported
  <2>8. report[Buttons[k]] = 1 <=> \E p \in held : Moves(p, HID_BUTTON_USAGES[k])
    <3>1. \A m \in Mapping : Moves(m[1], HID_BUTTON_USAGES[k]) <=> m[2] = Buttons[k]
      BY ClassicWiring
    <3>2. ASSUME NEW p \in held, Moves(p, HID_BUTTON_USAGES[k])
          PROVE  \E m \in Mapping : m[2] = Buttons[k] /\ m[1] \in held
      <4>1. PICK m \in Mapping : m[1] = p
        BY <1>2
      <4>2. Moves(m[1], HID_BUTTON_USAGES[k])
        BY <3>2, <4>1
      <4> QED BY <3>1, <4>1, <4>2
    <3>3. ASSUME NEW m \in Mapping, m[2] = Buttons[k], m[1] \in held
          PROVE  \E p \in held : Moves(p, HID_BUTTON_USAGES[k])
      <4>1. Moves(m[1], HID_BUTTON_USAGES[k])
        BY <3>1, <3>3
      <4> QED BY <3>3, <4>1
    <3> QED BY <2>7, <3>2, <3>3
  <2>9. report[Buttons[k]] \in {0, 1}
    BY <2>3 DEF HeldIsReported
  <2> QED BY <2>6, <2>8, <2>9
<1>5. ASSUME NEW u \in {"X axis", "Y axis", "Rx", "Ry", "Z axis", "Rz"}
      PROVE  ~ \E p \in held : Moves(p, u)
  <2>1. \A m \in Mapping : ~Moves(m[1], u)
    BY <1>5, ClassicWiring
  <2> SUFFICES ASSUME NEW p \in held, Moves(p, u) PROVE FALSE
    OBVIOUS
  <2>2. PICK m \in Mapping : m[1] = p
    BY <1>2
  <2> QED BY <2>1, <2>2
<1> SUFFICES ASSUME NEW i \in 1..Len(Descriptor),
                    NEW k \in 1..Len(Descriptor[i].usages),
                    Descriptor[i].usages[k] # "Hat"
             PROVE  Read(i, k) =
                       IF \E p \in held : Moves(p, Descriptor[i].usages[k])
                       THEN 1 ELSE 0
  BY DEF HostReadsWhatIsHeld
<1>6. Len(Descriptor) = 8
  BY <1>1, ClassicItems
<1>7. /\ Descriptor[1].size = 8 /\ Descriptor[2].size = 8
      /\ Descriptor[3].size = 8 /\ Descriptor[4].size = 8
      /\ Descriptor[5].usages = HID_BUTTON_USAGES
  BY <1>1 DEF hid_descriptor, Item
<1>a. /\ Len(Descriptor[1].usages) = 2 /\ Len(Descriptor[2].usages) = 2
      /\ Len(Descriptor[3].usages) = 1 /\ Len(Descriptor[4].usages) = 1
      /\ Len(Descriptor[6].usages) = 0 /\ Len(Descriptor[7].usages) = 1
      /\ Len(Descriptor[8].usages) = 0
  BY <1>1 DEF hid_descriptor, Item
<1>b. /\ Descriptor[1].usages[1] = "X axis" /\ Descriptor[1].usages[2] = "Y axis"
      /\ Descriptor[2].usages[1] = "Rx" /\ Descriptor[2].usages[2] = "Ry"
      /\ Descriptor[3].usages[1] = "Z axis" /\ Descriptor[4].usages[1] = "Rz"
      /\ Descriptor[7].usages[1] = "Hat"
  BY <1>1 DEF hid_descriptor, Item
<1>8. /\ ItemStarts(Descriptor)[1] = 0 /\ ItemStarts(Descriptor)[2] = 16
      /\ ItemStarts(Descriptor)[3] = 32 /\ ItemStarts(Descriptor)[4] = 40
  BY <1>1, ClassicItems
<1>9. CASE i \in {1, 2, 3, 4}
  <2> DEFINE axes == {"X axis", "Y axis", "Rx", "Ry", "Z axis", "Rz"}
  <2>1. CASE i = 1
    <3>1. k \in {1, 2}
      BY <1>a, <2>1
    <3>2. Descriptor[i].usages[k] \in axes
      BY <1>b, <2>1, <3>1
    <3>3. k \in 1..6 /\ 0 + (k - 1) * 8 = 8 * (k - 1)
      BY <3>1
    <3>4. Read(i, k) = 0
      BY <1>3, <1>7, <1>8, <2>1, <3>3
    <3> QED BY <1>5, <3>2, <3>4
  <2>2. CASE i = 2
    <3>1. k \in {1, 2}
      BY <1>a, <2>2
    <3>2. Descriptor[i].usages[k] \in axes
      BY <1>b, <2>2, <3>1
    <3>3. k + 2 \in 1..6 /\ 16 + (k - 1) * 8 = 8 * ((k + 2) - 1)
      BY <3>1
    <3>4. Read(i, k) = 0
      BY <1>3, <1>7, <1>8, <2>2, <3>3
    <3> QED BY <1>5, <3>2, <3>4
  <2>3. CASE i = 3
    <3>1. k = 1
      BY <1>a, <2>3
    <3>2. Descriptor[i].usages[k] \in axes
      BY <1>b, <2>3, <3>1
    <3>3. 5 \in 1..6 /\ 32 + (k - 1) * 8 = 8 * (5 - 1)
      BY <3>1
    <3>4. Read(i, k) = 0
      BY <1>3, <1>7, <1>8, <2>3, <3>3
    <3> QED BY <1>5, <3>2, <3>4
  <2>4. CASE i = 4
    <3>1. k = 1
      BY <1>a, <2>4
    <3>2. Descriptor[i].usages[k] \in axes
      BY <1>b, <2>4, <3>1
    <3>3. 6 \in 1..6 /\ 40 + (k - 1) * 8 = 8 * (6 - 1)
      BY <3>1
    <3>4. Read(i, k) = 0
      BY <1>3, <1>7, <1>8, <2>4, <3>3
    <3> QED BY <1>5, <3>2, <3>4
  <2> QED BY <1>9, <2>1, <2>2, <2>3, <2>4
<1>10. CASE i = 5
  <2>1. k \in 1..13 /\ Descriptor[i].usages[k] = HID_BUTTON_USAGES[k]
    BY <1>7, <1>10 DEF HID_BUTTON_USAGES
  <2> QED BY <1>4, <1>10, <2>1
<1>11. CASE i \in {6, 7, 8}
  <2>1. i = 7 /\ k = 1
    BY <1>a, <1>11
  <2> QED BY <1>b, <2>1
<1> QED BY <1>6, <1>9, <1>10, <1>11

LEMMA BleReads ==
  ASSUME HeldIsReported, firmware = "ble"
  PROVE  HostReadsWhatIsHeld
<1>1. Struct = GamepadReport /\ Descriptor = gamepad_hid_report_descriptor
  BY DEF Struct, Descriptor
<1>2. \A p \in held : \E m \in Mapping : m[1] = p
  BY DEF HeldIsReported, Pins
<1>3. ASSUME NEW k \in 1..9
      PROVE  Read(1, k) =
                IF \E p \in held : Moves(p, BleUsageNames[k]) THEN 1 ELSE 0
  <2>1. /\ k \in 1..Len(Struct) /\ Struct[k].name = ButtonBits[k]
        /\ Struct[k].bits = 1 /\ Starts(Struct)[k] = k - 1
    BY <1>1, BleFields, BleStarts DEF Field
  <2>2. Descriptor[1].size = 1 /\ ItemStarts(Descriptor)[1] = 0
    BY <1>1, BleItems DEF gamepad_hid_report_descriptor, Item
  <2>3. ButtonBits[k] \in Names
    BY BleNames
  <2>4. ButtonBits[k] # "pad"
    BY <2>3 DEF Names
  <2>5. 0 + (k - 1) * 1 = k - 1
    OBVIOUS
  <2>6. Read(1, k) = report[ButtonBits[k]]
    BY <2>1, <2>2, <2>4, <2>5, ReadsMember
  <2>7. report[ButtonBits[k]] = 1
           <=> \E m \in Mapping : m[2] = ButtonBits[k] /\ m[1] \in held
    BY <2>3 DEF HeldIsReported
  <2>8. report[ButtonBits[k]] = 1 <=> \E p \in held : Moves(p, BleUsageNames[k])
    BY <1>2, <2>7, BleWiring
  <2>9. report[ButtonBits[k]] \in {0, 1}
    BY <2>3 DEF HeldIsReported
  <2> QED BY <2>6, <2>8, <2>9
<1> SUFFICES ASSUME NEW i \in 1..Len(Descriptor),
                    NEW k \in 1..Len(Descriptor[i].usages),
                    Descriptor[i].usages[k] # "Hat"
             PROVE  Read(i, k) =
                       IF \E p \in held : Moves(p, Descriptor[i].usages[k])
                       THEN 1 ELSE 0
  BY DEF HostReadsWhatIsHeld
<1>4. Len(Descriptor) = 4
  BY <1>1, BleItems
<1>5. /\ Descriptor[1].usages = BleUsageNames /\ Descriptor[2].usages = <<>>
      /\ Descriptor[3].usages = <<"Hat">> /\ Descriptor[4].usages = <<>>
  BY <1>1 DEF gamepad_hid_report_descriptor, Item, BleUsageNames
<1>6. CASE i = 1
  <2>1. k \in 1..9 /\ Descriptor[i].usages[k] = BleUsageNames[k]
    BY <1>5, <1>6 DEF BleUsageNames
  <2> QED BY <1>3, <1>6, <2>1
<1>7. CASE i \in {2, 3, 4}
  BY <1>5, <1>7
<1> QED BY <1>4, <1>6, <1>7

(* Whatever is held, a host reads each wired control under its usage and   *)
(* nothing else (hid_stuff.h:30-176, main.cpp:164-174, hid.cpp).           *)
THEOREM HostReadsHand == Spec => []HostReadsWhatIsHeld
<1>1. HeldIsReported => HostReadsWhatIsHeld
  BY ClassicReads, BleReads DEF HeldIsReported
<1> QED BY <1>1, Invariant, PTL
=============================================================================
