---------------------------- MODULE FramingProofs ----------------------------
(***************************************************************************)
(* Proofs about Framing, for messages, names and identifiers of any length *)
(* and however the stream is cut: decoding inverts encoding, a frame ends  *)
(* where it should, and encoder and decoder keep the promise of            *)
(* MessageChannel, as far as it is about safety.                           *)
(***************************************************************************)
EXTENDS Framing, FiniteSetTheorems, SequenceTheorems, WellFoundedInduction, TLAPS

(* Induction, in the form of the least element of a set of numbers: the    *)
(* provers cannot instantiate the theorems that take an operator.          *)
LEMMA NatMin ==
  ASSUME NEW T \in SUBSET Nat, T # {}
  PROVE  \E m \in T : \A k \in T : m <= k
<1>1. PICK m \in T : \A k \in T : <<k, m>> \notin OpToRel(<, Nat)
  BY WFMin, NatLessThanWellFounded, Zenon
<1>2. \A k \in T : ~(k < m)
  BY <1>1 DEF OpToRel
<1> QED
  BY <1>2

(* A set of numbers that has 0 and with each its successor has them all.   *)
LEMMA SetInduction ==
  ASSUME NEW T \in SUBSET Nat, 0 \in T, \A n \in Nat : n \in T => n + 1 \in T
  PROVE  T = Nat
<1> SUFFICES ASSUME Nat \ T # {} PROVE FALSE
  OBVIOUS
<1>1. PICK m \in Nat \ T : \A k \in Nat \ T : m <= k
  BY NatMin
<1>2. m # 0 /\ m - 1 \in Nat
  BY <1>1
<1>3. m - 1 \in T
  BY <1>1, <1>2
<1> QED
  BY <1>2, <1>3

(* A function that begins with a value and continues in steps.             *)
Continues(f, S, n, base, step) ==
    f \in [0..n -> S] /\ f[0] = base /\ \A i \in 1..n : f[i] = step[i][f[i - 1]]

(* There is one for each beginning and steps.                              *)
LEMMA Recursion ==
  ASSUME NEW S, NEW n \in Nat, NEW base \in S, NEW step \in [1..n -> [S -> S]]
  PROVE  \E f : Continues(f, S, n, base, step)
<1> DEFINE Upto(k) == \E f \in [0..k -> S] :
                         f[0] = base /\ \A i \in 1..k : f[i] = step[i][f[i - 1]]
           T == {k \in Nat : k <= n => Upto(k)}
<1>1. 0 \in T
  <2> DEFINE f == [i \in 0..0 |-> base]
  <2>1. f \in [0..0 -> S] /\ f[0] = base
    OBVIOUS
  <2>2. \A i \in 1..0 : f[i] = step[i][f[i - 1]]
    OBVIOUS
  <2> HIDE DEF f
  <2>3. Upto(0)
    BY <2>1, <2>2
  <2> QED BY <2>3
<1>2. ASSUME NEW k \in Nat, k \in T PROVE k + 1 \in T
  <2> HIDE DEF Upto
  <2> SUFFICES ASSUME k + 1 <= n PROVE Upto(k + 1)
    OBVIOUS
  <2>1. Upto(k)
    BY <1>2
  <2> USE DEF Upto
  <2>2. PICK f \in [0..k -> S] : f[0] = base /\ \A i \in 1..k : f[i] = step[i][f[i - 1]]
    BY <2>1
  <2> DEFINE g == [i \in 0..(k + 1) |-> IF i = k + 1 THEN step[k + 1][f[k]] ELSE f[i]]
  <2>3. k + 1 \in 1..n /\ k \in 0..k /\ \A i \in 0..(k + 1) : i # k + 1 => i \in 0..k
    OBVIOUS
  <2>4. step[k + 1][f[k]] \in S
    BY <2>3
  <2>5. g \in [0..(k + 1) -> S]
    BY <2>3, <2>4
  <2>6. /\ g[k + 1] = step[k + 1][f[k]] /\ \A i \in 0..k : g[i] = f[i]
    BY <2>3
  <2> HIDE DEF g
  <2>7. g[0] = base
    BY <2>2, <2>6
  <2>8. \A i \in 1..(k + 1) : g[i] = step[i][g[i - 1]]
    <3> SUFFICES ASSUME NEW i \in 1..(k + 1) PROVE g[i] = step[i][g[i - 1]]
      OBVIOUS
    <3>1. i - 1 \in 0..k /\ g[i - 1] = f[i - 1]
      BY <2>6
    <3>2. CASE i = k + 1
      <4>1. i - 1 = k
        BY <3>2
      <4> QED BY <2>6, <3>1, <3>2, <4>1
    <3>3. CASE i # k + 1
      <4>1. i \in 1..k /\ i \in 0..k
        BY <3>3
      <4> QED BY <2>2, <2>6, <3>1, <4>1
    <3> QED BY <3>2, <3>3
  <2> QED BY <2>5, <2>7, <2>8
<1>3. T = Nat
  <2> HIDE DEF T
  <2>1. T \in SUBSET Nat
    BY DEF T
  <2> QED BY ONLY <1>1, <1>2, <2>1, SetInduction
<1>4. Upto(n)
  <2> HIDE DEF Upto
  <2> QED BY <1>3
<1> QED BY <1>4 DEF Continues

----------------------------------------------------------------------------
(* Counting.                                                               *)

(* How a count grows with its bound.                                       *)
LEMMA UpToStep ==
  ASSUME NEW S \in SUBSET (Nat \ {0})
  PROVE  /\ UpTo(S, 0) = 0
         /\ \A n \in Nat : UpTo(S, n) \in Nat /\ UpTo(S, n) <= n
         /\ \A n \in Nat : UpTo(S, n + 1) = IF n + 1 \in S THEN UpTo(S, n) + 1 ELSE UpTo(S, n)
         /\ \A m, n \in Nat : m <= n => UpTo(S, m) <= UpTo(S, n)
         /\ \A n \in Nat : S \subseteq 1..n => UpTo(S, n) = Cardinality(S) /\ IsFiniteSet(S)
<1> DEFINE Low(n) == {j \in S : j <= n}
<1>0. \A j \in S : j \in Nat /\ j > 0
  OBVIOUS
<1>1. \A n \in Nat : /\ IsFiniteSet(Low(n)) /\ Cardinality(Low(n)) \in Nat
                     /\ Cardinality(Low(n)) <= n
  <2> SUFFICES ASSUME NEW n \in Nat
               PROVE  /\ IsFiniteSet(Low(n)) /\ Cardinality(Low(n)) \in Nat
                      /\ Cardinality(Low(n)) <= n
    OBVIOUS
  <2>1. \A j \in S : j <= n => j \in 1..n
    BY <1>0
  <2>3. Low(n) \in SUBSET (1..n)
    BY ONLY <2>1
  <2>2. IsFiniteSet(1..n) /\ Cardinality(1..n) = n
    BY FS_Interval
  <2> HIDE DEF Low
  <2> QED BY <2>3, <2>2, FS_Subset, FS_CardinalityType
<1>2. Low(0) = {}
  <2>1. \A j \in S : ~(j <= 0)
    BY <1>0
  <2> QED BY ONLY <2>1
<1>3. ASSUME NEW n \in Nat, n + 1 \in S
      PROVE  Low(n + 1) = Low(n) \cup {n + 1} /\ n + 1 \notin Low(n)
  <2>1. \A j \in S : j <= n + 1 <=> j <= n \/ j = n + 1
    BY <1>0
  <2>2. ~(n + 1 <= n)
    OBVIOUS
  <2> QED BY ONLY <1>3, <2>1, <2>2
<1>4. ASSUME NEW n \in Nat, n + 1 \notin S PROVE Low(n + 1) = Low(n)
  <2>1. \A j \in S : j <= n + 1 <=> j <= n
    BY <1>0, <1>4
  <2> QED BY <2>1
<1>5. ASSUME NEW m \in Nat, NEW n \in Nat, m <= n PROVE Low(m) \in SUBSET Low(n)
  <2>1. \A j \in S : j <= m => j <= n
    BY <1>0, <1>5
  <2> QED BY <2>1
<1>6. ASSUME NEW n \in Nat, S \subseteq 1..n PROVE Low(n) = S
  <2>1. \A j \in S : j <= n
    BY <1>6
  <2> QED BY <2>1
<1>7. \A n : UpTo(S, n) = Cardinality(Low(n))
  BY DEF UpTo
<1> HIDE DEF Low
<1>8. ASSUME NEW n \in Nat, n + 1 \in S
      PROVE  Cardinality(Low(n + 1)) = Cardinality(Low(n)) + 1
  BY <1>1, <1>3, <1>8, FS_AddElement
<1>9. ASSUME NEW m \in Nat, NEW n \in Nat, m <= n
      PROVE  Cardinality(Low(m)) <= Cardinality(Low(n))
  BY <1>1, <1>5, <1>9, FS_Subset
<1>10. UpTo(S, 0) = 0
  BY <1>2, <1>7, FS_EmptySet
<1>11. \A n \in Nat : UpTo(S, n + 1) = IF n + 1 \in S THEN UpTo(S, n) + 1 ELSE UpTo(S, n)
  BY <1>4, <1>7, <1>8
<1>12. \A n \in Nat : UpTo(S, n) \in Nat /\ UpTo(S, n) <= n
  BY <1>1, <1>7
<1>13. \A m, n \in Nat : m <= n => UpTo(S, m) <= UpTo(S, n)
  BY <1>7, <1>9
<1>14. \A n \in Nat : S \subseteq 1..n => UpTo(S, n) = Cardinality(S) /\ IsFiniteSet(S)
  BY <1>1, <1>6, <1>7
<1> QED BY <1>10, <1>11, <1>12, <1>13, <1>14

(* bin_process_one() is its own inverse, so that decoding restores what    *)
(* encoding has changed.                                                   *)
THEOREM ProcessOneInverts ==
  ASSUME NEW byte \in Byte
  PROVE  ProcessOne(byte) \in Byte /\ ProcessOne(ProcessOne(byte)) = byte
  BY DEF ProcessOne, Byte

----------------------------------------------------------------------------
(* Escaping.                                                               *)

(* The bytes of a text that are escaped, where the code of byte i ends in  *)
(* the escaped text, and where the escape symbols are.                     *)
Special(text) == {i \in DOMAIN text : text[i] \in {ESC, END}}
Ends(text, i) == i + UpTo(Special(text), i)
Inserted(text) == {i + UpTo(Special(text), i) - 1 : i \in Special(text)}

(* The code of a byte is one or two bytes long, and follows the last one.  *)
LEMMA EndsStep ==
  ASSUME NEW text \in Seq(Byte)
  PROVE  /\ Special(text) \subseteq 1..Len(text) /\ Len(text) \in Nat
         /\ Ends(text, 0) = 0
         /\ \A i \in 0..Len(text) : Ends(text, i) \in Nat /\ Ends(text, i) >= i
         /\ \A i \in 1..Len(text) :
               Ends(text, i) = Ends(text, i - 1) + (IF i \in Special(text) THEN 2 ELSE 1)
         /\ \A i, j \in 0..Len(text) : i < j => Ends(text, i) < Ends(text, j)
<1> DEFINE S == Special(text)
<1>1. S \subseteq 1..Len(text) /\ Len(text) \in Nat
  BY LenProperties DEF Special
<1> HIDE DEF S
<1>2. S \in SUBSET (Nat \ {0})
  BY <1>1
<1>3. \A i : Ends(text, i) = i + UpTo(S, i)
  BY DEF Ends, S
<1>4. Ends(text, 0) = 0
  BY <1>2, <1>3, UpToStep
<1>5. /\ \A i \in Nat : UpTo(S, i) \in Nat
      /\ \A i \in Nat : UpTo(S, i + 1) = IF i + 1 \in S THEN UpTo(S, i) + 1 ELSE UpTo(S, i)
      /\ \A i, j \in Nat : i <= j => UpTo(S, i) <= UpTo(S, j)
  BY <1>2, UpToStep
<1>6. ASSUME NEW i \in 0..Len(text) PROVE Ends(text, i) \in Nat /\ Ends(text, i) >= i
  <2>1. i \in Nat
    OBVIOUS
  <2>2. UpTo(S, i) \in Nat
    BY <1>5, <2>1
  <2> QED BY <1>3, <2>1, <2>2
<1>7. ASSUME NEW i \in 1..Len(text)
      PROVE  Ends(text, i) = Ends(text, i - 1) + (IF i \in S THEN 2 ELSE 1)
  <2>1. i - 1 \in Nat /\ (i - 1) + 1 = i /\ i \in Int
    OBVIOUS
  <2>2. UpTo(S, i) = IF i \in S THEN UpTo(S, i - 1) + 1 ELSE UpTo(S, i - 1)
    BY <1>5, <2>1
  <2>3. UpTo(S, i - 1) \in Nat
    BY ONLY <1>5, <2>1
  <2>4. Ends(text, i) = i + UpTo(S, i) /\ Ends(text, i - 1) = (i - 1) + UpTo(S, i - 1)
    BY <1>3
  <2> QED BY <2>2, <2>3, <2>4
<1>8. ASSUME NEW i \in 0..Len(text), NEW j \in 0..Len(text), i < j
      PROVE  Ends(text, i) < Ends(text, j)
  <2>1. i \in Nat /\ j \in Nat /\ i <= j
    BY <1>8
  <2>2. UpTo(S, i) <= UpTo(S, j) /\ UpTo(S, i) \in Nat /\ UpTo(S, j) \in Nat
    BY <1>5, <2>1
  <2> QED BY <1>3, <1>8, <2>1, <2>2
<1> QED BY <1>1, <1>4, <1>6, <1>7, <1>8 DEF S

(* Every place of the escaped text is that of a byte or of the escape      *)
(* symbol in front of one.                                                 *)
LEMMA Covered ==
  ASSUME NEW text \in Seq(Byte), NEW k \in 1..Ends(text, Len(text))
  PROVE  \E i \in 1..Len(text) : \/ k = Ends(text, i)
                                 \/ i \in Special(text) /\ k = Ends(text, i) - 1
<1> DEFINE n == Len(text)
           T == {i \in Nat : i <= n /\ k <= Ends(text, i)}
<1>1. n \in Nat /\ n \in T /\ T \in SUBSET Nat
  BY EndsStep
<1>2. PICK i \in T : \A j \in T : i <= j
  <2> HIDE DEF T
  <2> QED BY <1>1, NatMin
<1>3. i # 0 /\ i \in 1..n /\ i - 1 \in 0..n /\ i - 1 \in Nat
  BY <1>1, <1>2, EndsStep
<1>4. i - 1 \notin T
  BY <1>2, <1>3
<1>5. ~(k <= Ends(text, i - 1)) /\ k <= Ends(text, i)
  BY <1>1, <1>2, <1>3, <1>4
<1>6. Ends(text, i) = Ends(text, i - 1) + (IF i \in Special(text) THEN 2 ELSE 1)
  BY <1>3, EndsStep
<1>7. Ends(text, i - 1) \in Nat
  BY <1>3, EndsStep
<1> QED BY <1>3, <1>5, <1>6, <1>7

(* The escape symbols up to the code of a byte are those of its byte and   *)
(* of the earlier ones.                                                    *)
LEMMA InsertedCount ==
  ASSUME NEW text \in Seq(Byte)
  PROVE  /\ Inserted(text) \in SUBSET (Nat \ {0})
         /\ \A k : k \in Inserted(text) <=> \E i \in Special(text) : k = Ends(text, i) - 1
         /\ \A i \in 0..Len(text) :
               /\ Ends(text, i) \notin Inserted(text)
               /\ UpTo(Inserted(text), Ends(text, i)) = UpTo(Special(text), i)
               /\ Ends(text, i) - UpTo(Inserted(text), Ends(text, i)) = i
<1> DEFINE n == Len(text)
           J == Inserted(text)
           S == Special(text)
           T == {i \in Nat : i <= n => UpTo(J, Ends(text, i)) = UpTo(S, i)}
<1>1. \A k : k \in J <=> \E i \in S : k = Ends(text, i) - 1
  <2>1. S \subseteq 1..n /\ n \in Nat
    BY EndsStep
  <2>2. \A i \in S : i + (UpTo(S, i) - 1) = Ends(text, i) - 1
    <3> HIDE DEF S
    <3>1. S \in SUBSET (Nat \ {0})
      BY <2>1
    <3>2. \A i \in S : i \in Nat /\ UpTo(S, i) \in Nat
      BY <3>1, UpToStep
    <3> QED BY <3>2 DEF Ends, S
  <2>3. J = {Ends(text, i) - 1 : i \in S}
    <3>1. J = {i + (UpTo(S, i) - 1) : i \in S}
      BY DEF Inserted
    <3> HIDE DEF J, S
    <3> QED BY ONLY <2>2, <3>1
  <2> HIDE DEF J, S
  <2> QED BY ONLY <2>3
<1> HIDE DEF J, S
<1>2. /\ S \subseteq 1..n /\ n \in Nat /\ Ends(text, 0) = 0
      /\ \A i \in 0..n : Ends(text, i) \in Nat
      /\ \A i \in 1..n : Ends(text, i) = Ends(text, i - 1) + (IF i \in S THEN 2 ELSE 1)
      /\ \A i, j \in 0..n : i < j => Ends(text, i) < Ends(text, j)
  BY EndsStep DEF S
<1>3. ASSUME NEW i \in S PROVE Ends(text, i) - 1 \in Nat \ {0}
  <2>1. i \in 1..n /\ i - 1 \in 0..n
    BY <1>2
  <2> QED BY <1>2, <2>1
<1>4. J \in SUBSET (Nat \ {0})
  BY <1>1, <1>3
<1>5. ASSUME NEW i \in 0..n PROVE Ends(text, i) \notin J
  <2> SUFFICES ASSUME NEW j \in S, Ends(text, i) = Ends(text, j) - 1 PROVE FALSE
    BY <1>1
  <2>1. j \in 1..n /\ j - 1 \in 0..n /\ j \in 0..n
    BY <1>2
  <2>2. Ends(text, j) = Ends(text, j - 1) + 2
    BY <1>2, <2>1
  <2>3. CASE i < j
    <3>1. i = j - 1 \/ i < j - 1
      BY <2>1, <2>3
    <3>2. Ends(text, i) = Ends(text, j - 1) \/ Ends(text, i) < Ends(text, j - 1)
      BY <1>2, <2>1, <3>1
    <3> QED BY <1>2, <2>1, <2>2, <3>2
  <2>4. CASE ~(i < j)
    <3>1. i = j \/ j < i
      BY <2>1, <2>4
    <3>2. Ends(text, i) = Ends(text, j) \/ Ends(text, j) < Ends(text, i)
      BY <1>2, <2>1, <3>1
    <3> QED BY <1>2, <2>1, <3>2
  <2> QED BY <2>3, <2>4
<1>6. T = Nat
  <2>1. 0 \in T
    <3>1. UpTo(J, 0) = 0
      BY <1>4, UpToStep
    <3>2. UpTo(S, 0) = 0
      <4>1. S \in SUBSET (Nat \ {0})
        BY <1>2
      <4> QED BY <4>1, UpToStep
    <3> QED BY <1>2, <3>1, <3>2
  <2>2. ASSUME NEW i \in Nat, i \in T PROVE i + 1 \in T
    <3> SUFFICES ASSUME i + 1 <= n PROVE UpTo(J, Ends(text, i + 1)) = UpTo(S, i + 1)
      OBVIOUS
    <3>1. /\ i \in 0..n /\ i + 1 \in 1..n /\ i + 1 \in 0..n /\ (i + 1) - 1 = i
      BY <1>2
    <3>2. UpTo(J, Ends(text, i)) = UpTo(S, i)
      BY <2>2, <3>1
    <3>3. UpTo(S, i + 1) = IF i + 1 \in S THEN UpTo(S, i) + 1 ELSE UpTo(S, i)
      <4>1. S \in SUBSET (Nat \ {0})
        BY <1>2
      <4> QED BY <4>1, UpToStep
    <3>4. PICK e \in Nat : e = Ends(text, i)
      BY <1>2, <3>1
    <3>5. Ends(text, i + 1) = e + (IF i + 1 \in S THEN 2 ELSE 1)
      BY <1>2, <3>1, <3>4
    <3>6. Ends(text, i + 1) \notin J
      BY <1>5, <3>1
    <3>7. \A m \in Nat : UpTo(J, m + 1) = IF m + 1 \in J THEN UpTo(J, m) + 1 ELSE UpTo(J, m)
      BY <1>4, UpToStep
    <3>8. CASE i + 1 \in S
      <4>1. Ends(text, i + 1) = (e + 1) + 1 /\ Ends(text, i + 1) - 1 = e + 1
        BY <3>4, <3>5, <3>8
      <4>2. e + 1 \in J
        BY <1>1, <3>8, <4>1
      <4>3. UpTo(J, e + 1) = UpTo(J, e) + 1
        BY <3>4, <3>7, <4>2
      <4>4. UpTo(J, (e + 1) + 1) = UpTo(J, e + 1)
        <5>1. e + 1 \in Nat /\ (e + 1) + 1 \notin J
          BY <3>4, <3>6, <4>1
        <5> QED BY <3>7, <5>1
      <4> QED BY <3>2, <3>3, <3>4, <3>8, <4>1, <4>3, <4>4
    <3>9. CASE i + 1 \notin S
      <4>1. Ends(text, i + 1) = e + 1
        BY <3>4, <3>5, <3>9
      <4>2. UpTo(J, e + 1) = UpTo(J, e)
        BY <3>4, <3>6, <3>7, <4>1
      <4> QED BY <3>2, <3>3, <3>4, <3>9, <4>1, <4>2
    <3> QED BY <3>8, <3>9
  <2> HIDE DEF T
  <2>3. T \in SUBSET Nat
    BY DEF T
  <2> QED BY ONLY <2>1, <2>2, <2>3, SetInduction
<1>7. ASSUME NEW i \in 0..n
      PROVE  UpTo(J, Ends(text, i)) = UpTo(S, i) /\ Ends(text, i) - UpTo(J, Ends(text, i)) = i
  <2>1. i \in Nat /\ i <= n
    BY <1>2
  <2>2. UpTo(J, Ends(text, i)) = UpTo(S, i)
    BY <1>6, <2>1
  <2>3. UpTo(S, i) \in Nat
    <3>1. S \in SUBSET (Nat \ {0})
      BY <1>2
    <3> QED BY <2>1, <3>1, UpToStep
  <2> QED BY <2>1, <2>2, <2>3 DEF Ends, S
<1> QED BY <1>1, <1>4, <1>5, <1>7 DEF J, S

(* What the escaped text holds.                                            *)
LEMMA EscapeForm ==
  ASSUME NEW text \in Seq(Byte)
  PROVE  /\ Escape(text) \in Seq(Byte) /\ Len(Escape(text)) = Ends(text, Len(text))
         /\ \A i \in 1..Len(text) :
               /\ Ends(text, i) \in 1..Len(Escape(text))
               /\ Escape(text)[Ends(text, i)] =
                     IF i \in Special(text) THEN ProcessOne(text[i]) ELSE text[i]
               /\ i \in Special(text) => /\ Ends(text, i) - 1 \in 1..Len(Escape(text))
                                         /\ Escape(text)[Ends(text, i) - 1] = ESC
<1> DEFINE n == Len(text)
           J == Inserted(text)
           S == Special(text)
           Coded(byte) == IF byte \in {ESC, END} THEN ProcessOne(byte) ELSE byte
           e == [k \in 1..Ends(text, n) |->
                    IF k \in J THEN ESC ELSE Coded(text[k - UpTo(J, k)])]
<1>1. S \subseteq 1..n /\ n \in Nat /\ \A i \in 1..n : text[i] \in Byte
  BY EndsStep
<1>2. n + Cardinality(S) = Ends(text, n)
  <2> HIDE DEF S
  <2>1. S \in SUBSET (Nat \ {0})
    BY <1>1
  <2>2. UpTo(S, n) = Cardinality(S)
    BY <1>1, <2>1, UpToStep
  <2> QED BY <2>2 DEF Ends, S
<1>3. Escape(text) = e
  BY <1>2 DEF Escape, Inserted, Special
<1>4. ESC \in Byte /\ \A byte \in Byte : Coded(byte) \in Byte
  BY DEF Byte, ESC, ProcessOne
<1>5. ASSUME NEW i \in 1..n
      PROVE  /\ Ends(text, i) \in 1..Ends(text, n)
             /\ Ends(text, i) - UpTo(J, Ends(text, i)) = i /\ Ends(text, i) \notin J
             /\ i \in S => Ends(text, i) - 1 \in 1..Ends(text, n) /\ Ends(text, i) - 1 \in J
  <2>1. Ends(text, i) \in Nat /\ Ends(text, i) >= i /\ Ends(text, n) \in Nat
    BY <1>1, EndsStep
  <2>2. i = n \/ Ends(text, i) < Ends(text, n)
    <3>1. i \in 0..n /\ n \in 0..n /\ (i = n \/ i < n)
      BY <1>1
    <3> QED BY <3>1, EndsStep
  <2>3. i \in S => Ends(text, i) = Ends(text, i - 1) + 2 /\ Ends(text, i - 1) \in Nat
    <3>1. i - 1 \in 0..n
      BY <1>1
    <3> QED BY <3>1, EndsStep
  <2>4. i \in 0..n
    OBVIOUS
  <2>5. /\ Ends(text, i) - UpTo(J, Ends(text, i)) = i /\ Ends(text, i) \notin J
        /\ i \in S => Ends(text, i) - 1 \in J
    BY <2>4, InsertedCount
  <2> HIDE DEF J, S
  <2> QED BY <1>1, <2>1, <2>2, <2>3, <2>5
<1>6. ASSUME NEW k \in 1..Ends(text, n), k \notin J
      PROVE  k - UpTo(J, k) \in 1..n
  <2>1. PICK i \in 1..n : k = Ends(text, i) \/ (i \in S /\ k = Ends(text, i) - 1)
    BY Covered
  <2>2. k = Ends(text, i)
    BY <1>5, <1>6, <2>1
  <2> QED BY <1>5, <2>2
<1>7. Ends(text, n) \in Nat
  BY <1>1, EndsStep
<1>8. e \in [1..Ends(text, n) -> Byte]
  <2> HIDE DEF J, Coded
  <2> QED BY <1>1, <1>4, <1>6
<1>9. e \in Seq(Byte) /\ Len(e) = Ends(text, n)
  <2> HIDE DEF e
  <2> QED BY <1>7, <1>8
<1>10. ASSUME NEW i \in 1..n
       PROVE  /\ e[Ends(text, i)] = IF i \in S THEN ProcessOne(text[i]) ELSE text[i]
              /\ i \in S => e[Ends(text, i) - 1] = ESC
  <2>1. i \in S <=> text[i] \in {ESC, END}
    BY <1>1 DEF Special
  <2>2. Coded(text[i]) = IF i \in S THEN ProcessOne(text[i]) ELSE text[i]
    BY <2>1
  <2> HIDE DEF J, S, Coded
  <2>3. e[Ends(text, i)] = Coded(text[i])
    BY <1>5
  <2>4. i \in S => e[Ends(text, i) - 1] = ESC
    BY <1>5
  <2> QED BY ONLY <2>2, <2>3, <2>4
<1> HIDE DEF e, S
<1> QED BY <1>3, <1>5, <1>9, <1>10 DEF S

(* What the recursion of IsEscape says of each byte.                       *)
LEMMA EscapeUnfold ==
  ASSUME NEW B, NEW frame \in Seq(B)
  PROVE  /\ IsEscape(frame) \in [0..Len(frame) -> BOOLEAN]
         /\ ~IsEscape(frame)[0]
         /\ \A i \in 1..Len(frame) :
               IsEscape(frame)[i] <=> frame[i] = ESC /\ ~IsEscape(frame)[i - 1]
<1> DEFINE n == Len(frame)
           step == [i \in 1..n |-> [b \in BOOLEAN |-> frame[i] = ESC /\ ~b]]
           Is(f) == f = [i \in 0..n |-> i > 0 /\ frame[i] = ESC /\ ~f[i - 1]]
<1>1. n \in Nat
  OBVIOUS
<1>2. step \in [1..n -> [BOOLEAN -> BOOLEAN]]
  OBVIOUS
<1>3. PICK f \in [0..n -> BOOLEAN] : f[0] = FALSE /\ \A i \in 1..n : f[i] = step[i][f[i - 1]]
  <2> HIDE DEF step, n
  <2>1. \E f : Continues(f, BOOLEAN, n, FALSE, step)
    BY <1>1, <1>2, Recursion
  <2> QED BY <2>1 DEF Continues
<1>4. \A i \in 0..n : f[i] = (i > 0 /\ frame[i] = ESC /\ ~f[i - 1])
  <2> SUFFICES ASSUME NEW i \in 0..n PROVE f[i] = (i > 0 /\ frame[i] = ESC /\ ~f[i - 1])
    OBVIOUS
  <2>1. CASE i = 0
    BY <1>3, <2>1
  <2>2. CASE i # 0
    <3>1. i \in 1..n /\ i - 1 \in 0..n /\ i > 0
      BY <1>1, <2>2
    <3>2. f[i - 1] \in BOOLEAN /\ f[i] = step[i][f[i - 1]]
      BY <1>3, <3>1
    <3> QED BY <3>1, <3>2
  <2> QED BY <2>1, <2>2
<1>5. Is(f)
  BY <1>3, <1>4
<1>6. Is(IsEscape(frame))
  <2>1. IsEscape(frame) = CHOOSE g : Is(g)
    BY DEF IsEscape
  <2> HIDE DEF Is
  <2> QED BY <1>5, <2>1
<1>7. /\ IsEscape(frame) \in [0..n -> BOOLEAN]
      /\ \A i \in 0..n : IsEscape(frame)[i] = (i > 0 /\ frame[i] = ESC /\ ~IsEscape(frame)[i - 1])
  BY <1>6
<1>8. ~IsEscape(frame)[0]
  BY <1>1, <1>7
<1>9. \A i \in 1..n : i \in 0..n /\ i > 0
  OBVIOUS
<1> QED BY <1>7, <1>8, <1>9

(* binary_decode() takes away exactly what binary_encode() has inserted.   *)
LEMMA EscapesFound ==
  ASSUME NEW text \in Seq(Byte)
  PROVE  /\ {k \in DOMAIN Escape(text) : IsEscape(Escape(text))[k]} = Inserted(text)
         /\ Unescapable(Escape(text))
<1> DEFINE e == Escape(text)
           n == Len(text)
           S == Special(text)
           T == {i \in Nat : i <= n => ~IsEscape(e)[Ends(text, i)]}
<1>1. /\ n \in Nat /\ S \subseteq 1..n /\ Ends(text, 0) = 0
      /\ \A i \in 0..n : Ends(text, i) \in Nat
      /\ \A i \in 1..n : Ends(text, i) = Ends(text, i - 1) + (IF i \in S THEN 2 ELSE 1)
  BY EndsStep
<1>2. /\ e \in Seq(Byte) /\ Len(e) = Ends(text, n) /\ DOMAIN e = 1..Len(e)
      /\ \A i \in 1..n :
            /\ Ends(text, i) \in 1..Len(e)
            /\ e[Ends(text, i)] = IF i \in S THEN ProcessOne(text[i]) ELSE text[i]
            /\ i \in S => Ends(text, i) - 1 \in 1..Len(e) /\ e[Ends(text, i) - 1] = ESC
  BY EscapeForm, LenProperties
<1>3. \A i \in 1..n : i \notin S => text[i] # ESC
  BY DEF Special
<1> HIDE DEF e, S
<1>4. /\ ~IsEscape(e)[0]
      /\ \A k \in 1..Len(e) : IsEscape(e)[k] <=> e[k] = ESC /\ ~IsEscape(e)[k - 1]
  BY <1>2, EscapeUnfold
<1>5. ASSUME NEW i \in 0..(n - 1), ~IsEscape(e)[Ends(text, i)]
      PROVE  /\ ~IsEscape(e)[Ends(text, i + 1)]
             /\ i + 1 \in S => IsEscape(e)[Ends(text, i + 1) - 1]
  <2>1. /\ i + 1 \in 1..n /\ (i + 1) - 1 = i /\ i \in 0..n /\ Ends(text, i) \in Nat
        /\ i + 1 \in 0..n
    BY <1>1
  <2>2. CASE i + 1 \in S
    <3>1. Ends(text, i + 1) = Ends(text, i) + 2
      BY <1>1, <2>1, <2>2
    <3>2. Ends(text, i + 1) - 1 = Ends(text, i) + 1 /\ (Ends(text, i + 1) - 1) - 1 = Ends(text, i)
      BY <2>1, <3>1
    <3>3. IsEscape(e)[Ends(text, i + 1) - 1]
      BY <1>2, <1>4, <1>5, <2>1, <2>2, <3>2
    <3>4. ~IsEscape(e)[Ends(text, i + 1)]
      BY <1>2, <1>4, <2>1, <3>3
    <3> QED BY <3>3, <3>4
  <2>3. CASE i + 1 \notin S
    <3>1. e[Ends(text, i + 1)] # ESC /\ Ends(text, i + 1) \in 1..Len(e)
      BY <1>2, <1>3, <2>1, <2>3
    <3> QED BY <1>4, <2>3, <3>1
  <2> QED BY <2>2, <2>3
<1>6. T = Nat
  <2>1. 0 \in T
    BY <1>1, <1>4
  <2>2. ASSUME NEW i \in Nat, i \in T PROVE i + 1 \in T
    <3> SUFFICES ASSUME i + 1 <= n PROVE ~IsEscape(e)[Ends(text, i + 1)]
      OBVIOUS
    <3>1. i \in 0..(n - 1) /\ i <= n
      BY <1>1
    <3>2. ~IsEscape(e)[Ends(text, i)]
      BY <2>2, <3>1
    <3> QED BY <1>5, <3>1, <3>2
  <2> HIDE DEF T
  <2>3. T \in SUBSET Nat
    BY DEF T
  <2> QED BY ONLY <2>1, <2>2, <2>3, SetInduction
<1>7. ASSUME NEW i \in 0..n PROVE ~IsEscape(e)[Ends(text, i)]
  <2>1. i \in Nat /\ i <= n
    BY <1>1
  <2> QED BY <1>6, <2>1
<1>8. ASSUME NEW i \in S PROVE Ends(text, i) - 1 \in 1..Len(e) /\ IsEscape(e)[Ends(text, i) - 1]
  <2>1. i \in 1..n /\ i - 1 \in 0..(n - 1) /\ i - 1 \in 0..n /\ (i - 1) + 1 = i
    BY <1>1
  <2>2. IsEscape(e)[Ends(text, i) - 1]
    BY <1>5, <1>7, <2>1
  <2> QED BY <1>2, <2>1, <2>2
<1>9. ASSUME NEW k \in 1..Len(e), IsEscape(e)[k] PROVE k \in Inserted(text)
  <2>1. PICK i \in 1..n : k = Ends(text, i) \/ (i \in S /\ k = Ends(text, i) - 1)
    BY <1>2, Covered DEF S
  <2>2. i \in 0..n
    BY <1>1
  <2>3. i \in S /\ k = Ends(text, i) - 1
    BY <1>7, <1>9, <2>1, <2>2
  <2> QED BY <2>3, InsertedCount DEF S
<1>10. ASSUME NEW k \in Inserted(text) PROVE k \in 1..Len(e) /\ IsEscape(e)[k]
  <2>1. PICK i \in S : k = Ends(text, i) - 1
    BY InsertedCount DEF S
  <2> QED BY <1>8, <2>1
<1>11. {k \in DOMAIN e : IsEscape(e)[k]} = Inserted(text)
  BY <1>2, <1>9, <1>10
<1>12. Unescapable(e)
  <2>1. n \in 0..n
    BY <1>1
  <2> QED BY <1>2, <1>7, <2>1 DEF Unescapable
<1> QED BY <1>11, <1>12 DEF e

(* binary_decode() restores every text that binary_encode() was given.     *)
THEOREM EscapeInverts ==
  ASSUME NEW text \in Seq(Byte)
  PROVE  Unescapable(Escape(text)) /\ Unescape(Escape(text)) = text
<1> DEFINE e == Escape(text)
           n == Len(text)
           S == Special(text)
           J == Inserted(text)
           c == UpTo(S, n)
           At(i, k) == i \notin J /\ i - UpTo(J, i) = k
           Whence(k) == CHOOSE i \in k..(k + c) : At(i, k)
<1>1. /\ n \in Nat /\ S \subseteq 1..n /\ DOMAIN text = 1..n
      /\ \A k \in 1..n : text[k] \in Byte
      /\ \A i \in 0..n : Ends(text, i) \in Nat /\ Ends(text, i) >= i
      /\ \A i \in 1..n : Ends(text, i) = Ends(text, i - 1) + (IF i \in S THEN 2 ELSE 1)
  BY EndsStep, LenProperties
<1>2. /\ Len(e) = Ends(text, n)
      /\ \A i \in 1..n : /\ Ends(text, i) \in 1..Len(e)
                         /\ e[Ends(text, i)] = IF i \in S THEN ProcessOne(text[i]) ELSE text[i]
  BY EscapeForm
<1>3. /\ J \in SUBSET (Nat \ {0})
      /\ \A k : k \in J <=> \E i \in S : k = Ends(text, i) - 1
      /\ \A i \in 0..n : At(Ends(text, i), i)
      /\ UpTo(J, Ends(text, n)) = c
  <2>1. n \in 0..n
    BY <1>1
  <2> QED BY <2>1, InsertedCount
<1>4. c \in Nat /\ Ends(text, n) = n + c /\ \A i \in 1..n : UpTo(S, i) \in Nat /\ UpTo(S, i) <= c
  <2> HIDE DEF S
  <2>1. S \in SUBSET (Nat \ {0})
    BY <1>1
  <2>2. \A i \in 1..n : i \in Nat /\ i <= n
    OBVIOUS
  <2> QED BY <1>1, <2>1, <2>2, UpToStep DEF Ends, S
<1>5. \A k \in 1..n : Ends(text, k) = k + UpTo(S, k)
  BY DEF Ends
<1>6. {k \in DOMAIN e : IsEscape(e)[k]} = J
  BY EscapesFound
<1>7. Cardinality(J) = c
  <2> HIDE DEF J, c
  <2>1. J \subseteq 1..Ends(text, n)
    <3>1. DOMAIN e = 1..Ends(text, n)
      BY <1>2, EscapeForm, LenProperties
    <3> HIDE DEF e
    <3> QED BY <1>6, <3>1
  <2>2. Ends(text, n) \in Nat
    BY <1>1
  <2> QED BY <1>3, <2>1, <2>2, UpToStep
<1>8. Unescape(e) = [k \in 1..n |-> IF Whence(k) - 1 \in J THEN ProcessOne(e[Whence(k)])
                                    ELSE e[Whence(k)]]
  <2>1. Len(e) - c = n
    BY <1>1, <1>2, <1>4
  <2> DEFINE From(k, E, m) == CHOOSE i \in k..(k + m) : i \notin E /\ i - UpTo(E, i) = k
             Without(E, m) == [k \in 1..(Len(e) - m) |->
                                 IF From(k, E, m) - 1 \in E THEN ProcessOne(e[From(k, E, m)])
                                 ELSE e[From(k, E, m)]]
  <2> HIDE DEF e, J, S, c, n
  <2>2. Unescape(e) = Without({k \in DOMAIN e : IsEscape(e)[k]},
                              Cardinality({k \in DOMAIN e : IsEscape(e)[k]}))
    BY DEF Unescape
  <2>3. Unescape(e) = Without(J, c)
    <3> HIDE DEF Without
    <3> QED BY <1>6, <1>7, <2>2
  <2>4. Without(J, c) =
           [k \in 1..(Len(e) - c) |-> IF Whence(k) - 1 \in J THEN ProcessOne(e[Whence(k)])
                                      ELSE e[Whence(k)]]
    OBVIOUS
  <2> QED BY <2>1, <2>3, <2>4
<1> HIDE DEF e, J, S
<1>9. ASSUME NEW k \in 1..n PROVE Whence(k) = Ends(text, k)
  <2>1. Ends(text, k) \in k..(k + c) /\ At(Ends(text, k), k)
    <3>1. k \in 0..n
      BY <1>1
    <3> HIDE DEF c
    <3> QED BY <1>1, <1>3, <1>4, <1>5, <3>1
  <2>2. ASSUME NEW i \in k..(k + c), At(i, k) PROVE i = Ends(text, k)
    <3>1. i \in 1..Ends(text, n)
      <4> HIDE DEF c
      <4> QED BY <1>1, <1>4
    <3>2. PICK j \in 1..n : i = Ends(text, j) \/ (j \in S /\ i = Ends(text, j) - 1)
      BY <3>1, Covered DEF S
    <3>3. i = Ends(text, j)
      BY <1>3, <2>2, <3>2
    <3>4. j \in 0..n
      BY <1>1
    <3>5. i - UpTo(J, i) = j
      BY <1>3, <3>3, <3>4
    <3>6. i - UpTo(J, i) = k
      BY <2>2
    <3> QED BY <3>3, <3>5, <3>6
  <2> HIDE DEF c, At, n
  <2>3. At(Whence(k), k) /\ Whence(k) \in k..(k + c)
    BY <2>1
  <2> HIDE DEF Whence
  <2> QED BY <2>2, <2>3
<1>10. ASSUME NEW k \in 1..n
       PROVE  /\ Ends(text, k) - 1 \in J <=> k \in S
              /\ k \notin S => Ends(text, k) - 1 \notin J
  <2>1. k - 1 \in 0..n
    BY <1>1
  <2>2. CASE k \in S
    BY <1>3, <2>2
  <2>3. CASE k \notin S
    <3>1. Ends(text, k) - 1 = Ends(text, k - 1)
      BY <1>1, <2>1, <2>3
    <3> QED BY <1>3, <2>1, <2>3, <3>1
  <2> QED BY <2>2, <2>3
<1>11. ASSUME NEW k \in 1..n
       PROVE  (IF Whence(k) - 1 \in J THEN ProcessOne(e[Whence(k)]) ELSE e[Whence(k)]) = text[k]
  <2> HIDE DEF Whence
  <2>1. CASE k \in S
    <3>1. e[Ends(text, k)] = ProcessOne(text[k])
      BY <1>2, <2>1
    <3> QED BY <1>1, <1>9, <1>10, <2>1, <3>1, ProcessOneInverts
  <2>2. CASE k \notin S
    BY <1>2, <1>9, <1>10, <2>2
  <2> QED BY <2>1, <2>2
<1>12. text = [k \in 1..n |-> text[k]]
  BY <1>1
<1>13. Unescape(e) = text
  <2> HIDE DEF Whence, n
  <2> QED BY <1>8, <1>11, <1>12
<1> QED BY <1>13, EscapesFound DEF e

(* binary_encode() leaves no end symbol inside a text, whatever its bytes: *)
(* the first one in a buffer is the end of the message in front.           *)
THEOREM NoEndInside ==
  ASSUME NEW text, NEW k \in DOMAIN Escape(text)
  PROVE  Escape(text)[k] # END
<1>1. \A byte : (IF byte \in {ESC, END} THEN ProcessOne(byte) ELSE byte) # END
  BY DEF ProcessOne, ESC, END
<1>2. ESC # END
  BY DEF ESC, END
<1> QED
  BY <1>1, <1>2 DEF Escape

----------------------------------------------------------------------------
(* Identifiers.                                                            *)

(* What the recursion of Shifted says of each step.                        *)
LEMMA ShiftedSteps ==
  ASSUME NEW value \in Nat
  PROVE  /\ Shifted(value) \in [0..IdSize -> Nat] /\ Shifted(value)[0] = value
         /\ \A i \in 1..IdSize : Shifted(value)[i] = Shifted(value)[i - 1] \div 256
<1> DEFINE step == [i \in 1..IdSize |-> [b \in Nat |-> b \div 256]]
           Is(f) == f = [i \in 0..IdSize |-> IF i = 0 THEN value ELSE f[i - 1] \div 256]
<1>1. IdSize \in Nat
  BY FramingAssumption
<1>2. step \in [1..IdSize -> [Nat -> Nat]]
  <2>1. \A b \in Nat : b \div 256 \in Nat
    OBVIOUS
  <2> QED BY <2>1
<1>3. PICK f \in [0..IdSize -> Nat] : f[0] = value /\ \A i \in 1..IdSize : f[i] = step[i][f[i - 1]]
  <2> HIDE DEF step
  <2>1. \E f : Continues(f, Nat, IdSize, value, step)
    BY <1>1, <1>2, Recursion
  <2> QED BY <2>1 DEF Continues
<1>4. \A i \in 1..IdSize : f[i] = f[i - 1] \div 256
  <2> SUFFICES ASSUME NEW i \in 1..IdSize PROVE f[i] = f[i - 1] \div 256
    OBVIOUS
  <2>1. f[i - 1] \in Nat
    BY <1>1
  <2> QED BY <1>3, <2>1
<1>5. Is(f)
  <2>1. \A i \in 0..IdSize : i = 0 \/ i \in 1..IdSize
    BY <1>1
  <2>2. \A i \in 0..IdSize : f[i] = IF i = 0 THEN value ELSE f[i - 1] \div 256
    BY <1>3, <1>4, <2>1
  <2> QED BY <2>2
<1>6. Is(Shifted(value))
  <2>1. Shifted(value) = CHOOSE g : Is(g)
    BY DEF Shifted
  <2> HIDE DEF Is
  <2> QED BY <1>5, <2>1
<1> DEFINE s == Shifted(value)
           T == {i \in Nat : i <= IdSize => s[i] \in Nat}
<1> HIDE DEF s
<1>7. s = [i \in 0..IdSize |-> IF i = 0 THEN value ELSE s[i - 1] \div 256]
  BY <1>6 DEF s
<1>8. s[0] = value /\ \A i \in 1..IdSize : s[i] = s[i - 1] \div 256
  <2>1. 0 \in 0..IdSize
    BY <1>1
  <2>2. \A i \in 1..IdSize : i \in 0..IdSize /\ i # 0
    OBVIOUS
  <2> QED BY <1>7, <2>1, <2>2
<1>9. T = Nat
  <2>1. 0 \in T
    BY <1>8
  <2>2. ASSUME NEW i \in Nat, i \in T PROVE i + 1 \in T
    <3> SUFFICES ASSUME i + 1 <= IdSize PROVE s[i + 1] \in Nat
      OBVIOUS
    <3>1. i <= IdSize /\ i + 1 \in 1..IdSize /\ (i + 1) - 1 = i
      BY <1>1
    <3>2. s[i] \in Nat /\ s[i + 1] = s[i] \div 256
      BY <1>8, <2>2, <3>1
    <3> QED BY <3>2
  <2> HIDE DEF T
  <2>3. T \in SUBSET Nat
    BY DEF T
  <2> QED BY ONLY <2>1, <2>2, <2>3, SetInduction
<1>10. \A i \in 0..IdSize : s[i] \in Nat
  <2>1. \A i \in 0..IdSize : i \in Nat /\ i <= IdSize
    BY <1>1
  <2> QED BY <1>9, <2>1
<1>11. s \in [0..IdSize -> Nat]
  BY <1>7, <1>10
<1> QED BY <1>8, <1>11 DEF s

(* The bytes of an identifier.                                             *)
LEMMA IdBytes ==
  ASSUME NEW value \in Nat
  PROVE  IntToBytes(value) \in Seq(Byte) /\ Len(IntToBytes(value)) = IdSize
<1>1. IdSize \in Nat
  BY FramingAssumption
<1>2. \A i \in 1..IdSize : Shifted(value)[i - 1] \in Nat
  BY <1>1, ShiftedSteps
<1>3. \A k \in Nat : k % 256 \in Byte
  BY DEF Byte
<1>4. IntToBytes(value) \in [1..IdSize -> Byte]
  BY <1>2, <1>3 DEF IntToBytes
<1> QED BY <1>1, <1>4

(* What int_from_vec() has read after some of the bytes.                   *)
ReadsTo(bytes, f) ==
    /\ f \in [0..Len(bytes) -> Nat] /\ f[0] = 0
    /\ \A i \in 1..Len(bytes) : f[i] = 256 * f[i - 1] + bytes[Len(bytes) + 1 - i]
    /\ IntFromBytes(bytes) = f[Len(bytes)]

(* It has read some number after each byte.                                *)
LEMMA IntFromBytesSteps ==
  ASSUME NEW bytes \in Seq(Byte)
  PROVE  \E f : ReadsTo(bytes, f)
<1> DEFINE n == Len(bytes)
           step == [i \in 1..n |-> [b \in Nat |-> 256 * b + bytes[n + 1 - i]]]
           Is(f) == f = [i \in 0..n |-> IF i = 0 THEN 0 ELSE 256 * f[i - 1] + bytes[n + 1 - i]]
<1>1. n \in Nat /\ \A i \in 1..n : bytes[n + 1 - i] \in Nat
  <2>1. n \in Nat /\ \A i \in 1..n : bytes[i] \in Byte
    BY LenProperties
  <2> HIDE DEF n
  <2>2. \A i \in 1..n : n + 1 - i \in 1..n
    BY <2>1
  <2>3. \A b \in Byte : b \in Nat
    BY DEF Byte
  <2> QED BY <2>1, <2>2, <2>3
<1> HIDE DEF n
<1>2. step \in [1..n -> [Nat -> Nat]]
  <2>1. \A i \in 1..n : \A b \in Nat : 256 * b + bytes[n + 1 - i] \in Nat
    BY <1>1
  <2> QED BY <2>1
<1>3. PICK f \in [0..n -> Nat] : f[0] = 0 /\ \A i \in 1..n : f[i] = step[i][f[i - 1]]
  <2> HIDE DEF step
  <2>1. \E f : Continues(f, Nat, n, 0, step)
    BY <1>1, <1>2, Recursion
  <2> QED BY <2>1 DEF Continues
<1>4. Is(f)
  <2>1. \A i \in 0..n : i = 0 \/ (i \in 1..n /\ i - 1 \in 0..n)
    BY <1>1
  <2>2. \A i \in 0..n : f[i] = IF i = 0 THEN 0 ELSE 256 * f[i - 1] + bytes[n + 1 - i]
    BY <1>3, <2>1
  <2> QED BY <2>2
<1> DEFINE g == CHOOSE g : Is(g)
<1>5. IntFromBytes(bytes) = g[n]
  BY DEF IntFromBytes, n
<1>6. Is(g)
  <2> HIDE DEF Is
  <2> QED BY <1>4
<1> HIDE DEF g
<1> DEFINE T == {i \in Nat : i <= n => g[i] = f[i]}
<1>7. g[0] = 0 /\ \A i \in 1..n : g[i] = 256 * g[i - 1] + bytes[n + 1 - i]
  <2>1. 0 \in 0..n
    BY <1>1
  <2>2. \A i \in 1..n : i \in 0..n /\ i # 0
    OBVIOUS
  <2> QED BY <1>6, <2>1, <2>2
<1>8. \A i \in 1..n : f[i] = 256 * f[i - 1] + bytes[n + 1 - i]
  <2>1. \A i \in 1..n : f[i - 1] \in Nat
    BY <1>1
  <2> QED BY <1>3, <2>1
<1>9. T = Nat
  <2>1. 0 \in T
    BY <1>3, <1>7
  <2>2. ASSUME NEW i \in Nat, i \in T PROVE i + 1 \in T
    <3> SUFFICES ASSUME i + 1 <= n PROVE g[i + 1] = f[i + 1]
      OBVIOUS
    <3>1. i <= n /\ i + 1 \in 1..n /\ (i + 1) - 1 = i
      BY <1>1
    <3>2. g[i] = f[i]
      BY <2>2, <3>1
    <3>3. g[i + 1] = 256 * g[i] + bytes[n + 1 - (i + 1)]
      BY <1>7, <3>1
    <3>4. f[i + 1] = 256 * f[i] + bytes[n + 1 - (i + 1)]
      BY <1>8, <3>1
    <3> QED BY <3>2, <3>3, <3>4
  <2> HIDE DEF T
  <2>3. T \in SUBSET Nat
    BY DEF T
  <2> QED BY ONLY <2>1, <2>2, <2>3, SetInduction
<1>10. g[n] = f[n]
  BY <1>1, <1>9
<1> QED BY <1>3, <1>5, <1>8, <1>10 DEF n, ReadsTo

(* int_from_vec() restores an identifier that fits in its bytes.           *)
THEOREM IdInverts ==
  ASSUME NEW value \in Nat, Shifted(value)[IdSize] = 0
  PROVE  IntFromBytes(IntToBytes(value)) = value
<1> DEFINE n == IdSize
           s == Shifted(value)
           bytes == IntToBytes(value)
<1>1. /\ n \in Nat /\ s \in [0..n -> Nat] /\ s[0] = value /\ s[n] = 0
      /\ \A i \in 1..n : s[i] = s[i - 1] \div 256
  <2>1. n \in Nat
    BY FramingAssumption
  <2>2. s \in [0..n -> Nat] /\ s[0] = value /\ \A i \in 1..n : s[i] = s[i - 1] \div 256
    BY ShiftedSteps, SMT
  <2> QED BY ONLY Shifted(value)[IdSize] = 0, <2>1, <2>2
<1>2. /\ bytes \in Seq(Byte) /\ Len(bytes) = n
      /\ \A i \in 1..n : bytes[i] = s[i - 1] % 256
  BY IdBytes DEF IntToBytes
<1> HIDE DEF bytes, s
<1>3. PICK f \in [0..n -> Nat] :
            /\ f[0] = 0
            /\ \A i \in 1..n : f[i] = 256 * f[i - 1] + bytes[n + 1 - i]
            /\ IntFromBytes(bytes) = f[n]
  <2>1. \E f : ReadsTo(bytes, f)
    BY <1>2, IntFromBytesSteps
  <2> QED BY <1>2, <2>1 DEF ReadsTo
<1> DEFINE T == {i \in Nat : i <= n => f[i] = s[n - i]}
<1>4. T = Nat
  <2>1. 0 \in T
    <3>1. n - 0 = n
      BY <1>1
    <3> QED BY <1>1, <1>3, <3>1
  <2>2. ASSUME NEW i \in Nat, i \in T PROVE i + 1 \in T
    <3> SUFFICES ASSUME i + 1 <= n PROVE f[i + 1] = s[n - (i + 1)]
      OBVIOUS
    <3>1. /\ i <= n /\ i + 1 \in 1..n /\ (i + 1) - 1 = i /\ n - i \in 1..n
          /\ n - (i + 1) \in 0..n /\ (n - i) - 1 = n - (i + 1)
          /\ n + 1 - (i + 1) = n - i
      BY <1>1
    <3>2. f[i + 1] = 256 * f[i] + bytes[n - i]
      BY <1>3, <3>1
    <3>3. f[i] = s[n - i]
      BY <2>2, <3>1
    <3>4. bytes[n - i] = s[n - (i + 1)] % 256
      BY <1>2, <3>1
    <3>5. s[n - i] = s[n - (i + 1)] \div 256
      BY <1>1, <3>1
    <3>6. s[n - (i + 1)] \in Nat
      BY <1>1, <3>1
    <3>7. \A k \in Nat : (256 * (k \div 256)) + (k % 256) = k
      OBVIOUS
    <3> QED BY <3>2, <3>3, <3>4, <3>5, <3>6, <3>7
  <2> HIDE DEF T
  <2>3. T \in SUBSET Nat
    BY DEF T
  <2> QED BY ONLY <2>1, <2>2, <2>3, SetInduction
<1>5. f[n] = s[0]
  <2>1. n <= n /\ n - n = 0
    BY <1>1
  <2> QED BY <1>1, <1>4, <2>1
<1> QED BY <1>1, <1>3, <1>5 DEF bytes

(* An identifier that is not there.                                        *)
LEMMA NoBytes == IntFromBytes(<<>>) = 0
<1>1. <<>> \in Seq(Byte) /\ Len(<<>>) = 0
  BY EmptySeq
<1>2. PICK f \in [0..Len(<<>>) -> Nat] : f[0] = 0 /\ IntFromBytes(<<>>) = f[Len(<<>>)]
  <2>1. \E f : ReadsTo(<<>>, f)
    BY <1>1, IntFromBytesSteps
  <2> QED BY <2>1 DEF ReadsTo
<1> QED BY <1>1, <1>2

----------------------------------------------------------------------------
(* Messages as text.                                                       *)

Associate(s, t, u) == (s \o t) \o u = s \o (t \o u)

(* Concatenation is associative, by an operator that the provers can       *)
(* match.                                                                  *)
LEMMA AllAssociate ==
  ASSUME NEW S, NEW s \in Seq(S), NEW t \in Seq(S), NEW u \in Seq(S)
  PROVE  Associate(s, t, u)
  BY SeqEqual, ConcatProperties DEF Associate

(* The part in the middle of a text of three.                              *)
LEMMA Middle ==
  ASSUME NEW S, NEW s \in Seq(S), NEW t \in Seq(S), NEW u \in Seq(S)
  PROVE  SubSeq((s \o t) \o u, Len(s) + 1, Len(s) + Len(t)) = t
<1> DEFINE w == (s \o t) \o u
           a == Len(s)
           b == Len(t)
           c == SubSeq(w, a + 1, a + b)
<1>1. a \in Nat /\ b \in Nat /\ Len(u) \in Nat
  BY LenProperties
<1>2. /\ s \o t \in Seq(S) /\ Len(s \o t) = a + b
      /\ \A i \in 1..(a + b) : (s \o t)[i] = IF i <= a THEN s[i] ELSE t[i - a]
  BY ConcatProperties
<1>3. /\ w \in Seq(S) /\ Len(w) = a + b + Len(u)
      /\ \A i \in 1..(a + b + Len(u)) : w[i] = IF i <= a + b THEN (s \o t)[i] ELSE u[i - (a + b)]
  <2> HIDE DEF a, b
  <2> QED BY <1>2, ConcatProperties
<1> HIDE DEF w, a, b
<1>4. \A i \in (a + 1)..(a + b) : w[i] \in S /\ w[i] = t[i - a]
  <2> SUFFICES ASSUME NEW i \in (a + 1)..(a + b) PROVE w[i] \in S /\ w[i] = t[i - a]
    OBVIOUS
  <2>1. i \in 1..(a + b + Len(u)) /\ i \in 1..(a + b) /\ i <= a + b /\ ~(i <= a)
    BY <1>1
  <2>2. w[i] = (s \o t)[i] /\ (s \o t)[i] = t[i - a]
    BY <1>2, <1>3, <2>1
  <2>3. w[i] \in S
    BY <1>3, <2>1, ElementOfSeq
  <2> QED BY <2>2, <2>3
<1>5. /\ c \in Seq(S) /\ Len(c) = IF a + 1 <= a + b THEN (a + b) - (a + 1) + 1 ELSE 0
      /\ \A i \in 1..((a + b) - (a + 1) + 1) : c[i] = w[(a + 1) + i - 1]
  <2>1. a + 1 \in Int /\ a + b \in Int
    BY <1>1
  <2>2. \A i \in (a + 1)..(a + b) : w[i] \in S
    BY <1>4
  <2> QED BY ONLY <2>1, <2>2, SubSeqProperties
<1>6. Len(c) = b
  BY <1>1, <1>5
<1> HIDE DEF c
<1>7. ASSUME NEW i \in 1..b PROVE c[i] = t[i]
  <2>1. /\ i \in 1..((a + b) - (a + 1) + 1) /\ (a + 1) + i - 1 = a + i
        /\ a + i \in (a + 1)..(a + b) /\ (a + i) - a = i
    BY <1>1
  <2> QED BY <1>4, <1>5, <2>1
<1> QED BY <1>5, <1>6, <1>7, SeqEqual DEF a, b, c, w

(* The parts of a text of five.                                            *)
HasParts(S, all, s, t, u, v, w) ==
    LET a == Len(s)
        b == a + Len(t)
        c == b + Len(u)
        d == c + Len(v)
    IN  /\ all \in Seq(S) /\ Len(all) = d + Len(w)
        /\ \A i \in 1..Len(s) : all[i] = s[i]
        /\ SubSeq(all, 1, a) = s
        /\ SubSeq(all, a + 1, b) = t
        /\ SubSeq(all, b + 1, c) = u
        /\ SubSeq(all, c + 1, d) = v
        /\ SubSeq(all, d + 1, d + Len(w)) = w

(* A text of five has them.                                                *)
LEMMA Parts ==
  ASSUME NEW S, NEW s \in Seq(S), NEW t \in Seq(S), NEW u \in Seq(S), NEW v \in Seq(S),
         NEW w \in Seq(S)
  PROVE  HasParts(S, (((s \o t) \o u) \o v) \o w, s, t, u, v, w)
<1> DEFINE all == (((s \o t) \o u) \o v) \o w
           a == Len(s)
           b == a + Len(t)
           c == b + Len(u)
           d == c + Len(v)
<1>1. /\ s \o t \in Seq(S) /\ Len(s \o t) = b
      /\ \A i \in 1..(Len(s) + Len(t)) : (s \o t)[i] = IF i <= Len(s) THEN s[i] ELSE t[i - Len(s)]
  BY ConcatProperties
<1>2. PICK st \in Seq(S) : st = s \o t
  BY <1>1
<1>3. st \o u \in Seq(S) /\ Len(st \o u) = c
  BY <1>1, <1>2, ConcatProperties
<1>4. PICK stu \in Seq(S) : stu = st \o u
  BY <1>3
<1>5. stu \o v \in Seq(S) /\ Len(stu \o v) = d
  BY <1>3, <1>4, ConcatProperties
<1>6. PICK stuv \in Seq(S) : stuv = stu \o v
  BY <1>5
<1>7. all = stuv \o w
  BY <1>2, <1>4, <1>6
<1>8. all \in Seq(S) /\ Len(all) = d + Len(w)
  BY <1>5, <1>6, <1>7, ConcatProperties
<1>9. u \o (v \o w) \in Seq(S) /\ v \o w \in Seq(S) /\ <<>> \in Seq(S)
  <2>1. v \o w \in Seq(S)
    BY ConcatProperties
  <2> QED BY <2>1, ConcatProperties, EmptySeq
<1>10. all = (stu \o v) \o w /\ all = stu \o (v \o w)
  <2>1. Associate(stu, v, w)
    BY AllAssociate, Zenon
  <2> QED BY ONLY <1>6, <1>7, <2>1 DEF Associate
<1>11. all = (st \o u) \o (v \o w) /\ all = st \o (u \o (v \o w))
  <2>1. Associate(st, u, v \o w)
    BY <1>9, AllAssociate, Zenon
  <2> QED BY ONLY <1>4, <1>10, <2>1 DEF Associate
<1>12. all = (s \o t) \o (u \o (v \o w))
  BY <1>2, <1>11
<1>13. \A i \in 1..Len(s) : all[i] = s[i]
  <2> SUFFICES ASSUME NEW i \in 1..Len(s) PROVE all[i] = s[i]
    OBVIOUS
  <2>1. PICK x \in Seq(S) : x = u \o (v \o w)
    BY <1>9
  <2>2. all = st \o x
    BY <1>11, <2>1
  <2>3. Len(s) \in Nat /\ Len(t) \in Nat /\ Len(x) \in Nat /\ Len(st) = Len(s) + Len(t)
    BY <1>1, <1>2, LenProperties
  <2>4. i \in 1..(Len(s) + Len(t)) /\ i \in 1..(Len(st) + Len(x)) /\ i <= Len(st) /\ i <= Len(s)
    BY <2>3
  <2>5. (st \o x)[i] = st[i]
    BY <2>4, ConcatProperties
  <2>6. st[i] = s[i]
    BY <1>1, <1>2, <2>4
  <2> HIDE DEF all
  <2> QED BY <2>2, <2>5, <2>6
<1>14. SubSeq(all, a + 1, b) = t
  BY <1>9, <1>12, Middle
<1>15. SubSeq(all, b + 1, c) = u
  <2>1. Len(st) = b
    BY <1>1, <1>2
  <2>2. SubSeq((st \o u) \o (v \o w), Len(st) + 1, Len(st) + Len(u)) = u
    BY <1>9, Middle
  <2> HIDE DEF all, b
  <2> QED BY <1>11, <2>1, <2>2
<1>16. SubSeq(all, c + 1, d) = v
  <2>1. Len(stu) = c
    BY <1>3, <1>4
  <2>2. SubSeq((stu \o v) \o w, Len(stu) + 1, Len(stu) + Len(v)) = v
    BY Middle
  <2> HIDE DEF all, c
  <2> QED BY <1>10, <2>1, <2>2
<1>17. SubSeq(all, d + 1, d + Len(w)) = w
  <2>1. Len(stuv) = d
    BY <1>5, <1>6
  <2>2. (stuv \o w) \o <<>> = stuv \o w
    BY <1>7, <1>8, ConcatEmptySeq
  <2>3. SubSeq((stuv \o w) \o <<>>, Len(stuv) + 1, Len(stuv) + Len(w)) = w
    BY <1>9, Middle
  <2> HIDE DEF all, d
  <2> QED BY <1>7, <2>1, <2>2, <2>3
<1>18. SubSeq(all, 1, a) = s
  <2>1. PICK x \in Seq(S) : x = t \o (u \o (v \o w))
    BY <1>9, ConcatProperties
  <2>2. all = s \o x
    <3>1. Associate(s, t, u \o (v \o w))
      BY <1>9, AllAssociate, Zenon
    <3> QED BY ONLY <1>12, <2>1, <3>1 DEF Associate
  <2>3. <<>> \o s = s
    BY ConcatEmptySeq
  <2>4. SubSeq((<<>> \o s) \o x, Len(<<>>) + 1, Len(<<>>) + Len(s)) = s
    BY <1>9, Middle
  <2>5. Len(<<>>) = 0 /\ 0 + Len(s) = Len(s) /\ 0 + 1 = 1
    BY EmptySeq, LenProperties
  <2> HIDE DEF all
  <2> QED BY <2>2, <2>3, <2>4, <2>5
<1> QED BY <1>8, <1>13, <1>14, <1>15, <1>16, <1>17, <1>18 DEF HasParts

(* The parts of a binary text.                                             *)
Start(m) == <<VERSION, HeaderLength(m), Exists(m.id) + 2 * Exists(m.rid)>>
IdPart(id) == IF id # 0 THEN IntToBytes(id) ELSE <<>>

(* An identifier that exists takes its size, one that does not takes       *)
(* nothing.                                                                *)
LEMMA IdParts ==
  ASSUME NEW id \in Nat
  PROVE  /\ IdPart(id) \in Seq(Byte) /\ Exists(id) \in {0, 1}
         /\ Len(IdPart(id)) = IF Exists(id) = 1 THEN IdSize ELSE 0
         /\ Shifted(id)[IdSize] = 0 => IntFromBytes(IdPart(id)) = id
<1>1. CASE id = 0
  <2>1. IdPart(id) = <<>> /\ Exists(id) = 0
    BY <1>1 DEF IdPart, Exists
  <2>2. <<>> \in Seq(Byte) /\ Len(<<>>) = 0
    BY EmptySeq
  <2>3. IntFromBytes(IdPart(id)) = id
    BY ONLY <1>1, <2>1, NoBytes
  <2>4. Len(IdPart(id)) = IF Exists(id) = 1 THEN IdSize ELSE 0
    BY ONLY <2>1, <2>2
  <2>5. IdPart(id) \in Seq(Byte) /\ Exists(id) \in {0, 1}
    BY ONLY <2>1, <2>2
  <2> QED BY ONLY <2>3, <2>4, <2>5
<1>2. CASE id # 0
  <2>1. IdPart(id) = IntToBytes(id) /\ Exists(id) = 1
    BY <1>2 DEF IdPart, Exists
  <2>2. IntToBytes(id) \in Seq(Byte) /\ Len(IntToBytes(id)) = IdSize
    BY IdBytes
  <2>3. Shifted(id)[IdSize] = 0 => IntFromBytes(IntToBytes(id)) = id
    BY IdInverts
  <2>4. Len(IdPart(id)) = IF Exists(id) = 1 THEN IdSize ELSE 0
    BY ONLY <2>1, <2>2
  <2>5. IdPart(id) \in Seq(Byte) /\ Exists(id) \in {0, 1}
    BY ONLY <2>1, <2>2
  <2>6. Shifted(id)[IdSize] = 0 => IntFromBytes(IdPart(id)) = id
    BY ONLY <2>1, <2>3
  <2> QED BY ONLY <2>4, <2>5, <2>6
<1> QED BY <1>1, <1>2

(* The length in the header is that of the parts before the tail.          *)
LEMMA HeaderAdds ==
  ASSUME NEW m \in Message
  PROVE  /\ HeaderLength(m) = 3 + Len(m.name) + Len(IdPart(m.id)) + Len(IdPart(m.rid))
         /\ HeaderLength(m) \in Nat /\ HeaderLength(m) >= 3
<1>1. /\ m.name \in Seq(Byte) /\ m.id \in Nat /\ m.rid \in Nat
      /\ Len(m.name) \in Nat /\ IdSize \in Nat
  BY FramingAssumption, LenProperties DEF Message
<1>2. /\ Exists(m.id) \in {0, 1} /\ Exists(m.rid) \in {0, 1}
      /\ Len(IdPart(m.id)) = IF Exists(m.id) = 1 THEN IdSize ELSE 0
      /\ Len(IdPart(m.rid)) = IF Exists(m.rid) = 1 THEN IdSize ELSE 0
  BY <1>1, IdParts
<1>3. IdSize * (0 + 0) = 0 /\ IdSize * (0 + 1) = IdSize /\ IdSize * (1 + 0) = IdSize
      /\ IdSize * (1 + 1) = IdSize + IdSize
  BY <1>1
<1>4. IdSize * (Exists(m.id) + Exists(m.rid)) = Len(IdPart(m.id)) + Len(IdPart(m.rid))
  <2>1. CASE Exists(m.id) = 0 /\ Exists(m.rid) = 0
    BY <1>1, <1>2, <1>3, <2>1
  <2>2. CASE Exists(m.id) = 0 /\ Exists(m.rid) = 1
    BY <1>1, <1>2, <1>3, <2>2
  <2>3. CASE Exists(m.id) = 1 /\ Exists(m.rid) = 0
    BY <1>1, <1>2, <1>3, <2>3
  <2>4. CASE Exists(m.id) = 1 /\ Exists(m.rid) = 1
    BY <1>1, <1>2, <1>3, <2>4
  <2> QED BY <1>2, <2>1, <2>2, <2>3, <2>4
<1>5. Len(IdPart(m.id)) \in Nat /\ Len(IdPart(m.rid)) \in Nat
  BY <1>1, <1>2
<1>6. HeaderLength(m) = 3 + Len(m.name) + (Len(IdPart(m.id)) + Len(IdPart(m.rid)))
  BY <1>4 DEF HeaderLength, MinLength
<1>7. PICK a \in Nat, b \in Nat, c \in Nat :
            a = Len(m.name) /\ b = Len(IdPart(m.id)) /\ c = Len(IdPart(m.rid))
  BY <1>1, <1>5
<1>8. HeaderLength(m) = 3 + a + (b + c)
  BY ONLY <1>6, <1>7
<1>9. HeaderLength(m) = 3 + a + b + c /\ HeaderLength(m) \in Nat /\ HeaderLength(m) >= 3
  BY <1>8
<1> QED BY ONLY <1>7, <1>9

(* What stands where in a binary text.                                     *)
LEMMA BinTextForm ==
  ASSUME NEW m \in Message, HeaderLength(m) <= 255
  PROVE  LET text == BinText(m)
             nameAt == 3
             idAt == nameAt + Len(m.name)
             ridAt == idAt + Len(IdPart(m.id))
             h == HeaderLength(m)
         IN  /\ text \in Seq(Byte) /\ Len(text) = h + Len(m.tail) /\ h = ridAt + Len(IdPart(m.rid))
             /\ text[1] = VERSION /\ text[2] = h
             /\ text[3] = Exists(m.id) + 2 * Exists(m.rid)
             /\ SubSeq(text, 4, idAt) = m.name
             /\ SubSeq(text, idAt + 1, ridAt) = IdPart(m.id)
             /\ SubSeq(text, ridAt + 1, h) = IdPart(m.rid)
             /\ SubSeq(text, h + 1, Len(text)) = m.tail
<1> DEFINE s == Start(m)
           t == m.name
           u == IdPart(m.id)
           v == IdPart(m.rid)
           w == m.tail
           all == (((s \o t) \o u) \o v) \o w
<1>1. /\ m.id \in Nat /\ m.rid \in Nat /\ t \in Seq(Byte) /\ w \in Seq(Byte)
      /\ u \in Seq(Byte) /\ v \in Seq(Byte)
      /\ Exists(m.id) \in {0, 1} /\ Exists(m.rid) \in {0, 1}
  <2>1. m.id \in Nat /\ m.rid \in Nat /\ t \in Seq(Byte) /\ w \in Seq(Byte)
    BY DEF Message
  <2> QED BY <2>1, IdParts
<1>2. s \in Seq(Byte) /\ Len(s) = 3
  <2>1. VERSION \in Byte /\ HeaderLength(m) \in Byte
    <3>1. PICK h : h = HeaderLength(m) /\ h \in Nat /\ h <= 255
      BY HeaderAdds
    <3> QED BY <3>1 DEF VERSION, Byte
  <2>2. Exists(m.id) + 2 * Exists(m.rid) \in Byte
    <3>1. \A a, b \in {0, 1} : a + 2 * b \in 0..255
      OBVIOUS
    <3> QED BY <1>1, <3>1 DEF Byte
  <2> QED BY <2>1, <2>2 DEF Start
<1>3. s[1] = VERSION /\ s[2] = HeaderLength(m) /\ s[3] = Exists(m.id) + 2 * Exists(m.rid)
  BY DEF Start
<1>4. BinText(m) = all
  BY DEF BinText, Start, IdPart
<1> HIDE DEF s, t, u, v, w
<1> DEFINE a == Len(s)
           b == a + Len(t)
           c == b + Len(u)
           d == c + Len(v)
<1>5. /\ all \in Seq(Byte) /\ Len(all) = d + Len(w)
      /\ \A i \in 1..Len(s) : all[i] = s[i]
      /\ SubSeq(all, a + 1, b) = t
      /\ SubSeq(all, b + 1, c) = u
      /\ SubSeq(all, c + 1, d) = v
      /\ SubSeq(all, d + 1, d + Len(w)) = w
  <2>1. HasParts(Byte, all, s, t, u, v, w)
    BY <1>1, <1>2, Parts
  <2> HIDE DEF all
  <2> QED BY <2>1 DEF HasParts
<1>6. a = 3 /\ d = HeaderLength(m)
  <2>1. HeaderLength(m) = 3 + Len(t) + Len(u) + Len(v)
    BY HeaderAdds DEF t, u, v
  <2> QED BY <1>2, <2>1
<1>7. 1 \in 1..3 /\ 2 \in 1..3 /\ 3 \in 1..3 /\ 3 + 1 = 4
  OBVIOUS
<1>8. all[1] = s[1] /\ all[2] = s[2] /\ all[3] = s[3]
  <2> HIDE DEF all
  <2> QED BY <1>2, <1>5, <1>7
<1> HIDE DEF all
<1> QED BY <1>3, <1>4, <1>5, <1>6, <1>7, <1>8 DEF t, u, v, w

(* A binary message whose header is not too long is read as it was sent,   *)
(* whatever its bytes, unless its header is longer than the reader allows. *)
THEOREM BinInverts ==
  ASSUME NEW m \in Message, HeaderLength(m) <= 255,
         Shifted(m.id)[IdSize] = 0, Shifted(m.rid)[IdSize] = 0
  PROVE  /\ BinReadable(BinText(m)) <=> HeaderLength(m) < 128
         /\ BinMessage(BinText(m)) = m
<1> DEFINE text == BinText(m)
           idAt == 3 + Len(m.name)
           ridAt == idAt + Len(IdPart(m.id))
           h == HeaderLength(m)
<1>1. /\ m.id \in Nat /\ m.rid \in Nat /\ m.name \in Seq(Byte) /\ m.tail \in Seq(Byte)
      /\ m = [name |-> m.name, id |-> m.id, rid |-> m.rid, tail |-> m.tail]
      /\ Len(m.name) \in Nat /\ Len(m.tail) \in Nat /\ IdSize \in Nat
  <2>1. IdSize \in Nat
    BY FramingAssumption
  <2>2. /\ m.id \in Nat /\ m.rid \in Nat /\ m.name \in Seq(Byte) /\ m.tail \in Seq(Byte)
        /\ m = [name |-> m.name, id |-> m.id, rid |-> m.rid, tail |-> m.tail]
    BY DEF Message
  <2> QED BY <2>1, <2>2, LenProperties
<1>2. /\ Exists(m.id) \in {0, 1} /\ Exists(m.rid) \in {0, 1}
      /\ Len(IdPart(m.id)) = IF Exists(m.id) = 1 THEN IdSize ELSE 0
      /\ Len(IdPart(m.rid)) = IF Exists(m.rid) = 1 THEN IdSize ELSE 0
      /\ IntFromBytes(IdPart(m.id)) = m.id /\ IntFromBytes(IdPart(m.rid)) = m.rid
  BY <1>1, IdParts
<1>3. /\ text \in Seq(Byte) /\ Len(text) = h + Len(m.tail) /\ h = ridAt + Len(IdPart(m.rid))
      /\ text[1] = VERSION /\ text[2] = h
      /\ text[3] = Exists(m.id) + 2 * Exists(m.rid)
      /\ SubSeq(text, 4, idAt) = m.name
      /\ SubSeq(text, idAt + 1, ridAt) = IdPart(m.id)
      /\ SubSeq(text, ridAt + 1, h) = IdPart(m.rid)
      /\ SubSeq(text, h + 1, Len(text)) = m.tail
  BY BinTextForm
<1>4. h \in Nat /\ h >= 3
  BY HeaderAdds
<1> HIDE DEF text, h
<1>5. HasId(text) <=> Exists(m.id) = 1
  BY <1>2, <1>3 DEF HasId
<1>6. HasRid(text) <=> Exists(m.rid) = 1
  BY <1>2, <1>3 DEF HasRid
<1>7. IdLength(text) = Len(IdPart(m.id)) /\ RidLength(text) = Len(IdPart(m.rid))
  BY <1>2, <1>5, <1>6 DEF IdLength, RidLength
<1>8. Len(IdPart(m.id)) \in Nat /\ Len(IdPart(m.rid)) \in Nat
  BY <1>1, <1>2
<1>9. NameLength(text) = Len(m.name)
  BY <1>1, <1>3, <1>7, <1>8 DEF NameLength, MinLength
<1>10. /\ MinLength + NameLength(text) + 1 = idAt + 1
       /\ (idAt + 1) + IdLength(text) = ridAt + 1
       /\ (ridAt + 1) + RidLength(text) - 1 = h
       /\ (idAt + 1) - 1 = idAt /\ (ridAt + 1) - 1 = ridAt /\ MinLength + 1 = 4
  BY <1>1, <1>3, <1>7, <1>8, <1>9 DEF MinLength
<1>11. BinMessage(text) = [name |-> m.name, id |-> m.id, rid |-> m.rid, tail |-> m.tail]
  <2> HIDE DEF idAt, ridAt
  <2> QED BY <1>2, <1>3, <1>10 DEF BinMessage
<1>12. BinReadable(text) <=> h < 128
  BY <1>1, <1>3, <1>4 DEF BinReadable, MinLength
<1> QED BY <1>1, <1>11, <1>12 DEF text, h

----------------------------------------------------------------------------
(* Markers.                                                                *)

FirstIn(I) == IF I # {} THEN Min(I) ELSE 0
IsFirst(x, I) == x \in I /\ \A j \in I : x <= j

(* The first of a set of places, when there is one.                        *)
LEMMA FirstFound ==
  ASSUME NEW I \in SUBSET Nat
  PROVE  /\ FirstIn(I) # 0 => IsFirst(FirstIn(I), I)
         /\ \A x : IsFirst(x, I) => FirstIn(I) = x
<1>1. FirstIn(I) # 0 => I # {}
  BY DEF FirstIn
<1>2. I # {} => \E x : IsFirst(x, I)
  BY NatMin DEF IsFirst
<1>3. I # {} => FirstIn(I) = CHOOSE x \in I : \A y \in I : x <= y
  BY DEF FirstIn, Min
<1>4. I # {} => IsFirst(FirstIn(I), I)
  BY <1>2, <1>3 DEF IsFirst
<1>5. ASSUME NEW x, NEW y, IsFirst(x, I), IsFirst(y, I) PROVE x = y
  BY <1>5 DEF IsFirst
<1>6. \A x : IsFirst(x, I) => I # {}
  BY DEF IsFirst
<1> QED BY <1>1, <1>4, <1>5, <1>6

(* The places where a marker begins.                                       *)
Begins(format, bytes) ==
    {i \in 1..(Len(bytes) + 1 - Len(Marker(format))) :
        \A j \in 1..Len(Marker(format)) : bytes[i + (j - 1)] = Marker(format)[j]}

(* A marker is one byte long or four.                                      *)
LEMMA MarkerForm ==
  ASSUME NEW format \in {"bin", "xml"}
  PROVE  /\ Marker(format) \in Seq(Byte) /\ Len(Marker(format)) \in {1, 4}
<1>1. CASE format = "bin"
  <2>1. <<END>> \in Seq(Byte) /\ Len(<<END>>) = 1
    BY DEF END, Byte
  <2> QED BY <1>1, <2>1 DEF Marker
<1>2. CASE format = "xml"
  <2>1. <<CR, LF, CR, LF>> \in Seq(Byte) /\ Len(<<CR, LF, CR, LF>>) = 4
    BY DEF CR, LF, Byte
  <2> QED BY <1>2, <2>1 DEF Marker
<1> QED BY <1>1, <1>2

(* find_raw_message() finds the first of them.                             *)
LEMMA MarkerAtFirst ==
  ASSUME NEW format \in {"bin", "xml"}, NEW bytes \in Seq(Nat)
  PROVE  MarkerAt(format, bytes) = FirstIn(Begins(format, bytes))
<1> DEFINE L == Len(Marker(format))
           n == Len(bytes) + 1 - L
           pieces == [i \in 1..n |-> SubSeq(bytes, i, i + L - 1)]
           I == {i \in 1..Len(pieces) : pieces[i] = Marker(format)}
<1>1. /\ L \in {1, 4} /\ Len(bytes) \in Nat /\ Marker(format) \in Seq(Nat)
      /\ \A i \in 1..Len(bytes) : bytes[i] \in Nat
  <2>1. \A b \in Byte : b \in Nat
    BY DEF Byte
  <2> QED BY <2>1, MarkerForm, LenProperties
<1>2. MarkerAt(format, bytes) = FirstIn(I)
  BY DEF MarkerAt, SelectInSeq, FirstIn
<1>0. \A i \in 1..n : i..(i + L - 1) \subseteq 1..Len(bytes)
  BY <1>1
<1>3. 1..Len(pieces) = 1..n
  <2>1. n \in Int
    BY <1>1
  <2> HIDE DEF n
  <2>2. CASE n \in Nat
    <3>1. \A i \in 1..n : SubSeq(bytes, i, i + L - 1) \in Seq(Nat)
      <4> SUFFICES ASSUME NEW i \in 1..n PROVE SubSeq(bytes, i, i + L - 1) \in Seq(Nat)
        OBVIOUS
      <4>1. \A k \in i..(i + L - 1) : bytes[k] \in Nat
        BY <1>0, <1>1
      <4>2. i \in Int /\ i + L - 1 \in Int
        BY <1>1
      <4> QED BY <4>1, <4>2, SubSeqProperties
    <3>2. pieces \in [1..n -> Seq(Nat)]
      BY <3>1
    <3> HIDE DEF pieces
    <3>3. Len(pieces) = n
      BY <2>2, <3>2
    <3> QED BY <3>3
  <2>3. CASE n \notin Nat
    <3>1. 1..n = {}
      BY <2>1, <2>3
    <3>2. pieces = <<>>
      BY <3>1
    <3>3. Len(<<>>) = 0 /\ 1..0 = {}
      BY EmptySeq
    <3> HIDE DEF pieces
    <3> QED BY ONLY <3>1, <3>2, <3>3
  <2> HIDE DEF pieces
  <2> QED BY <2>2, <2>3
<1>4. ASSUME NEW i \in 1..n
      PROVE  SubSeq(bytes, i, i + L - 1) = Marker(format)
             <=> \A j \in 1..L : bytes[i + (j - 1)] = Marker(format)[j]
  <2> DEFINE piece == SubSeq(bytes, i, i + L - 1)
  <2>1. \A k \in i..(i + L - 1) : bytes[k] \in Nat
    BY <1>1
  <2>2. i \in Int /\ i + L - 1 \in Int
    BY <1>1
  <2>3. /\ piece \in Seq(Nat)
        /\ Len(piece) = IF i <= i + L - 1 THEN i + L - 1 - i + 1 ELSE 0
        /\ \A j \in 1..(i + L - 1 - i + 1) : piece[j] = bytes[i + j - 1]
    BY <2>1, <2>2, SubSeqProperties
  <2> HIDE DEF piece
  <2>4. Len(piece) = L
    BY <1>1, <2>2, <2>3
  <2>5. \A j \in 1..L : piece[j] = bytes[i + (j - 1)]
    <3>1. \A j \in 1..L : j \in 1..(i + L - 1 - i + 1) /\ i + j - 1 = i + (j - 1)
      BY <1>1
    <3> HIDE DEF L
    <3> QED BY <2>3, <3>1
  <2>6. (\A j \in 1..L : piece[j] = Marker(format)[j]) => piece = Marker(format)
    BY <1>1, <2>3, <2>4, SeqEqual
  <2>7. piece = Marker(format) <=> \A j \in 1..L : piece[j] = Marker(format)[j]
    BY <2>6
  <2>8. piece = Marker(format) <=> \A j \in 1..L : bytes[i + (j - 1)] = Marker(format)[j]
    BY ONLY <2>5, <2>7
  <2> QED BY <2>8 DEF piece
<1>5. I = Begins(format, bytes)
  <2> HIDE DEF n, L
  <2>1. \A i \in 1..n : pieces[i] = Marker(format)
                        <=> \A j \in 1..L : bytes[i + (j - 1)] = Marker(format)[j]
    BY <1>4
  <2> HIDE DEF pieces
  <2>2. I = {i \in 1..n : \A j \in 1..L : bytes[i + (j - 1)] = Marker(format)[j]}
    BY <1>3, <2>1
  <2> QED BY <2>2 DEF Begins, n, L
<1> QED BY <1>2, <1>5

(* When the first marker of a text is at its end, the first marker of a    *)
(* buffer that begins as the text does, and has one, ends with the text.   *)
LEMMA FirstEnds ==
  ASSUME NEW format \in {"bin", "xml"},
         NEW text \in Seq(Nat), NEW rest \in Seq(Nat),
         NEW bytes \in Seq(Nat), NEW more \in Seq(Nat),
         bytes \o more = text \o rest,
         MarkerAt(format, text) = Len(text) + 1 - Len(Marker(format)),
         MarkerAt(format, bytes) # 0, MarkerAt(format, text) # 0
  PROVE  /\ MarkerAt(format, bytes) = MarkerAt(format, text)
         /\ Len(text) <= Len(bytes)
<1> DEFINE L == Len(Marker(format))
           n == Len(text)
           m == Len(bytes)
           T == Begins(format, text)
           B == Begins(format, bytes)
           at == MarkerAt(format, bytes)
<1>1. /\ L \in {1, 4} /\ n \in Nat /\ m \in Nat
      /\ Len(rest) \in Nat /\ Len(more) \in Nat
  BY MarkerForm, LenProperties
<1>2. m + Len(more) = n + Len(rest)
  BY ConcatProperties
<1>3. ASSUME NEW i \in 1..m, i <= n PROVE bytes[i] = text[i]
  <2>1. i \in 1..(m + Len(more)) /\ i \in 1..(n + Len(rest)) /\ i <= m
    BY <1>1
  <2>2. (bytes \o more)[i] = bytes[i] /\ (text \o rest)[i] = text[i]
    BY <1>3, <2>1, ConcatProperties
  <2> QED BY <2>2
<1>4. T \in SUBSET Nat /\ B \in SUBSET Nat
  BY DEF Begins
<1>5. MarkerAt(format, text) = FirstIn(T) /\ at = FirstIn(B)
  BY MarkerAtFirst
<1> DEFINE end == n + 1 - L
<1> HIDE DEF T, B, at
<1>6. end \in T /\ \A i \in T : end <= i
  <2>1. MarkerAt(format, text) = end /\ FirstIn(T) # 0
    BY <1>5
  <2>2. IsFirst(FirstIn(T), T)
    BY ONLY <1>4, <2>1, FirstFound
  <2> QED BY ONLY <1>5, <2>1, <2>2 DEF IsFirst
<1>7. at \in B /\ \A i \in B : at <= i
  BY <1>4, <1>5, FirstFound DEF at, IsFirst
<1> HIDE DEF L, n, m
<1>8. /\ \A i : i \in T <=> /\ i \in 1..(n + 1 - L)
                            /\ \A j \in 1..L : text[i + (j - 1)] = Marker(format)[j]
      /\ \A i : i \in B <=> /\ i \in 1..(m + 1 - L)
                            /\ \A j \in 1..L : bytes[i + (j - 1)] = Marker(format)[j]
  BY DEF T, B, Begins, L, n, m
<1>9. CASE at + (L - 1) <= n
  <2>1. at \in 1..(m + 1 - L) /\ at \in 1..(n + 1 - L)
    BY <1>1, <1>7, <1>8, <1>9
  <2>2. \A j \in 1..L : bytes[at + (j - 1)] = Marker(format)[j]
    BY <1>7, <1>8
  <2>3. \A j \in 1..L : at + (j - 1) \in 1..m /\ at + (j - 1) <= n
    BY <1>1, <1>9, <2>1
  <2>4. \A j \in 1..L : bytes[at + (j - 1)] = text[at + (j - 1)]
    BY <1>3, <2>3
  <2>5. at \in T
    BY <1>8, <2>1, <2>2, <2>4
  <2>6. end <= at
    BY <1>6, <2>5
  <2>7. at = end /\ n <= m
    BY <1>1, <1>9, <2>1, <2>6
  <2> QED BY <2>7 DEF at, L, n, m
<1>10. CASE ~(at + (L - 1) <= n)
  <2>1. at \in 1..(m + 1 - L) /\ end \in 1..(n + 1 - L)
    BY <1>6, <1>7, <1>8
  <2>2. end \in 1..(m + 1 - L) /\ ~(at <= end)
    BY <1>1, <1>10, <2>1
  <2>3. \A j \in 1..L : end + (j - 1) \in 1..m /\ end + (j - 1) <= n
    BY <1>1, <2>1, <2>2
  <2>4. \A j \in 1..L : text[end + (j - 1)] = Marker(format)[j]
    BY <1>6, <1>8
  <2>5. \A j \in 1..L : bytes[end + (j - 1)] = text[end + (j - 1)]
    BY <1>3, <2>3
  <2>6. end \in B
    BY <1>8, <2>2, <2>4, <2>5
  <2> QED BY <1>7, <2>2, <2>6
<1> QED BY <1>9, <1>10

(* A binary frame has its marker at its end and nowhere else.              *)
LEMMA BinMarker ==
  ASSUME NEW text \in Seq(Byte)
  PROVE  MarkerAt("bin", Escape(text) \o <<END>>) = Len(Escape(text)) + 1
<1> DEFINE e == Escape(text)
           n == Len(e)
           all == e \o <<END>>
           B == Begins("bin", all)
<1>1. e \in Seq(Byte) /\ n \in Nat /\ DOMAIN e = 1..n
  BY EscapeForm, LenProperties
<1>2. \A k \in 1..n : e[k] # END
  BY <1>1, NoEndInside
<1> HIDE DEF e
<1>3. <<END>> \in Seq(Byte) /\ Len(<<END>>) = 1 /\ <<END>>[1] = END /\ Marker("bin") = <<END>>
  BY DEF END, Byte, Marker
<1>4. /\ all \in Seq(Byte) /\ Len(all) = n + 1
      /\ \A i \in 1..(n + 1) : all[i] = IF i <= n THEN e[i] ELSE END
  BY <1>1, <1>3, ConcatProperties
<1> HIDE DEF all
<1>5. \A i : i \in B <=> i \in 1..(n + 1) /\ all[i] = END
  <2>1. \A i : i \in B <=> /\ i \in 1..(n + 1 + 1 - 1)
                           /\ \A j \in 1..1 : all[i + (j - 1)] = <<END>>[j]
    BY <1>3, <1>4 DEF Begins
  <2>2. n + 1 + 1 - 1 = n + 1
    BY <1>1
  <2>3. \A i \in 1..(n + 1) : (\A j \in 1..1 : all[i + (j - 1)] = <<END>>[j]) <=> all[i] = END
    <3> SUFFICES ASSUME NEW i \in 1..(n + 1)
                 PROVE  (\A j \in 1..1 : all[i + (j - 1)] = <<END>>[j]) <=> all[i] = END
      OBVIOUS
    <3>1. \A j \in 1..1 : j = 1 /\ i + (j - 1) = i
      BY <1>1
    <3>2. 1 \in 1..1
      OBVIOUS
    <3> HIDE DEF n
    <3> QED BY <1>3, <3>1, <3>2
  <2> QED BY <2>1, <2>2, <2>3
<1> HIDE DEF B
<1>6. IsFirst(n + 1, B)
  <2>1. n + 1 \in B
    BY <1>1, <1>4, <1>5
  <2>2. \A i \in B : ~(i <= n)
    BY <1>1, <1>2, <1>4, <1>5
  <2> QED BY <1>1, <1>5, <2>1, <2>2 DEF IsFirst
<1>7. B \in SUBSET Nat
  BY <1>5
<1>8. MarkerAt("bin", all) = FirstIn(B)
  <2>1. all \in Seq(Nat)
    <3>1. Byte \subseteq Nat
      BY DEF Byte
    <3> QED BY <1>4, <3>1, SeqMonotonic
  <2> QED BY <2>1, MarkerAtFirst DEF B
<1> QED BY <1>6, <1>7, <1>8, FirstFound DEF all, e

(* A text of the xml format is read as it was written.                     *)
LEMMA XmlInverts ==
  ASSUME NEW m \in Message, TagEnd \notin Range(m.name)
  PROVE  XmlText(m) \in Seq(Nat) /\ XmlMessage(XmlText(m)) = m
<1> DEFINE s == m.name
           t == <<TagEnd, m.id, m.rid>>
           u == m.tail
           v == <<TagEnd>>
           text == XmlText(m)
           a == Len(s)
<1>1. /\ s \in Seq(Nat) /\ u \in Seq(Nat) /\ m.id \in Nat /\ m.rid \in Nat
      /\ a \in Nat /\ Len(u) \in Nat
      /\ m = [name |-> m.name, id |-> m.id, rid |-> m.rid, tail |-> m.tail]
      /\ \A i \in 1..a : s[i] # TagEnd
  <2>1. /\ m.name \in Seq(Byte) /\ m.tail \in Seq(Byte) /\ m.id \in Nat /\ m.rid \in Nat
        /\ m = [name |-> m.name, id |-> m.id, rid |-> m.rid, tail |-> m.tail]
    BY DEF Message
  <2>2. Byte \subseteq Nat
    BY DEF Byte
  <2>3. m.name \in Seq(Nat) /\ m.tail \in Seq(Nat)
    BY <2>1, <2>2, SeqMonotonic
  <2>4. Len(m.name) \in Nat /\ Len(m.tail) \in Nat /\ DOMAIN m.name = 1..Len(m.name)
    BY <2>3, LenProperties
  <2>5. \A i \in 1..Len(m.name) : m.name[i] # TagEnd
    BY <2>4 DEF Range
  <2> QED BY <2>1, <2>3, <2>4, <2>5
<1>2. /\ t \in Seq(Nat) /\ Len(t) = 3 /\ t[1] = TagEnd /\ t[2] = m.id /\ t[3] = m.rid
      /\ v \in Seq(Nat) /\ Len(v) = 1 /\ <<>> \in Seq(Nat) /\ Len(<<>>) = 0
  BY <1>1, EmptySeq DEF TagEnd
<1>3. text = ((s \o t) \o u) \o v
  BY DEF XmlText
<1> HIDE DEF s, t, u, v, text
<1>4. HasParts(Nat, (((s \o t) \o u) \o v) \o <<>>, s, t, u, v, <<>>)
  BY <1>1, <1>2, Parts
<1>5. text \in Seq(Nat) /\ text = (((s \o t) \o u) \o v) \o <<>>
  <2>1. s \o t \in Seq(Nat)
    BY <1>1, <1>2, ConcatProperties
  <2>2. (s \o t) \o u \in Seq(Nat)
    BY <1>1, <2>1, ConcatProperties
  <2>3. text \in Seq(Nat)
    BY <1>2, <1>3, <2>2, ConcatProperties
  <2> QED BY <1>3, <2>3, ConcatEmptySeq
<1>6. HasParts(Nat, text, s, t, u, v, <<>>)
  BY <1>4, <1>5
<1>7. /\ Len(text) = a + 3 + Len(u) + 1 + 0
      /\ SubSeq(text, 1, a) = s
      /\ SubSeq(text, a + 1, a + 3) = t
      /\ SubSeq(text, (a + 3) + 1, a + 3 + Len(u)) = u
      /\ \A i \in 1..a : text[i] = s[i]
  <2> HIDE DEF a
  <2> QED BY <1>2, <1>6 DEF HasParts, a
<1> HIDE DEF a
<1>8. Len(text) = a + 4 + Len(u)
  BY <1>1, <1>7
<1>9. text[a + 1] = TagEnd /\ text[a + 2] = m.id /\ text[a + 3] = m.rid
  <2> DEFINE piece == SubSeq(text, a + 1, a + 3)
  <2>1. \A i \in (a + 1)..(a + 3) : text[i] \in Nat
    <3>1. \A i \in (a + 1)..(a + 3) : i \in 1..Len(text)
      BY <1>1, <1>8 DEF u
    <3> QED BY <1>5, <3>1, ElementOfSeq
  <2>2. a + 1 \in Int /\ a + 3 \in Int
    BY <1>1
  <2>3. \A i \in 1..((a + 3) - (a + 1) + 1) : piece[i] = text[(a + 1) + i - 1]
    BY <2>1, <2>2, SubSeqProperties
  <2>4. /\ 1 \in 1..((a + 3) - (a + 1) + 1) /\ (a + 1) + 1 - 1 = a + 1
        /\ 2 \in 1..((a + 3) - (a + 1) + 1) /\ (a + 1) + 2 - 1 = a + 2
        /\ 3 \in 1..((a + 3) - (a + 1) + 1) /\ (a + 1) + 3 - 1 = a + 3
    BY <1>1
  <2>5. piece[1] = text[a + 1] /\ piece[2] = text[a + 2] /\ piece[3] = text[a + 3]
    BY ONLY <2>3, <2>4
  <2> HIDE DEF piece
  <2>6. piece = t
    BY <1>7 DEF piece
  <2> QED BY <1>2, <2>5, <2>6
<1> DEFINE I == {i \in 1..Len(text) : text[i] = TagEnd}
           at == SelectInSeq(text, LAMBDA byte : byte = TagEnd)
<1>10. at = a + 1
  <2>1. at = FirstIn(I)
    BY DEF SelectInSeq, FirstIn
  <2>2. I \in SUBSET Nat /\ \A i : i \in I <=> i \in 1..Len(text) /\ text[i] = TagEnd
    OBVIOUS
  <2> HIDE DEF I, at
  <2>3. a + 1 \in I
    BY <1>1, <1>8, <1>9, <2>2 DEF u
  <2>4. \A i \in I : ~(i <= a)
    BY <1>1, <1>7, <2>2 DEF a, s
  <2>5. IsFirst(a + 1, I)
    BY <1>1, <2>2, <2>3, <2>4 DEF IsFirst
  <2> QED BY ONLY <2>1, <2>2, <2>5, FirstFound
<1>11. /\ at - 1 = a /\ at + 1 = a + 2 /\ at + 2 = a + 3 /\ at + 3 = (a + 3) + 1
       /\ Len(text) - 1 = a + 3 + Len(u)
  BY <1>1, <1>8, <1>10 DEF u
<1>12. XmlMessage(text) = [name |-> SubSeq(text, 1, at - 1), id |-> text[at + 1],
                           rid |-> text[at + 2], tail |-> SubSeq(text, at + 3, Len(text) - 1)]
  BY DEF XmlMessage
<1> HIDE DEF at
<1>13. XmlMessage(text) = [name |-> m.name, id |-> m.id, rid |-> m.rid, tail |-> m.tail]
  BY <1>7, <1>9, <1>11, <1>12 DEF s, u
<1> QED BY <1>1, <1>5, <1>13 DEF text

----------------------------------------------------------------------------
(* Frames.                                                                 *)

(* A message that send() takes, under FramingAssumption.                   *)
Sendable(format, m) ==
    /\ format \in {"bin", "xml"} /\ m \in Message
    /\ Shifted(m.id)[IdSize] = 0 /\ Shifted(m.rid)[IdSize] = 0
    /\ format = "bin" => HeaderLength(m) <= 255
    /\ format = "xml" => /\ TagEnd \notin Range(m.name)
                         /\ MarkerAt("xml", Encoded("xml", m)) = Len(XmlText(m)) + 1

Body(format, m) == IF format = "bin" THEN Escape(BinText(m)) ELSE XmlText(m)
Symbols(format) == IF format = "bin" THEN Byte ELSE Nat

(* A frame is a text and behind it the first marker.                       *)
LEMMA EncodedForm ==
  ASSUME NEW format, NEW m, Sendable(format, m)
  PROVE  /\ Encoded(format, m) = Body(format, m) \o Marker(format)
         /\ Body(format, m) \in Seq(Symbols(format)) /\ Len(Body(format, m)) \in Nat
         /\ Encoded(format, m) \in Seq(Symbols(format))
         /\ Body(format, m) \in Seq(Nat) /\ Encoded(format, m) \in Seq(Nat)
         /\ Len(Encoded(format, m)) = Len(Body(format, m)) + Len(Marker(format))
         /\ MarkerAt(format, Encoded(format, m)) = Len(Body(format, m)) + 1
         /\ Len(Marker(format)) \in {1, 4}
<1> DEFINE b == Body(format, m)
           k == Marker(format)
           B == Symbols(format)
<1>1. format \in {"bin", "xml"} /\ m \in Message
  BY DEF Sendable
<1>2. Encoded(format, m) = b \o k
  BY DEF Encoded, Body
<1>3. Byte \subseteq Nat /\ Byte \subseteq B /\ B \subseteq Nat
  BY <1>1 DEF Byte, Symbols
<1>4. k \in Seq(B) /\ Len(k) \in {1, 4} /\ Len(k) \in Nat
  <2>1. k \in Seq(Byte) /\ Len(k) \in {1, 4}
    BY <1>1, MarkerForm
  <2>2. k \in Seq(B)
    BY <1>3, <2>1, SeqMonotonic
  <2> QED BY <2>1, <2>2
<1>5. b \in Seq(B) /\ MarkerAt(format, b \o k) = Len(b) + 1
  <2>1. CASE format = "bin"
    <3>1. BinText(m) \in Seq(Byte)
      <4>1. HeaderLength(m) <= 255
        BY <2>1 DEF Sendable
      <4> QED BY <1>1, <4>1, BinTextForm
    <3>2. b = Escape(BinText(m)) /\ k = <<END>> /\ B = Byte
      BY <2>1 DEF Body, Marker, Symbols
    <3>3. Escape(BinText(m)) \in Seq(Byte)
      BY <3>1, EscapeForm
    <3>4. MarkerAt("bin", Escape(BinText(m)) \o <<END>>) = Len(Escape(BinText(m))) + 1
      BY <3>1, BinMarker
    <3> HIDE DEF b, k, B
    <3> QED BY <2>1, <3>2, <3>3, <3>4
  <2>2. CASE format = "xml"
    <3>1. /\ TagEnd \notin Range(m.name)
          /\ MarkerAt("xml", Encoded("xml", m)) = Len(XmlText(m)) + 1
      BY <2>2 DEF Sendable
    <3>2. b = XmlText(m) /\ B = Nat
      BY <2>2 DEF Body, Symbols
    <3>3. XmlText(m) \in Seq(Nat)
      BY <1>1, <3>1, XmlInverts
    <3> HIDE DEF b, k, B
    <3> QED BY <1>2, <2>2, <3>1, <3>2, <3>3
  <2> QED BY <1>1, <2>1, <2>2
<1> HIDE DEF b, k, B
<1>6. b \o k \in Seq(B) /\ Len(b \o k) = Len(b) + Len(k) /\ Len(b) \in Nat
  BY <1>4, <1>5, ConcatProperties, LenProperties
<1>7. b \in Seq(Nat) /\ b \o k \in Seq(Nat)
  BY <1>3, <1>5, <1>6, SeqMonotonic
<1> QED BY <1>2, <1>4, <1>5, <1>6, <1>7 DEF b, k, B

(* What the decoder makes of the frame of one message.                     *)
CanRead(format, m) == m.name \in Names /\ (format = "bin" => HeaderLength(m) < 128)

(* perform_decode() restores the message that perform_encode() was given,  *)
(* or nothing: its name is not known, or its header is too long to read.   *)
THEOREM DecodeInverts ==
  ASSUME NEW format, NEW m, Sendable(format, m)
  PROVE  Decoded(format, Encoded(format, m)) = IF CanRead(format, m) THEN {m} ELSE {}
<1> DEFINE frame == Encoded(format, m)
           b == Body(format, m)
           k == Marker(format)
<1>1. format \in {"bin", "xml"} /\ m \in Message
  BY DEF Sendable
<1>2. /\ frame = b \o k /\ b \in Seq(Nat) /\ k \in Seq(Nat) /\ frame \in Seq(Nat)
      /\ Len(frame) = Len(b) + Len(k) /\ Len(b) \in Nat /\ Len(k) \in Nat
  <2>1. k \in Seq(Byte) /\ Byte \subseteq Nat
    BY <1>1, MarkerForm DEF Byte
  <2>2. k \in Seq(Nat) /\ Len(k) \in Nat
    BY <2>1, SeqMonotonic, LenProperties
  <2>3. /\ Encoded(format, m) = Body(format, m) \o Marker(format)
        /\ Body(format, m) \in Seq(Nat) /\ Encoded(format, m) \in Seq(Nat)
        /\ Len(Encoded(format, m)) = Len(Body(format, m)) + Len(Marker(format))
        /\ Len(Body(format, m)) \in Nat
    BY EncodedForm
  <2> QED BY <2>2, <2>3
<1>3. SubSeq(frame, 1, Len(frame) - Len(k)) = b
  <2> HIDE DEF b, k, frame
  <2>1. <<>> \in Seq(Nat) /\ Len(<<>>) = 0
    BY EmptySeq
  <2>2. SubSeq((<<>> \o b) \o k, Len(<<>>) + 1, Len(<<>>) + Len(b)) = b
    BY <1>2, <2>1, Middle
  <2>3. <<>> \o b = b
    BY <1>2, ConcatEmptySeq
  <2>4. 0 + 1 = 1 /\ 0 + Len(b) = Len(b) /\ Len(frame) - Len(k) = Len(b)
    BY <1>2
  <2> QED BY <1>2, <2>1, <2>2, <2>3, <2>4
<1> HIDE DEF b, k, frame
<1>4. CASE format = "xml"
  <2>1. TagEnd \notin Range(m.name)
    BY <1>4 DEF Sendable
  <2>2. Text(format, frame) = {b}
    BY <1>3, <1>4 DEF Text, k
  <2>3. XmlMessage(b) = m
    <3>1. b = XmlText(m)
      BY <1>4 DEF b, Body
    <3> QED BY <1>1, <2>1, <3>1, XmlInverts
  <2>4. Decoded(format, frame) = {x \in {XmlMessage(text) : text \in {b}} : x.name \in Names}
    BY <1>4, <2>2 DEF Decoded
  <2>5. Decoded(format, frame) = IF CanRead(format, m) THEN {m} ELSE {}
    BY <1>4, <2>3, <2>4 DEF CanRead
  <2> QED BY <2>5 DEF frame
<1>5. CASE format = "bin"
  <2> DEFINE text == BinText(m)
  <2>1. /\ HeaderLength(m) <= 255 /\ Shifted(m.id)[IdSize] = 0 /\ Shifted(m.rid)[IdSize] = 0
    BY <1>5 DEF Sendable
  <2>2. text \in Seq(Byte)
    BY <1>1, <2>1, BinTextForm
  <2>3. b = Escape(text)
    BY <1>5 DEF b, Body
  <2>4. Unescapable(b) /\ Unescape(b) = text
    <3>1. Unescapable(Escape(text)) /\ Unescape(Escape(text)) = text
      BY <2>2, EscapeInverts
    <3> HIDE DEF text
    <3> QED BY ONLY <2>3, <3>1
  <2>5. /\ BinReadable(text) <=> HeaderLength(m) < 128
        /\ BinMessage(text) = m
    BY <1>1, <2>1, BinInverts
  <2> HIDE DEF text
  <2>6. Text(format, frame) = {text}
    BY <1>3, <1>5, <2>4 DEF Text, k
  <2>7. Decoded(format, frame) =
           {x \in {BinMessage(t) : t \in {t \in {text} : BinReadable(t)}} : x.name \in Names}
    BY <1>5, <2>6 DEF Decoded
  <2>8. Decoded(format, frame) = IF CanRead(format, m) THEN {m} ELSE {}
    BY <1>5, <2>5, <2>7 DEF CanRead
  <2> QED BY <2>8 DEF frame
<1> QED BY <1>1, <1>4, <1>5

(* A set of no more than one element as a sequence.                        *)
LEMMA OneToSeq ==
  /\ SetToSeq({}) = <<>>
  /\ \A x : SetToSeq({x}) = <<x>>
<1>1. Cardinality({}) = 0 /\ 1..0 = {}
  BY FS_EmptySet
<1>2. SetToSeq({}) = CHOOSE f \in [{} -> {}] : IsInjective(f)
  BY <1>1 DEF SetToSeq
<1>3. \A f \in [{} -> {}] : f = <<>> /\ IsInjective(f)
  BY DEF IsInjective
<1>4. <<>> \in [{} -> {}]
  OBVIOUS
<1>5. SetToSeq({}) = <<>>
  BY <1>2, <1>3, <1>4
<1>6. ASSUME NEW x PROVE SetToSeq({x}) = <<x>>
  <2>1. Cardinality({x}) = 1 /\ 1..1 = {1}
    BY FS_Singleton
  <2>2. SetToSeq({x}) = CHOOSE f \in [{1} -> {x}] : IsInjective(f)
    BY <2>1 DEF SetToSeq
  <2>3. \A f \in [{1} -> {x}] : f = <<x>> /\ IsInjective(f)
    BY DEF IsInjective
  <2>4. <<x>> \in [{1} -> {x}]
    OBVIOUS
  <2> QED BY <2>2, <2>3, <2>4
<1> QED BY <1>5, <1>6

----------------------------------------------------------------------------
(* The stream.                                                             *)

(* The frames of the messages that were sent and not decoded, whole, are   *)
(* what lies in the buffer and on the wire: u[i] are those from the one    *)
(* after the first i on.                                                   *)
Unread(u) ==
    /\ u \in [taken..Len(sent) -> Seq(Nat)]
    /\ u[Len(sent)] = <<>>
    /\ \A i \in taken..(Len(sent) - 1) :
          u[i] = Encoded(plan.format, sent[i + 1]) \o u[i + 1]
    /\ u[taken] = buffer \o wire

(* Every message that was sent is one that send() takes.                   *)
AllSendable == \A i \in 1..Len(sent) : Sendable(plan.format, sent[i])

Inv == TypeOK /\ AllSendable /\ \E u : Unread(u)

(* A message of a plan is one that send() takes, unless it throws.         *)
LEMMA PlanFacts ==
  ASSUME NEW p \in Plans, NEW i \in 1..Len(p.messages)
  PROVE  /\ p.format \in {"bin", "xml"} /\ p.messages[i] \in Messages
         /\ p.messages[i] \in Message
         /\ p.format = "bin" => HeaderLength(p.messages[i]) \in Nat
         /\ ~(p.format = "bin" /\ HeaderLength(p.messages[i]) > 255) =>
               Sendable(p.format, p.messages[i])
<1> DEFINE m == p.messages[i]
<1>1. p.messages \in Seq(Message) /\ p.format \in {"bin", "xml"}
  BY FramingAssumption
<1>2. DOMAIN p.messages = 1..Len(p.messages) /\ m \in Message
  BY <1>1, LenProperties, ElementOfSeq
<1>3. m \in Range(p.messages)
  BY <1>2 DEF Range
<1>4. m \in Messages
  BY <1>3 DEF Messages
<1>5. /\ Shifted(m.id)[IdSize] = 0 /\ Shifted(m.rid)[IdSize] = 0
      /\ p.format = "xml" => /\ TagEnd \notin Range(m.name)
                             /\ MarkerAt("xml", Encoded("xml", m)) = Len(XmlText(m)) + 1
  BY <1>3, FramingAssumption
<1> HIDE DEF m
<1>6. HeaderLength(m) \in Nat
  BY <1>2, HeaderAdds
<1>7. ~(p.format = "bin" /\ HeaderLength(m) > 255) => (p.format = "bin" => HeaderLength(m) <= 255)
  BY <1>6
<1>8. ~(p.format = "bin" /\ HeaderLength(m) > 255) => Sendable(p.format, m)
  BY <1>1, <1>2, <1>5, <1>7 DEF Sendable
<1> QED BY <1>1, <1>2, <1>4, <1>6, <1>8 DEF m

(* At first nothing is unread.                                             *)
LEMMA InitInv ==
  ASSUME Init
  PROVE  Inv
<1>1. plan \in Plans /\ plan.messages \in Seq(Message) /\ Len(plan.messages) \in Nat
  BY FramingAssumption, LenProperties DEF Init
<1>2. tried = 0 /\ taken = 0 /\ sent = <<>> /\ got = <<>> /\ wire = <<>> /\ buffer = <<>>
  BY DEF Init
<1>3. Len(<<>>) = 0 /\ (\A S : <<>> \in Seq(S)) /\ 0..0 = {0} /\ 1..0 = {} /\ 0..(0 - 1) = {}
  BY EmptySeq
<1>4. TypeOK
  BY <1>1, <1>2, <1>3 DEF TypeOK
<1>5. AllSendable
  BY <1>2, <1>3 DEF AllSendable
<1>6. <<>> \o <<>> = <<>>
  BY <1>3, ConcatEmptySeq
<1> DEFINE u == [i \in {0} |-> <<>>]
<1>7. u \in [{0} -> Seq(Nat)] /\ u[0] = <<>>
  BY <1>3
<1> HIDE DEF u
<1>8. Unread(u)
  BY <1>2, <1>3, <1>6, <1>7 DEF Unread
<1> QED BY <1>4, <1>5, <1>8 DEF Inv

(* A message that goes out is appended to all that is unread.              *)
LEMMA StepSendMessage ==
  ASSUME Inv, SendMessage
  PROVE  /\ Inv'
         /\ UNCHANGED <<sent, taken, got>> \/ \E m \in Messages : Channel!Send(m)
<1> DEFINE m == plan.messages[tried + 1]
           n == Len(sent)
           format == plan.format
           f == Encoded(format, m)
<1>1. /\ plan \in Plans /\ tried \in 0..Len(plan.messages) /\ tried < Len(plan.messages)
      /\ tried' = tried + 1 /\ UNCHANGED <<plan, buffer, taken, got>>
      /\ sent \in Seq(Message) /\ n <= tried /\ n \in Nat
      /\ wire \in Seq(Symbol) /\ buffer \in Seq(Symbol)
      /\ taken \in 0..n /\ got \in Seq(Message) /\ Len(got) <= taken
  BY LenProperties DEF Inv, TypeOK, SendMessage
<1>2. Len(plan.messages) \in Nat /\ tried + 1 \in 1..Len(plan.messages) /\ tried \in Nat
  <2>1. Len(plan.messages) \in Nat
    BY <1>1, FramingAssumption, LenProperties
  <2> QED BY <1>1, <2>1
<1>3. /\ m \in Messages /\ m \in Message /\ format \in {"bin", "xml"}
      /\ ~(format = "bin" /\ HeaderLength(m) > 255) => Sendable(format, m)
  BY <1>1, <1>2, PlanFacts
<1>4. \/ sent' = sent /\ wire' = wire
      \/ Sendable(format, m) /\ sent' = Append(sent, m) /\ wire' = wire \o f
  BY <1>1, <1>3 DEF SendMessage
<1>5. PICK u : Unread(u)
  BY DEF Inv
<1>6. Symbol' = Symbol
  BY <1>1 DEF Symbol
<1>7. CASE sent' = sent /\ wire' = wire
  <2>1. TypeOK'
    BY <1>1, <1>2, <1>6, <1>7 DEF TypeOK
  <2>2. AllSendable'
    BY <1>1, <1>7 DEF Inv, AllSendable
  <2>3. Unread(u)'
    BY <1>1, <1>5, <1>7 DEF Unread
  <2> QED BY <1>1, <1>7, <2>1, <2>2, <2>3 DEF Inv
<1>8. CASE Sendable(format, m) /\ sent' = Append(sent, m) /\ wire' = wire \o f
  <2> HIDE DEF m, n, format, f
  <2>1. /\ sent' \in Seq(Message) /\ Len(sent') = n + 1
        /\ \A i \in 1..n : sent'[i] = sent[i]
        /\ sent'[n + 1] = m
    BY <1>1, <1>3, <1>8, AppendProperties DEF n
  <2>2. f \in Seq(Symbol) /\ f \in Seq(Nat)
    <3>1. f \in Seq(Symbols(format)) /\ f \in Seq(Nat)
      BY <1>8, EncodedForm DEF f
    <3>2. Symbols(format) = Symbol
      BY DEF Symbols, Symbol, format
    <3> QED BY <3>1, <3>2
  <2>3. wire' \in Seq(Symbol)
    BY <1>1, <1>8, <2>2, ConcatProperties
  <2>4. TypeOK'
    BY <1>1, <1>2, <1>6, <2>1, <2>3 DEF TypeOK
  <2>5. AllSendable'
    <3> SUFFICES ASSUME NEW i \in 1..(n + 1) PROVE Sendable(format, sent'[i])
      BY <1>1, <2>1 DEF AllSendable, format
    <3>1. CASE i = n + 1
      BY <1>8, <2>1, <3>1
    <3>2. CASE i # n + 1
      <4>1. i \in 1..n
        BY <1>1, <3>2
      <4> QED BY <2>1, <4>1 DEF Inv, AllSendable, format, n
    <3> QED BY <3>1, <3>2
  <2>6. Symbol \subseteq Nat
    BY DEF Symbol, Byte
  <2>7. wire \in Seq(Nat) /\ buffer \in Seq(Nat)
    BY <1>1, <2>6, SeqMonotonic
  <2>8. /\ u \in [taken..n -> Seq(Nat)] /\ u[n] = <<>>
        /\ \A i \in taken..(n - 1) : u[i] = Encoded(format, sent[i + 1]) \o u[i + 1]
        /\ u[taken] = buffer \o wire
    BY <1>5 DEF Unread, n, format
  <2> DEFINE v == [i \in taken..(n + 1) |-> IF i = n + 1 THEN <<>> ELSE u[i] \o f]
  <2>9. taken \in Nat /\ \A i \in taken..(n + 1) : i = n + 1 \/ i \in taken..n
    BY <1>1
  <2>10. v \in [taken..(n + 1) -> Seq(Nat)]
    <3>1. \A i \in taken..n : u[i] \o f \in Seq(Nat)
      BY <2>2, <2>8, ConcatProperties
    <3>2. <<>> \in Seq(Nat)
      BY EmptySeq
    <3> QED BY <2>9, <3>1, <3>2
  <2>11. v[n + 1] = <<>> /\ \A i \in taken..n : v[i] = u[i] \o f
    <3>1. n + 1 \in taken..(n + 1) /\ \A i \in taken..n : i \in taken..(n + 1) /\ i # n + 1
      BY <1>1, <2>9
    <3> QED BY <3>1
  <2> HIDE DEF v
  <2>12. ASSUME NEW i \in taken..n
         PROVE  v[i] = Encoded(format, sent'[i + 1]) \o v[i + 1]
    <3>1. CASE i = n
      <4>1. v[i] = <<>> \o f /\ sent'[i + 1] = m /\ v[i + 1] = <<>>
        BY <2>1, <2>8, <2>11, <3>1
      <4>2. <<>> \o f = f /\ f \o <<>> = f
        BY <2>2, ConcatEmptySeq
      <4> QED BY <4>1, <4>2 DEF f
    <3>2. CASE i # n
      <4>1. i \in taken..(n - 1) /\ i + 1 \in taken..n /\ i + 1 \in 1..n
        BY <1>1, <2>9, <3>2
      <4> DEFINE e == Encoded(format, sent[i + 1])
      <4>2. sent'[i + 1] = sent[i + 1]
        BY <2>1, <4>1
      <4>3. e \in Seq(Nat)
        <5>1. Sendable(format, sent[i + 1])
          BY <4>1 DEF Inv, AllSendable, format, n
        <5> QED BY <5>1, EncodedForm
      <4>4. u[i] = e \o u[i + 1]
        BY <2>8, <4>1
      <4> HIDE DEF e
      <4>5. Associate(e, u[i + 1], f)
        <5>1. u[i + 1] \in Seq(Nat)
          BY <2>8, <4>1
        <5> QED BY <2>2, <4>3, <5>1, AllAssociate, Zenon
      <4>6. v[i] = u[i] \o f /\ v[i + 1] = u[i + 1] \o f
        BY <2>11, <4>1
      <4>7. v[i] = e \o v[i + 1]
        BY ONLY <4>4, <4>5, <4>6 DEF Associate
      <4> QED BY <4>2, <4>7 DEF e
    <3> QED BY <3>1, <3>2
  <2>13. v[taken] = buffer' \o wire'
    <3>1. Associate(buffer, wire, f)
      BY <2>2, <2>7, AllAssociate, Zenon
    <3>2. taken \in taken..n
      BY <1>1
    <3> QED BY <1>1, <1>8, <2>8, <2>11, <3>1, <3>2 DEF Associate
  <2>14. (n + 1) - 1 = n /\ taken' = taken /\ plan' = plan
    BY <1>1
  <2>15. PICK w : w = v
    OBVIOUS
  <2>18. w[n + 1] = <<>> /\ w[taken] = buffer' \o wire' /\ w \in [taken..(n + 1) -> Seq(Nat)]
    BY <2>10, <2>11, <2>13, <2>15
  <2>19. \A i \in taken'..((n + 1) - 1) :
            w[i] = Encoded(plan'.format, sent'[i + 1]) \o w[i + 1]
    BY <2>12, <2>14, <2>15 DEF format
  <2>20. Unread(w)'
    BY <2>1, <2>14, <2>18, <2>19 DEF Unread
  <2>16. Inv'
    BY <2>4, <2>5, <2>20 DEF Inv
  <2>17. Channel!Send(m)
    BY <1>1, <1>8 DEF Channel!Send
  <2> QED BY <1>3, <2>16, <2>17
<1> QED BY <1>4, <1>7, <1>8

(* Reading moves bytes from the wire to the buffer.                        *)
LEMMA StepRead ==
  ASSUME Inv, Read
  PROVE  Inv' /\ UNCHANGED <<sent, taken, got>>
<1>1. PICK n \in 1..Len(wire) : /\ buffer' = buffer \o SubSeq(wire, 1, n)
                                /\ wire' = SubSeq(wire, n + 1, Len(wire))
  BY DEF Read
<1>2. /\ UNCHANGED <<plan, tried, sent, taken, got>>
      /\ wire \in Seq(Symbol) /\ buffer \in Seq(Symbol) /\ Len(wire) \in Nat
  BY LenProperties DEF Read, Inv, TypeOK
<1> DEFINE a == SubSeq(wire, 1, n)
           b == SubSeq(wire, n + 1, Len(wire))
<1>3. a \in Seq(Symbol) /\ b \in Seq(Symbol) /\ a \o b = wire
  <2>1. \A i \in 1..Len(wire) : wire[i] \in Symbol
    BY <1>2, ElementOfSeq
  <2>2. a \in Seq(Symbol)
    <3>1. 1 \in Int /\ n \in Int /\ \A i \in 1..n : wire[i] \in Symbol
      BY <1>2, <2>1
    <3> QED BY <3>1, SubSeqProperties
  <2>3. b \in Seq(Symbol)
    <3>1. n + 1 \in Int /\ Len(wire) \in Int /\ \A i \in (n + 1)..Len(wire) : wire[i] \in Symbol
      BY <1>2, <2>1
    <3> QED BY <3>1, SubSeqProperties
  <2>4. SubSeq(wire, 1, n) \o SubSeq(wire, n + 1, Len(wire)) = SubSeq(wire, 1, Len(wire))
    <3>1. 1 \in 1..(Len(wire) + 1) /\ n \in (1 - 1)..Len(wire) /\ Len(wire) \in n..Len(wire)
      BY <1>2
    <3> QED BY <1>2, <3>1, ConcatAdjacentSubSeq
  <2>5. SubSeq(wire, 1, Len(wire)) = wire
    BY <1>2, SubSeqFull
  <2> QED BY <2>2, <2>3, <2>4, <2>5
<1> HIDE DEF a, b
<1>4. buffer' = buffer \o a /\ wire' = b
  BY <1>1 DEF a, b
<1>5. buffer' \in Seq(Symbol) /\ wire' \in Seq(Symbol)
  BY <1>2, <1>3, <1>4, ConcatProperties
<1>6. buffer' \o wire' = buffer \o wire
  <2>1. Associate(buffer, a, b)
    BY <1>2, <1>3, AllAssociate, Zenon
  <2> QED BY ONLY <1>3, <1>4, <2>1 DEF Associate
<1>7. TypeOK'
  <2>1. Symbol' = Symbol
    BY <1>2 DEF Symbol
  <2> QED BY <1>2, <1>5, <2>1 DEF Inv, TypeOK
<1>8. AllSendable'
  BY <1>2 DEF Inv, AllSendable
<1>9. PICK u : Unread(u)
  BY DEF Inv
<1>10. Unread(u)'
  BY <1>2, <1>6, <1>9 DEF Unread
<1> QED BY <1>2, <1>7, <1>8, <1>10 DEF Inv

(* The frame in front of a buffer is that of the first message that was    *)
(* not decoded, and taking it away leaves those of the others.             *)
LEMMA FrameInFront ==
  ASSUME Inv, NEW frame \in Frame(plan.format, buffer), NEW u, Unread(u)
  PROVE  /\ taken < Len(sent) /\ frame = Encoded(plan.format, sent[taken + 1])
         /\ SubSeq(buffer, Len(frame) + 1, Len(buffer)) \in Seq(Symbol)
         /\ SubSeq(buffer, Len(frame) + 1, Len(buffer)) \o wire = u[taken + 1]
<1> DEFINE format == plan.format
           n == Len(sent)
           m == sent[taken + 1]
           e == Encoded(format, m)
           L == Len(Marker(format))
           at == MarkerAt(format, buffer)
           left == SubSeq(buffer, Len(frame) + 1, Len(buffer))
<1>1. /\ plan \in Plans /\ n \in Nat /\ taken \in 0..n
      /\ wire \in Seq(Symbol) /\ buffer \in Seq(Symbol) /\ Len(buffer) \in Nat
  BY LenProperties DEF Inv, TypeOK
<1>2. format \in {"bin", "xml"}
  BY <1>1, FramingAssumption
<1>3. wire \in Seq(Nat) /\ buffer \in Seq(Nat)
  <2>1. Symbol \subseteq Nat
    BY DEF Symbol, Byte
  <2> QED BY <1>1, <2>1, SeqMonotonic
<1>4. at # 0 /\ frame = SubSeq(buffer, 1, at + L - 1)
  BY DEF Frame
<1>5. /\ u \in [taken..n -> Seq(Nat)] /\ u[n] = <<>> /\ u[taken] = buffer \o wire
      /\ \A i \in taken..(n - 1) : u[i] = Encoded(format, sent[i + 1]) \o u[i + 1]
  BY DEF Unread
<1>6. taken < n
  <2> SUFFICES ASSUME taken = n PROVE FALSE
    BY <1>1
  <2>1. buffer \o wire = <<>>
    BY <1>5
  <2>2. buffer = <<>>
    BY <1>3, <2>1, ConcatEqualIffEmpty
  <2>3. Begins(format, buffer) = {}
    <3>1. Len(buffer) = 0
      BY <2>2, EmptySeq
    <3>2. L \in {1, 4}
      BY <1>2, MarkerForm
    <3>3. 1..(0 + 1 - L) = {}
      <4> HIDE DEF L
      <4> QED BY <3>2
    <3> QED BY <3>1, <3>3 DEF Begins
  <2>4. at = 0
    <3>1. at = FirstIn(Begins(format, buffer))
      BY <1>2, <1>3, MarkerAtFirst
    <3> QED BY <2>3, <3>1 DEF FirstIn
  <2> QED BY <1>4, <2>4
<1>7. Sendable(format, m) /\ taken \in taken..(n - 1) /\ taken + 1 \in taken..n
  <2>1. taken + 1 \in 1..n /\ taken \in taken..(n - 1) /\ taken + 1 \in taken..n
    BY <1>1, <1>6
  <2> QED BY <2>1 DEF Inv, AllSendable
<1>8. /\ e \in Seq(Nat) /\ Len(e) \in Nat /\ L \in {1, 4}
      /\ MarkerAt(format, e) = Len(e) + 1 - L /\ MarkerAt(format, e) # 0
  <2> DEFINE b == Body(format, m)
  <2>1. /\ e \in Seq(Nat) /\ Len(b) \in Nat /\ L \in {1, 4}
        /\ Len(e) = Len(b) + L /\ MarkerAt(format, e) = Len(b) + 1
    BY <1>7, EncodedForm
  <2> HIDE DEF b, e, L
  <2> QED BY <2>1
<1>9. u[taken + 1] \in Seq(Nat) /\ buffer \o wire = e \o u[taken + 1]
  BY <1>5, <1>7
<1>10. at = MarkerAt(format, e) /\ Len(e) <= Len(buffer)
  <2> HIDE DEF e, format
  <2> QED BY <1>2, <1>3, <1>4, <1>8, <1>9, FirstEnds
<1>11. frame = SubSeq(buffer, 1, Len(e))
  <2> HIDE DEF e, L, at
  <2>1. at + L - 1 = Len(e)
    BY <1>8, <1>10
  <2> QED BY <1>4, <2>1
<1> HIDE DEF e, L, at, left
<1> DEFINE k == Len(e)
<1>12. /\ SubSeq(buffer, 1, k) \in Seq(Nat) /\ Len(SubSeq(buffer, 1, k)) = k
       /\ \A i \in 1..k : SubSeq(buffer, 1, k)[i] = buffer[i]
  <2>1. \A i \in 1..k : i \in 1..Len(buffer)
    BY <1>1, <1>8, <1>10
  <2>2. \A i \in 1..k : buffer[i] \in Nat
    BY <1>3, <2>1, ElementOfSeq
  <2>3. 1 \in Int /\ k \in Int /\ k - 1 + 1 = k
    BY <1>8
  <2>4. /\ SubSeq(buffer, 1, k) \in Seq(Nat)
        /\ Len(SubSeq(buffer, 1, k)) = IF 1 <= k THEN k - 1 + 1 ELSE 0
        /\ \A i \in 1..(k - 1 + 1) : SubSeq(buffer, 1, k)[i] = buffer[1 + i - 1]
    BY <2>2, <2>3, SubSeqProperties
  <2>5. \A i \in 1..k : 1 + i - 1 = i
    BY <1>8
  <2> HIDE DEF k
  <2>6. Len(SubSeq(buffer, 1, k)) = k
    BY <1>8, <2>3, <2>4 DEF k
  <2> QED BY <2>3, <2>4, <2>5, <2>6
<1>13. ASSUME NEW i \in 1..k PROVE buffer[i] = e[i]
  <2>1. /\ Len(wire) \in Nat /\ Len(u[taken + 1]) \in Nat
    BY <1>3, <1>9, LenProperties
  <2>2. /\ i \in 1..(Len(buffer) + Len(wire)) /\ i <= Len(buffer)
        /\ i \in 1..(Len(e) + Len(u[taken + 1])) /\ i <= Len(e)
    BY <1>1, <1>8, <1>10, <2>1
  <2>3. (buffer \o wire)[i] = buffer[i]
    BY <1>3, <2>2, ConcatProperties
  <2>4. (e \o u[taken + 1])[i] = e[i]
    BY <1>8, <1>9, <2>2, ConcatProperties
  <2> QED BY <1>9, <2>3, <2>4
<1>14. frame = e
  <2>1. frame \in Seq(Nat) /\ Len(frame) = Len(e) /\ \A i \in 1..Len(frame) : frame[i] = e[i]
    <3> HIDE DEF k
    <3>1. frame \in Seq(Nat) /\ Len(frame) = k
      BY <1>11, <1>12 DEF k
    <3>2. \A i \in 1..k : frame[i] = e[i]
      BY <1>11, <1>12, <1>13 DEF k
    <3> QED BY <3>1, <3>2 DEF k
  <2> QED BY <1>8, <2>1, SeqEqual
<1>15. left = SubSeq(buffer, k + 1, Len(buffer))
  BY <1>14 DEF left
<1> HIDE DEF k
<1>16. k \in Nat /\ k <= Len(buffer)
  BY <1>8, <1>10 DEF k
<1>17. left \in Seq(Symbol)
  <2>1. \A i \in (k + 1)..Len(buffer) : i \in 1..Len(buffer)
    BY <1>16
  <2>2. \A i \in (k + 1)..Len(buffer) : buffer[i] \in Symbol
    BY <1>1, <2>1, ElementOfSeq
  <2>3. k + 1 \in Int /\ Len(buffer) \in Int
    BY <1>1, <1>16
  <2> QED BY <1>15, <2>2, <2>3, SubSeqProperties
<1>18. left \in Seq(Nat)
  <2>1. Symbol \subseteq Nat
    BY DEF Symbol, Byte
  <2> QED BY <1>17, <2>1, SeqMonotonic
<1>19. buffer = e \o left
  <2>1. SubSeq(buffer, 1, k) \o SubSeq(buffer, k + 1, Len(buffer)) = SubSeq(buffer, 1, Len(buffer))
    <3>1. /\ 1 \in 1..(Len(buffer) + 1) /\ k \in (1 - 1)..Len(buffer)
          /\ Len(buffer) \in k..Len(buffer)
      BY <1>1, <1>16
    <3> QED BY <1>3, <3>1, ConcatAdjacentSubSeq
  <2>2. SubSeq(buffer, 1, Len(buffer)) = buffer
    BY <1>3, SubSeqFull
  <2>3. SubSeq(buffer, 1, k) = e
    BY <1>11, <1>14 DEF k
  <2> QED BY <1>15, <2>1, <2>2, <2>3
<1>20. left \o wire = u[taken + 1]
  <2>1. Associate(e, left, wire)
    BY <1>3, <1>8, <1>18, AllAssociate, Zenon
  <2>2. e \o (left \o wire) = e \o u[taken + 1]
    BY ONLY <1>9, <1>19, <2>1 DEF Associate
  <2>3. left \o wire \in Seq(Nat)
    BY <1>3, <1>18, ConcatProperties
  <2> QED BY <1>8, <1>9, <2>2, <2>3, ConcatSimplifications
<1> QED BY <1>6, <1>14, <1>17, <1>20 DEF e, left

(* A frame that is decoded is a message delivered, or given up.            *)
LEMMA StepPerformDecode ==
  ASSUME Inv, PerformDecode
  PROVE  Inv' /\ (Channel!Deliver \/ Channel!GiveUp)
<1> DEFINE format == plan.format
           n == Len(sent)
           m == sent[taken + 1]
<1>1. PICK frame \in Frame(format, buffer) :
         /\ buffer' = SubSeq(buffer, Len(frame) + 1, Len(buffer))
         /\ got' = got \o SetToSeq(Decoded(format, frame))
  BY DEF PerformDecode
<1>2. taken' = taken + 1 /\ UNCHANGED <<plan, tried, sent, wire>>
  BY DEF PerformDecode
<1>3. PICK u : Unread(u)
  BY DEF Inv
<1>4. /\ taken < n /\ frame = Encoded(format, m)
      /\ buffer' \in Seq(Symbol) /\ buffer' \o wire = u[taken + 1]
  BY <1>1, <1>3, FrameInFront
<1>5. /\ n \in Nat /\ taken \in 0..n /\ taken + 1 \in 1..n
      /\ got \in Seq(Message) /\ Len(got) \in Nat /\ Len(got) <= taken
  <2>1. /\ n \in Nat /\ taken \in 0..n
        /\ got \in Seq(Message) /\ Len(got) \in Nat /\ Len(got) <= taken
    BY LenProperties DEF Inv, TypeOK
  <2> QED BY <1>4, <2>1
<1>6. Sendable(format, m) /\ m \in Message
  BY <1>5 DEF Inv, AllSendable, Sendable
<1> HIDE DEF m
<1>7. Decoded(format, frame) = IF CanRead(format, m) THEN {m} ELSE {}
  BY <1>4, <1>6, DecodeInverts
<1>8. /\ got' \in Seq(Message) /\ Len(got') <= taken'
      /\ Channel!Deliver \/ Channel!GiveUp
  <2>1. CASE CanRead(format, m)
    <3>1. got' = got \o <<m>>
      BY <1>1, <1>7, <2>1, OneToSeq
    <3>2. got' = Append(got, m)
      BY <1>5, <1>6, <3>1, AppendIsConcat
    <3>3. got' \in Seq(Message) /\ Len(got') = Len(got) + 1
      BY <1>5, <1>6, <3>2, AppendProperties
    <3>4. Channel!Deliver
      BY <1>2, <1>4, <3>2 DEF Channel!Deliver, m
    <3>5. Len(got') <= taken'
      BY <1>2, <1>5, <3>3
    <3> QED BY <3>3, <3>4, <3>5
  <2>2. CASE ~CanRead(format, m)
    <3>1. got' = got \o <<>>
      BY <1>1, <1>7, <2>2, OneToSeq
    <3>2. got' = got
      BY <1>5, <3>1, ConcatEmptySeq
    <3>3. m \notin Readable
      BY <2>2 DEF Readable, CanRead
    <3>4. Channel!GiveUp
      BY <1>2, <1>4, <3>2, <3>3 DEF Channel!GiveUp, m
    <3>5. Len(got') <= taken'
      BY <1>2, <1>5, <3>2
    <3> QED BY <1>5, <3>2, <3>4, <3>5
  <2> QED BY <2>1, <2>2
<1>9. TypeOK'
  <2>1. Symbol' = Symbol
    BY <1>2 DEF Symbol
  <2>2. taken' \in 0..Len(sent')
    BY <1>2, <1>5
  <2> QED BY <1>2, <1>4, <1>8, <2>1, <2>2 DEF Inv, TypeOK
<1>10. AllSendable'
  BY <1>2 DEF Inv, AllSendable
<1>11. /\ u \in [taken..n -> Seq(Nat)] /\ u[n] = <<>>
       /\ \A i \in taken..(n - 1) : u[i] = Encoded(format, sent[i + 1]) \o u[i + 1]
  BY <1>3 DEF Unread
<1>12. PICK w : w = [i \in (taken + 1)..n |-> u[i]]
  OBVIOUS
<1>13. \A i \in (taken + 1)..n : i \in taken..n /\ w[i] = u[i]
  BY <1>5, <1>12
<1>14. w \in [(taken + 1)..n -> Seq(Nat)]
  BY <1>11, <1>12, <1>13
<1>15. w[n] = <<>> /\ w[taken + 1] = buffer' \o wire'
  <2>1. n \in (taken + 1)..n /\ taken + 1 \in (taken + 1)..n
    BY <1>5
  <2> QED BY <1>2, <1>4, <1>11, <1>13, <2>1
<1>16. ASSUME NEW i \in (taken + 1)..(n - 1)
       PROVE  w[i] = Encoded(format, sent[i + 1]) \o w[i + 1]
  <2>1. i \in taken..(n - 1) /\ i \in (taken + 1)..n /\ i + 1 \in (taken + 1)..n
    BY <1>5
  <2> QED BY <1>11, <1>13, <2>1
<1>17. Unread(w)'
  BY <1>2, <1>14, <1>15, <1>16 DEF Unread
<1> QED BY <1>8, <1>9, <1>10, <1>17 DEF Inv

(* Synchronised defines by recursion what the invariant says is there.     *)
LEMMA InvSynchronised ==
  ASSUME Inv
  PROVE  Synchronised
<1> DEFINE n == Len(sent)
           Is(g) == g = [i \in taken..n |->
                           IF i = n THEN <<>>
                           ELSE Encoded(plan.format, sent[i + 1]) \o g[i + 1]]
           unread == CHOOSE g : Is(g)
<1>1. PICK u : Unread(u)
  BY DEF Inv
<1>2. /\ u \in [taken..n -> Seq(Nat)] /\ u[n] = <<>> /\ u[taken] = buffer \o wire
      /\ \A i \in taken..(n - 1) : u[i] = Encoded(plan.format, sent[i + 1]) \o u[i + 1]
  BY <1>1 DEF Unread
<1>3. taken \in Nat /\ n \in Nat /\ taken <= n
  BY LenProperties DEF Inv, TypeOK
<1> HIDE DEF n
<1>4. \A i \in taken..n : i = n \/ i \in taken..(n - 1)
  BY <1>3
<1>5. \A i \in taken..n :
         u[i] = IF i = n THEN <<>> ELSE Encoded(plan.format, sent[i + 1]) \o u[i + 1]
  BY <1>2, <1>4
<1>6. Is(u)
  BY <1>2, <1>5
<1>7. Is(unread)
  <2> HIDE DEF Is
  <2> QED BY <1>6
<1> HIDE DEF unread
<1>8. \A i \in taken..n :
         unread[i] = IF i = n THEN <<>>
                     ELSE Encoded(plan.format, sent[i + 1]) \o unread[i + 1]
  BY <1>7
<1> DEFINE T == {k \in Nat : k <= n - taken => unread[n - k] = u[n - k]}
<1>9. T = Nat
  <2>1. 0 \in T
    <3>1. n - 0 = n /\ n \in taken..n
      BY <1>3
    <3> QED BY <1>5, <1>8, <3>1
  <2>2. ASSUME NEW k \in Nat, k \in T PROVE k + 1 \in T
    <3> SUFFICES ASSUME k + 1 <= n - taken PROVE unread[n - (k + 1)] = u[n - (k + 1)]
      OBVIOUS
    <3>1. /\ n - (k + 1) \in taken..n /\ n - (k + 1) # n /\ (n - (k + 1)) + 1 = n - k
          /\ k <= n - taken
      BY <1>3
    <3>2. unread[n - k] = u[n - k]
      BY <2>2, <3>1
    <3> QED BY <1>5, <1>8, <3>1, <3>2
  <2> HIDE DEF T
  <2>3. T \in SUBSET Nat
    BY DEF T
  <2> QED BY ONLY <2>1, <2>2, <2>3, SetInduction
<1>10. unread[taken] = u[taken]
  <2>1. n - taken \in Nat /\ n - (n - taken) = taken
    BY <1>3
  <2> QED BY <1>9, <2>1
<1>11. buffer \o wire = unread[taken]
  BY <1>2, <1>10
<1> QED BY <1>11 DEF Synchronised, unread, n

(* Every step keeps the invariant.                                         *)
LEMMA NextInv ==
  ASSUME Inv, [Next]_vars
  PROVE  Inv'
<1>1. CASE UNCHANGED vars
  <2>1. TypeOK' /\ AllSendable'
    BY <1>1 DEF vars, Inv, TypeOK, AllSendable, Symbol
  <2>2. PICK u : Unread(u)
    BY DEF Inv
  <2>3. Unread(u)'
    BY <1>1, <2>2 DEF vars, Unread
  <2> QED BY <2>1, <2>3 DEF Inv
<1> QED BY <1>1, StepSendMessage, StepRead, StepPerformDecode DEF Next

(* An encoder and a decoder never lose their place, however the stream is  *)
(* cut, whatever the bytes of a message and whatever cannot be read: the   *)
(* bytes in the buffer and on the wire are those of whole frames.          *)
LEMMA InvHolds == Spec => []Inv
  BY InitInv, NextInv, PTL DEF Spec

(* What the variables hold.                                                *)
THEOREM TypeCorrect == Spec => []TypeOK
<1>1. Inv => TypeOK
  BY DEF Inv
<1> QED BY <1>1, InvHolds, PTL

(* The decoder begins where the last frame ended: what it has not decoded  *)
(* is whole frames.                                                        *)
THEOREM SynchronisedHolds == Spec => []Synchronised
  BY InvHolds, InvSynchronised, PTL

(* Encoder and decoder keep the promise of MessageChannel: each step sends *)
(* a message, delivers the next one, gives up one that cannot be read, or  *)
(* is none of the channel's business.                                      *)
THEOREM FramingImplementsChannel == Spec => Channel!Safety
<1>1. Init => Channel!Init
  BY DEF Init, Channel!Init
<1>2. Inv /\ [Next]_vars => [Channel!Next]_(Channel!channelVars)
  <2> SUFFICES ASSUME Inv, [Next]_vars
               PROVE  [Channel!Next]_(Channel!channelVars)
    OBVIOUS
  <2>1. CASE SendMessage
    BY <2>1, StepSendMessage DEF Channel!Next, Channel!channelVars
  <2>2. CASE Read
    BY <2>2, StepRead DEF Channel!channelVars
  <2>3. CASE PerformDecode
    BY <2>3, StepPerformDecode DEF Channel!Next
  <2>4. CASE UNCHANGED vars
    BY <2>4 DEF vars, Channel!channelVars
  <2> QED BY <2>1, <2>2, <2>3, <2>4 DEF Next
<1> QED BY <1>1, <1>2, InvHolds, PTL DEF Spec, Channel!Safety
=============================================================================
