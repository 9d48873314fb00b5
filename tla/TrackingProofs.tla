---------------------------- MODULE TrackingProofs ----------------------------
(***************************************************************************)
(* Proofs about the tracking of trains in Interlocking: the lists of a     *)
(* train and of its blocks, and the states of the blocks in a session, for *)
(* every layout, every number of trains and every number of sensors.       *)
(***************************************************************************)
EXTENDS InterlockingProofs, FiniteSetTheorems, FunctionTheorems

-----------------------------------------------------------------------------
(* Induction *)

(***************************************************************************)
(* Induction for a set of numbers.  Were n not in T, the successor would   *)
(* map the elements of T up to n into themselves, one to one and missing   *)
(* zero, which is impossible in a finite set.                              *)
(***************************************************************************)
LEMMA SetInduction ==
  ASSUME NEW T \in SUBSET Nat, 0 \in T, \A n \in T : n + 1 \in T
  PROVE  T = Nat
<1> SUFFICES ASSUME NEW n \in Nat, n \notin T PROVE FALSE
  OBVIOUS
<1> DEFINE S == T \cap (0 .. n)
           next == [i \in S |-> i + 1]
<1>1. IsFiniteSet(S)
  <2>1. IsFiniteSet(0 .. n)
    BY FS_Interval
  <2>2. S \in SUBSET (0 .. n)
    OBVIOUS
  <2> HIDE DEF S
  <2> QED
    BY <2>1, <2>2, FS_Subset
<1>2. next \in [S -> S] /\ \A i, j \in S : next[i] = next[j] => i = j
  OBVIOUS
<1>3. next \in Injection(S, S)
  BY <1>2, Fun_IsInj
<1>4. next \in Surjection(S, S)
  BY <1>1, <1>3, FS_Injection
<1>5. PICK i \in S : next[i] = 0
  BY <1>4, Fun_SurjectionProperties
<1> QED
  BY <1>5

(***************************************************************************)
(* A set of numbers that is not empty has a least element.                 *)
(***************************************************************************)
LEMMA LeastElement ==
  ASSUME NEW J \in SUBSET Nat, J # {}
  PROVE  \E j \in J : \A k \in J : j <= k
<1> SUFFICES ASSUME \A j \in J : \E k \in J : k < j PROVE FALSE
  OBVIOUS
<1> DEFINE T == {n \in Nat : \A k \in J : n <= k}
<1>1. T \in SUBSET Nat /\ 0 \in T
  OBVIOUS
<1>2. \A n \in T : n + 1 \in T
  OBVIOUS
<1>3. T = Nat
  <2> HIDE DEF T
  <2> QED
    BY <1>1, <1>2, SetInduction
<1>4. PICK j : j \in J
  OBVIOUS
<1>5. j + 1 \in T
  BY <1>3, <1>4
<1> QED
  BY <1>4, <1>5

-----------------------------------------------------------------------------
(* Lists of entries *)

Elements(list) == {list[i] : i \in 1 .. Len(list)}

\* The blocks whose status, not destroyed, is in the list.
Live(list) == {b \in Block : Entered(b) \in Elements(list)}

\* No status that was not destroyed is listed twice.
Single(list) == \A i, j \in 1 .. Len(list) : list[i] = list[j] /\ list[i].age = 0 => i = j

(***************************************************************************)
(* ToSet of the community modules, for sequences.                          *)
(***************************************************************************)
LEMMA ToSetElements ==
  ASSUME NEW S, NEW list \in Seq(S)
  PROVE  ToSet(list) = Elements(list)
<1>1. DOMAIN list = 1 .. Len(list)
  BY LenProperties
<1> QED
  BY <1>1 DEF ToSet, Elements

(***************************************************************************)
(* The entry of a status a block has.                                      *)
(***************************************************************************)
LEMMA EnteredEntry ==
  ASSUME NEW b \in Block
  PROVE  /\ Entered(b) \in EntryType
         /\ Entered(b).block = b /\ Entered(b).age = 0
         /\ \A c \in Block : Entered(b) = Entered(c) => b = c
         /\ \A e \in EntryType : e.block = b /\ e.age = 0 => e = Entered(b)
<1>1. /\ Entered(b) \in EntryType
      /\ Entered(b).block = b /\ Entered(b).age = 0
      /\ \A c \in Block : Entered(b) = Entered(c) => b = c
  BY DEF EntryType, Entered
<1>2. ASSUME NEW e \in EntryType, e.block = b, e.age = 0 PROVE e = Entered(b)
  BY <1>2 DEF EntryType, Entered
<1> QED
  BY <1>1, <1>2

(***************************************************************************)
(* Append, in terms of the elements of the list.                           *)
(***************************************************************************)
LEMMA AppendElements ==
  ASSUME NEW S, NEW list \in Seq(S), NEW e \in S
  PROVE  /\ Append(list, e) \in Seq(S)
         /\ Elements(Append(list, e)) = Elements(list) \cup {e}
<1>1. /\ Len(list) \in Nat
      /\ Append(list, e) \in Seq(S)
      /\ Len(Append(list, e)) = Len(list) + 1
      /\ \A i \in 1 .. Len(list) : Append(list, e)[i] = list[i]
      /\ Append(list, e)[Len(list) + 1] = e
  BY LenProperties, AppendProperties
<1> QED
  BY <1>1 DEF Elements

(***************************************************************************)
(* Insertion at the head of the train: insertInternal(0, ...).             *)
(***************************************************************************)
LEMMA HeadElements ==
  ASSUME NEW S, NEW list \in Seq(S), NEW e \in S
  PROVE  /\ <<e>> \o list \in Seq(S)
         /\ Len(<<e>> \o list) = Len(list) + 1
         /\ \A i \in 1 .. Len(list) + 1 : (<<e>> \o list)[i] = IF i = 1 THEN e ELSE list[i - 1]
         /\ Elements(<<e>> \o list) = Elements(list) \cup {e}
<1> DEFINE r == <<e>> \o list
<1>1. <<e>> \in Seq(S) /\ Len(<<e>>) = 1 /\ <<e>>[1] = e
  OBVIOUS
<1>2. /\ Len(list) \in Nat
      /\ r \in Seq(S)
      /\ Len(r) = Len(list) + 1
      /\ \A i \in 1 .. Len(list) + 1 : r[i] = IF i = 1 THEN e ELSE list[i - 1]
  <2>1. /\ Len(list) \in Nat
        /\ r \in Seq(S)
        /\ Len(r) = 1 + Len(list)
        /\ \A i \in 1 .. 1 + Len(list) : r[i] = IF i <= 1 THEN <<e>>[i] ELSE list[i - 1]
    BY <1>1, LenProperties, ConcatProperties
  <2> HIDE DEF r
  <2> QED
    BY <1>1, <2>1
<1> HIDE DEF r
<1>3. ASSUME NEW x \in Elements(list) \cup {e} PROVE x \in Elements(r)
  <2>1. CASE x = e
    BY <1>2, <2>1 DEF Elements
  <2>2. CASE x # e
    <3>1. PICK i \in 1 .. Len(list) : x = list[i]
      BY <2>2 DEF Elements
    <3>2. i + 1 \in 1 .. Len(r) /\ r[i + 1] = x
      BY <1>2, <3>1
    <3> QED
      BY <3>2 DEF Elements
  <2> QED
    BY <2>1, <2>2
<1>4. Elements(r) \subseteq Elements(list) \cup {e}
  BY <1>2 DEF Elements
<1> QED
  BY <1>2, <1>3, <1>4 DEF r

(***************************************************************************)
(* RemoveFirst, which removeInternal is: the elements behind the first e   *)
(* move up by one.                                                         *)
(***************************************************************************)
LEMMA RemoveFirstShifts ==
  ASSUME NEW S, NEW list \in Seq(S), NEW e
  PROVE  \/ e \notin Elements(list) /\ RemoveFirst(list, e) = list
         \/ \E k \in 1 .. Len(list) :
              /\ list[k] = e
              /\ RemoveFirst(list, e) \in Seq(S)
              /\ Len(RemoveFirst(list, e)) = Len(list) - 1
              /\ \A i \in 1 .. Len(list) - 1 :
                   RemoveFirst(list, e)[i] = IF i < k THEN list[i] ELSE list[i + 1]
<1>1. Len(list) \in Nat /\ \A i \in 1 .. Len(list) : list[i] \in S
  BY LenProperties, ElementOfSeq
<1>2. CASE \A i \in 1 .. Len(list) : list[i] # e
  BY <1>2 DEF RemoveFirst, Elements
<1>3. CASE \E i \in 1 .. Len(list) : list[i] = e
  <2> DEFINE I == {i \in 1 .. Len(list) : list[i] = e}
             k == SelectInSeq(list, LAMBDA v : v = e)
             r == RemoveFirst(list, e)
  <2>1. I \in SUBSET Nat /\ I # {}
    BY <1>1, <1>3
  <2>2. k = Min(I)
    BY <1>3 DEF SelectInSeq
  <2>3. k \in I
    <3>1. \E j \in I : \A i \in I : j <= i
      <4> HIDE DEF I
      <4> QED
        BY <2>1, LeastElement
    <3> HIDE DEF I, k
    <3> QED
      BY <2>2, <3>1 DEF Min
  <2>4. k \in 1 .. Len(list) /\ list[k] = e
    BY <2>3
  <2>5. r = SubSeq(list, 1, k - 1) \o SubSeq(list, k + 1, Len(list))
    BY <1>3 DEF RemoveFirst, RemoveAt
  <2> HIDE DEF k, I
  <2>6. /\ r \in Seq(S)
        /\ Len(r) = Len(list) - 1
        /\ \A i \in 1 .. Len(list) - 1 : r[i] = IF i < k THEN list[i] ELSE list[i + 1]
    <3> DEFINE front == SubSeq(list, 1, k - 1)
               rest == SubSeq(list, k + 1, Len(list))
    <3>1. /\ front \in Seq(S) /\ Len(front) = k - 1
          /\ \A i \in 1 .. k - 1 : front[i] = list[i]
      BY <1>1, <2>4, SubSeqProperties
    <3>2. /\ rest \in Seq(S) /\ Len(rest) = Len(list) - k
          /\ \A i \in 1 .. Len(list) - k : rest[i] = list[k + i]
      BY <1>1, <2>4, SubSeqProperties
    <3> HIDE DEF front, rest
    <3> DEFINE joined == front \o rest
    <3>3. /\ joined \in Seq(S)
          /\ Len(joined) = Len(front) + Len(rest)
          /\ \A i \in 1 .. Len(front) + Len(rest) :
               joined[i] = IF i <= Len(front) THEN front[i] ELSE rest[i - Len(front)]
      BY <3>1, <3>2, ConcatProperties
    <3>4. r = joined
      BY <2>5 DEF front, rest
    <3> HIDE DEF joined, r
    <3>5. Len(front) + Len(rest) = Len(list) - 1
      BY <1>1, <2>4, <3>1, <3>2
    <3>6. ASSUME NEW i \in 1 .. Len(list) - 1
          PROVE  joined[i] = IF i < k THEN list[i] ELSE list[i + 1]
      <4>1. CASE i < k
        BY <1>1, <2>4, <3>1, <3>3, <3>5, <4>1
      <4>2. CASE i >= k
        <5>1. joined[i] = rest[i - (k - 1)]
          BY <1>1, <2>4, <3>1, <3>3, <3>5, <4>2
        <5>2. i - (k - 1) \in 1 .. Len(list) - k /\ k + (i - (k - 1)) = i + 1
          BY <1>1, <2>4, <4>2
        <5>3. rest[i - (k - 1)] = list[i + 1]
          BY <3>2, <5>2
        <5> QED
          BY <2>4, <4>2, <5>1, <5>3
      <4> QED
        BY <1>1, <2>4, <4>1, <4>2
    <3> QED
      BY <3>3, <3>4, <3>5, <3>6
  <2> HIDE DEF r
  <2> QED
    BY <2>4, <2>6 DEF r
<1> QED
  BY <1>2, <1>3

(***************************************************************************)
(* So every other element stays, the list is shorter by one at most, and a *)
(* status that was listed once is not listed any more.                     *)
(***************************************************************************)
LEMMA RemoveFirstElements ==
  ASSUME NEW list \in Seq(EntryType), NEW e
  PROVE  /\ RemoveFirst(list, e) \in Seq(EntryType)
         /\ Elements(RemoveFirst(list, e)) \subseteq Elements(list)
         /\ Elements(list) \ {e} \subseteq Elements(RemoveFirst(list, e))
         /\ Len(RemoveFirst(list, e)) \in {Len(list) - 1, Len(list)}
         /\ Single(list) => /\ Single(RemoveFirst(list, e))
                            /\ e.age = 0 => e \notin Elements(RemoveFirst(list, e))
<1> DEFINE r == RemoveFirst(list, e)
<1>1. Len(list) \in Nat
  BY LenProperties
<1>2. CASE e \notin Elements(list) /\ r = list
  BY <1>2
<1>3. CASE \E k \in 1 .. Len(list) :
             /\ list[k] = e
             /\ r \in Seq(EntryType)
             /\ Len(r) = Len(list) - 1
             /\ \A i \in 1 .. Len(list) - 1 : r[i] = IF i < k THEN list[i] ELSE list[i + 1]
  <2> HIDE DEF r
  <2>1. PICK k \in 1 .. Len(list) :
          /\ list[k] = e
          /\ r \in Seq(EntryType)
          /\ Len(r) = Len(list) - 1
          /\ \A i \in 1 .. Len(list) - 1 : r[i] = IF i < k THEN list[i] ELSE list[i + 1]
    BY <1>3
  <2> DEFINE at(i) == IF i < k THEN i ELSE i + 1
  <2>2. ASSUME NEW i \in 1 .. Len(r)
        PROVE  at(i) \in 1 .. Len(list) /\ at(i) # k /\ r[i] = list[at(i)]
    BY <1>1, <2>1
  <2>3. ASSUME NEW x \in Elements(list) \ {e} PROVE x \in Elements(r)
    <3>1. PICK j \in 1 .. Len(list) : x = list[j]
      BY DEF Elements
    <3>2. j # k
      BY <2>1, <2>3, <3>1
    <3>3. \E i \in 1 .. Len(r) : r[i] = x
      <4>1. CASE j < k
        BY <1>1, <2>1, <3>1, <4>1
      <4>2. CASE j > k
        <5>1. j - 1 \in 1 .. Len(r) /\ r[j - 1] = list[j]
          BY <1>1, <2>1, <4>2
        <5> QED
          BY <3>1, <5>1
      <4> QED
        BY <1>1, <2>1, <3>2, <4>1, <4>2
    <3> QED
      BY <3>3 DEF Elements
  <2>4. Elements(r) \subseteq Elements(list)
    <3> HIDE DEF at
    <3> QED
      BY <2>2 DEF Elements
  <2>5. ASSUME Single(list) PROVE Single(r) /\ (e.age = 0 => e \notin Elements(r))
    <3>1. ASSUME NEW i \in 1 .. Len(r), NEW j \in 1 .. Len(r), r[i] = r[j], r[i].age = 0
          PROVE  i = j
      <4>1. at(i) = at(j)
        <5> HIDE DEF at
        <5> QED
          BY <2>2, <2>5, <3>1 DEF Single
      <4>2. i \in Nat /\ j \in Nat /\ k \in Nat
        BY <1>1, <2>1
      <4> QED
        BY <4>1, <4>2
    <3>2. ASSUME e.age = 0, NEW i \in 1 .. Len(r), r[i] = e PROVE FALSE
      <4> HIDE DEF at
      <4> QED
        BY <2>1, <2>2, <2>5, <3>2 DEF Single
    <3> QED
      BY <3>1, <3>2 DEF Single, Elements
  <2>6. Elements(list) \ {e} \subseteq Elements(r)
    BY <2>3
  <2>7. Len(r) \in {Len(list) - 1, Len(list)} /\ r \in Seq(EntryType)
    BY <2>1
  <2> HIDE DEF at
  <2>8. Single(list) => Single(r) /\ (e.age = 0 => e \notin Elements(r))
    BY <2>5
  <2> QED
    BY <2>4, <2>6, <2>7, <2>8 DEF r
<1> QED
  BY <1>2, <1>3, RemoveFirstShifts

(***************************************************************************)
(* TrainBlockStatus::destroying: the list names the status no more, and    *)
(* the statuses of the other blocks as before.                             *)
(***************************************************************************)
LEMMA DestroyElements ==
  ASSUME NEW list \in Seq(EntryType), NEW b \in Block
  PROVE  /\ Destroy(list, b) \in Seq(EntryType)
         /\ Live(Destroy(list, b)) = Live(list) \ {b}
         /\ Len(Destroy(list, b)) \in {Len(list) - 1, Len(list)}
         /\ b \notin Live(list) => Destroy(list, b) = list
         /\ Single(list) => Single(Destroy(list, b))
<1> DEFINE rest == RemoveFirst(list, Entered(b))
           aged(i) == IF rest[i].block = b THEN [rest[i] EXCEPT !.age = @ + 1] ELSE rest[i]
           made == [i \in DOMAIN rest |-> aged(i)]
<1>1. /\ rest \in Seq(EntryType)
      /\ Elements(rest) \subseteq Elements(list)
      /\ Elements(list) \ {Entered(b)} \subseteq Elements(rest)
      /\ Len(rest) \in {Len(list) - 1, Len(list)}
      /\ Single(list) => Single(rest)
  BY RemoveFirstElements
<1>2. Destroy(list, b) = IF Entered(b) \in Elements(rest) THEN made ELSE rest
  <2>1. ToSet(rest) = Elements(rest)
    BY <1>1, ToSetElements
  <2> QED
    BY <2>1 DEF Destroy
<1>3. b \notin Live(list) => rest = list /\ Entered(b) \notin Elements(rest)
  <2>1. SUFFICES ASSUME Entered(b) \notin Elements(list)
                 PROVE  rest = list /\ Entered(b) \notin Elements(rest)
    BY DEF Live
  <2>2. ~\E k \in 1 .. Len(list) : list[k] = Entered(b)
    BY <2>1 DEF Elements
  <2>3. rest = list
    BY <2>2, RemoveFirstShifts
  <2> QED
    BY <2>1, <2>3
<1> HIDE DEF rest
<1>4. \A c \in Block \ {b} : Entered(c) \in Elements(rest) <=> Entered(c) \in Elements(list)
  BY <1>1, EnteredEntry
<1>5. CASE Entered(b) \notin Elements(rest)
  <2>1. Live(rest) = Live(list) \ {b}
    BY <1>4, <1>5 DEF Live
  <2> QED
    BY <1>1, <1>2, <1>3, <1>5, <2>1
<1>6. CASE Entered(b) \in Elements(rest)
  <2>1. DOMAIN rest = 1 .. Len(rest) /\ Len(rest) \in Nat
    BY <1>1, LenProperties
  <2>2. ASSUME NEW i \in 1 .. Len(rest)
        PROVE  /\ aged(i) \in EntryType
               /\ rest[i] \in EntryType
               /\ rest[i].block = b => aged(i).block = b /\ aged(i).age # 0
               /\ rest[i].block # b => aged(i) = rest[i]
    <3>1. rest[i] \in EntryType
      BY <1>1, ElementOfSeq
    <3>2. CASE rest[i].block = b
      <4>1. aged(i) = [block |-> b, age |-> rest[i].age + 1] /\ rest[i].age \in Nat
        BY <3>1, <3>2 DEF EntryType
      <4> QED
        BY <3>1, <3>2, <4>1 DEF EntryType
    <3> QED
      BY <3>1, <3>2
  <2> DEFINE n == Len(rest)
  <2>3. made = [i \in 1 .. n |-> aged(i)]
    BY <2>1
  <2> HIDE DEF aged, made
  <2>4. made \in Seq(EntryType) /\ Len(made) = n
    <3>1. made \in [1 .. n -> EntryType]
      BY <2>2, <2>3
    <3> QED
      BY <2>1, <3>1
  <2>5. \A i \in 1 .. n : made[i] = aged(i)
    BY <2>3
  <2>6. ASSUME NEW c \in Block PROVE Entered(c) \in Elements(made) <=> c # b /\ Entered(c) \in Elements(rest)
    <3>1. ASSUME NEW i \in 1 .. n, made[i] = Entered(c) PROVE c # b /\ rest[i] = Entered(c)
      BY <2>2, <2>5, <3>1, EnteredEntry
    <3>2. ASSUME NEW i \in 1 .. n, rest[i] = Entered(c), c # b PROVE made[i] = Entered(c)
      BY <2>2, <2>5, <3>2, EnteredEntry
    <3> QED
      BY <2>4, <3>1, <3>2 DEF Elements
  <2>7. Live(made) = Live(list) \ {b}
    BY <1>4, <2>6 DEF Live
  <2>8. ASSUME Single(rest) PROVE Single(made)
    <3> SUFFICES ASSUME NEW i \in 1 .. n, NEW j \in 1 .. n, made[i] = made[j], made[i].age = 0
                 PROVE  i = j
      BY <2>4 DEF Single
    <3>1. rest[i] = made[i] /\ rest[j] = made[j]
      BY <2>2, <2>5
    <3> QED
      BY <2>8, <3>1 DEF Single
  <2>9. b \in Live(list)
    BY <1>1, <1>6 DEF Live
  <2> QED
    BY <1>1, <1>2, <1>6, <2>4, <2>7, <2>8, <2>9
<1> QED
  BY <1>5, <1>6

(***************************************************************************)
(* TrainTracking::left: the block is not listed any more, the others are.  *)
(* A list in which nothing is twice is not emptied when it has more than   *)
(* one entry.                                                              *)
(***************************************************************************)
LEMMA LeaveElements ==
  ASSUME NEW list \in Seq(EntryType), NEW e \in EntryType
  PROVE  /\ Leave(list, e) \in Seq(EntryType)
         /\ Live(Leave(list, e)) \subseteq Live(list)
         /\ e.age = 0 => Live(Leave(list, e)) = Live(list) \ {e.block}
         /\ Single(list) => /\ Single(Leave(list, e))
                            /\ Len(list) > 1 => Leave(list, e) # <<>>
<1> DEFINE rest == RemoveFirst(list, e)
<1>1. /\ rest \in Seq(EntryType)
      /\ Elements(rest) \subseteq Elements(list)
      /\ Elements(list) \ {e} \subseteq Elements(rest)
      /\ Len(rest) \in {Len(list) - 1, Len(list)}
      /\ Single(list) => Single(rest) /\ (e.age = 0 => e \notin Elements(rest))
  BY RemoveFirstElements
<1>2. Len(list) \in Nat
  BY LenProperties
<1>3. Leave(list, e) = IF e.age = 0 THEN Destroy(rest, e.block) ELSE rest
  BY DEF Leave
<1> HIDE DEF rest
<1>4. Live(rest) \subseteq Live(list)
  BY <1>1 DEF Live
<1>5. Len(list) > 1 => rest # <<>>
  BY <1>1, <1>2, EmptySeq
<1>6. CASE e.age # 0
  BY <1>1, <1>3, <1>4, <1>5, <1>6
<1>7. CASE e.age = 0
  <2>1. e.block \in Block /\ e = Entered(e.block)
    BY <1>7, EnteredEntry DEF EntryType
  <2> DEFINE b == e.block
  <2> HIDE DEF b
  <2>2. b \in Block /\ e = Entered(b)
    BY <2>1 DEF b
  <2>3. /\ Destroy(rest, b) \in Seq(EntryType)
        /\ Live(Destroy(rest, b)) = Live(rest) \ {b}
        /\ b \notin Live(rest) => Destroy(rest, b) = rest
        /\ Single(rest) => Single(Destroy(rest, b))
    BY <1>1, <2>2, DestroyElements
  <2>4. Live(rest) \ {b} = Live(list) \ {b}
    <3>1. \A c \in Block \ {b} : Entered(c) # e
      BY <2>2, EnteredEntry
    <3> QED
      BY <1>1, <3>1 DEF Live
  <2>5. Single(list) => b \notin Live(rest)
    BY <1>1, <1>7, <2>2 DEF Live
  <2>6. Leave(list, e) = Destroy(rest, b)
    BY <1>3, <1>7 DEF b
  <2> QED
    BY <1>1, <1>4, <1>5, <2>3, <2>4, <2>5, <2>6 DEF b
<1> QED
  BY <1>6, <1>7

\* One round of the loop in TrainTracking::enter, and the recursion of AfterLoop.
Round(q, before) ==
  IF Len(before) > 1 /\ TailReserved(q, before) THEN Leave(before, Last(before)) ELSE before

Rounds(list, q) == [n \in 0 .. Len(q) |-> IF n = 0 THEN q ELSE Round(q, list[n - 1])]

(***************************************************************************)
(* A function with this recursion exists, so that AfterLoop is what its    *)
(* recursion says.                                                         *)
(***************************************************************************)
LEMMA LoopRecursion ==
  ASSUME NEW q \in Seq(EntryType)
  PROVE  \E list : list = Rounds(list, q) /\ AfterLoop(q) = list[Len(q)]
<1>1. Len(q) \in Nat
  BY LenProperties
<1> DEFINE body(g, n) == IF n = 0 THEN q ELSE Round(q, g[n - 1])
           T == {n \in Nat : \E g : g = [i \in 0 .. n |-> body(g, i)]}
<1>2. 0 \in T
  <2> DEFINE g == [i \in 0 .. 0 |-> q]
  <2>1. g = [i \in 0 .. 0 |-> body(g, i)]
    OBVIOUS
  <2> HIDE DEF g, body
  <2> QED
    BY <2>1
<1>3. ASSUME NEW n \in T PROVE n + 1 \in T
  <2>1. PICK g : g = [i \in 0 .. n |-> body(g, i)]
    BY <1>3
  <2> DEFINE h == [i \in 0 .. n + 1 |-> IF i <= n THEN g[i] ELSE body(g, i)]
  <2>2. ASSUME NEW i \in 0 .. n + 1 PROVE h[i] = body(h, i)
    <3>1. i = 0 \/ (i - 1 \in 0 .. n /\ h[i - 1] = g[i - 1])
      OBVIOUS
    <3>2. body(h, i) = body(g, i)
      <4> HIDE DEF h
      <4> QED
        BY <3>1
    <3>3. i \in 0 .. n => g[i] = body(g, i)
      <4> HIDE DEF body
      <4> QED
        BY <2>1
    <3> HIDE DEF body
    <3> QED
      BY <3>2, <3>3
  <2>3. h = [i \in 0 .. n + 1 |-> body(h, i)]
    <3>1. \A i \in 0 .. n + 1 : h[i] = body(h, i)
      BY <2>2
    <3>2. h = [i \in 0 .. n + 1 |-> h[i]]
      OBVIOUS
    <3> HIDE DEF h, body
    <3> QED
      BY <3>1, <3>2
  <2> HIDE DEF h, body
  <2> QED
    BY <2>3
<1>4. T = Nat
  <2>1. T \in SUBSET Nat
    OBVIOUS
  <2> HIDE DEF T
  <2> QED
    BY <1>2, <1>3, <2>1, SetInduction
<1>5. \E g : g = [i \in 0 .. Len(q) |-> body(g, i)]
  BY <1>1, <1>4
<1> DEFINE list == CHOOSE g : g = [i \in 0 .. Len(q) |-> body(g, i)]
<1>6. list = [i \in 0 .. Len(q) |-> body(list, i)]
  <2> HIDE DEF body
  <2> QED
    BY <1>5
<1>7. list = Rounds(list, q)
  BY <1>6 DEF Rounds
<1>8. AfterLoop(q) = list[Len(q)]
  BY DEF AfterLoop, Round
<1> QED
  BY <1>7, <1>8

(***************************************************************************)
(* What the loop leaves of a list: no status that was not in it, and, when *)
(* no status was in it twice, at least one entry: "train->blocks.size() >  *)
(* 1" then keeps the head of the train, and the status of the entered      *)
(* block is not read after it was destroyed.                               *)
(***************************************************************************)
LEMMA LoopElements ==
  ASSUME NEW q \in Seq(EntryType), q # <<>>
  PROVE  /\ AfterLoop(q) \in Seq(EntryType)
         /\ Live(AfterLoop(q)) \subseteq Live(q)
         /\ Single(q) => AfterLoop(q) # <<>>
<1>1. Len(q) \in Nat
  BY LenProperties
<1>2. PICK list : list = Rounds(list, q) /\ AfterLoop(q) = list[Len(q)]
  BY LoopRecursion
<1> DEFINE Kept(r) == /\ r \in Seq(EntryType)
                      /\ Live(r) \subseteq Live(q)
                      /\ Single(q) => Single(r) /\ r # <<>>
           T == {n \in Nat : n <= Len(q) => Kept(list[n])}
<1>3. 0 \in T
  <2>1. list[0] = q
    BY <1>1, <1>2 DEF Rounds
  <2> QED
    BY <2>1
<1>4. ASSUME NEW n \in T, n + 1 <= Len(q) PROVE Kept(list[n + 1])
  <2> DEFINE r == list[n]
  <2>1. Kept(r)
    BY <1>1, <1>4
  <2>2. list[n + 1] = Round(q, r)
    <3>1. n + 1 \in 0 .. Len(q) /\ n + 1 # 0 /\ (n + 1) - 1 = n
      BY <1>1, <1>4
    <3>2. list[n + 1] = Rounds(list, q)[n + 1]
      BY <1>2
    <3> QED
      BY <3>1, <3>2 DEF Rounds
  <2> HIDE DEF r
  <2>3. CASE ~(Len(r) > 1 /\ TailReserved(q, r))
    BY <2>1, <2>2, <2>3 DEF Round
  <2>4. CASE Len(r) > 1 /\ TailReserved(q, r)
    <3> DEFINE e == Last(r)
    <3>1. e \in EntryType
      <4>1. Len(r) \in Nat /\ r \in Seq(EntryType)
        BY <2>1, LenProperties
      <4>2. Len(r) \in 1 .. Len(r)
        BY <2>4, <4>1
      <4> QED
        BY <4>1, <4>2, ElementOfSeq DEF Last
    <3>2. list[n + 1] = Leave(r, e)
      BY <2>2, <2>4 DEF Round
    <3> HIDE DEF e
    <3>3. /\ Leave(r, e) \in Seq(EntryType)
          /\ Live(Leave(r, e)) \subseteq Live(r)
          /\ Single(r) => /\ Single(Leave(r, e))
                          /\ Len(r) > 1 => Leave(r, e) # <<>>
      BY <2>1, <3>1, LeaveElements
    <3> QED
      BY <2>1, <2>4, <3>2, <3>3
  <2> QED
    BY <2>3, <2>4
<1>5. T = Nat
  <2>1. T \in SUBSET Nat /\ \A n \in T : n + 1 \in T
    <3> HIDE DEF Kept
    <3> QED
      BY <1>4
  <2> HIDE DEF T
  <2> QED
    BY <1>3, <2>1, SetInduction
<1>6. Kept(list[Len(q)])
  <2> HIDE DEF Kept
  <2> QED
    BY <1>1, <1>5
<1> QED
  BY <1>2, <1>6

(***************************************************************************)
(* A list reversed: reverseInternal.                                       *)
(***************************************************************************)
LEMMA ReverseElements ==
  ASSUME NEW S, NEW list \in Seq(S)
  PROVE  /\ Reverse(list) \in Seq(S)
         /\ Len(Reverse(list)) = Len(list)
         /\ Elements(Reverse(list)) = Elements(list)
<1> DEFINE r == Reverse(list)
<1>1. Len(list) \in Nat /\ \A i \in 1 .. Len(list) : list[i] \in S
  BY LenProperties, ElementOfSeq
<1>2. /\ r \in [1 .. Len(list) -> S]
      /\ \A i \in 1 .. Len(list) : /\ Len(list) - i + 1 \in 1 .. Len(list)
                                   /\ r[i] = list[Len(list) - i + 1]
  BY <1>1 DEF Reverse
<1> HIDE DEF r
<1>3. r \in Seq(S) /\ Len(r) = Len(list)
  BY <1>1, <1>2
<1>4. ASSUME NEW x \in Elements(list) PROVE x \in Elements(r)
  <2>1. PICK j \in 1 .. Len(list) : x = list[j]
    BY DEF Elements
  <2>2. Len(list) - j + 1 \in 1 .. Len(list) /\ Len(list) - (Len(list) - j + 1) + 1 = j
    BY <1>1
  <2>3. r[Len(list) - j + 1] = x
    BY <1>2, <2>1, <2>2
  <2> QED
    BY <1>3, <2>2, <2>3 DEF Elements
<1>5. Elements(r) \subseteq Elements(list)
  BY <1>2, <1>3 DEF Elements
<1> QED
  BY <1>3, <1>4, <1>5 DEF r

(***************************************************************************)
(* How often a train lists the status it has in a block.                   *)
(***************************************************************************)
LEMMA ListedOrNot ==
  ASSUME NEW t \in Train, NEW b \in Block, blocks[t] \in Seq(EntryType)
  PROVE  /\ TimesListed(t, b) \in Nat
         /\ TimesListed(t, b) = 0 <=> b \notin Live(blocks[t])
<1> DEFINE I == {i \in DOMAIN blocks[t] : blocks[t][i] = Entered(b)}
<1>1. DOMAIN blocks[t] = 1 .. Len(blocks[t]) /\ Len(blocks[t]) \in Nat
  BY LenProperties
<1>2. IsFiniteSet(I)
  <2>1. IsFiniteSet(1 .. Len(blocks[t]))
    BY <1>1, FS_Interval
  <2>2. I \in SUBSET (1 .. Len(blocks[t]))
    BY <1>1
  <2> HIDE DEF I
  <2> QED
    BY <2>1, <2>2, FS_Subset
<1>3. Cardinality(I) \in Nat /\ (Cardinality(I) = 0 <=> I = {})
  <2> HIDE DEF I
  <2> QED
    BY <1>2, FS_CardinalityType, FS_EmptySet
<1>4. I = {} <=> b \notin Live(blocks[t])
  BY <1>1 DEF Elements, Live
<1>5. TimesListed(t, b) = Cardinality(I)
  BY DEF TimesListed
<1> QED
  BY <1>3, <1>4, <1>5

-----------------------------------------------------------------------------
(* The lists of the trains *)

ListTypeOK == blocks \in [Train -> Seq(EntryType)]

(***************************************************************************)
(* inputItemValueChanged, the occupied cases: some train enters the block, *)
(* with a status that was there or is the first one.                       *)
(***************************************************************************)
LEMMA ArrivalEnters ==
  ASSUME Occupancy, NEW b \in Block, NEW i, TrainArrives(b, i)
  PROVE  \E t \in Train, statuses \in Seq(StatusType) :
           /\ Len(statuses) <= 1
           /\ statuses # <<>>
           /\ Head(statuses).who = t
           /\ trains[b] = <<>> \/ trains[b] = statuses
           /\ Enter(t, b, statuses)
<1>1. ASSUME NEW s \in Arrivals(b, i)
      PROVE  /\ s.who \in Train
             /\ trains[b] = <<>>
             /\ Append(trains[b], s) \in Seq(StatusType)
             /\ Len(Append(trains[b], s)) <= 1
             /\ Append(trains[b], s) # <<>>
             /\ Head(Append(trains[b], s)).who = s.who
  <2>1. PICK p \in WaysIn(b, i) :
          /\ s = Status(EndStatus(PathInfo[p].from, PathInfo[p].fromSide).who,
                        AwayFrom(PathInfo[p].toSide))
          /\ state[b] \in {"Free", "Unknown"}
    BY <1>1 DEF Arrivals
  <2>2. EndStatus(PathInfo[p].from, PathInfo[p].fromSide).who \in Train
    BY DEF WaysIn
  <2>3. s \in StatusType /\ s.who \in Train
    BY <2>1, <2>2 DEF Status, StatusType, Who, AwayFrom, TrainDirection
  <2>4. trains[b] = <<>>
    BY <2>1 DEF Occupancy, Tells
  <2> QED
    BY <2>3, <2>4, FirstStatus
<1>2. ASSUME NEW s \in ExpectedArrivals(b, i), s.who \in Train
      PROVE  /\ trains[b] \in Seq(StatusType)
             /\ Len(trains[b]) <= 1
             /\ trains[b] # <<>>
             /\ Head(trains[b]).who = s.who
  <2>1. state[b] = "Reserved" /\ \E side : s = EndStatus(b, side)
    BY DEF ExpectedArrivals
  <2>2. trains[b] \in Seq(StatusType) /\ Len(trains[b]) <= 1 /\ trains[b] # <<>>
    BY <2>1 DEF Occupancy, Tells
  <2> QED
    BY <2>1, <2>2, StatusesOfEnd
<1>3. CASE \E s \in Arrivals(b, i) : Enter(s.who, b, Append(trains[b], s))
  <2>1. PICK s \in Arrivals(b, i) : Enter(s.who, b, Append(trains[b], s))
    BY <1>3
  <2> DEFINE statuses == Append(trains[b], s)
  <2>2. /\ s.who \in Train /\ trains[b] = <<>>
        /\ statuses \in Seq(StatusType) /\ Len(statuses) <= 1 /\ statuses # <<>>
        /\ Head(statuses).who = s.who
        /\ Enter(s.who, b, statuses)
    BY <1>1, <2>1
  <2> HIDE DEF statuses
  <2> QED
    BY <2>2
<1>4. CASE \E s \in ExpectedArrivals(b, i) : s.who \in Train /\ Enter(s.who, b, trains[b])
  BY <1>2, <1>4
<1> QED
  BY <1>3, <1>4 DEF TrainArrives

(***************************************************************************)
(* Only these handlers write a train's list.                               *)
(***************************************************************************)
LEMMA OthersLeaveLists ==
  ASSUME [ApiNext]_vars
  PROVE  \/ \E b \in Block : \E i \in 1 .. NumSensors[b] : TrainArrives(b, i)
         \/ \E b \in Block : \E i \in 1 .. NumSensors[b] : TrainLeaves(b, i)
         \/ \E b \in Block, t \in Train : AssignTrain(b, t)
         \/ \E b \in Block : RemoveTrain(b)
         \/ \E t \in Train : ReverseTrain(t)
         \/ UNCHANGED blocks
<1>1. CASE SensorChange
  BY <1>1 DEF SensorChange, UnexplainedOccupation, SensorClears
<1>2. CASE BlockCommand
  BY <1>2 DEF BlockCommand, FlipTrain, SetStateFree, trainVars
<1>3. CASE Identification
  BY <1>3 DEF Identification, IdentificationPresent, IdentificationAbsent, trainVars
<1>4. CASE TrainCommand
  BY <1>4 DEF TrainCommand, StartOrStop
<1>5. CASE FieldCommand
  BY <1>5 DEF FieldCommand, SetPosition, SetControl, trainVars
<1>6. ASSUME NEW p \in Path, ReservePath(p) \/ ReleasePath(p) PROVE UNCHANGED blocks
  BY <1>6 DEF ReservePath, ReleasePath, trainVars
<1>7. CASE Reload
  BY <1>7 DEF Reload
<1>8. CASE UNCHANGED vars
  BY <1>8 DEF vars, trainVars
<1> QED
  BY <1>1, <1>2, <1>3, <1>4, <1>5, <1>6, <1>7, <1>8
  DEF ApiNext, Next, SessionNext, RoutesNext

(***************************************************************************)
(* A handler that gives one train another list of blocks.                  *)
(***************************************************************************)
LEMMA OneListChanges ==
  ASSUME ListTypeOK, NEW t \in Train, NEW list \in Seq(EntryType),
         blocks' = [blocks EXCEPT ![t] = list]
  PROVE  /\ ListTypeOK'
         /\ blocks'[t] = list
         /\ \A u \in Train \ {t} : blocks'[u] = blocks[u]
BY DEF ListTypeOK

(***************************************************************************)
(* The list in which TrainTracking::enter has inserted the status.         *)
(***************************************************************************)
LEMMA EnteringList ==
  ASSUME ListTypeOK, NEW t \in Train, NEW b \in Block
  PROVE  /\ <<Entered(b)>> \o blocks[t] \in Seq(EntryType)
         /\ <<Entered(b)>> \o blocks[t] # <<>>
         /\ Len(<<Entered(b)>> \o blocks[t]) = Len(blocks[t]) + 1
         /\ \A i \in 1 .. Len(blocks[t]) + 1 :
              (<<Entered(b)>> \o blocks[t])[i] = IF i = 1 THEN Entered(b) ELSE blocks[t][i - 1]
         /\ Live(<<Entered(b)>> \o blocks[t]) = Live(blocks[t]) \cup {b}
<1> DEFINE q == <<Entered(b)>> \o blocks[t]
<1>1. blocks[t] \in Seq(EntryType) /\ Entered(b) \in EntryType
  BY EnteredEntry DEF ListTypeOK
<1>2. /\ q \in Seq(EntryType)
      /\ Len(q) = Len(blocks[t]) + 1
      /\ \A i \in 1 .. Len(blocks[t]) + 1 : q[i] = IF i = 1 THEN Entered(b) ELSE blocks[t][i - 1]
      /\ Elements(q) = Elements(blocks[t]) \cup {Entered(b)}
  BY <1>1, HeadElements
<1>3. Len(blocks[t]) \in Nat
  BY <1>1, LenProperties
<1> HIDE DEF q
<1>4. q # <<>>
  BY <1>2, <1>3, EmptySeq
<1>5. Live(q) = Live(blocks[t]) \cup {b}
  BY <1>2, EnteredEntry DEF Live
<1> QED
  BY <1>2, <1>4, <1>5 DEF q

(***************************************************************************)
(* Whatever is inserted into, removed from or reversed in a train's list,  *)
(* it stays a list of entries.                                             *)
(***************************************************************************)
LEMMA ListTypesStep == Occupancy /\ ListTypeOK /\ [ApiNext]_vars => ListTypeOK'
<1> SUFFICES ASSUME Occupancy, ListTypeOK, [ApiNext]_vars PROVE ListTypeOK'
  OBVIOUS
<1>1. ASSUME NEW b \in Block, NEW i, TrainArrives(b, i) PROVE ListTypeOK'
  <2>1. PICK t \in Train, statuses \in Seq(StatusType) : Enter(t, b, statuses)
    BY <1>1, ArrivalEnters
  <2> DEFINE q == <<Entered(b)>> \o blocks[t]
  <2>2. q \in Seq(EntryType) /\ q # <<>>
    BY EnteringList
  <2>3. blocks' = [blocks EXCEPT ![t] = AfterLoop(q)]
    BY <2>1 DEF Enter
  <2> HIDE DEF q
  <2> QED
    BY <2>2, <2>3, LoopElements, OneListChanges
<1>2. ASSUME NEW b \in Block, NEW i, TrainLeaves(b, i) PROVE ListTypeOK'
  <2> DEFINE t == Head(trains[b]).who
  <2>1. t \in Train /\ blocks' = [blocks EXCEPT ![t] = Leave(blocks[t], Entered(b))]
    BY <1>2 DEF TrainLeaves, TailGone
  <2> HIDE DEF t
  <2> QED
    BY <2>1, EnteredEntry, LeaveElements, OneListChanges DEF ListTypeOK
<1>3. ASSUME NEW b \in Block, NEW t \in Train, AssignTrain(b, t) PROVE ListTypeOK'
  BY <1>3, EnteredEntry, AppendElements, OneListChanges DEF AssignTrain, ListTypeOK
<1>4. ASSUME NEW b \in Block, RemoveTrain(b) PROVE ListTypeOK'
  <2> DEFINE t == Head(trains[b]).who
  <2>1. t \in Train /\ blocks' = [blocks EXCEPT ![t] = Destroy(blocks[t], b)]
    BY <1>4 DEF RemoveTrain
  <2> HIDE DEF t
  <2> QED
    BY <2>1, DestroyElements, OneListChanges DEF ListTypeOK
<1>5. ASSUME NEW t \in Train, ReverseTrain(t) PROVE ListTypeOK'
  BY <1>5, ReverseElements, OneListChanges DEF ReverseTrain, ListTypeOK
<1>6. CASE UNCHANGED blocks
  BY <1>6 DEF ListTypeOK
<1> QED
  BY <1>1, <1>2, <1>3, <1>4, <1>5, <1>6, OthersLeaveLists

(***************************************************************************)
(* Every variable keeps its type, the trains' lists of blocks included,    *)
(* in whatever order entries are inserted at the head, taken out of the    *)
(* middle and reversed.                                                    *)
(***************************************************************************)
THEOREM TypesAreKept == ApiSpec => []TypeOK
<1>1. Init => ListTypeOK
  BY EmptySeq DEF Init, ListTypeOK
<1>2. BlockTypeOK /\ ListTypeOK => TypeOK
  BY DEF TypeOK, ListTypeOK
<1> QED
  BY <1>1, <1>2, ListTypesStep, OccupancyAlways, BlockTypesAreKept, PTL DEF ApiSpec

-----------------------------------------------------------------------------
(* The states of the blocks in a session *)

(***************************************************************************)
(* updateState asks the list of statuses only whether it is empty, and     *)
(* does not ask it at all when a sensor says occupied.                     *)
(***************************************************************************)
LEMMA StateOfEmptiness ==
  ASSUME NEW values, NEW list, NEW other,
         \/ list = <<>> <=> other = <<>>
         \/ BlockStateOf(values, list) = "Occupied"
  PROVE  BlockStateOf(values, list) = BlockStateOf(values, other)
BY DEF BlockStateOf

(***************************************************************************)
(* A handler that gives one block a list and the state that fits it.       *)
(***************************************************************************)
LEMMA CurrentOneBlock ==
  ASSUME Occupancy, StateIsCurrent, NEW b \in Block, NEW list, NEW s,
         UNCHANGED <<sensors, sensorStates>>,
         trains' = [trains EXCEPT ![b] = list],
         state' = [state EXCEPT ![b] = s],
         \/ s = BlockStateOf(sensors[b], list)
         \/ s = "Free" /\ list = <<>> /\ ~sensorStates[b]
  PROVE  StateIsCurrent'
<1>1. /\ trains'[b] = list /\ state'[b] = s
      /\ \A c \in Block \ {b} : trains'[c] = trains[c] /\ state'[c] = state[c]
  BY DEF Occupancy
<1>2. ASSUME NEW c \in Block
      PROVE  \/ state'[c] = BlockStateOf(sensors'[c], trains'[c])
             \/ state'[c] = "Free" /\ trains'[c] = <<>> /\ ~sensorStates'[c]
  BY <1>1 DEF StateIsCurrent
<1> QED
  BY <1>2 DEF StateIsCurrent

(***************************************************************************)
(* A handler that changes a list and not the state: the block is occupied, *)
(* or the list stays empty or not.                                         *)
(***************************************************************************)
LEMMA CurrentWithoutUpdate ==
  ASSUME StateIsCurrent, UNCHANGED <<sensors, sensorStates, state>>,
         \A c \in Block : \/ trains'[c] = <<>> <=> trains[c] = <<>>
                          \/ state[c] = "Occupied"
  PROVE  StateIsCurrent'
<1>1. ASSUME NEW c \in Block
      PROVE  \/ state'[c] = BlockStateOf(sensors'[c], trains'[c])
             \/ state'[c] = "Free" /\ trains'[c] = <<>> /\ ~sensorStates'[c]
  <2>1. CASE state[c] = BlockStateOf(sensors[c], trains[c])
    <3>1. \/ trains[c] = <<>> <=> trains'[c] = <<>>
          \/ BlockStateOf(sensors[c], trains[c]) = "Occupied"
      BY <2>1
    <3>2. BlockStateOf(sensors[c], trains[c]) = BlockStateOf(sensors[c], trains'[c])
      BY <3>1, StateOfEmptiness
    <3> QED
      BY <2>1, <3>2
  <2>2. CASE state[c] = "Free" /\ trains[c] = <<>> /\ ~sensorStates[c]
    BY <2>2
  <2> QED
    BY <2>1, <2>2 DEF StateIsCurrent
<1> QED
  BY <1>1 DEF StateIsCurrent

(***************************************************************************)
(* inputItemValueChanged: whatever it did, updateState ran for each block  *)
(* whose sensors or statuses it changed.                                   *)
(***************************************************************************)
LEMMA CurrentSensorChange ==
  ASSUME Occupancy, SensorTypeOK, StateIsCurrent, SensorChange
  PROVE  StateIsCurrent'
<1> SUFFICES ASSUME NEW b \in Block, NEW i \in 1 .. NumSensors[b],
                    \/ TrainArrives(b, i)
                    \/ UnexplainedOccupation(b, i)
                    \/ TrainLeaves(b, i)
                    \/ \E v \in SensorState : SensorClears(b, i, v)
             PROVE  StateIsCurrent'
  BY DEF SensorChange
<1>1. \E v : SensorReads(b, i, v)
  BY DEF TrainArrives, UnexplainedOccupation, TrainLeaves, SensorClears
<1>2. \A c \in Block \ {b} : sensors'[c] = sensors[c] /\ sensorStates'[c] = sensorStates[c]
  BY <1>1 DEF SensorReads, SensorTypeOK
<1>3. ASSUME NEW updated \in SUBSET Block, b \in updated,
             \A c \in updated : state'[c] = BlockStateOf(sensors'[c], trains'[c]),
             \A c \in Block \ updated : trains'[c] = trains[c] /\ state'[c] = state[c]
      PROVE  StateIsCurrent'
  <2>1. ASSUME NEW c \in Block
        PROVE  \/ state'[c] = BlockStateOf(sensors'[c], trains'[c])
               \/ state'[c] = "Free" /\ trains'[c] = <<>> /\ ~sensorStates'[c]
    BY <1>2, <1>3 DEF StateIsCurrent
  <2> QED
    BY <2>1 DEF StateIsCurrent
<1>4. CASE TrainArrives(b, i)
  <2>1. PICK t \in Train, statuses \in Seq(StatusType) : Enter(t, b, statuses)
    BY <1>4, ArrivalEnters
  <2> DEFINE left == LeftBehind(<<Entered(b)>> \o blocks[t])
             present(c) == IF c = b THEN statuses ELSE trains[c]
  <2>2. /\ trains' = [c \in Block |-> IF c \in left THEN Without(present(c), t) ELSE present(c)]
        /\ state' = [c \in Block |-> IF c \in left \cup {b}
                                       THEN BlockStateOf(sensors'[c], trains'[c])
                                       ELSE state[c]]
    BY <2>1 DEF Enter
  <2> HIDE DEF left
  <2>3. /\ \A c \in Block \cap (left \cup {b}) : state'[c] = BlockStateOf(sensors'[c], trains'[c])
        /\ \A c \in Block \ (left \cup {b}) : trains'[c] = trains[c] /\ state'[c] = state[c]
    BY <2>2
  <2> DEFINE updated == Block \cap (left \cup {b})
  <2>4. /\ updated \in SUBSET Block /\ b \in updated
        /\ \A c \in updated : state'[c] = BlockStateOf(sensors'[c], trains'[c])
        /\ \A c \in Block \ updated : trains'[c] = trains[c] /\ state'[c] = state[c]
    BY <2>3
  <2> HIDE DEF updated
  <2> QED
    BY <1>3, <2>4
<1>5. CASE \/ UnexplainedOccupation(b, i)
           \/ TrainLeaves(b, i)
           \/ \E v \in SensorState : SensorClears(b, i, v)
  <2>1. /\ UpdateState(b)
        /\ \A c \in Block \ {b} : trains'[c] = trains[c]
    BY <1>5 DEF UnexplainedOccupation, TrainLeaves, SensorClears, Occupancy
  <2>2. /\ state'[b] = BlockStateOf(sensors'[b], trains'[b])
        /\ \A c \in Block \ {b} : state'[c] = state[c]
    BY <2>1 DEF UpdateState, Occupancy
  <2>3. {b} \in SUBSET Block /\ b \in {b}
    OBVIOUS
  <2> QED
    BY <1>3, <2>1, <2>2, <2>3
<1> QED
  BY <1>4, <1>5

(***************************************************************************)
(* assignTrain, removeTrain, flipTrain and setStateFree: a state they      *)
(* leave alone is occupied, or does not depend on what they change.        *)
(***************************************************************************)
LEMMA CurrentBlockCommand ==
  ASSUME Occupancy, StateIsCurrent, BlockCommand
  PROVE  StateIsCurrent'
<1>1. ASSUME NEW b \in Block, NEW t \in Train, AssignTrain(b, t) PROVE StateIsCurrent'
  <2>1. PICK list : trains' = [trains EXCEPT ![b] = list]
    BY <1>1 DEF AssignTrain
  <2>2. trains[b] = <<>> /\ trains'[b] = list /\ UNCHANGED <<sensors, sensorStates>>
    BY <1>1, <2>1 DEF AssignTrain, Occupancy
  <2>3. CASE state[b] \in {"Free", "Unknown"}
    <3>1. state' = [state EXCEPT ![b] = BlockStateOf(sensors[b], list)]
      BY <1>1, <2>2, <2>3 DEF AssignTrain
    <3> QED
      BY <2>1, <2>2, <3>1, CurrentOneBlock
  <2>4. CASE state[b] \notin {"Free", "Unknown"}
    <3>1. state[b] = "Occupied" /\ UNCHANGED state
      BY <1>1, <2>2, <2>4 DEF AssignTrain, Occupancy, Tells, BlockState
    <3>2. \A c \in Block : trains'[c] = trains[c] \/ state[c] = "Occupied"
      BY <2>1, <3>1 DEF Occupancy
    <3> QED
      BY <2>2, <3>1, <3>2, CurrentWithoutUpdate
  <2> QED
    BY <2>3, <2>4
<1>2. ASSUME NEW b \in Block, RemoveTrain(b) PROVE StateIsCurrent'
  <2>1. PICK list : trains' = [trains EXCEPT ![b] = list]
    BY <1>2 DEF RemoveTrain
  <2>2. trains[b] # <<>> /\ trains'[b] = list /\ UNCHANGED <<sensors, sensorStates>>
    BY <1>2, <2>1, OneIsNotEmpty DEF RemoveTrain, Occupancy
  <2>3. CASE state[b] = "Reserved"
    <3>1. state' = [state EXCEPT ![b] = BlockStateOf(sensors[b], list)]
      BY <1>2, <2>2, <2>3 DEF RemoveTrain
    <3> QED
      BY <2>1, <2>2, <3>1, CurrentOneBlock
  <2>4. CASE state[b] # "Reserved"
    <3>1. state[b] = "Occupied" /\ UNCHANGED state
      BY <1>2, <2>2, <2>4 DEF RemoveTrain, Occupancy, Tells, BlockState
    <3>2. \A c \in Block : trains'[c] = trains[c] \/ state[c] = "Occupied"
      BY <2>1, <3>1 DEF Occupancy
    <3> QED
      BY <2>2, <3>1, <3>2, CurrentWithoutUpdate
  <2> QED
    BY <2>3, <2>4
<1>3. ASSUME NEW b \in Block, FlipTrain(b) PROVE StateIsCurrent'
  <2>1. Occupancy'
    BY <1>3, OccupancyFlipTrain
  <2>2. UNCHANGED <<sensors, sensorStates, state>>
    BY <1>3 DEF FlipTrain
  <2>3. \A c \in Block \ {b} : trains'[c] = trains[c]
    BY <1>3 DEF FlipTrain, Occupancy
  <2>4. trains[b] # <<>> /\ trains'[b] # <<>>
    <3> DEFINE s == [trains[b][1] EXCEPT !.dir = Turned(@)]
    <3>1. trains' = [trains EXCEPT ![b] = [trains[b] EXCEPT ![1] = s]] /\ Len(trains[b]) = 1
      BY <1>3 DEF FlipTrain
    <3> HIDE DEF s
    <3>2. trains'[b] = [trains[b] EXCEPT ![1] = s] /\ trains[b] \in Seq(StatusType)
      BY <3>1 DEF Occupancy
    <3>3. Len(trains'[b]) = 1
      BY <3>1, <3>2
    <3> QED
      BY <3>1, <3>3, OneIsNotEmpty
  <2> QED
    BY <2>2, <2>3, <2>4, CurrentWithoutUpdate
<1>4. ASSUME NEW b \in Block, SetStateFree(b) PROVE StateIsCurrent'
  <2>1. /\ trains' = [trains EXCEPT ![b] = <<>>]
        /\ state' = [state EXCEPT ![b] = "Free"]
        /\ ~sensorStates[b]
        /\ UNCHANGED <<sensors, sensorStates>>
    BY <1>4 DEF SetStateFree, Occupancy
  <2> QED
    BY <2>1, CurrentOneBlock
<1> QED
  BY <1>1, <1>2, <1>3, <1>4 DEF BlockCommand

(***************************************************************************)
(* identificationEvent.                                                    *)
(***************************************************************************)
LEMMA CurrentIdentification ==
  ASSUME Occupancy, StateIsCurrent, Identification
  PROVE  StateIsCurrent'
<1>1. ASSUME NEW b \in Block, NEW tag \in Tag, NEW d \in TrainDirection,
             IdentificationPresent(b, tag, d)
      PROVE  StateIsCurrent'
  <2>1. PICK list : trains' = [trains EXCEPT ![b] = list]
    BY <1>1 DEF IdentificationPresent
  <2>2. trains[b] = <<>> /\ trains'[b] = list /\ UNCHANGED <<sensors, sensorStates>>
    BY <1>1, <2>1 DEF IdentificationPresent, Occupancy
  <2>3. CASE state[b] \in {"Free", "Unknown"}
    <3>1. state' = [state EXCEPT ![b] = BlockStateOf(sensors[b], list)]
      BY <1>1, <2>2, <2>3 DEF IdentificationPresent
    <3> QED
      BY <2>1, <2>2, <3>1, CurrentOneBlock
  <2>4. CASE state[b] \notin {"Free", "Unknown"}
    <3>1. state[b] = "Occupied" /\ UNCHANGED state
      BY <1>1, <2>2, <2>4 DEF IdentificationPresent, Occupancy, Tells, BlockState
    <3>2. \A c \in Block : trains'[c] = trains[c] \/ state[c] = "Occupied"
      BY <2>1, <3>1 DEF Occupancy
    <3> QED
      BY <2>2, <3>1, <3>2, CurrentWithoutUpdate
  <2> QED
    BY <2>3, <2>4
<1>2. ASSUME NEW b \in Block, NEW tag \in Tag, IdentificationAbsent(b, tag)
      PROVE  StateIsCurrent'
  <2>1. PICK list : trains' = [trains EXCEPT ![b] = list]
    BY <1>2 DEF IdentificationAbsent
  <2>2. trains'[b] = list /\ UNCHANGED <<sensors, sensorStates>>
    BY <1>2, <2>1 DEF IdentificationAbsent, Occupancy
  <2>3. state' = [state EXCEPT ![b] = BlockStateOf(sensors[b], list)]
    BY <1>2, <2>2 DEF IdentificationAbsent
  <2> QED
    BY <2>1, <2>2, <2>3, CurrentOneBlock
<1> QED
  BY <1>1, <1>2 DEF Identification

(***************************************************************************)
(* Turning a train turns statuses and leaves every list as long as it was. *)
(***************************************************************************)
LEMMA CurrentReverseTrain ==
  ASSUME Occupancy, StateIsCurrent, NEW t \in Train, ReverseTrain(t)
  PROVE  StateIsCurrent'
<1> DEFINE turned(b) == [i \in DOMAIN trains[b] |->
                           IF trains[b][i].who = t /\ TimesListed(t, b) % 2 = 1
                             THEN [trains[b][i] EXCEPT !.dir = Turned(@)]
                             ELSE trains[b][i]]
<1>1. trains' = [b \in Block |-> turned(b)] /\ UNCHANGED <<sensors, sensorStates, state>>
  BY DEF ReverseTrain
<1>2. ASSUME NEW b \in Block PROVE trains'[b] = <<>> <=> trains[b] = <<>>
  <2>1. DOMAIN trains'[b] = DOMAIN trains[b]
    BY <1>1
  <2>2. Occupancy'
    BY OccupancyReverseTrain
  <2>3. trains'[b] \in Seq(StatusType) /\ trains[b] \in Seq(StatusType)
    BY <2>2 DEF Occupancy
  <2>4. DOMAIN trains'[b] = 1 .. Len(trains'[b]) /\ DOMAIN trains[b] = 1 .. Len(trains[b])
    BY <2>3, LenProperties
  <2>5. Len(trains'[b]) \in Nat /\ Len(trains[b]) \in Nat
    BY <2>3, LenProperties
  <2>6. Len(trains'[b]) = 0 <=> Len(trains[b]) = 0
    <3>1. \A m, n \in Nat : 1 .. m = 1 .. n => (m = 0 <=> n = 0)
      OBVIOUS
    <3>2. 1 .. Len(trains'[b]) = 1 .. Len(trains[b])
      BY <2>1, <2>4
    <3> QED
      BY <2>5, <3>1, <3>2
  <2> QED
    BY <2>3, <2>6, EmptySeq
<1> HIDE DEF turned
<1> QED
  BY <1>1, <1>2, CurrentWithoutUpdate

(***************************************************************************)
(* BlockRailTile::reserve calls updateState for both ends of the path.     *)
(***************************************************************************)
LEMMA CurrentReservePath ==
  ASSUME StateIsCurrent, NEW p \in Path, ReservePath(p)
  PROVE  StateIsCurrent'
<1> DEFINE ends == {PathInfo[p].from, PathInfo[p].to}
<1>1. /\ \A b \in Block \ ends : trains'[b] = trains[b] /\ state'[b] = state[b]
      /\ \A b \in Block \cap ends : state'[b] = BlockStateOf(sensors[b], trains'[b])
      /\ UNCHANGED <<sensors, sensorStates>>
  BY DEF ReservePath
<1> HIDE DEF ends
<1>2. ASSUME NEW b \in Block
      PROVE  \/ state'[b] = BlockStateOf(sensors'[b], trains'[b])
             \/ state'[b] = "Free" /\ trains'[b] = <<>> /\ ~sensorStates'[b]
  BY <1>1 DEF StateIsCurrent
<1> QED
  BY <1>2 DEF StateIsCurrent

(***************************************************************************)
(* Within a session no order of events makes the state of a block stale,   *)
(* in any layout: the handlers that do not call updateState need not.      *)
(***************************************************************************)
THEOREM StateStaysCurrent == SessionSpec => []StateIsCurrent
<1>1. Init => StateIsCurrent
  <2> SUFFICES ASSUME Init, NEW b \in Block
               PROVE  state[b] = BlockStateOf(sensors[b], trains[b])
    BY DEF StateIsCurrent
  <2> DEFINE notFree == {i \in DOMAIN sensors[b] : sensors[b][i] # "Free"}
             first == CHOOSE i \in notFree : \A j \in notFree : i <= j
  <2>1. sensors[b] = [i \in 1 .. NumSensors[b] |-> "Unknown"] /\ NumSensors[b] \in Nat
    BY LayoutAssumption DEF Init
  <2>2. notFree = DOMAIN sensors[b] /\ notFree \in SUBSET Nat
    BY <2>1
  <2>3. notFree # {} => first \in notFree
    <3> HIDE DEF notFree
    <3> QED
      BY <2>2, LeastElement
  <2>4. ~(notFree # {} /\ sensors[b][first] = "Occupied")
    <3> HIDE DEF first
    <3> QED
      BY <2>1, <2>2, <2>3
  <2> QED
    BY <2>2, <2>4 DEF Init, BlockStateOf
<1>2. SessionNext => ApiNext
  BY DEF ApiNext, Next
<1>3. Occupancy /\ BlockTypeOK /\ StateIsCurrent /\ [SessionNext]_vars => StateIsCurrent'
  <2> SUFFICES ASSUME Occupancy, SensorTypeOK, StateIsCurrent, [SessionNext]_vars
               PROVE  StateIsCurrent'
    BY DEF BlockTypeOK
  <2>1. CASE UNCHANGED blockVars
    BY <2>1 DEF blockVars, StateIsCurrent
  <2>2. CASE TrainCommand
    BY <2>1, <2>2, CurrentReverseTrain DEF TrainCommand, StartOrStop
  <2>3. CASE FieldCommand \/ UNCHANGED vars
    BY <2>1, <2>3 DEF FieldCommand, SetPosition, SetControl, vars
  <2> QED
    BY <2>2, <2>3, CurrentSensorChange, CurrentBlockCommand, CurrentIdentification,
       CurrentReservePath DEF SessionNext, RoutesNext
<1> QED
  BY <1>1, <1>2, <1>3, OccupancyAlways, BlockTypesAreKept, PTL DEF SessionSpec, ApiSpec

-----------------------------------------------------------------------------
(* The lists of the trains and the statuses of the blocks *)

(***************************************************************************)
(* The inductive invariant: the blocks in a train's list have a status of  *)
(* the train.  That goes for blocks that are listed several times too: the *)
(* first removal destroys the status, and no entry of it is live then.     *)
(***************************************************************************)
Lists ==
  /\ ListTypeOK
  /\ \A t \in Train : \A b \in Live(blocks[t]) : HolderOf(trains[b]) = t

\* A block held by a train that does not list it is reserved ahead of the train.
Ahead ==
  \A t \in Train : \A b \in Block \ Live(blocks[t]) :
    HolderOf(trains[b]) = t => \E side \in Side : PathInto(b, side)

\* A step that concerns one train, or one tag: its list, its statuses, nobody else's.
OnlyFor(w) ==
  /\ ListTypeOK'
  /\ \A t \in Train \ {w} : blocks'[t] = blocks[t]
  /\ \A b \in Block : \/ HolderOf(trains'[b]) = HolderOf(trains[b])
                      \/ {HolderOf(trains[b]), HolderOf(trains'[b])} \subseteq {w, Nobody}
  /\ w \in Train => \A b \in Live(blocks'[w]) : HolderOf(trains'[b]) = w

\* The step gives the train no status in a block that it does not list.
NothingUnlisted(w) ==
  w \in Train =>
    \A b \in Block \ Live(blocks'[w]) :
      HolderOf(trains'[b]) = w => HolderOf(trains[b]) = w /\ b \notin Live(blocks[w])

(***************************************************************************)
(* Such a step keeps the lists right, those of the other trains included.  *)
(***************************************************************************)
LEMMA OnlyForKeepsLists ==
  ASSUME Lists, NEW w, OnlyFor(w)
  PROVE  Lists'
<1>1. ListTypeOK'
  BY DEF OnlyFor
<1>2. ASSUME NEW t \in Train
      PROVE  \A b \in Live(blocks'[t]) : HolderOf(trains'[b]) = t
  <2>1. CASE t = w
    BY <2>1 DEF OnlyFor
  <2>2. CASE t # w
    <3>1. blocks'[t] = blocks[t]
      BY <2>2 DEF OnlyFor
    <3>2. ASSUME NEW b \in Live(blocks[t]) PROVE HolderOf(trains'[b]) = t
      <4>1. b \in Block /\ HolderOf(trains[b]) = t
        BY DEF Lists, Live
      <4>2. t # Nobody
        BY LayoutAssumption
      <4> QED
        BY <2>2, <4>1, <4>2 DEF OnlyFor
    <3> QED
      BY <3>1, <3>2
  <2> QED
    BY <2>1, <2>2
<1>3. Lists' <=> /\ ListTypeOK'
                 /\ \A t \in Train : \A b \in Live(blocks'[t]) : HolderOf(trains'[b]) = t
  BY DEF Lists, Live, Elements, Entered, HolderOf
<1> QED
  BY <1>1, <1>2, <1>3

(***************************************************************************)
(* And if it gives no status away from the list, and no reservation is     *)
(* taken back, then what is held and not listed is still ahead.            *)
(***************************************************************************)
LEMMA OnlyForKeepsAhead ==
  ASSUME Ahead, NEW w, OnlyFor(w), NothingUnlisted(w),
         \A b \in Block, side \in Side : PathInto(b, side) => PathInto(b, side)'
  PROVE  Ahead'
<1>1. ASSUME NEW t \in Train, NEW b \in Block \ Live(blocks'[t]), HolderOf(trains'[b]) = t
      PROVE  \E side \in Side : PathInto(b, side)'
  <2>1. t # Nobody
    BY LayoutAssumption
  <2>2. HolderOf(trains[b]) = t /\ b \notin Live(blocks[t])
    <3>1. CASE t = w
      BY <1>1, <3>1 DEF NothingUnlisted
    <3>2. CASE t # w
      <4>1. blocks'[t] = blocks[t]
        BY <3>2 DEF OnlyFor
      <4>2. HolderOf(trains[b]) = t
        BY <1>1, <2>1, <3>2 DEF OnlyFor
      <4> QED
        BY <4>1, <4>2
    <3> QED
      BY <3>1, <3>2
  <2> QED
    BY <2>2 DEF Ahead
<1>2. Ahead' <=> \A t \in Train : \A b \in Block \ Live(blocks'[t]) :
                   HolderOf(trains'[b]) = t => \E side \in Side : PathInto(b, side)'
  BY DEF Ahead, PathInto, Live, Elements, Entered, HolderOf
<1> QED
  BY <1>1, <1>2

(***************************************************************************)
(* What a list of at most one status says of its holder, and what is left  *)
(* of it when a status is taken out.                                       *)
(***************************************************************************)
LEMMA HolderLeft ==
  ASSUME NEW list \in Seq(StatusType), Len(list) <= 1, NEW w \in Who
  PROVE  /\ HolderOf(list) = w => Without(list, w) = <<>>
         /\ HolderOf(list) # w => Without(list, w) = list
         /\ HolderOf(<<>>) = Nobody
<1>1. w # Nobody
  BY LayoutAssumption DEF Who
<1>2. CASE list = <<>>
  BY <1>1, <1>2, WithoutOne DEF HolderOf
<1>3. CASE list # <<>>
  BY <1>1, <1>3, WithoutOne DEF HolderOf
<1> QED
  BY <1>2, <1>3

(***************************************************************************)
(* TrainTracking::enter: the train lists the block it enters, and stops    *)
(* listing exactly the blocks that lose its status.                        *)
(***************************************************************************)
LEMMA ArrivalListed ==
  ASSUME Occupancy, Lists, NEW b \in Block, NEW i, TrainArrives(b, i)
  PROVE  \E w : OnlyFor(w) /\ NothingUnlisted(w)
<1>1. PICK t \in Train, statuses \in Seq(StatusType) :
        /\ Len(statuses) <= 1 /\ statuses # <<>> /\ Head(statuses).who = t
        /\ trains[b] = <<>> \/ trains[b] = statuses
        /\ Enter(t, b, statuses)
  BY ArrivalEnters
<1> DEFINE q == <<Entered(b)>> \o blocks[t]
           left == LeftBehind(q)
           rest == AfterLoop(q)
           present(c) == IF c = b THEN statuses ELSE trains[c]
<1>2. \A c \in Live(blocks[t]) : HolderOf(trains[c]) = t
  BY DEF Lists
<1>3. q \in Seq(EntryType) /\ q # <<>> /\ Live(q) = Live(blocks[t]) \cup {b}
  BY EnteringList DEF Lists
<1>4. rest \in Seq(EntryType) /\ Live(rest) \subseteq Live(q)
  <2> HIDE DEF q
  <2> QED
    BY <1>3, LoopElements
<1>5. /\ trains' = [c \in Block |-> IF c \in left THEN Without(present(c), t) ELSE present(c)]
      /\ blocks' = [blocks EXCEPT ![t] = rest]
  BY <1>1 DEF Enter
<1>6. Live(rest) = Live(q) \ left
  <2> HIDE DEF q
  <2>1. ToSet(q) = Elements(q) /\ ToSet(rest) = Elements(rest)
    BY <1>3, <1>4, ToSetElements
  <2>2. left = {c \in Block : Entered(c) \in ToSet(q) \ ToSet(rest)}
    BY DEF LeftBehind
  <2>3. left = {c \in Block : Entered(c) \in Elements(q) \ Elements(rest)}
    BY <2>1, <2>2
  <2> HIDE DEF left, rest
  <2>4. ASSUME NEW c \in Block
        PROVE  Entered(c) \in Elements(rest) <=> Entered(c) \in Elements(q) /\ c \notin left
    <3>1. Entered(c) \in Elements(rest) => c \in Live(rest)
      BY DEF Live
    <3>2. Entered(c) \in Elements(rest) => Entered(c) \in Elements(q)
      BY <1>4, <3>1 DEF Live
    <3>3. c \in left <=> Entered(c) \in Elements(q) /\ Entered(c) \notin Elements(rest)
      BY <2>3
    <3> QED
      BY <3>2, <3>3
  <2> QED
    BY <2>4 DEF Live
<1> HIDE DEF q, left, rest
<1>7. ListTypeOK' /\ blocks'[t] = rest /\ \A u \in Train \ {t} : blocks'[u] = blocks[u]
  BY <1>4, <1>5, <1>6, OneListChanges DEF Lists
<1>8. t \in Who /\ t # Nobody
  BY LayoutAssumption DEF Who
<1>9. HolderOf(statuses) = t /\ HolderOf(trains[b]) \in {t, Nobody}
  BY <1>1 DEF HolderOf
<1>10. ASSUME NEW c \in Block
       PROVE  HolderOf(trains'[c]) = IF c \in left
                                       THEN IF c = b \/ HolderOf(trains[c]) = t
                                              THEN Nobody ELSE HolderOf(trains[c])
                                       ELSE IF c = b THEN t ELSE HolderOf(trains[c])
  <2>1. present(c) \in Seq(StatusType) /\ Len(present(c)) <= 1
    BY <1>1 DEF Occupancy, Tells
  <2>2. HolderOf(present(c)) = IF c = b THEN t ELSE HolderOf(trains[c])
    BY <1>9
  <2>3. trains'[c] = IF c \in left THEN Without(present(c), t) ELSE present(c)
    BY <1>5
  <2> HIDE DEF present
  <2>4. HolderOf(Without(present(c), t)) = IF HolderOf(present(c)) = t
                                             THEN Nobody ELSE HolderOf(present(c))
    BY <1>8, <2>1, HolderLeft
  <2> QED
    BY <2>2, <2>3, <2>4
<1>11. OnlyFor(t)
  <2>1. \A c \in Block : \/ HolderOf(trains'[c]) = HolderOf(trains[c])
                         \/ {HolderOf(trains[c]), HolderOf(trains'[c])} \subseteq {t, Nobody}
    BY <1>9, <1>10
  <2>2. \A c \in Live(rest) : HolderOf(trains'[c]) = t
    <3>1. \A c \in Live(rest) : c \in Block
      BY DEF Live
    <3> QED
      BY <1>2, <1>3, <1>6, <1>10, <3>1
  <2> QED
    BY <1>7, <2>1, <2>2 DEF OnlyFor
<1>12. NothingUnlisted(t)
  <2>1. ASSUME NEW c \in Block \ Live(rest), HolderOf(trains'[c]) = t
        PROVE  HolderOf(trains[c]) = t /\ c \notin Live(blocks[t])
    BY <1>3, <1>6, <1>8, <1>10, <2>1
  <2> QED
    BY <1>7, <2>1 DEF NothingUnlisted
<1> QED
  BY <1>11, <1>12

(***************************************************************************)
(* TrainTracking::left, and removeTrain: the train's status goes, and      *)
(* every entry of its list that names the block.                           *)
(***************************************************************************)
LEMMA DepartureListed ==
  ASSUME Occupancy, Lists, NEW b \in Block,
         (\E i : TrainLeaves(b, i)) \/ RemoveTrain(b)
  PROVE  \E w : OnlyFor(w) /\ NothingUnlisted(w)
<1> DEFINE t == Head(trains[b]).who
<1>1. /\ t \in Train
      /\ Len(trains[b]) = 1
      /\ trains' = [trains EXCEPT ![b] = Without(@, t)]
      /\ \/ blocks' = [blocks EXCEPT ![t] = Leave(blocks[t], Entered(b))]
         \/ blocks' = [blocks EXCEPT ![t] = Destroy(blocks[t], b)]
  BY DEF TrainLeaves, TailGone, RemoveTrain
<1>2. HolderOf(trains[b]) = t
  BY <1>1, OneIsNotEmpty DEF HolderOf
<1> HIDE DEF t
<1>3. blocks[t] \in Seq(EntryType) /\ \A c \in Live(blocks[t]) : HolderOf(trains[c]) = t
  BY <1>1 DEF Lists, ListTypeOK
<1>4. PICK rest \in Seq(EntryType) : /\ blocks' = [blocks EXCEPT ![t] = rest]
                                     /\ Live(rest) = Live(blocks[t]) \ {b}
  <2> DEFINE left == Leave(blocks[t], Entered(b))
             destroyed == Destroy(blocks[t], b)
  <2>1. Entered(b) \in EntryType /\ Entered(b).block = b /\ Entered(b).age = 0
    BY EnteredEntry
  <2>2. left \in Seq(EntryType) /\ Live(left) = Live(blocks[t]) \ {b}
    BY <1>3, <2>1, LeaveElements
  <2>3. destroyed \in Seq(EntryType) /\ Live(destroyed) = Live(blocks[t]) \ {b}
    BY <1>3, DestroyElements
  <2>4. blocks' = [blocks EXCEPT ![t] = left] \/ blocks' = [blocks EXCEPT ![t] = destroyed]
    BY <1>1
  <2> HIDE DEF left, destroyed
  <2> QED
    BY <2>2, <2>3, <2>4
<1>5. ListTypeOK' /\ blocks'[t] = rest /\ \A u \in Train \ {t} : blocks'[u] = blocks[u]
  BY <1>1, <1>4, OneListChanges DEF Lists
<1>6. t # Nobody /\ t \in Who
  BY <1>1, LayoutAssumption DEF Who
<1>7. /\ HolderOf(trains'[b]) = Nobody
      /\ \A c \in Block \ {b} : HolderOf(trains'[c]) = HolderOf(trains[c])
  <2>1. trains[b] \in Seq(StatusType) /\ Len(trains[b]) <= 1
    BY DEF Occupancy, Tells
  <2>2. Without(trains[b], t) = <<>> /\ HolderOf(<<>>) = Nobody
    BY <1>2, <1>6, <2>1, HolderLeft
  <2>3. trains'[b] = <<>> /\ \A c \in Block \ {b} : trains'[c] = trains[c]
    BY <1>1, <2>2 DEF Occupancy
  <2> QED
    BY <2>2, <2>3
<1>8. OnlyFor(t)
  BY <1>2, <1>3, <1>4, <1>5, <1>7 DEF OnlyFor, Live
<1>9. NothingUnlisted(t)
  BY <1>4, <1>5, <1>6, <1>7 DEF NothingUnlisted
<1> QED
  BY <1>8, <1>9

(***************************************************************************)
(* assignTrain: the first entry of the list, with its status.              *)
(***************************************************************************)
LEMMA AssignmentListed ==
  ASSUME Occupancy, Lists, NEW b \in Block, NEW t \in Train, AssignTrain(b, t)
  PROVE  \E w : OnlyFor(w) /\ NothingUnlisted(w)
<1> DEFINE s == Status(t, IF forward[t] THEN "TowardsA" ELSE "TowardsB")
           list == Append(<<>>, s)
           only == Append(<<>>, Entered(b))
<1>1. s \in StatusType /\ s.who = t
  BY DEF Status, StatusType, Who, TrainDirection
<1>2. HolderOf(list) = t /\ HolderOf(<<>>) = Nobody
  BY <1>1, FirstStatus DEF HolderOf
<1>3. /\ trains[b] = <<>> /\ trains' = [trains EXCEPT ![b] = list]
      /\ blocks[t] = <<>> /\ blocks' = [blocks EXCEPT ![t] = only]
  BY DEF AssignTrain, Occupancy, Lists, ListTypeOK
<1>4. only \in Seq(EntryType) /\ Live(only) = {b} /\ Live(<<>>) = {}
  <2>1. <<>> \in Seq(EntryType) /\ Elements(<<>>) = {} /\ Entered(b) \in EntryType
    BY EmptySeq, EnteredEntry DEF Elements
  <2>2. \A l \in Seq(EntryType) : /\ Append(l, Entered(b)) \in Seq(EntryType)
                                  /\ Elements(Append(l, Entered(b))) = Elements(l) \cup {Entered(b)}
    BY <2>1, AppendElements
  <2> HIDE DEF only
  <2>3. only \in Seq(EntryType) /\ Elements(only) = {Entered(b)}
    BY <2>1, <2>2, Zenon DEF only
  <2> QED
    BY <2>1, <2>3, EnteredEntry DEF Live
<1> HIDE DEF s, list, only
<1>5. ListTypeOK' /\ blocks'[t] = only /\ \A u \in Train \ {t} : blocks'[u] = blocks[u]
  BY <1>3, <1>4, OneListChanges DEF Lists
<1>6. /\ HolderOf(trains[b]) = Nobody /\ HolderOf(trains'[b]) = t
      /\ \A c \in Block \ {b} : HolderOf(trains'[c]) = HolderOf(trains[c])
  BY <1>2, <1>3 DEF Occupancy
<1>7. OnlyFor(t)
  BY <1>4, <1>5, <1>6 DEF OnlyFor
<1>8. NothingUnlisted(t)
  <2>1. Live(blocks[t]) = {}
    BY <1>3, <1>4
  <2> QED
    BY <1>4, <1>5, <1>6, <2>1 DEF NothingUnlisted
<1> QED
  BY <1>7, <1>8

(***************************************************************************)
(* Train::direction: the list turns around, and lists the same blocks.     *)
(***************************************************************************)
LEMMA ReversalListed ==
  ASSUME Occupancy, Lists, NEW t \in Train, ReverseTrain(t)
  PROVE  \E w : OnlyFor(w) /\ NothingUnlisted(w)
<1> DEFINE turned == Reverse(blocks[t])
<1>1. blocks' = [blocks EXCEPT ![t] = turned]
  BY DEF ReverseTrain, Lists, ListTypeOK
<1>2. turned \in Seq(EntryType) /\ Live(turned) = Live(blocks[t])
  BY ReverseElements DEF Lists, ListTypeOK, Live
<1> HIDE DEF turned
<1>3. ListTypeOK' /\ blocks'[t] = turned /\ \A u \in Train \ {t} : blocks'[u] = blocks[u]
  BY <1>1, <1>2, OneListChanges DEF Lists
<1>4. \A c \in Block : HolderOf(trains'[c]) = HolderOf(trains[c])
  BY ClaimsReverseTrain DEF HolderMap
<1>5. \A c \in Live(turned) : HolderOf(trains'[c]) = t
  BY <1>2, <1>4 DEF Lists, Live
<1>6. OnlyFor(t)
  BY <1>2, <1>3, <1>4, <1>5 DEF OnlyFor
<1>7. NothingUnlisted(t)
  BY <1>2, <1>3, <1>4 DEF NothingUnlisted
<1> QED
  BY <1>6, <1>7

(***************************************************************************)
(* A handler that leaves the trains' lists alone.                          *)
(***************************************************************************)
LEMMA SameLists ==
  ASSUME Lists, UNCHANGED blocks, NEW w,
         \A b \in Block : \/ HolderOf(trains'[b]) = HolderOf(trains[b])
                          \/ {HolderOf(trains[b]), HolderOf(trains'[b])} \subseteq {w, Nobody},
         w \in Train => \A b \in Block : HolderOf(trains[b]) = w => HolderOf(trains'[b]) = w
  PROVE  OnlyFor(w)
<1>1. ListTypeOK'
  BY DEF Lists, ListTypeOK
<1>2. ASSUME w \in Train
      PROVE  \A b \in Live(blocks'[w]) : HolderOf(trains'[b]) = w
  <2>1. blocks'[w] = blocks[w]
    OBVIOUS
  <2> QED
    BY <1>2, <2>1 DEF Lists, Live
<1> QED
  BY <1>1, <1>2 DEF OnlyFor

(***************************************************************************)
(* A handler that leaves the lists and the holders of the blocks alone.    *)
(***************************************************************************)
LEMMA SameHolders ==
  ASSUME Lists, UNCHANGED blocks, UNCHANGED HolderMap
  PROVE  \E w : OnlyFor(w) /\ NothingUnlisted(w)
<1>1. \A b \in Block : HolderOf(trains'[b]) = HolderOf(trains[b])
  BY DEF HolderMap
<1>2. Nobody \notin Train
  BY LayoutAssumption
<1>3. OnlyFor(Nobody) /\ NothingUnlisted(Nobody)
  BY <1>1, <1>2, SameLists DEF NothingUnlisted
<1> QED
  BY <1>3

(***************************************************************************)
(* identificationEvent: the status of a tag comes or goes, a train has     *)
(* none in this block.                                                     *)
(***************************************************************************)
LEMMA IdentificationListed ==
  ASSUME Occupancy, Lists, Identification
  PROVE  \E w : OnlyFor(w) /\ NothingUnlisted(w)
<1> SUFFICES ASSUME NEW b \in Block, NEW tag \in Tag,
                    \/ \E d \in TrainDirection : IdentificationPresent(b, tag, d)
                    \/ IdentificationAbsent(b, tag)
             PROVE  \E w : OnlyFor(w) /\ NothingUnlisted(w)
  BY DEF Identification
<1>1. UNCHANGED blocks /\ \A c \in Block \ {b} : trains'[c] = trains[c]
  BY DEF IdentificationPresent, IdentificationAbsent, trainVars, Occupancy
<1>2. tag \notin Train /\ tag \in Who
  BY LayoutAssumption DEF Who
<1>3. \/ HolderOf(trains'[b]) = HolderOf(trains[b])
      \/ {HolderOf(trains[b]), HolderOf(trains'[b])} \subseteq {tag, Nobody}
  <2>1. ASSUME NEW d \in TrainDirection, IdentificationPresent(b, tag, d)
        PROVE  HolderOf(trains[b]) = Nobody /\ HolderOf(trains'[b]) = tag
    <3> DEFINE list == Append(<<>>, Status(tag, d))
    <3>1. Status(tag, d) \in StatusType /\ Status(tag, d).who = tag
      BY <1>2 DEF Status, StatusType
    <3>2. list # <<>> /\ Head(list).who = tag
      BY <3>1, FirstStatus
    <3>3. trains[b] = <<>> /\ trains'[b] = list
      BY <2>1 DEF IdentificationPresent, Occupancy
    <3> HIDE DEF list
    <3> QED
      BY <3>2, <3>3 DEF HolderOf
  <2>2. ASSUME IdentificationAbsent(b, tag)
        PROVE  \/ HolderOf(trains'[b]) = HolderOf(trains[b])
               \/ HolderOf(trains[b]) = tag /\ HolderOf(trains'[b]) = Nobody
    <3>1. trains'[b] = Without(trains[b], tag)
      BY <2>2 DEF IdentificationAbsent, Occupancy
    <3>2. trains[b] \in Seq(StatusType) /\ Len(trains[b]) <= 1
      BY DEF Occupancy, Tells
    <3> QED
      BY <1>2, <3>1, <3>2, HolderLeft
  <2> QED
    BY <2>1, <2>2
<1>4. OnlyFor(tag) /\ NothingUnlisted(tag)
  BY <1>1, <1>2, <1>3, SameLists DEF NothingUnlisted
<1> QED
  BY <1>4

(***************************************************************************)
(* BlockRailTile::reserve: the train gets a status in the block its path   *)
(* leads to, and does not list it yet.  That side of the block was not     *)
(* reserved, and now is.                                                   *)
(***************************************************************************)
LEMMA ReservationListed ==
  ASSUME Occupancy, Lists, NEW p \in Path, ReservePath(p)
  PROVE  /\ \E w : OnlyFor(w)
         /\ RouteTypeOK /\ Ahead => Ahead'
<1>1. PICK t \in Train, gained \in SUBSET {PathInfo[p].to} :
        /\ \A b \in gained : HolderOf(trains[b]) = Nobody /\ HolderOf(trains'[b]) = t
        /\ \A b \in Block \ gained : HolderOf(trains'[b]) = HolderOf(trains[b])
  BY ReserveGains
<1>2. UNCHANGED blocks /\ t # Nobody
  BY LayoutAssumption DEF ReservePath, trainVars
<1>3. OnlyFor(t)
  BY <1>1, <1>2, SameLists
<1>4. ASSUME RouteTypeOK, Ahead PROVE Ahead'
  <2>1. ASSUME NEW b \in Block, NEW side \in Side, PathInto(b, side) PROVE PathInto(b, side)'
    <3>1. reservedPaths[b][side] # NoPath
      BY <2>1 DEF PathInto
    <3>2. reservedPaths'[b][side] = reservedPaths[b][side]
      BY <1>4, <3>1, ReservedSides
    <3> QED
      BY <2>1, <3>2 DEF PathInto
  <2>2. ASSUME NEW b \in gained PROVE \E side \in Side : PathInto(b, side)'
    <3>1. b = PathInfo[p].to /\ PathInfo[p].toSide \in Side /\ b \in Block
      BY PathElements
    <3>2. reservedPaths'[b][PathInfo[p].toSide] = p
      BY <1>4, <3>1, ReservedSides DEF Ends
    <3> QED
      BY <3>1, <3>2, PathAssumption DEF PathInto
  <2>3. ASSUME NEW u \in Train, NEW b \in Block \ Live(blocks[u]), HolderOf(trains'[b]) = u
        PROVE  \E side \in Side : PathInto(b, side)'
    <3>1. CASE b \in gained
      BY <2>2, <3>1
    <3>2. CASE b \notin gained
      <4>1. HolderOf(trains[b]) = u
        BY <1>1, <2>3, <3>2
      <4> QED
        BY <1>4, <2>1, <2>3, <4>1 DEF Ahead
    <3> QED
      BY <3>1, <3>2
  <2>4. Ahead' <=> \A u \in Train : \A b \in Block \ Live(blocks'[u]) :
                     HolderOf(trains'[b]) = u => \E side \in Side : PathInto(b, side)'
    BY DEF Ahead, PathInto, Live, Elements, Entered, HolderOf
  <2> QED
    BY <1>2, <2>3, <2>4
<1> QED
  BY <1>3, <1>4

(***************************************************************************)
(* Every operation but a reservation concerns one train or tag, and gives  *)
(* a train no status in a block that it does not list.                     *)
(***************************************************************************)
LEMMA ListedStep ==
  ASSUME Occupancy, Lists, [ApiNext]_vars
  PROVE  \/ \E w : OnlyFor(w) /\ NothingUnlisted(w)
         \/ \E p \in Path : ReservePath(p)
<1> DEFINE Goal == \E w : OnlyFor(w) /\ NothingUnlisted(w)
<1>1. UNCHANGED <<trains, blocks>> => Goal
  BY SameHolders DEF HolderMap, HolderOf
<1> HIDE DEF Goal
<1>2. CASE SensorChange
  <2> SUFFICES ASSUME NEW b \in Block, NEW i \in 1 .. NumSensors[b],
                      \/ TrainArrives(b, i)
                      \/ UnexplainedOccupation(b, i)
                      \/ TrainLeaves(b, i)
                      \/ \E v \in SensorState : SensorClears(b, i, v)
               PROVE  Goal
    BY <1>2 DEF SensorChange, Goal
  <2>1. CASE TrainArrives(b, i)
    BY <2>1, ArrivalListed DEF Goal
  <2>2. CASE TrainLeaves(b, i)
    BY <2>2, DepartureListed DEF Goal
  <2>3. CASE UnexplainedOccupation(b, i) \/ \E v \in SensorState : SensorClears(b, i, v)
    BY <1>1, <2>3 DEF UnexplainedOccupation, SensorClears
  <2> QED
    BY <2>1, <2>2, <2>3
<1>3. CASE BlockCommand
  <2>1. ASSUME NEW b \in Block, NEW t \in Train, AssignTrain(b, t) PROVE Goal
    BY <2>1, AssignmentListed DEF Goal
  <2>2. ASSUME NEW b \in Block, RemoveTrain(b) PROVE Goal
    BY <2>2, DepartureListed DEF Goal
  <2>3. ASSUME NEW b \in Block, FlipTrain(b) PROVE Goal
    <3>1. UNCHANGED blocks
      BY <2>3 DEF FlipTrain, trainVars
    <3> QED
      BY <2>3, <3>1, ClaimsFlipTrain, SameHolders DEF Goal
  <2>4. ASSUME NEW b \in Block, SetStateFree(b) PROVE Goal
    BY <1>1, <2>4 DEF SetStateFree, trainVars
  <2> QED
    BY <1>3, <2>1, <2>2, <2>3, <2>4 DEF BlockCommand, Goal
<1>4. CASE Identification
  BY <1>4, IdentificationListed DEF Goal
<1>5. CASE TrainCommand
  <2>1. ASSUME NEW t \in Train, ReverseTrain(t) PROVE Goal
    BY <2>1, ReversalListed DEF Goal
  <2>2. ASSUME NEW t \in Train, StartOrStop(t) PROVE Goal
    BY <1>1, <2>2 DEF StartOrStop, blockVars
  <2> QED
    BY <1>5, <2>1, <2>2 DEF TrainCommand, Goal
<1>6. CASE FieldCommand
  BY <1>1, <1>6 DEF FieldCommand, SetPosition, SetControl, blockVars, trainVars, Goal
<1>7. ASSUME NEW p \in Path, ReleasePath(p) PROVE Goal
  BY <1>1, <1>7 DEF ReleasePath, blockVars, trainVars
<1>8. CASE Reload
  BY <1>1, <1>8 DEF Reload, Goal
<1>9. CASE UNCHANGED vars
  BY <1>1, <1>9 DEF vars, blockVars, trainVars, Goal
<1> QED
  BY <1>2, <1>3, <1>4, <1>5, <1>6, <1>7, <1>8, <1>9
  DEF ApiNext, Next, SessionNext, RoutesNext, Goal

(***************************************************************************)
(* A new board: no train lists a block.                                    *)
(***************************************************************************)
LEMMA ListsInit == Init => Lists /\ Ahead
<1> SUFFICES ASSUME Init PROVE Lists /\ Ahead
  OBVIOUS
<1>1. /\ \A t \in Train : blocks[t] = <<>>
      /\ blocks \in [Train -> Seq(EntryType)]
      /\ \A b \in Block : HolderOf(trains[b]) = Nobody
  BY EmptySeq DEF Init, HolderOf
<1>2. Live(<<>>) = {}
  BY EmptySeq DEF Elements, Live
<1> QED
  BY <1>1, <1>2, LayoutAssumption DEF Lists, ListTypeOK, Ahead

(***************************************************************************)
(* Every operation keeps the lists, across releases and reloads.           *)
(***************************************************************************)
LEMMA ListsStep == Occupancy /\ Lists /\ [ApiNext]_vars => Lists'
BY ListedStep, ReservationListed, OnlyForKeepsLists

(***************************************************************************)
(* In a session no reservation is taken back, so what is held and not      *)
(* listed stays reserved until the train comes into it.                    *)
(***************************************************************************)
LEMMA AheadStep ==
  Occupancy /\ Lists /\ RouteTypeOK /\ Ahead /\ [SessionNext]_vars => Ahead'
<1> SUFFICES ASSUME Occupancy, Lists, RouteTypeOK, Ahead, [SessionNext]_vars PROVE Ahead'
  OBVIOUS
<1>1. CASE \E p \in Path : ReservePath(p)
  BY <1>1, ReservationListed
<1>2. CASE ~ \E p \in Path : ReservePath(p)
  <2>1. [ApiNext]_vars
    BY DEF ApiNext, Next
  <2>2. PICK w : OnlyFor(w) /\ NothingUnlisted(w)
    BY <1>2, <2>1, ListedStep
  <2>3. UNCHANGED reservedPaths
    BY <1>2 DEF SessionNext, RoutesNext, SensorChange, TrainArrives, UnexplainedOccupation,
       TrainLeaves, SensorClears, SensorReads, BlockCommand, AssignTrain, RemoveTrain, FlipTrain,
       SetStateFree, Identification, IdentificationPresent, IdentificationAbsent, TrainCommand,
       ReverseTrain, StartOrStop, FieldCommand, SetPosition, SetControl, routeVars, vars
  <2>4. \A b \in Block, side \in Side : PathInto(b, side) => PathInto(b, side)'
    BY <2>3 DEF PathInto
  <2> QED
    BY <2>2, <2>4, OnlyForKeepsAhead
<1> QED
  BY <1>1, <1>2

(***************************************************************************)
(* The lists are right in every reachable state.                           *)
(***************************************************************************)
LEMMA ListsAlways == ApiSpec => []Lists
<1>1. Init => Lists
  BY ListsInit
<1> QED
  BY <1>1, ListsStep, OccupancyAlways, PTL DEF ApiSpec

(***************************************************************************)
(* A train has a status in a block when it is the holder of the block.     *)
(***************************************************************************)
LEMMA HoldsIsHolder ==
  ASSUME Occupancy, NEW b \in Block, NEW t \in Train
  PROVE  Holds(b, t) <=> HolderOf(trains[b]) = t
<1>1. /\ trains[b] \in Seq(StatusType) /\ Len(trains[b]) <= 1
      /\ DOMAIN trains[b] = 1 .. Len(trains[b]) /\ Len(trains[b]) \in Nat
  BY LenProperties DEF Occupancy, Tells
<1>2. t # Nobody
  BY LayoutAssumption
<1>3. CASE trains[b] = <<>>
  <2>1. DOMAIN trains[b] = {}
    BY <1>1, <1>3, EmptySeq
  <2> QED
    BY <1>2, <1>3, <2>1 DEF Holds, HolderOf
<1>4. CASE trains[b] # <<>>
  <2>1. Len(trains[b]) = 1 /\ HolderOf(trains[b]) = trains[b][1].who
    BY <1>1, <1>4, OnlyStatus DEF HolderOf
  <2>2. DOMAIN trains[b] = {1}
    BY <1>1, <2>1
  <2> QED
    BY <2>1, <2>2 DEF Holds
<1> QED
  BY <1>3, <1>4

(***************************************************************************)
(* The two sides of the tracking agree in a session, for every layout and  *)
(* number of trains, and however often sensors report a train into a block *)
(* it is in: a train has a status in each block it lists, but for statuses *)
(* that were destroyed, and what it holds besides is reserved ahead of it. *)
(***************************************************************************)
THEOREM TrackingStaysConsistent == SessionSpec => []TrackingIsConsistent
<1>1. Init => Ahead
  BY ListsInit
<1>2. SessionNext => ApiNext
  BY DEF ApiNext, Next
<1>3. BlockTypeOK => RouteTypeOK
  BY DEF BlockTypeOK
<1>4. Occupancy /\ Lists /\ Ahead => TrackingIsConsistent
  <2> SUFFICES ASSUME Occupancy, Lists, Ahead, NEW t \in Train, NEW b \in Block
               PROVE  /\ TimesListed(t, b) > 0 => Holds(b, t)
                      /\ Holds(b, t) /\ TimesListed(t, b) = 0 =>
                           \E side \in Side : PathInto(b, side)
    BY DEF TrackingIsConsistent
  <2>1. TimesListed(t, b) \in Nat /\ (TimesListed(t, b) = 0 <=> b \notin Live(blocks[t]))
    BY ListedOrNot DEF Lists, ListTypeOK
  <2>2. Holds(b, t) <=> HolderOf(trains[b]) = t
    BY HoldsIsHolder
  <2>3. b \in Live(blocks[t]) => HolderOf(trains[b]) = t
    BY DEF Lists
  <2>4. b \notin Live(blocks[t]) /\ HolderOf(trains[b]) = t =>
          \E side \in Side : PathInto(b, side)
    BY DEF Ahead
  <2> QED
    BY <2>1, <2>2, <2>3, <2>4
<1> QED
  BY <1>1, <1>2, <1>3, <1>4, AheadStep, ListsAlways, OccupancyAlways, BlockTypesAreKept, PTL
  DEF SessionSpec, ApiSpec

-----------------------------------------------------------------------------
(* The last block of a train *)

\* A block that train t is in is reported again.
ReportedAgain(t, b) ==
  /\ Entered(b) \in ToSet(blocks[t])
  /\ \E i \in 1 .. NumSensors[b] : sensors[b][i] # "Occupied" /\ sensors'[b][i] = "Occupied"

LastBlockKept ==
  \A t \in Train : blocks[t] # <<>> /\ blocks'[t] = <<>> =>
    \E b \in Block : RemoveTrain(b) \/ ListedTwice(t, b) \/ ReportedAgain(t, b)

(***************************************************************************)
(* The sensor that reports a train into a block was not occupied before.   *)
(***************************************************************************)
LEMMA ArrivalReports ==
  ASSUME SensorTypeOK, NEW b \in Block, NEW i \in 1 .. NumSensors[b], TrainArrives(b, i)
  PROVE  sensors[b][i] # "Occupied" /\ sensors'[b][i] = "Occupied"
BY DEF TrainArrives, SensorReads, SensorTypeOK

(***************************************************************************)
(* A list that is not single lists some status twice.                      *)
(***************************************************************************)
LEMMA NotSingle ==
  ASSUME ListTypeOK, NEW t \in Train, ~Single(blocks[t])
  PROVE  \E b \in Block : ListedTwice(t, b)
<1>1. blocks[t] \in Seq(EntryType) /\ DOMAIN blocks[t] = 1 .. Len(blocks[t])
  BY LenProperties DEF ListTypeOK
<1>2. PICK i \in 1 .. Len(blocks[t]), j \in 1 .. Len(blocks[t]) :
        blocks[t][i] = blocks[t][j] /\ blocks[t][i].age = 0 /\ i # j
  BY DEF Single
<1>3. blocks[t][i] \in EntryType
  BY <1>1, ElementOfSeq
<1>4. blocks[t][i].block \in Block /\ blocks[t][i] = Entered(blocks[t][i].block)
  BY <1>2, <1>3, EnteredEntry DEF EntryType
<1> QED
  BY <1>1, <1>2, <1>4 DEF ListedTwice

(***************************************************************************)
(* A train that comes into a block it is not in, with a list in which no   *)
(* status is twice, has such a list then.                                  *)
(***************************************************************************)
LEMMA EnteringSingle ==
  ASSUME ListTypeOK, NEW t \in Train, NEW b \in Block,
         Single(blocks[t]), b \notin Live(blocks[t])
  PROVE  Single(<<Entered(b)>> \o blocks[t])
<1> DEFINE q == <<Entered(b)>> \o blocks[t]
           n == Len(blocks[t])
<1>1. Len(q) = n + 1 /\ \A i \in 1 .. n + 1 : q[i] = IF i = 1 THEN Entered(b) ELSE blocks[t][i - 1]
  BY EnteringList
<1>2. n \in Nat
  BY LenProperties DEF ListTypeOK
<1>3. \A i \in 1 .. n : blocks[t][i] # Entered(b)
  BY DEF Live, Elements
<1> HIDE DEF q, n
<1> SUFFICES ASSUME NEW i \in 1 .. n + 1, NEW j \in 1 .. n + 1, q[i] = q[j], q[i].age = 0
             PROVE  i = j
  BY <1>1 DEF Single, q
<1>4. CASE i = 1 /\ j # 1
  <2>1. j - 1 \in 1 .. n /\ q[j] = blocks[t][j - 1] /\ q[i] = Entered(b)
    BY <1>1, <1>2, <1>4
  <2> QED
    BY <1>3, <2>1
<1>5. CASE i # 1 /\ j = 1
  <2>1. i - 1 \in 1 .. n /\ q[i] = blocks[t][i - 1] /\ q[j] = Entered(b)
    BY <1>1, <1>2, <1>5
  <2> QED
    BY <1>3, <2>1
<1>6. CASE i # 1 /\ j # 1
  <2>1. i - 1 \in 1 .. n /\ j - 1 \in 1 .. n
    BY <1>2, <1>6
  <2>2. q[i] = blocks[t][i - 1] /\ q[j] = blocks[t][j - 1]
    BY <1>1, <1>6
  <2>3. i - 1 = j - 1
    BY <2>1, <2>2 DEF Single, n
  <2> QED
    BY <1>2, <2>3
<1> QED
  BY <1>4, <1>5, <1>6

(***************************************************************************)
(* A train that comes in keeps the block it comes into, one that leaves    *)
(* has another block, unless a status is in its list twice.                *)
(***************************************************************************)
LEMMA LastBlockStep ==
  ASSUME Occupancy, SensorTypeOK, ListTypeOK, [ApiNext]_vars
  PROVE  LastBlockKept
<1> SUFFICES ASSUME NEW u \in Train, blocks[u] # <<>>, blocks'[u] = <<>>,
                    \A b \in Block : ~RemoveTrain(b) /\ ~ListedTwice(u, b) /\ ~ReportedAgain(u, b)
             PROVE  FALSE
  BY DEF LastBlockKept
<1>1. blocks[u] \in Seq(EntryType) /\ Single(blocks[u])
  BY NotSingle DEF ListTypeOK
<1>2. ASSUME NEW b \in Block, NEW i \in 1 .. NumSensors[b], TrainArrives(b, i) PROVE FALSE
  <2>1. PICK t \in Train, statuses \in Seq(StatusType) : Enter(t, b, statuses)
    BY <1>2, ArrivalEnters
  <2> DEFINE q == <<Entered(b)>> \o blocks[t]
             rest == AfterLoop(q)
  <2>2. q \in Seq(EntryType) /\ q # <<>>
    BY EnteringList
  <2>3. blocks' = [blocks EXCEPT ![t] = rest]
    BY <2>1 DEF Enter
  <2>4. rest \in Seq(EntryType) /\ (Single(q) => rest # <<>>)
    <3> HIDE DEF q
    <3> QED
      BY <2>2, LoopElements
  <2> HIDE DEF rest
  <2>5. blocks'[t] = rest /\ \A v \in Train \ {t} : blocks'[v] = blocks[v]
    BY <2>3, <2>4, OneListChanges
  <2>6. t = u
    BY <2>5
  <2>7. b \notin Live(blocks[u])
    <3>1. ToSet(blocks[u]) = Elements(blocks[u])
      BY <1>1, ToSetElements
    <3>2. Entered(b) \notin ToSet(blocks[u])
      BY <1>2, ArrivalReports DEF ReportedAgain
    <3> QED
      BY <3>1, <3>2 DEF Live
  <2>8. Single(q)
    BY <1>1, <2>6, <2>7, EnteringSingle
  <2> HIDE DEF q
  <2> QED
    BY <2>4, <2>5, <2>6, <2>8
<1>3. ASSUME NEW b \in Block, NEW i, TrainLeaves(b, i) PROVE FALSE
  <2> DEFINE t == Head(trains[b]).who
             rest == Leave(blocks[t], Entered(b))
  <2>1. t \in Train /\ Len(blocks[t]) > 1 /\ blocks' = [blocks EXCEPT ![t] = rest]
    BY <1>3 DEF TrainLeaves, TailGone
  <2> HIDE DEF t
  <2>2. blocks[t] \in Seq(EntryType) /\ Entered(b) \in EntryType
    BY <2>1, EnteredEntry DEF ListTypeOK
  <2>3. rest \in Seq(EntryType) /\ (Single(blocks[t]) => rest # <<>>)
    BY <2>1, <2>2, LeaveElements
  <2> HIDE DEF rest
  <2>4. blocks'[t] = rest /\ \A v \in Train \ {t} : blocks'[v] = blocks[v]
    BY <2>1, <2>3, OneListChanges
  <2> QED
    BY <1>1, <2>3, <2>4
<1>4. ASSUME NEW b \in Block, NEW t \in Train, AssignTrain(b, t) PROVE FALSE
  <2>1. blocks[t] = <<>> /\ \A v \in Train \ {t} : blocks'[v] = blocks[v]
    BY <1>4 DEF AssignTrain, ListTypeOK
  <2> QED
    BY <2>1
<1>5. ASSUME NEW t \in Train, ReverseTrain(t) PROVE FALSE
  <2>1. blocks' = [blocks EXCEPT ![t] = Reverse(blocks[t])]
    BY <1>5 DEF ReverseTrain
  <2>2. blocks[t] \in Seq(EntryType) /\ Reverse(blocks[t]) \in Seq(EntryType)
        /\ Len(Reverse(blocks[t])) = Len(blocks[t])
    BY ReverseElements DEF ListTypeOK
  <2>3. blocks'[t] = Reverse(blocks[t]) /\ \A v \in Train \ {t} : blocks'[v] = blocks[v]
    BY <2>1, <2>2, OneListChanges
  <2>4. Reverse(blocks[t]) = <<>> => blocks[t] = <<>>
    BY <2>2, EmptySeq
  <2> QED
    BY <2>3, <2>4
<1> QED
  BY <1>2, <1>3, <1>4, <1>5, OthersLeaveLists

(***************************************************************************)
(* "Train must be in at least two blocks, else we loose it": whatever      *)
(* sensors report, in every layout and with any number of trains, a train  *)
(* goes off the layout by removeTrain, or because a block it is in was     *)
(* reported once more.                                                     *)
(***************************************************************************)
THEOREM TrainsAreNotLost == ApiSpec => LostOnlyIfListedTwice
<1>1. Init => ListTypeOK
  BY EmptySeq DEF Init, ListTypeOK
<1>2. BlockTypeOK => SensorTypeOK
  BY DEF BlockTypeOK
<1>3. Occupancy /\ SensorTypeOK /\ ListTypeOK /\ [ApiNext]_vars => LastBlockKept
  BY LastBlockStep
<1>4. LastBlockKept =>
        \A t \in Train : blocks[t] # <<>> /\ blocks'[t] = <<>> =>
          \E b \in Block : \/ RemoveTrain(b)
                           \/ ListedTwice(t, b)
                           \/ /\ Entered(b) \in ToSet(blocks[t])
                              /\ \E i \in 1 .. NumSensors[b] :
                                   sensors[b][i] # "Occupied" /\ sensors'[b][i] = "Occupied"
  BY DEF LastBlockKept, ReportedAgain
<1> QED
  BY <1>1, <1>2, <1>3, <1>4, ListTypesStep, OccupancyAlways, BlockTypesAreKept, PTL
  DEF ApiSpec, LostOnlyIfListedTwice
=============================================================================
