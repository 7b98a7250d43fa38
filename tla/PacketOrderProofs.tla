-------------------------- MODULE PacketOrderProofs --------------------------
(***************************************************************************)
(* Proofs about PacketOrder: types, the bound of the queue and the purge   *)
(* before a reset, for all parameters; that no packet is passed over when  *)
(* gaps are not allowed, for fewer packets than there are counts.          *)
(***************************************************************************)
EXTENDS PacketOrder, NaturalFacts, SequenceTheorems

----------------------------------------------------------------------------
(* Sorted lists. *)

Sorted(list) == \A i, j \in DOMAIN list : i < j => list[i] <= list[j]

\* Counts are natural numbers.
LEMMA Counts ==
  /\ Modulo \in Nat \ {0} /\ SeqCounts \subseteq Nat
  /\ alpha_value \in Nat \ {0} /\ beta_value \in Nat /\ beta_value + alpha_value <= Modulo
BY ModuloAssumption DEF SeqCounts, alpha_value, beta_value

\* The values below another are the first of a sorted list.
LEMMA BelowSplits ==
  ASSUME NEW list \in Seq(SeqCounts), Sorted(list), NEW val \in SeqCounts
  PROVE  /\ Below(list, val) \in 0 .. Len(list)
         /\ \A i \in 1 .. Len(list) : i <= Below(list, val) <=> list[i] < val
<1> DEFINE n == Len(list)
           D == {i \in DOMAIN list : list[i] < val}
           T == {i \in 1 .. n : ~(list[i] < val)}
<1>1. n \in Nat /\ DOMAIN list = 1 .. n /\ \A i \in 1 .. n : list[i] \in Nat
  <2>1. \A i \in 1 .. n : list[i] \in SeqCounts
    BY ElementOfSeq
  <2>2. QED  BY <2>1, Counts, LenProperties
<1>2. CASE T = {}
  <2>1. \A i \in 1 .. n : list[i] < val
    BY <1>2
  <2>2. D = 1 .. n
    BY <1>1, <2>1
  <2>3. Cardinality(1 .. n) = n
    BY <1>1, FS_Interval
  <2>4. Below(list, val) = n
    BY <2>2, <2>3 DEF Below
  <2>5. QED  BY <1>1, <2>1, <2>4
<1>3. CASE T # {}
  <2>1. PICK m \in T : \A i \in T : m <= i
    <3>1. T \subseteq Nat
      BY <1>1
    <3>. HIDE DEF T
    <3>2. QED  BY <1>3, <3>1, LeastMember
  <2>2. m \in 1 .. n /\ val <= list[m] /\ m - 1 \in Nat
    BY <1>1, <2>1, Counts
  <2>3. \A i \in 1 .. n : i <= m - 1 <=> list[i] < val
    <3>1. ASSUME NEW i \in 1 .. n, i < m
          PROVE  list[i] < val
      BY <1>1, <2>1, <3>1
    <3>2. ASSUME NEW i \in 1 .. n, ~(i < m)
          PROVE  ~(list[i] < val)
      <4>1. list[m] <= list[i]
        BY <1>1, <2>2, <3>2 DEF Sorted
      <4>2. QED  BY <1>1, <2>2, <4>1, Counts
    <3>3. QED  BY <1>1, <2>2, <3>1, <3>2
  <2>4. D = 1 .. m - 1
    BY <1>1, <2>2, <2>3
  <2>5. Cardinality(1 .. m - 1) = m - 1
    BY <2>2, FS_Interval
  <2>6. Below(list, val) = m - 1
    BY <2>4, <2>5 DEF Below
  <2>7. QED  BY <1>1, <2>2, <2>3, <2>6
<1>4. QED  BY <1>2, <1>3

\* What is in a list after one more was put in.
LEMMA InsertedIs ==
  ASSUME NEW list \in Seq(SeqCounts), Sorted(list), NEW val \in SeqCounts
  PROVE  /\ Inserted(list, val) \in Seq(SeqCounts)
         /\ Len(Inserted(list, val)) = Len(list) + 1
         /\ \A i \in 1 .. Len(list) + 1 :
              Inserted(list, val)[i] = IF i <= Below(list, val) THEN list[i]
                                       ELSE IF i = Below(list, val) + 1 THEN val
                                       ELSE list[i - 1]
<1> DEFINE n == Len(list)
           k == Below(list, val)
           before == SubSeq(list, 1, k)
           rest == SubSeq(list, k + 1, n)
<1>1. n \in Nat /\ k \in 0 .. n /\ \A i \in 1 .. n : list[i] \in SeqCounts
  BY BelowSplits, LenProperties, ElementOfSeq
<1>2. Inserted(list, val) = (before \o <<val>>) \o rest
  <2>1. (k + 1) - 1 = k
    BY <1>1
  <2>2. QED  BY <2>1 DEF Inserted, InsertAt
<1>. HIDE DEF k
<1>3. /\ before \in Seq(SeqCounts) /\ Len(before) = k
      /\ \A i \in 1 .. k : before[i] = list[i]
  BY <1>1, SubSeqProperties
<1>4. /\ rest \in Seq(SeqCounts) /\ Len(rest) = n - k
      /\ \A i \in 1 .. n - k : rest[i] = list[k + i]
  BY <1>1, SubSeqProperties
<1>. HIDE DEF before, rest
<1>5. <<val>> \in Seq(SeqCounts) /\ Len(<<val>>) = 1 /\ <<val>>[1] = val
  OBVIOUS
<1> DEFINE first == before \o <<val>>
<1>6. /\ first \in Seq(SeqCounts) /\ Len(first) = k + 1
      /\ \A i \in 1 .. k + 1 : first[i] = IF i <= k THEN list[i] ELSE val
  BY <1>1, <1>3, <1>5, ConcatProperties
<1>. HIDE DEF first
<1>7. /\ first \o rest \in Seq(SeqCounts) /\ Len(first \o rest) = n + 1
      /\ \A i \in 1 .. n + 1 : (first \o rest)[i] = IF i <= k + 1 THEN first[i]
                                                ELSE rest[i - (k + 1)]
  <2>1. /\ first \o rest \in Seq(SeqCounts) /\ Len(first \o rest) = Len(first) + Len(rest)
        /\ \A i \in 1 .. Len(first) + Len(rest) :
             (first \o rest)[i] = IF i <= Len(first) THEN first[i] ELSE rest[i - Len(first)]
    BY <1>4, <1>6, ConcatProperties
  <2>2. Len(first) + Len(rest) = n + 1 /\ Len(first) = k + 1
    BY <1>1, <1>4, <1>6
  <2>3. QED  BY <2>1, <2>2
<1>8. \A i \in 1 .. n + 1 : (first \o rest)[i] = IF i <= k THEN list[i]
                                             ELSE IF i = k + 1 THEN val ELSE list[i - 1]
  <2>1. ASSUME NEW i \in 1 .. n + 1, i > k + 1
        PROVE  rest[i - (k + 1)] = list[i - 1]
    <3>1. i - (k + 1) \in 1 .. n - k /\ k + (i - (k + 1)) = i - 1
      BY <1>1, <2>1
    <3>2. QED  BY <1>4, <3>1
  <2>2. QED  BY <1>1, <1>6, <1>7, <2>1
<1>9. QED  BY <1>2, <1>7, <1>8 DEF first, k

\* It is still sorted, and holds what it held and the new one.
LEMMA InsertedSorted ==
  ASSUME NEW list \in Seq(SeqCounts), Sorted(list), NEW val \in SeqCounts
  PROVE  /\ Sorted(Inserted(list, val))
         /\ ToSet(Inserted(list, val)) = ToSet(list) \cup {val}
<1> DEFINE n == Len(list)
           k == Below(list, val)
           r == Inserted(list, val)
<1>1. n \in Nat /\ DOMAIN list = 1 .. n /\ \A i \in 1 .. n : list[i] \in Nat
  <2>1. \A i \in 1 .. n : list[i] \in SeqCounts
    BY ElementOfSeq
  <2>2. QED  BY <2>1, Counts, LenProperties
<1>2. k \in 0 .. n /\ val \in Nat /\ \A i \in 1 .. n : i <= k <=> list[i] < val
  BY BelowSplits, Counts
<1>3. /\ DOMAIN r = 1 .. n + 1
      /\ \A i \in 1 .. n + 1 : r[i] = IF i <= k THEN list[i]
                                      ELSE IF i = k + 1 THEN val ELSE list[i - 1]
  BY InsertedIs, LenProperties
<1>. HIDE DEF n, k, r
<1>4. ASSUME NEW i \in 1 .. n + 1, NEW j \in 1 .. n + 1, i < j
      PROVE  r[i] <= r[j]
  <2>1. CASE j <= k
    <3>1. r[i] = list[i] /\ r[j] = list[j] /\ i \in 1 .. n /\ j \in 1 .. n
      BY <1>1, <1>2, <1>3, <1>4, <2>1
    <3>2. QED  BY <1>1, <1>4, <3>1 DEF Sorted
  <2>2. CASE j = k + 1
    BY <1>1, <1>2, <1>3, <1>4, <2>2
  <2>3. CASE j > k + 1 /\ i <= k
    <3>1. r[i] = list[i] /\ r[j] = list[j - 1] /\ i \in 1 .. n /\ j - 1 \in 1 .. n /\ i < j - 1
      BY <1>1, <1>2, <1>3, <1>4, <2>3
    <3>2. QED  BY <1>1, <3>1 DEF Sorted
  <2>4. CASE j > k + 1 /\ i = k + 1
    <3>1. r[i] = val /\ r[j] = list[j - 1] /\ j - 1 \in 1 .. n /\ ~(j - 1 <= k)
      BY <1>1, <1>2, <1>3, <1>4, <2>4
    <3>2. QED  BY <1>1, <1>2, <3>1
  <2>5. CASE i > k + 1
    <3>1. r[i] = list[i - 1] /\ r[j] = list[j - 1] /\ i - 1 \in 1 .. n /\ j - 1 \in 1 .. n
          /\ i - 1 < j - 1
      BY <1>1, <1>2, <1>3, <1>4, <2>5
    <3>2. QED  BY <1>1, <3>1 DEF Sorted
  <2>6. QED  BY <1>2, <1>4, <2>1, <2>2, <2>3, <2>4, <2>5
<1>5. Sorted(r)
  BY <1>3, <1>4 DEF Sorted
<1>6. ToSet(r) \subseteq ToSet(list) \cup {val}
  <2>1. ASSUME NEW i \in 1 .. n + 1
        PROVE  r[i] \in ToSet(list) \cup {val}
    <3>1. i \in 1 .. n \/ i - 1 \in 1 .. n \/ i = k + 1
      BY <1>1, <1>2
    <3>2. r[i] = val \/ \E j \in 1 .. n : r[i] = list[j]
      BY <1>1, <1>2, <1>3, <3>1
    <3>3. QED  BY <1>1, <3>2 DEF ToSet
  <2>2. QED  BY <1>3, <2>1 DEF ToSet
<1>7. ASSUME NEW i \in 1 .. n
      PROVE  list[i] \in ToSet(r)
  <2>1. i \in 1 .. n + 1 /\ i + 1 \in 1 .. n + 1 /\ (i + 1) - 1 = i
    BY <1>1
  <2>2. r[i] = list[i] \/ r[i + 1] = list[i]
    BY <1>1, <1>2, <1>3, <2>1
  <2>3. QED  BY <1>3, <2>1, <2>2 DEF ToSet
<1>8. val \in ToSet(r)
  <2>1. k + 1 \in 1 .. n + 1 /\ r[k + 1] = val
    BY <1>1, <1>2, <1>3
  <2>2. QED  BY <1>3, <2>1 DEF ToSet
<1>9. ToSet(r) = ToSet(list) \cup {val}
  BY <1>1, <1>6, <1>7, <1>8 DEF ToSet
<1>10. QED  BY <1>5, <1>9 DEF r

\* The first of a sorted list is its least; without it the list is its tail.
LEMMA RemovedHead ==
  ASSUME NEW list \in Seq(SeqCounts), Sorted(list), list # <<>>
  PROVE  /\ Head(list) \in SeqCounts /\ Contains(list, Head(list))
         /\ \A i \in 1 .. Len(list) : Head(list) <= list[i]
         /\ Removed(list, Head(list)) = Tail(list)
         /\ Tail(list) \in Seq(SeqCounts) /\ Sorted(Tail(list)) /\ Len(Tail(list)) = Len(list) - 1
         /\ \A i \in 1 .. Len(list) - 1 : Tail(list)[i] = list[i + 1]
<1> DEFINE n == Len(list)
           val == Head(list)
<1>1. /\ n \in Nat \ {0} /\ DOMAIN list = 1 .. n /\ val = list[1] /\ val \in SeqCounts
      /\ \A i \in 1 .. n : list[i] \in Nat
  <2>1. \A i \in 1 .. n : list[i] \in SeqCounts
    BY ElementOfSeq
  <2>2. n \in Nat \ {0} /\ DOMAIN list = 1 .. n
    BY EmptySeq, LenProperties
  <2>3. val = list[1] /\ 1 \in 1 .. n
    BY <2>2
  <2>4. QED  BY <2>1, <2>2, <2>3, Counts
<1>. HIDE DEF val
<1>2. \A i \in 1 .. n : val <= list[i]
  BY <1>1 DEF Sorted
<1>3. Below(list, val) = 0
  <2>1. {i \in DOMAIN list : list[i] < val} = {}
    BY <1>1, <1>2
  <2>2. QED  BY <2>1, FS_EmptySet DEF Below
<1>4. Removed(list, val) = SubSeq(list, 1, 0) \o SubSeq(list, 2, n)
  BY <1>3 DEF Removed, RemoveAt
<1>5. SubSeq(list, 1, 0) = <<>> /\ SubSeq(list, 2, n) = Tail(list)
  BY SubSeqEmpty, TailIsSubSeq
<1>6. /\ Tail(list) \in Seq(SeqCounts) /\ Len(Tail(list)) = n - 1
      /\ \A i \in 1 .. n - 1 : Tail(list)[i] = list[i + 1]
  <2>1. /\ Tail(list) \in Seq(SeqCounts) /\ Len(Tail(list)) = n - 1
        /\ \A i \in 1 .. Len(Tail(list)) : Tail(list)[i] = list[i + 1]
    BY HeadTailProperties
  <2>2. QED  BY <2>1
<1>7. Removed(list, val) = Tail(list)
  BY <1>4, <1>5, <1>6, ConcatEmptySeq
<1>8. Sorted(Tail(list))
  <2>1. DOMAIN Tail(list) = 1 .. n - 1
    BY <1>6, LenProperties
  <2>2. ASSUME NEW i \in 1 .. n - 1, NEW j \in 1 .. n - 1, i < j
        PROVE  Tail(list)[i] <= Tail(list)[j]
    <3>1. i + 1 \in 1 .. n /\ j + 1 \in 1 .. n /\ i + 1 < j + 1
      BY <1>1, <2>2
    <3>2. QED  BY <1>1, <1>6, <3>1 DEF Sorted
  <2>3. QED  BY <2>1, <2>2 DEF Sorted
<1>9. Contains(list, val)
  BY <1>1 DEF Contains
<1>10. QED  BY <1>1, <1>2, <1>6, <1>7, <1>8, <1>9 DEF val

----------------------------------------------------------------------------
(* What the methods of ModuloList do. *)

Lists == [alpha : Seq(SeqCounts), beta : Seq(SeqCounts), has_beta : BOOLEAN]

ProperList(list) ==
  list \in Lists /\ Sorted(list.alpha) /\ Sorted(list.beta) /\ (~list.has_beta => list.beta = <<>>)

Listed(alpha, beta, has_beta) == [alpha |-> alpha, beta |-> beta, has_beta |-> has_beta]

\* The lists that add_value chooses from.
LEMMA AddValueIs ==
  ASSUME NEW list, ProperList(list), NEW val \in SeqCounts
  PROVE  LET new == add_value(list, val)
         IN  \/ /\ val < alpha_value /\ list.has_beta
                /\ new = Listed(list.alpha, Inserted(list.beta, val), TRUE)
             \/ /\ val < alpha_value /\ ~list.has_beta
                /\ new = Listed(Inserted(list.alpha, val), <<>>, FALSE)
             \/ /\ alpha_value <= val /\ val < beta_value
                /\ new = Listed(Inserted(IF list.has_beta THEN list.beta ELSE list.alpha, val),
                                <<>>, FALSE)
             \/ /\ beta_value <= val
                /\ new = Listed(Inserted(list.alpha, val), list.beta, TRUE)
<1>1. val \in Nat /\ alpha_value \in Nat /\ beta_value \in Nat /\ alpha_value <= beta_value
  BY Counts, ModuloAssumption DEF alpha_value, beta_value
<1>2. /\ list.has_beta \in BOOLEAN /\ (~list.has_beta => list.beta = <<>>)
      /\ list = Listed(list.alpha, list.beta, list.has_beta)
  BY DEF ProperList, Lists, Listed
<1>3. CASE val < alpha_value /\ list.has_beta
  <2>1. add_value(list, val) = [list EXCEPT !.beta = Inserted(@, val)]
    BY <1>1, <1>2, <1>3 DEF add_value
  <2>2. QED  BY <1>2, <1>3, <2>1 DEF Listed
<1>4. CASE val < alpha_value /\ ~list.has_beta
  <2>1. add_value(list, val) = [list EXCEPT !.alpha = Inserted(@, val)]
    BY <1>1, <1>2, <1>4 DEF add_value
  <2>2. QED  BY <1>2, <1>4, <2>1 DEF Listed
<1>5. CASE alpha_value <= val /\ val < beta_value
  <2>1. add_value(list, val) =
          [ alpha |-> Inserted(IF list.has_beta THEN list.beta ELSE list.alpha, val),
            beta |-> <<>>,
            has_beta |-> FALSE ]
    BY <1>1, <1>2, <1>5 DEF add_value
  <2>2. QED  BY <1>5, <2>1 DEF Listed
<1>6. CASE beta_value <= val
  <2>1. add_value(list, val) = [list EXCEPT !.alpha = Inserted(@, val), !.has_beta = TRUE]
    BY <1>1, <1>2, <1>6 DEF add_value
  <2>2. QED  BY <1>2, <1>6, <2>1 DEF Listed
<1>7. \/ val < alpha_value /\ list.has_beta
      \/ val < alpha_value /\ ~list.has_beta
      \/ alpha_value <= val /\ val < beta_value
      \/ beta_value <= val
  BY <1>1
<1>8. QED  BY ONLY <1>3, <1>4, <1>5, <1>6, <1>7

\* The size of the lists.
LEMMA SizeIs ==
  ASSUME NEW list, ProperList(list)
  PROVE  \E alpha, beta \in Seq(SeqCounts) :
           /\ list.alpha = alpha /\ list.beta = beta /\ list.has_beta \in BOOLEAN
           /\ get_size(list) = Len(alpha) + Len(beta)
           /\ Len(alpha) \in Nat /\ Len(beta) \in Nat
BY DEF ProperList, Lists, get_size

\* It keeps the lists sorted, and makes them longer by one at most.
LEMMA AddValueEffect ==
  ASSUME NEW list, ProperList(list), NEW val \in SeqCounts
  PROVE  LET new == add_value(list, val)
         IN  /\ ProperList(new)
             /\ get_size(list) \in Nat /\ get_size(new) \in Nat
             /\ get_size(new) <= get_size(list) + 1
<1> DEFINE new == add_value(list, val)
           a == list.alpha
           b == list.beta
           moved == IF list.has_beta THEN b ELSE a
<1>1. /\ a \in Seq(SeqCounts) /\ Sorted(a) /\ Len(a) \in Nat
      /\ b \in Seq(SeqCounts) /\ Sorted(b) /\ Len(b) \in Nat
      /\ list.has_beta \in BOOLEAN /\ (~list.has_beta => b = <<>>)
      /\ get_size(list) = Len(a) + Len(b)
  BY DEF ProperList, Lists, get_size
<1>2. \A s \in Seq(SeqCounts) : Sorted(s) =>
        /\ Inserted(s, val) \in Seq(SeqCounts) /\ Sorted(Inserted(s, val))
        /\ Len(Inserted(s, val)) = Len(s) + 1
  BY InsertedIs, InsertedSorted
<1>3. <<>> \in Seq(SeqCounts) /\ Len(<<>>) = 0 /\ Sorted(<<>>)
  BY DEF Sorted
<1>4. moved = a \/ moved = b
  OBVIOUS
<1>5. \/ new = Listed(a, Inserted(b, val), TRUE)
      \/ new = Listed(Inserted(a, val), <<>>, FALSE)
      \/ new = Listed(Inserted(moved, val), <<>>, FALSE)
      \/ new = Listed(Inserted(a, val), b, TRUE)
  BY AddValueIs
<1>. HIDE DEF new, a, b, moved
<1> DEFINE Fits(alpha, beta, has_beta) ==
             /\ alpha \in Seq(SeqCounts) /\ beta \in Seq(SeqCounts) /\ has_beta \in BOOLEAN
             /\ Sorted(alpha) /\ Sorted(beta) /\ (~has_beta => beta = <<>>)
             /\ Len(alpha) + Len(beta) <= Len(a) + Len(b) + 1
<1>6. /\ Fits(a, Inserted(b, val), TRUE) /\ Fits(Inserted(a, val), b, TRUE)
      /\ Fits(Inserted(a, val), <<>>, FALSE) /\ Fits(Inserted(moved, val), <<>>, FALSE)
  <2>1. /\ Inserted(a, val) \in Seq(SeqCounts) /\ Sorted(Inserted(a, val))
        /\ Len(Inserted(a, val)) = Len(a) + 1
        /\ Inserted(b, val) \in Seq(SeqCounts) /\ Sorted(Inserted(b, val))
        /\ Len(Inserted(b, val)) = Len(b) + 1
    BY <1>1, <1>2
  <2>2. Fits(a, Inserted(b, val), TRUE)
    BY <1>1, <2>1
  <2>3. Fits(Inserted(a, val), b, TRUE)
    BY <1>1, <2>1
  <2>4. Fits(Inserted(a, val), <<>>, FALSE)
    BY <1>1, <1>3, <2>1
  <2>5. Fits(Inserted(b, val), <<>>, FALSE)
    BY <1>1, <1>3, <2>1
  <2>6. QED  BY <1>4, <2>2, <2>3, <2>4, <2>5
<1>7. PICK alpha, beta, has_beta : new = Listed(alpha, beta, has_beta) /\ Fits(alpha, beta, has_beta)
  <2>. HIDE DEF Fits
  <2>1. QED  BY <1>5, <1>6
<1>8. new.alpha = alpha /\ new.beta = beta /\ new.has_beta = has_beta /\ new \in Lists
  BY <1>7 DEF Listed, Lists
<1>9. ProperList(new) /\ get_size(new) = Len(alpha) + Len(beta)
  BY <1>7, <1>8 DEF ProperList, get_size
<1>10. get_size(list) \in Nat /\ get_size(new) \in Nat /\ get_size(new) <= get_size(list) + 1
  BY <1>1, <1>7, <1>9
<1>11. QED  BY <1>9, <1>10 DEF new

\* The count before another on the cycle.
LEMMA PreviousIs ==
  ASSUME NEW count \in SeqCounts
  PROVE  /\ Previous(count) = IF count = 0 THEN Modulo - 1 ELSE count - 1
         /\ Previous(count) \in SeqCounts
<1>1. Modulo \in Nat \ {0} /\ count \in 0 .. Modulo - 1
  BY Counts DEF SeqCounts
<1>2. CASE count = 0
  <2>1. (count + Modulo) - 1 = Modulo * 0 + (Modulo - 1) /\ Modulo - 1 \in 0 .. Modulo - 1
    BY <1>1, <1>2
  <2>2. ((count + Modulo) - 1) % Modulo = Modulo - 1
    BY <1>1, <2>1, ModIs
  <2>3. QED  BY <1>1, <1>2, <2>2 DEF Previous, mod, SeqCounts
<1>3. CASE count # 0
  <2>1. (count + Modulo) - 1 = Modulo * 1 + (count - 1) /\ count - 1 \in 0 .. Modulo - 1
    BY <1>1, <1>3
  <2>2. ((count + Modulo) - 1) % Modulo = count - 1
    BY <1>1, <2>1, ModIs
  <2>3. QED  BY <1>1, <1>3, <2>2 DEF Previous, mod, SeqCounts
<1>4. QED  BY <1>2, <1>3

\* The next value, and the lists without it.
LEMMA NextIs ==
  ASSUME NEW list, ProperList(list), HasNext(list)
  PROVE  /\ get_next_value(list) = Head(list.alpha) /\ get_next_value(list) \in SeqCounts
         /\ remove_value(list, get_next_value(list)) =
              Listed(Tail(list.alpha), list.beta, list.has_beta)
         /\ ProperList(Listed(Tail(list.alpha), list.beta, list.has_beta))
         /\ get_size(list) \in Nat \ {0}
         /\ get_size(Listed(Tail(list.alpha), list.beta, list.has_beta)) = get_size(list) - 1
<1> DEFINE a == list.alpha
           b == list.beta
           new == Listed(Tail(a), b, list.has_beta)
<1>1. /\ a \in Seq(SeqCounts) /\ Sorted(a) /\ Len(a) \in Nat /\ a # <<>>
      /\ b \in Seq(SeqCounts) /\ Sorted(b) /\ Len(b) \in Nat
      /\ list.has_beta \in BOOLEAN /\ (~list.has_beta => b = <<>>)
      /\ get_size(list) = Len(a) + Len(b) /\ list = Listed(a, b, list.has_beta)
  BY DEF ProperList, Lists, get_size, HasNext, Listed
<1>2. get_next_value(list) = Head(a)
  BY DEF get_next_value
<1>3. remove_value(list, Head(a)) = [list EXCEPT !.alpha = Removed(@, Head(a))]
  <2>1. Contains(a, Head(a))
    BY <1>1, RemovedHead
  <2>2. QED  BY <2>1 DEF remove_value
<1>. HIDE DEF a, b
<1>4. /\ Head(a) \in SeqCounts /\ Removed(a, Head(a)) = Tail(a)
      /\ Tail(a) \in Seq(SeqCounts) /\ Sorted(Tail(a)) /\ Len(Tail(a)) = Len(a) - 1
  BY <1>1, RemovedHead
<1>5. remove_value(list, Head(a)) = new
  BY <1>1, <1>3, <1>4 DEF Listed, a, b
<1>6. new.alpha = Tail(a) /\ new.beta = b /\ new.has_beta = list.has_beta /\ new \in Lists
  BY <1>1, <1>4 DEF Listed, Lists
<1>7. ProperList(new) /\ get_size(new) = Len(Tail(a)) + Len(b)
  BY <1>1, <1>4, <1>6 DEF ProperList, get_size
<1>8. Len(a) # 0
  BY <1>1, EmptySeq
<1>9. get_size(list) \in Nat \ {0} /\ get_size(new) = get_size(list) - 1
  BY <1>1, <1>4, <1>7, <1>8
<1>10. QED  BY <1>2, <1>4, <1>5, <1>7, <1>9 DEF a, b

\* Lists of no size are empty.
LEMMA NoSize ==
  ASSUME NEW list, ProperList(list), get_size(list) = 0
  PROVE  list.alpha = <<>> /\ list.beta = <<>>
<1> DEFINE a == list.alpha
           b == list.beta
<1>1. /\ a \in Seq(SeqCounts) /\ Len(a) \in Nat /\ b \in Seq(SeqCounts) /\ Len(b) \in Nat
      /\ Len(a) + Len(b) = 0
  BY DEF ProperList, Lists, get_size
<1>. HIDE DEF a, b
<1>2. Len(a) = 0 /\ Len(b) = 0
  BY <1>1
<1>3. a = <<>> /\ b = <<>>
  BY <1>1, <1>2, EmptySeq
<1>4. QED  BY <1>3 DEF a, b

----------------------------------------------------------------------------
(* What the methods of ApidInfo do. *)

Infos ==
  [ has_sent : BOOLEAN, lastSeqCountSent : SeqCounts, reset_packet : SUBSET Packets,
    seq_counts : Lists, packet_dict : SUBSET Packets ]

ProperInfo(info) == info \in Infos /\ ProperList(info.seq_counts)

Size(info) == get_size(info.seq_counts)

\* Whether the first of what waits, if any, follows what was sent.
LinedUp(info) ==
  HasNext(info.seq_counts) =>
    info.lastSeqCountSent = Previous(get_next_value(info.seq_counts))

\* Skipping lines up.
LEMMA SkipEffect ==
  ASSUME NEW info, ProperInfo(info)
  PROVE  LET new == skip_to_next_available(info)
         IN  /\ ProperInfo(new) /\ LinedUp(new)
             /\ \E count \in SeqCounts : new = [info EXCEPT !.lastSeqCountSent = count]
             /\ ~HasNext(info.seq_counts) => new = info
<1> DEFINE new == skip_to_next_available(info)
           next == get_next_value(info.seq_counts)
<1>1. info \in Infos /\ ProperList(info.seq_counts) /\ info.lastSeqCountSent \in SeqCounts
  BY DEF ProperInfo, Infos
<1>2. CASE HasNext(info.seq_counts)
  <2>1. next \in SeqCounts /\ Previous(next) \in SeqCounts
    BY <1>1, <1>2, NextIs, PreviousIs
  <2>2. new = [info EXCEPT !.lastSeqCountSent = Previous(next)]
    BY <1>2 DEF skip_to_next_available
  <2>3. /\ new \in Infos /\ new.seq_counts = info.seq_counts
        /\ new.lastSeqCountSent = Previous(next)
    BY <1>1, <2>1, <2>2 DEF Infos
  <2>. HIDE DEF new
  <2>4. ProperInfo(new) /\ LinedUp(new)
    BY <1>1, <2>3 DEF ProperInfo, LinedUp
  <2>5. QED  BY <1>2, <2>1, <2>2, <2>4 DEF new
<1>3. CASE ~HasNext(info.seq_counts)
  <2>1. new = info /\ info = [info EXCEPT !.lastSeqCountSent = info.lastSeqCountSent]
    BY <1>1, <1>3 DEF skip_to_next_available, Infos
  <2>. HIDE DEF new
  <2>2. QED  BY <1>1, <1>3, <2>1 DEF new, LinedUp
<1>4. QED  BY <1>2, <1>3

\* A stored packet is beside its count.
LEMMA StoreEffect ==
  ASSUME NEW info, ProperInfo(info), NEW packet \in Packets
  PROVE  LET new == store(info, packet)
         IN  /\ ProperInfo(new)
             /\ new.has_sent = info.has_sent /\ new.lastSeqCountSent = info.lastSeqCountSent
             /\ new.reset_packet = info.reset_packet
             /\ new.seq_counts = add_value(info.seq_counts, packet.seqcount)
             /\ new.packet_dict =
                  {p \in info.packet_dict : p.seqcount # packet.seqcount} \cup {packet}
             /\ Size(info) \in Nat /\ Size(new) \in Nat /\ Size(new) <= Size(info) + 1
<1> DEFINE new == store(info, packet)
           added == add_value(info.seq_counts, packet.seqcount)
           dict == {p \in info.packet_dict : p.seqcount # packet.seqcount} \cup {packet}
<1>1. info \in Infos /\ ProperList(info.seq_counts) /\ packet.seqcount \in SeqCounts
  BY DEF ProperInfo, Packets
<1>2. /\ ProperList(added) /\ get_size(info.seq_counts) \in Nat /\ get_size(added) \in Nat
      /\ get_size(added) <= get_size(info.seq_counts) + 1
  BY <1>1, AddValueEffect
<1>3. added \in Lists /\ dict \in SUBSET Packets
  BY <1>1, <1>2 DEF ProperList, Infos
<1>4. new = [info EXCEPT !.seq_counts = added, !.packet_dict = dict]
  BY DEF store
<1>. HIDE DEF added, dict
<1>5. /\ new \in Infos
      /\ new.has_sent = info.has_sent /\ new.lastSeqCountSent = info.lastSeqCountSent
      /\ new.reset_packet = info.reset_packet
      /\ new.seq_counts = added /\ new.packet_dict = dict
  BY <1>1, <1>3, <1>4 DEF Infos
<1>. HIDE DEF new
<1>6. QED  BY <1>1, <1>2, <1>5 DEF ProperInfo, Size, new, added, dict

\* What waits first is sent, if its packet is there.
LEMMA EmitEffect ==
  ASSUME NEW info, ProperInfo(info), HasNext(info.seq_counts)
  PROVE  LET new == EmitNext(info)
             next == get_next_value(info.seq_counts)
             list == info.seq_counts
         IN  \/ /\ new = info /\ NextPackets(info) = <<>>
                /\ \A p \in info.packet_dict : p.seqcount # next
             \/ /\ \E p \in info.packet_dict : p.seqcount = next /\ NextPackets(info) = <<p>>
                /\ ProperInfo(new)
                /\ new.has_sent = info.has_sent /\ new.lastSeqCountSent = next
                /\ new.reset_packet = info.reset_packet
                /\ new.seq_counts = Listed(Tail(list.alpha), list.beta, list.has_beta)
                /\ new.packet_dict = {p \in info.packet_dict : p.seqcount # next}
                /\ Size(info) \in Nat \ {0} /\ Size(new) = Size(info) - 1
<1> DEFINE new == EmitNext(info)
           next == get_next_value(info.seq_counts)
           list == info.seq_counts
           found == {p \in info.packet_dict : p.seqcount = next}
           less == Listed(Tail(list.alpha), list.beta, list.has_beta)
<1>1. info \in Infos /\ ProperList(list)
  BY DEF ProperInfo
<1>2. CASE found = {}
  <2>1. new = info /\ NextPackets(info) = <<>>
    BY <1>2 DEF EmitNext, NextPackets
  <2>2. \A p \in info.packet_dict : p.seqcount # next
    BY <1>2
  <2>3. QED  BY <2>1, <2>2
<1>3. CASE found # {}
  <2>1. /\ next \in SeqCounts /\ remove_value(list, next) = less /\ ProperList(less)
        /\ get_size(list) \in Nat \ {0} /\ get_size(less) = get_size(list) - 1
    BY <1>1, NextIs
  <2>2. new = [info EXCEPT !.seq_counts = less,
                           !.packet_dict = @ \ found,
                           !.lastSeqCountSent = next]
    BY <1>3, <2>1 DEF EmitNext
  <2>3. NextPackets(info) = <<CHOOSE p \in found : TRUE>>
    BY <1>3 DEF NextPackets
  <2>4. \E p \in info.packet_dict : p.seqcount = next /\ NextPackets(info) = <<p>>
    <3>1. (CHOOSE p \in found : TRUE) \in found
      BY <1>3
    <3>2. QED  BY <2>3, <3>1
  <2>5. info.packet_dict \ found = {p \in info.packet_dict : p.seqcount # next}
    OBVIOUS
  <2>6. less \in Lists /\ info.packet_dict \ found \in SUBSET Packets
    BY <1>1, <2>1 DEF ProperList, Infos
  <2>. HIDE DEF less, found, next
  <2>7. /\ new \in Infos
        /\ new.has_sent = info.has_sent /\ new.lastSeqCountSent = next
        /\ new.reset_packet = info.reset_packet
        /\ new.seq_counts = less /\ new.packet_dict = info.packet_dict \ found
    BY <1>1, <2>1, <2>2, <2>6 DEF Infos
  <2>8. ProperInfo(new) /\ Size(info) \in Nat \ {0} /\ Size(new) = Size(info) - 1
    BY <2>1, <2>7 DEF ProperInfo, Size
  <2>. HIDE DEF new
  <2>9. QED  BY <2>4, <2>5, <2>7, <2>8 DEF less, next, new
<1>4. QED  BY <1>2, <1>3

\* The info that a packet is added to.
Begun(info, packet) ==
  IF info.has_sent THEN info
  ELSE [info EXCEPT !.has_sent = TRUE, !.lastSeqCountSent = Previous(packet.seqcount)]

\* It changes neither the list nor the packets.
LEMMA BegunEffect ==
  ASSUME NEW info, ProperInfo(info), NEW packet \in Packets
  PROVE  LET begun == Begun(info, packet)
         IN  /\ ProperInfo(begun) /\ begun.has_sent
             /\ begun.lastSeqCountSent = IF info.has_sent THEN info.lastSeqCountSent
                                         ELSE Previous(packet.seqcount)
             /\ begun.reset_packet = info.reset_packet
             /\ begun.seq_counts = info.seq_counts /\ begun.packet_dict = info.packet_dict
<1> DEFINE begun == Begun(info, packet)
<1>1. info \in Infos /\ ProperList(info.seq_counts) /\ packet.seqcount \in SeqCounts
  BY DEF ProperInfo, Packets
<1>2. CASE info.has_sent
  BY <1>1, <1>2 DEF Begun
<1>3. CASE ~info.has_sent
  <2>1. begun = [info EXCEPT !.has_sent = TRUE, !.lastSeqCountSent = Previous(packet.seqcount)]
    BY <1>3 DEF Begun
  <2>2. /\ begun \in Infos /\ begun.has_sent
        /\ begun.lastSeqCountSent = Previous(packet.seqcount)
        /\ begun.reset_packet = info.reset_packet
        /\ begun.seq_counts = info.seq_counts /\ begun.packet_dict = info.packet_dict
    BY <1>1, <2>1, PreviousIs DEF Infos
  <2>. HIDE DEF begun
  <2>3. QED  BY <1>1, <1>3, <2>2 DEF ProperInfo, begun
<1>4. QED  BY <1>2, <1>3

\* A packet is set aside, skipped or stored.
LEMMA AddPacketIs ==
  ASSUME NEW info, ProperInfo(info), NEW packet \in Packets
  PROVE  LET begun == Begun(info, packet)
         IN  \/ /\ IsReset(info, packet)
                /\ add_packet(info, packet) = [info EXCEPT !.reset_packet = {packet}]
             \/ /\ ~IsReset(info, packet) /\ should_skip_packet(begun, packet.seqcount)
                /\ add_packet(info, packet) = begun
             \/ /\ ~IsReset(info, packet) /\ ~should_skip_packet(begun, packet.seqcount)
                /\ add_packet(info, packet) = check_gap(store(begun, packet))
<1> DEFINE begun == Begun(info, packet)
           r == IsReset(info, packet)
           s == should_skip_packet(begun, packet.seqcount)
<1>1. r \in BOOLEAN /\ s \in BOOLEAN
  BY DEF IsReset, should_skip_packet
<1>2. add_packet(info, packet) =
        CASE r -> [info EXCEPT !.reset_packet = {packet}]
          [] ~r /\ s -> begun
          [] ~r /\ ~s -> check_gap(store(begun, packet))
  BY DEF add_packet, Begun
<1>. HIDE DEF r, s, begun
<1>3. \/ r /\ add_packet(info, packet) = [info EXCEPT !.reset_packet = {packet}]
      \/ ~r /\ s /\ add_packet(info, packet) = begun
      \/ ~r /\ ~s /\ add_packet(info, packet) = check_gap(store(begun, packet))
  BY <1>1, <1>2
<1>4. QED  BY <1>3 DEF r, s, begun

\* Then less wait than max_gap, or as many, and the next can be sent.
LEMMA CheckGapEffect ==
  ASSUME NEW info, ProperInfo(info), max_gap \in Nat
  PROVE  LET new == check_gap(info)
         IN  /\ ProperInfo(new)
             /\ \E count \in SeqCounts : new = [info EXCEPT !.lastSeqCountSent = count]
             /\ max_gap = 0 => new = info
             /\ max_gap # 0 => Size(new) < max_gap \/ LinedUp(new)
<1> DEFINE new == check_gap(info)
<1>1. info \in Infos /\ ProperList(info.seq_counts) /\ info.lastSeqCountSent \in SeqCounts
  BY DEF ProperInfo, Infos
<1>2. Size(info) \in Nat
  BY <1>1, SizeIs DEF Size
<1>3. CASE max_gap # 0 /\ Size(info) >= max_gap
  <2>1. new = skip_to_next_available(info)
    BY <1>3 DEF check_gap, Size
  <2>2. QED  BY <1>3, <2>1, SkipEffect
<1>4. CASE ~(max_gap # 0 /\ Size(info) >= max_gap)
  <2>1. new = info /\ info = [info EXCEPT !.lastSeqCountSent = info.lastSeqCountSent]
    BY <1>1, <1>4 DEF check_gap, Size, Infos
  <2>2. max_gap # 0 => Size(info) < max_gap
    BY <1>2, <1>4
  <2>. HIDE DEF new
  <2>3. QED  BY <1>1, <2>1, <2>2 DEF new
<1>5. QED  BY <1>3, <1>4

\* The packet that was set aside is stored.
LEMMA ClearEffect ==
  ASSUME NEW info, ProperInfo(info), info.reset_packet # {}
  PROVE  \E packet \in info.reset_packet :
           LET new == clear_reset_state(info)
           IN  /\ packet \in Packets /\ ProperInfo(new)
               /\ new = [store(info, packet) EXCEPT !.reset_packet = {}]
               /\ new.has_sent = info.has_sent /\ new.lastSeqCountSent = info.lastSeqCountSent
               /\ new.reset_packet = {}
               /\ new.seq_counts = add_value(info.seq_counts, packet.seqcount)
               /\ new.packet_dict =
                    {p \in info.packet_dict : p.seqcount # packet.seqcount} \cup {packet}
               /\ Size(info) \in Nat /\ Size(new) \in Nat /\ Size(new) <= Size(info) + 1
<1> DEFINE packet == CHOOSE p \in info.reset_packet : TRUE
           stored == store(info, packet)
           new == clear_reset_state(info)
<1>1. packet \in info.reset_packet
  OBVIOUS
<1>2. packet \in Packets
  BY <1>1 DEF ProperInfo, Infos
<1>3. new = [stored EXCEPT !.reset_packet = {}]
  BY DEF clear_reset_state
<1>. HIDE DEF packet
<1>4. /\ ProperInfo(stored)
      /\ stored.has_sent = info.has_sent /\ stored.lastSeqCountSent = info.lastSeqCountSent
      /\ stored.seq_counts = add_value(info.seq_counts, packet.seqcount)
      /\ stored.packet_dict =
           {p \in info.packet_dict : p.seqcount # packet.seqcount} \cup {packet}
      /\ Size(info) \in Nat /\ Size(stored) \in Nat /\ Size(stored) <= Size(info) + 1
  BY <1>2, StoreEffect
<1>. HIDE DEF stored, new
<1>5. /\ new \in Infos /\ new.reset_packet = {}
      /\ new.has_sent = stored.has_sent /\ new.lastSeqCountSent = stored.lastSeqCountSent
      /\ new.seq_counts = stored.seq_counts /\ new.packet_dict = stored.packet_dict
  BY <1>3, <1>4 DEF ProperInfo, Infos
<1>6. ProperInfo(new) /\ Size(new) = Size(stored)
  BY <1>4, <1>5 DEF ProperInfo, Size
<1>7. QED  BY <1>1, <1>2, <1>3, <1>4, <1>5, <1>6 DEF stored, new

\* What skipping leaves alone.
SameButLast(new, info) ==
  /\ new.has_sent = info.has_sent /\ new.reset_packet = info.reset_packet
  /\ new.seq_counts = info.seq_counts /\ new.packet_dict = info.packet_dict

\* Nothing else changes when the last count does,
LEMMA LastReplaced ==
  ASSUME NEW info, ProperInfo(info), NEW count \in SeqCounts
  PROVE  SameButLast([info EXCEPT !.lastSeqCountSent = count], info)
BY DEF ProperInfo, Infos, SameButLast

\* as when gaps are skipped,
LEMMA SkipKeeps ==
  ASSUME NEW info, ProperInfo(info)
  PROVE  SameButLast(skip_to_next_available(info), info)
BY SkipEffect, LastReplaced

\* or the queue is full.
LEMMA CheckGapKeeps ==
  ASSUME NEW info, ProperInfo(info), max_gap \in Nat
  PROVE  SameButLast(check_gap(info), info)
BY CheckGapEffect, LastReplaced

\* What a packet does that was received, set aside in a reset, skipped or stored.
LEMMA ReceiveIs ==
  ASSUME NEW packet \in Packets, ProperInfo(apid_info), apid_info.reset_packet = {},
         max_gap \in Nat, Receive(packet)
  PROVE  LET begun == Begun(apid_info, packet)
             aside == [apid_info EXCEPT !.reset_packet = {packet}]
         IN  \/ /\ IsReset(apid_info, packet)
                /\ ProperInfo(aside) /\ apid_info' = skip_to_next_available(aside)
                /\ ProperInfo(apid_info') /\ LinedUp(apid_info')
                /\ apid_info'.has_sent = apid_info.has_sent
                /\ apid_info'.reset_packet = {packet}
                /\ apid_info'.seq_counts = apid_info.seq_counts
                /\ apid_info'.packet_dict = apid_info.packet_dict
                /\ phase' = "Purging" /\ resets' = resets \cup {packet.number}
             \/ /\ ~IsReset(apid_info, packet) /\ should_skip_packet(begun, packet.seqcount)
                /\ apid_info' = begun
                /\ phase' = "Emitting" /\ resets' = resets
             \/ /\ ~IsReset(apid_info, packet) /\ ~should_skip_packet(begun, packet.seqcount)
                /\ ProperInfo(store(begun, packet))
                /\ apid_info' = check_gap(store(begun, packet))
                /\ apid_info'.reset_packet = {}
                /\ phase' = "Emitting" /\ resets' = resets
<1> DEFINE begun == Begun(apid_info, packet)
           aside == [apid_info EXCEPT !.reset_packet = {packet}]
           stored == store(begun, packet)
           added == add_packet(apid_info, packet)
<1>1. /\ apid_info' = IF added.reset_packet # {} THEN skip_to_next_available(added) ELSE added
      /\ phase' = IF added.reset_packet # {} THEN "Purging" ELSE "Emitting"
      /\ resets' = IF added.reset_packet # {} THEN resets \cup {packet.number} ELSE resets
  BY DEF Receive
<1>2. ProperInfo(begun) /\ begun.reset_packet = {}
  BY BegunEffect
<1>3. ProperInfo(stored) /\ stored.reset_packet = {}
  BY <1>2, StoreEffect
<1>4. SameButLast(check_gap(stored), stored)
  BY <1>3, CheckGapKeeps
<1>5. /\ aside \in Infos /\ aside.reset_packet = {packet} /\ aside.has_sent = apid_info.has_sent
      /\ aside.seq_counts = apid_info.seq_counts /\ aside.packet_dict = apid_info.packet_dict
  BY DEF ProperInfo, Infos
<1>6. ProperInfo(aside)
  BY <1>5 DEF ProperInfo
<1>. HIDE DEF begun, aside, stored, added
<1>7. CASE IsReset(apid_info, packet) /\ added = aside
  <2>1. /\ apid_info' = skip_to_next_available(aside)
        /\ phase' = "Purging" /\ resets' = resets \cup {packet.number}
    BY <1>1, <1>5, <1>7
  <2>2. ProperInfo(apid_info') /\ LinedUp(apid_info') /\ SameButLast(apid_info', aside)
    BY <1>6, <2>1, SkipEffect, SkipKeeps
  <2>3. QED  BY <1>5, <1>6, <1>7, <2>1, <2>2 DEF SameButLast, aside
<1>8. CASE ~IsReset(apid_info, packet) /\ should_skip_packet(begun, packet.seqcount) /\ added = begun
  BY <1>1, <1>2, <1>8 DEF begun
<1>9. CASE /\ ~IsReset(apid_info, packet) /\ ~should_skip_packet(begun, packet.seqcount)
           /\ added = check_gap(stored)
  <2>1. added.reset_packet = {}
    BY <1>3, <1>4, <1>9 DEF SameButLast
  <2>2. QED  BY <1>1, <1>3, <1>9, <2>1 DEF begun, stored
<1>10. QED
  <2>1. \/ IsReset(apid_info, packet) /\ added = aside
        \/ ~IsReset(apid_info, packet) /\ should_skip_packet(begun, packet.seqcount) /\ added = begun
        \/ /\ ~IsReset(apid_info, packet) /\ ~should_skip_packet(begun, packet.seqcount)
           /\ added = check_gap(stored)
    BY AddPacketIs DEF begun, aside, stored, added
  <2>2. QED  BY ONLY <1>7, <1>8, <1>9, <2>1

\* At the end of the purge nothing waits; then the packet that was set aside does.
LEMMA FinishPurgeIs ==
  ASSUME ProperInfo(apid_info), apid_info.reset_packet # {}, LinedUp(apid_info), FinishPurge
  PROVE  /\ apid_info.seq_counts.alpha = <<>> /\ apid_info.seq_counts.beta = <<>>
         /\ ProperInfo(clear_reset_state(apid_info))
         /\ apid_info' = skip_to_next_available(clear_reset_state(apid_info))
         /\ ProperInfo(apid_info') /\ LinedUp(apid_info') /\ apid_info'.reset_packet = {}
         /\ Size(apid_info') \in Nat /\ Size(apid_info') <= 1
         /\ phase' = "Emitting"
<1>1. /\ ~ready_for_emit(apid_info) /\ ~Unanswerable(apid_info) /\ phase' = "Emitting"
      /\ apid_info' = skip_to_next_available(clear_reset_state(apid_info))
  BY DEF FinishPurge
<1>2. ~HasNext(apid_info.seq_counts) /\ get_size(apid_info.seq_counts) = 0
  BY <1>1 DEF ready_for_emit, LinedUp, Unanswerable
<1>3. apid_info.seq_counts.alpha = <<>> /\ apid_info.seq_counts.beta = <<>>
  BY <1>2, NoSize DEF ProperInfo
<1> DEFINE cleared == clear_reset_state(apid_info)
<1>4. /\ ProperInfo(cleared) /\ cleared.reset_packet = {}
      /\ Size(cleared) \in Nat /\ Size(cleared) <= Size(apid_info) + 1
  BY ClearEffect
<1>5. Size(apid_info) = 0
  BY <1>2 DEF Size
<1>. HIDE DEF cleared
<1>6. /\ ProperInfo(apid_info') /\ LinedUp(apid_info') /\ SameButLast(apid_info', cleared)
  BY <1>1, <1>4, SkipEffect, SkipKeeps DEF cleared
<1>7. Size(apid_info') = Size(cleared) /\ apid_info'.reset_packet = {}
  BY <1>4, <1>6 DEF SameButLast, Size
<1>8. Size(apid_info') \in Nat /\ Size(apid_info') <= 1
  BY <1>4, <1>5, <1>7
<1>9. QED  BY <1>1, <1>3, <1>4, <1>6, <1>7, <1>8 DEF cleared

----------------------------------------------------------------------------
(* Types, purges and the bound of the queue. *)

\* What every part of the state is, and where a reset's packet may be set aside.
TypeInv ==
  /\ ProperInfo(apid_info)
  /\ max_gap \in Gaps /\ max_gap \in Nat
  /\ phase \in {"Idle", "Purging", "Emitting", "Dead"}
  /\ emitted \in Seq(Packets)
  /\ resets \subseteq 0 .. MaxPackets - 1 /\ restarts \subseteq 0 .. MaxPackets
  /\ counter \in SeqCounts /\ produced \in 0 .. MaxPackets
  /\ transit \subseteq Packets /\ copies \subseteq transit
  /\ repeats \subseteq {"Reset", "Waits", "Sent"}
  /\ phase \in {"Idle", "Emitting"} => apid_info.reset_packet = {}
  /\ phase = "Purging" => apid_info.reset_packet # {}

\* The next packet of a purge is always due. The packets that wait are fewer than max_gap, or
\* as many, and then the next one is due.
PhaseInv ==
  /\ phase = "Purging" => LinedUp(apid_info)
  /\ max_gap # 0 /\ phase \in {"Idle", "Purging"} => Size(apid_info) < max_gap
  /\ max_gap # 0 /\ phase = "Emitting" =>
       \/ Size(apid_info) < max_gap
       \/ Size(apid_info) = max_gap /\ LinedUp(apid_info)

\* In the words of the model.
LEMMA TypeInvSuffices ==
  ASSUME TypeInv
  PROVE  TypeOK
<1>1. resets \cup restarts \subseteq 0 .. MaxPackets
  BY PacketBoundsAssumption DEF TypeInv
<1>2. /\ apid_info.has_sent \in BOOLEAN /\ apid_info.lastSeqCountSent \in SeqCounts
      /\ apid_info.reset_packet \in SUBSET Packets /\ apid_info.seq_counts \in Lists
      /\ apid_info.packet_dict \in SUBSET Packets
  BY DEF TypeInv, ProperInfo, Infos
<1>3. QED  BY <1>1, <1>2 DEF TypeInv, TypeOK, Lists

\* Initially nothing waits.
LEMMA InitInv ==
  ASSUME Init
  PROVE  TypeInv /\ PhaseInv
<1>1. ProperList(EmptyList) /\ get_size(EmptyList) = 0 /\ ~HasNext(EmptyList)
  BY DEF EmptyList, ProperList, Lists, Sorted, get_size, HasNext
<1>2. ProperInfo(apid_info) /\ apid_info.seq_counts = EmptyList /\ apid_info.reset_packet = {}
  <2>1. NewApidInfo \in Infos /\ NewApidInfo.seq_counts = EmptyList
    BY <1>1, Counts DEF NewApidInfo, Infos, ProperList, SeqCounts
  <2>2. QED  BY <1>1, <2>1 DEF Init, ProperInfo, NewApidInfo
<1>3. TypeInv
  BY <1>2, PacketBoundsAssumption DEF TypeInv, Init
<1>4. QED  BY <1>1, <1>2, <1>3 DEF PhaseInv, TypeInv, Init, Size

\* Sending the next packet, if it is there.
LEMMA EmitKeeps ==
  ASSUME TypeInv, ready_for_emit(apid_info)
  PROVE  LET new == EmitNext(apid_info)
         IN  /\ ProperInfo(new)
             /\ new.reset_packet = apid_info.reset_packet
             /\ emitted \o NextPackets(apid_info) \in Seq(Packets)
             /\ Size(apid_info) \in Nat /\ Size(new) \in Nat
             /\ \/ new = apid_info
                \/ Size(new) = Size(apid_info) - 1
<1>1. ProperInfo(apid_info) /\ HasNext(apid_info.seq_counts) /\ emitted \in Seq(Packets)
  BY DEF TypeInv, ready_for_emit
<1> DEFINE new == EmitNext(apid_info)
           sent == NextPackets(apid_info)
<1>2. Size(apid_info) \in Nat
  BY <1>1, NextIs DEF ProperInfo, Size
<1>3. CASE new = apid_info /\ sent = <<>>
  BY <1>1, <1>2, <1>3
<1>4. CASE /\ \E p \in apid_info.packet_dict : sent = <<p>>
           /\ ProperInfo(new) /\ new.reset_packet = apid_info.reset_packet
           /\ Size(apid_info) \in Nat \ {0} /\ Size(new) = Size(apid_info) - 1
  <2>1. PICK p \in Packets : sent = <<p>>
    BY <1>1, <1>4 DEF ProperInfo, Infos
  <2>. HIDE DEF new, sent
  <2>2. emitted \o sent \in Seq(Packets)
    BY <1>1, <2>1
  <2>3. QED  BY <1>4, <2>2 DEF new, sent
<1>5. QED
  <2>1. \/ new = apid_info /\ sent = <<>>
        \/ /\ \E p \in apid_info.packet_dict : sent = <<p>>
           /\ ProperInfo(new) /\ new.reset_packet = apid_info.reset_packet
           /\ Size(apid_info) \in Nat \ {0} /\ Size(new) = Size(apid_info) - 1
    BY <1>1, EmitEffect
  <2>2. QED  BY ONLY <1>3, <1>4, <2>1

\* What the steps of the world and the processor leave alone.
LEMMA ArriveInv ==
  ASSUME TypeInv, PhaseInv, NEW packet \in transit, NEW again \in BOOLEAN, Arrive(packet, again)
  PROVE  TypeInv' /\ PhaseInv'
<1>1. /\ packet \in Packets /\ ProperInfo(apid_info) /\ max_gap \in Nat
      /\ Receive(packet) /\ phase = "Idle" /\ apid_info.reset_packet = {}
      /\ emitted' = emitted /\ max_gap' = max_gap
  BY DEF TypeInv, Arrive, Receive
<1>2. /\ transit' \subseteq Packets /\ counter' \in SeqCounts /\ produced' \in 0 .. MaxPackets
      /\ restarts' \subseteq 0 .. MaxPackets /\ copies' \subseteq transit'
      /\ repeats' \subseteq {"Reset", "Waits", "Sent"}
  BY DEF TypeInv, Arrive, Repeated
<1>3. packet.number \in 0 .. MaxPackets - 1
  BY <1>1 DEF Packets
<1>4. Size(apid_info) \in Nat /\ (max_gap # 0 => Size(apid_info) < max_gap)
  BY <1>1, SizeIs DEF PhaseInv, ProperInfo, Size
<1> DEFINE begun == Begun(apid_info, packet)
           stored == store(begun, packet)
<1>5. ProperInfo(begun) /\ begun.reset_packet = {} /\ Size(begun) = Size(apid_info)
  BY <1>1, BegunEffect DEF Size
<1>6. CASE /\ ProperInfo(apid_info') /\ LinedUp(apid_info')
           /\ apid_info'.reset_packet = {packet}
           /\ apid_info'.seq_counts = apid_info.seq_counts
           /\ phase' = "Purging" /\ resets' = resets \cup {packet.number}
  <2>1. TypeInv'
    BY <1>1, <1>2, <1>3, <1>6 DEF TypeInv
  <2>2. PhaseInv'
    BY <1>1, <1>4, <1>6 DEF PhaseInv, Size
  <2>3. QED  BY <2>1, <2>2
<1>7. CASE apid_info' = begun /\ phase' = "Emitting" /\ resets' = resets
  <2>. HIDE DEF begun
  <2>1. TypeInv'
    BY <1>1, <1>2, <1>5, <1>7 DEF TypeInv
  <2>2. PhaseInv'
    BY <1>1, <1>4, <1>5, <1>7 DEF PhaseInv
  <2>3. QED  BY <2>1, <2>2
<1>8. CASE /\ ProperInfo(stored) /\ apid_info' = check_gap(stored)
           /\ apid_info'.reset_packet = {} /\ phase' = "Emitting" /\ resets' = resets
  <2>1. Size(stored) \in Nat /\ Size(stored) <= Size(apid_info) + 1
    BY <1>1, <1>5, StoreEffect
  <2>. HIDE DEF stored, begun
  <2>2. /\ ProperInfo(apid_info') /\ Size(apid_info') = Size(stored)
        /\ max_gap # 0 => Size(apid_info') < max_gap \/ LinedUp(apid_info')
    BY <1>1, <1>8, CheckGapEffect, CheckGapKeeps DEF SameButLast, Size
  <2>3. TypeInv'
    BY <1>1, <1>2, <1>8, <2>2 DEF TypeInv
  <2>4. PhaseInv'
    BY <1>1, <1>4, <1>8, <2>1, <2>2 DEF PhaseInv
  <2>5. QED  BY <2>3, <2>4
<1>9. QED
  <2>1. \/ /\ ProperInfo(apid_info') /\ LinedUp(apid_info')
           /\ apid_info'.reset_packet = {packet}
           /\ apid_info'.seq_counts = apid_info.seq_counts
           /\ phase' = "Purging" /\ resets' = resets \cup {packet.number}
        \/ apid_info' = begun /\ phase' = "Emitting" /\ resets' = resets
        \/ /\ ProperInfo(stored) /\ apid_info' = check_gap(stored)
           /\ apid_info'.reset_packet = {} /\ phase' = "Emitting" /\ resets' = resets
    BY <1>1, ReceiveIs
  <2>2. QED  BY ONLY <1>6, <1>7, <1>8, <2>1

\* A turn of the purge: the next packet is sent and the one after it is due.
LEMMA PurgeOneInv ==
  ASSUME TypeInv, PhaseInv, PurgeOne
  PROVE  TypeInv' /\ PhaseInv'
<1>1. /\ phase = "Purging" /\ ready_for_emit(apid_info) /\ phase' = phase
      /\ apid_info' = skip_to_next_available(EmitNext(apid_info))
      /\ emitted' = emitted \o NextPackets(apid_info)
      /\ resets' = resets /\ max_gap' = max_gap /\ UNCHANGED worldVars
  BY DEF PurgeOne
<1> DEFINE new == EmitNext(apid_info)
<1>2. /\ ProperInfo(new) /\ new.reset_packet = apid_info.reset_packet
      /\ emitted' \in Seq(Packets)
      /\ Size(apid_info) \in Nat /\ Size(new) \in Nat /\ Size(new) <= Size(apid_info)
  BY <1>1, EmitKeeps
<1>. HIDE DEF new
<1>3. ProperInfo(apid_info') /\ LinedUp(apid_info') /\ SameButLast(apid_info', new)
  BY <1>1, <1>2, SkipEffect, SkipKeeps DEF new
<1>4. Size(apid_info') = Size(new) /\ apid_info'.reset_packet = apid_info.reset_packet
  BY <1>2, <1>3 DEF SameButLast, Size
<1>5. TypeInv'
  BY <1>1, <1>2, <1>3, <1>4 DEF TypeInv, worldVars
<1>6. max_gap \in Nat
  BY DEF TypeInv
<1>7. PhaseInv'
  BY <1>1, <1>2, <1>3, <1>4, <1>6 DEF PhaseInv
<1>8. QED  BY <1>5, <1>7

\* The end of the purge: one packet waits, and is due.
LEMMA FinishPurgeInv ==
  ASSUME TypeInv, PhaseInv, FinishPurge
  PROVE  TypeInv' /\ PhaseInv' /\ Waiting = <<>>
<1>1. /\ phase = "Purging" /\ UNCHANGED <<emitted, resets, max_gap, worldVars>>
      /\ ProperInfo(apid_info) /\ apid_info.reset_packet # {} /\ LinedUp(apid_info)
      /\ max_gap \in Nat
  BY DEF FinishPurge, TypeInv, PhaseInv
<1>2. /\ apid_info.seq_counts.alpha = <<>> /\ apid_info.seq_counts.beta = <<>>
      /\ ProperInfo(apid_info') /\ LinedUp(apid_info') /\ apid_info'.reset_packet = {}
      /\ Size(apid_info') \in Nat /\ Size(apid_info') <= 1
      /\ phase' = "Emitting"
  BY <1>1, FinishPurgeIs
<1>3. TypeInv'
  BY <1>1, <1>2 DEF TypeInv, worldVars
<1>4. PhaseInv'
  BY <1>1, <1>2 DEF PhaseInv
<1>5. QED  BY <1>2, <1>3, <1>4 DEF Waiting

\* A turn of the loop that sends.
LEMMA EmitOneInv ==
  ASSUME TypeInv, PhaseInv, EmitOne
  PROVE  TypeInv' /\ PhaseInv'
<1>1. /\ phase = "Emitting" /\ ready_for_emit(apid_info) /\ phase' = phase
      /\ apid_info' = EmitNext(apid_info)
      /\ emitted' = emitted \o NextPackets(apid_info)
      /\ resets' = resets /\ max_gap' = max_gap /\ UNCHANGED worldVars
  BY DEF EmitOne
<1>2. /\ ProperInfo(apid_info') /\ apid_info'.reset_packet = apid_info.reset_packet
      /\ emitted' \in Seq(Packets)
      /\ Size(apid_info) \in Nat /\ Size(apid_info') \in Nat
      /\ apid_info' = apid_info \/ Size(apid_info') = Size(apid_info) - 1
  BY <1>1, EmitKeeps
<1>3. TypeInv'
  BY <1>1, <1>2 DEF TypeInv, worldVars
<1>4. max_gap \in Nat
  BY DEF TypeInv
<1>5. PhaseInv'
  BY <1>1, <1>2, <1>4 DEF PhaseInv
<1>6. QED  BY <1>3, <1>5

\* The end of that loop: with max_gap packets waiting it would go on, or fail.
LEMMA FinishEmitInv ==
  ASSUME TypeInv, PhaseInv, FinishEmit
  PROVE  TypeInv' /\ PhaseInv'
<1>1. /\ phase = "Emitting" /\ phase' = "Idle"
      /\ ~ready_for_emit(apid_info) /\ ~Unanswerable(apid_info)
      /\ UNCHANGED <<apid_info, emitted, resets, max_gap, worldVars>>
  BY DEF FinishEmit
<1>2. TypeInv'
  BY <1>1 DEF TypeInv, worldVars
<1>3. max_gap # 0 => Size(apid_info) < max_gap
  BY <1>1 DEF PhaseInv, ready_for_emit, Unanswerable, LinedUp, Size
<1>4. PhaseInv'
  BY <1>1, <1>3 DEF PhaseInv
<1>5. QED  BY <1>2, <1>4

\* The steps of the world, and the end of the processor.
LEMMA OutsideInv ==
  ASSUME TypeInv, PhaseInv,
         Die \/ Produce \/ (\E packet \in transit \ copies : Lose(packet)) \/ Restart
  PROVE  TypeInv' /\ PhaseInv'
<1>1. CASE Die
  BY <1>1 DEF Die, TypeInv, PhaseInv, worldVars
<1>2. CASE Produce
  <2>1. /\ produced < MaxPackets /\ produced' = produced + 1
        /\ transit' = transit \cup {Packet(produced, counter)} /\ counter' = mod(counter + 1)
        /\ UNCHANGED <<processorVars, max_gap, copies, restarts, repeats>>
    BY <1>2 DEF Produce
  <2>2. produced \in 0 .. MaxPackets - 1 /\ produced' \in 0 .. MaxPackets
    BY <2>1, PacketBoundsAssumption DEF TypeInv
  <2>3. Packet(produced, counter) \in Packets
    BY <2>2 DEF TypeInv, Packet, Packets
  <2>4. counter' \in SeqCounts
    BY <2>1, Counts, ModRange DEF TypeInv, mod, SeqCounts
  <2>5. QED  BY <2>1, <2>2, <2>3, <2>4 DEF TypeInv, PhaseInv, processorVars
<1>3. CASE \E packet \in transit \ copies : Lose(packet)
  BY <1>3 DEF Lose, TypeInv, PhaseInv, processorVars
<1>4. CASE Restart
  <2>1. 0 \in SeqCounts
    BY Counts DEF SeqCounts
  <2>2. QED  BY <1>4, <2>1 DEF Restart, TypeInv, PhaseInv, processorVars
<1>5. QED  BY <1>1, <1>2, <1>3, <1>4

\* Every step keeps both, and the purge ends with nothing waiting.
LEMMA NextInv ==
  ASSUME TypeInv, PhaseInv, [Next]_vars
  PROVE  TypeInv' /\ PhaseInv' /\ (phase = "Purging" /\ phase' = "Emitting" => Waiting = <<>>)
<1>1. ASSUME NEW packet \in transit, NEW again \in BOOLEAN, Arrive(packet, again)
      PROVE  TypeInv' /\ PhaseInv' /\ phase # "Purging"
  BY <1>1, ArriveInv DEF Arrive, Receive
<1>2. CASE Die \/ Produce \/ (\E packet \in transit \ copies : Lose(packet)) \/ Restart
  <2>1. phase' = phase \/ phase' = "Dead"
    BY <1>2 DEF Die, Produce, Lose, Restart, processorVars
  <2>2. QED  BY <1>2, <2>1, OutsideInv
<1>3. CASE PurgeOne
  BY <1>3, PurgeOneInv DEF PurgeOne
<1>4. CASE FinishPurge
  BY <1>4, FinishPurgeInv
<1>5. CASE EmitOne
  BY <1>5, EmitOneInv DEF EmitOne
<1>6. CASE FinishEmit
  BY <1>6, FinishEmitInv DEF FinishEmit
<1>7. CASE UNCHANGED vars
  BY <1>7 DEF vars, processorVars, worldVars, TypeInv, PhaseInv
<1>8. QED  BY <1>1, <1>2, <1>3, <1>4, <1>5, <1>6, <1>7 DEF Next

\* Both hold in every reachable state.
LEMMA AlwaysInv == Spec => [](TypeInv /\ PhaseInv)
<1>1. Init => TypeInv /\ PhaseInv
  BY InitInv
<1>2. (TypeInv /\ PhaseInv) /\ [Next]_vars => (TypeInv /\ PhaseInv)'
  BY NextInv
<1>3. QED  BY <1>1, <1>2, PTL DEF Spec

\* The state is always what the code takes it for; in particular a packet is set aside for a
\* reset only during the purge that follows.
THEOREM TypeOKHolds == Spec => []TypeOK
<1>1. TypeInv => TypeOK
  BY TypeInvSuffices
<1>2. QED  BY <1>1, AlwaysInv, PTL

\* When gaps are allowed fewer than max_gap packets wait between two arrivals, whatever
\* happens on the way.
THEOREM QueueBoundedHolds == Spec => []QueueBounded
<1>1. TypeInv /\ PhaseInv => QueueBounded
  BY DEF PhaseInv, QueueBounded, Size
<1>2. QED  BY <1>1, AlwaysInv, PTL

\* The packet of a reset is put in place only after everything that waited has been sent,
\* whatever happens on the way.
THEOREM ResetPurgesHolds == Spec => ResetPurges
<1>1. (TypeInv /\ PhaseInv) /\ [Next]_vars =>
        [phase = "Purging" /\ phase' = "Emitting" => Waiting = <<>>]_vars
  BY NextInv
<1>2. QED  BY <1>1, AlwaysInv, PTL DEF Spec, ResetPurges

----------------------------------------------------------------------------
(* The counts of the packets. *)

\* The packets that arrived, all there are, and the one to come.
Kept == apid_info.packet_dict \cup apid_info.reset_packet \cup ToSet(emitted)
Known == transit \cup Kept
Upcoming == Packet(produced, counter)

\* No restart is between two numbers.
SameEra(m, n) == \A r \in restarts : r <= m <=> r <= n

\* Counting from the one packet to the other.
Counted(p, q) == q.seqcount = mod(p.seqcount + (q.number - p.number))

\* Between restarts the counts follow the numbers; a restart begins with zero.
FlowInv ==
  /\ restarts \subseteq 0 .. produced
  /\ \A p \in Known : p.number < produced
  /\ \A p, q \in Known \cup {Upcoming} :
       p.number <= q.number /\ SameEra(p.number, q.number) => Counted(p, q)
  /\ \A p \in Known \cup {Upcoming} : p.number \in restarts => p.seqcount = 0

\* A packet more in a sequence.
LEMMA ToSetAppend ==
  ASSUME NEW s \in Seq(Packets), NEW p \in Packets
  PROVE  /\ s \o <<p>> \in Seq(Packets) /\ Len(s \o <<p>>) = Len(s) + 1
         /\ \A i \in 1 .. Len(s) : (s \o <<p>>)[i] = s[i]
         /\ (s \o <<p>>)[Len(s) + 1] = p
         /\ ToSet(s \o <<p>>) = ToSet(s) \cup {p}
<1> DEFINE t == s \o <<p>>
<1>1. /\ t \in Seq(Packets) /\ Len(t) = Len(s) + 1 /\ Len(s) \in Nat
      /\ \A i \in 1 .. Len(s) : t[i] = s[i]
      /\ t[Len(s) + 1] = p
  OBVIOUS
<1>2. DOMAIN t = 1 .. Len(s) + 1 /\ DOMAIN s = 1 .. Len(s)
  BY <1>1
<1>. HIDE DEF t
<1>3. ToSet(t) = ToSet(s) \cup {p}
  <2>1. \A i \in 1 .. Len(s) + 1 : i \in 1 .. Len(s) \/ i = Len(s) + 1
    BY <1>1
  <2>2. 1 .. Len(s) \subseteq 1 .. Len(s) + 1 /\ Len(s) + 1 \in 1 .. Len(s) + 1
    BY <1>1
  <2>3. QED  BY <1>1, <1>2, <2>1, <2>2 DEF ToSet
<1>4. QED  BY <1>1, <1>3 DEF t

\* Sending the next packet moves one from those that wait to those that were sent.
LEMMA EmitMoves ==
  ASSUME TypeInv, ready_for_emit(apid_info)
  PROVE  LET new == EmitNext(apid_info)
             next == get_next_value(apid_info.seq_counts)
             sent == emitted \o NextPackets(apid_info)
         IN  /\ next \in SeqCounts
             /\ \/ /\ new = apid_info /\ sent = emitted
                   /\ \A p \in apid_info.packet_dict : p.seqcount # next
                \/ \E p \in apid_info.packet_dict :
                     /\ p.seqcount = next /\ sent = emitted \o <<p>>
                     /\ new.has_sent = apid_info.has_sent /\ new.lastSeqCountSent = next
                     /\ new.reset_packet = apid_info.reset_packet
                     /\ new.seq_counts = Listed(Tail(apid_info.seq_counts.alpha),
                                                apid_info.seq_counts.beta,
                                                apid_info.seq_counts.has_beta)
                     /\ new.packet_dict = {r \in apid_info.packet_dict : r.seqcount # next}
<1>1. /\ ProperInfo(apid_info) /\ HasNext(apid_info.seq_counts) /\ emitted \in Seq(Packets)
      /\ ProperList(apid_info.seq_counts)
  BY DEF TypeInv, ready_for_emit, ProperInfo
<1>2. get_next_value(apid_info.seq_counts) \in SeqCounts
  BY <1>1, NextIs
<1>3. emitted \o <<>> = emitted
  BY <1>1
<1>4. QED  BY <1>1, <1>2, <1>3, EmitEffect

\* The processor takes no packet but the one that arrives.
LEMMA ArriveKept ==
  ASSUME TypeInv, NEW packet \in transit, NEW again \in BOOLEAN, Arrive(packet, again)
  PROVE  Kept' \subseteq Kept \cup {packet}
<1>1. /\ packet \in Packets /\ Receive(packet) /\ apid_info.reset_packet = {}
      /\ emitted' = emitted /\ ProperInfo(apid_info) /\ max_gap \in Nat
  BY DEF Arrive, Receive, TypeInv
<1> DEFINE begun == Begun(apid_info, packet)
<1>2. ProperInfo(begun) /\ begun.packet_dict = apid_info.packet_dict /\ begun.reset_packet = {}
  BY <1>1, BegunEffect
<1>. HIDE DEF begun
<1>3. CASE /\ apid_info'.reset_packet = {packet}
           /\ apid_info'.packet_dict = apid_info.packet_dict
  BY <1>1, <1>3 DEF Kept
<1>4. CASE apid_info' = begun
  BY <1>1, <1>2, <1>4 DEF Kept
<1>5. CASE /\ ProperInfo(store(begun, packet))
           /\ apid_info' = check_gap(store(begun, packet)) /\ apid_info'.reset_packet = {}
  <2>1. apid_info'.packet_dict \subseteq apid_info.packet_dict \cup {packet}
    BY <1>1, <1>2, <1>5, StoreEffect, CheckGapKeeps DEF SameButLast
  <2>2. QED  BY <1>1, <1>5, <2>1 DEF Kept
<1>6. QED
  <2>1. \/ /\ apid_info'.reset_packet = {packet}
           /\ apid_info'.packet_dict = apid_info.packet_dict
        \/ apid_info' = begun
        \/ /\ ProperInfo(store(begun, packet))
           /\ apid_info' = check_gap(store(begun, packet)) /\ apid_info'.reset_packet = {}
    BY <1>1, ReceiveIs DEF begun
  <2>2. QED  BY ONLY <1>3, <1>4, <1>5, <2>1

\* In its other steps it takes none.
LEMMA KeptStays ==
  ASSUME TypeInv, PhaseInv, Die \/ PurgeOne \/ FinishPurge \/ EmitOne \/ FinishEmit
  PROVE  Kept' \subseteq Kept /\ UNCHANGED <<worldVars, max_gap>>
<1>0. ProperInfo(apid_info) /\ emitted \in Seq(Packets) /\ apid_info.packet_dict \subseteq Packets
  BY DEF TypeInv, ProperInfo, Infos
<1>1. CASE Die \/ FinishEmit
  BY <1>1 DEF Die, FinishEmit, worldVars, Kept
<1>2. CASE PurgeOne \/ EmitOne
  <2>1. /\ ready_for_emit(apid_info) /\ emitted' = emitted \o NextPackets(apid_info)
        /\ \/ apid_info' = EmitNext(apid_info)
           \/ apid_info' = skip_to_next_available(EmitNext(apid_info))
        /\ UNCHANGED <<max_gap, worldVars>>
    BY <1>2 DEF PurgeOne, EmitOne
  <2> DEFINE new == EmitNext(apid_info)
             sent == emitted \o NextPackets(apid_info)
             next == get_next_value(apid_info.seq_counts)
  <2>2. ProperInfo(new)
    BY <2>1, EmitKeeps
  <2>3. apid_info'.packet_dict = new.packet_dict /\ apid_info'.reset_packet = new.reset_packet
    BY <2>1, <2>2, SkipKeeps DEF SameButLast
  <2>4. \/ /\ new = apid_info /\ sent = emitted
        \/ \E p \in apid_info.packet_dict :
             /\ sent = emitted \o <<p>>
             /\ new.reset_packet = apid_info.reset_packet
             /\ new.packet_dict = {r \in apid_info.packet_dict : r.seqcount # next}
    BY <2>1, EmitMoves
  <2>. HIDE DEF new, next
  <2>5. /\ new.packet_dict \subseteq apid_info.packet_dict
        /\ new.reset_packet = apid_info.reset_packet
        /\ ToSet(sent) \subseteq ToSet(emitted) \cup apid_info.packet_dict
    <3>. HIDE DEF sent
    <3>1. CASE new = apid_info /\ sent = emitted
      BY <3>1
    <3>2. ASSUME NEW p \in apid_info.packet_dict, sent = emitted \o <<p>>
          PROVE  ToSet(sent) \subseteq ToSet(emitted) \cup apid_info.packet_dict
      BY <1>0, <3>2, ToSetAppend
    <3>3. QED  BY <2>4, <3>1, <3>2
  <2>6. QED  BY <2>1, <2>3, <2>5 DEF Kept
<1>3. CASE FinishPurge
  <2>1. /\ apid_info.reset_packet # {} /\ LinedUp(apid_info)
        /\ UNCHANGED <<emitted, max_gap, worldVars>>
    BY <1>3 DEF FinishPurge, TypeInv, PhaseInv
  <2> DEFINE cleared == clear_reset_state(apid_info)
  <2>2. /\ ProperInfo(cleared) /\ cleared.reset_packet = {}
        /\ cleared.packet_dict \subseteq apid_info.packet_dict \cup apid_info.reset_packet
    BY <1>0, <2>1, ClearEffect
  <2>. HIDE DEF cleared
  <2>3. apid_info' = skip_to_next_available(cleared)
    BY <1>3 DEF FinishPurge, cleared
  <2>4. apid_info'.packet_dict = cleared.packet_dict /\ apid_info'.reset_packet = {}
    BY <2>2, <2>3, SkipKeeps DEF SameButLast
  <2>5. QED  BY <2>1, <2>2, <2>4 DEF Kept
<1>4. QED  BY <1>1, <1>2, <1>3

\* So no packet comes to those there are, except from the spacecraft.
LEMMA KnownStays ==
  ASSUME TypeInv, PhaseInv,
         \/ \E packet \in transit, again \in BOOLEAN : Arrive(packet, again)
         \/ Die \/ PurgeOne \/ FinishPurge \/ EmitOne \/ FinishEmit
         \/ \E packet \in transit \ copies : Lose(packet)
  PROVE  Known' \subseteq Known /\ UNCHANGED <<counter, produced, restarts, max_gap>>
<1>1. ASSUME NEW packet \in transit, NEW again \in BOOLEAN, Arrive(packet, again)
      PROVE  Known' \subseteq Known /\ UNCHANGED <<counter, produced, restarts, max_gap>>
  <2>1. transit' \subseteq transit /\ UNCHANGED <<counter, produced, restarts, max_gap>>
    BY <1>1 DEF Arrive, Receive
  <2>2. QED  BY <1>1, <2>1, ArriveKept DEF Known
<1>2. CASE Die \/ PurgeOne \/ FinishPurge \/ EmitOne \/ FinishEmit
  BY <1>2, KeptStays DEF Known, worldVars
<1>3. CASE \E packet \in transit \ copies : Lose(packet)
  BY <1>3 DEF Lose, Known, Kept, processorVars
<1>4. QED  BY <1>1, <1>2, <1>3

\* Every packet there is has a number and a count.
LEMMA KnownTyped ==
  ASSUME TypeInv
  PROVE  /\ \A p \in Known \cup {Upcoming} : p.number \in Nat /\ p.seqcount \in SeqCounts
         /\ Known \subseteq Packets
         /\ Upcoming.number = produced /\ Upcoming.seqcount = counter
<1>1. ToSet(emitted) \subseteq Packets
  BY DEF TypeInv, ToSet
<1>2. Known \subseteq Packets
  BY <1>1 DEF TypeInv, ProperInfo, Infos, Known, Kept
<1>3. \A p \in Packets : p.number \in Nat /\ p.seqcount \in SeqCounts
  BY DEF Packets
<1>4. Upcoming.number = produced /\ Upcoming.seqcount = counter
  BY DEF Upcoming, Packet
<1>5. produced \in Nat /\ counter \in SeqCounts
  BY DEF TypeInv
<1>6. QED  BY <1>2, <1>3, <1>4, <1>5

\* Every step keeps the flow.
LEMMA NextFlow ==
  ASSUME TypeInv, PhaseInv, FlowInv, [Next]_vars
  PROVE  FlowInv'
<1>1. CASE \/ \E packet \in transit, again \in BOOLEAN : Arrive(packet, again)
           \/ Die \/ PurgeOne \/ FinishPurge \/ EmitOne \/ FinishEmit
           \/ \E packet \in transit \ copies : Lose(packet)
  <2>1. Known' \subseteq Known /\ UNCHANGED <<counter, produced, restarts>>
    BY <1>1, KnownStays
  <2>2. Upcoming' = Upcoming
    BY <2>1 DEF Upcoming
  <2>3. \A m, n : SameEra(m, n)' = SameEra(m, n)
    BY <2>1 DEF SameEra
  <2>4. QED  BY <2>1, <2>2, <2>3 DEF FlowInv, Counted, mod
<1>2. CASE Produce
  <2>1. /\ produced' = produced + 1 /\ counter' = mod(counter + 1) /\ produced \in Nat
        /\ transit' = transit \cup {Upcoming}
        /\ UNCHANGED <<processorVars, restarts>>
    BY <1>2 DEF Produce, Upcoming, TypeInv
  <2>2. Known' = Known \cup {Upcoming}
    BY <2>1 DEF Known, Kept, processorVars
  <2>3. \A m, n : SameEra(m, n)' = SameEra(m, n)
    BY <2>1 DEF SameEra
  <2>4. restarts' \subseteq 0 .. produced'
    BY <2>1 DEF FlowInv
  <2>5. \A p \in Known' : p.number < produced'
    BY <2>1, <2>2, KnownTyped DEF FlowInv
  <2>6. /\ Upcoming'.number = produced + 1
        /\ Upcoming'.seqcount = mod(counter + 1)
    BY <2>1 DEF Upcoming, Packet
  <2>7. produced + 1 \notin restarts
    BY <2>1 DEF FlowInv
  <2>8. \A p \in (Known \cup {Upcoming})' : p.number \in restarts' => p.seqcount = 0
    BY <2>1, <2>2, <2>6, <2>7 DEF FlowInv
  <2>9. ASSUME NEW p \in Known \cup {Upcoming}, SameEra(p.number, produced + 1)
        PROVE  Counted(p, Upcoming')
    <3>1. /\ p.number \in Nat /\ p.seqcount \in Nat /\ p.number <= produced
          /\ Upcoming.number = produced /\ Upcoming.seqcount = counter
      <4>1. /\ p.number \in Nat /\ p.seqcount \in SeqCounts
            /\ Upcoming.number = produced /\ Upcoming.seqcount = counter
        BY KnownTyped
      <4>2. p \in Known => p.number < produced
        BY DEF FlowInv
      <4>3. p = Upcoming => p.number = produced
        BY <4>1
      <4>4. produced \in Nat /\ SeqCounts \subseteq Nat
        BY <2>1, Counts
      <4>5. p.number \in Nat /\ p.number <= produced
        BY <4>1, <4>2, <4>3, <4>4
      <4>6. QED  BY <4>1, <4>4, <4>5
    <3>2. SameEra(p.number, produced)
      BY <2>1, <2>9 DEF SameEra, FlowInv
    <3>3. counter = mod(p.seqcount + (produced - p.number))
      BY <3>1, <3>2 DEF FlowInv, Counted
    <3> DEFINE a == p.seqcount + (produced - p.number)
    <3>4. a \in Int /\ a + 1 = p.seqcount + ((produced + 1) - p.number)
      BY <2>1, <3>1
    <3>5. counter = a % Modulo
      BY <3>3 DEF mod
    <3>. HIDE DEF a
    <3>6. mod(counter + 1) = (a + 1) % Modulo
      <4>1. ((a % Modulo) + 1) % Modulo = (a + 1) % Modulo
        <5>1. a \in Int /\ 1 \in Int /\ Modulo \in Nat \ {0}
          BY <3>4, Counts
        <5>2. QED  BY ONLY <5>1, ModPlus
      <4>2. QED  BY <3>5, <4>1 DEF mod
    <3>. HIDE <3>4
    <3>7. mod(counter + 1) = mod(p.seqcount + ((produced + 1) - p.number))
      BY <3>4, <3>6 DEF mod
    <3>8. QED  BY <2>6, <3>7 DEF Counted
  <2>10. Counted(Upcoming', Upcoming')
    <3>1. mod(counter + 1) \in 0 .. Modulo - 1
      BY Counts, ModRange DEF TypeInv, mod, SeqCounts
    <3> DEFINE c == mod(counter + 1)
    <3>. HIDE DEF c
    <3>2. c = (c + ((produced + 1) - (produced + 1))) % Modulo
      BY <2>1, <3>1, Counts DEF c
    <3>3. QED  BY <2>6, <3>2 DEF Counted, mod, c
  <2>11. ASSUME NEW p \in (Known \cup {Upcoming})', NEW q \in (Known \cup {Upcoming})',
                p.number <= q.number, SameEra(p.number, q.number)'
         PROVE  Counted(p, q)'
    <3>1. CASE p = Upcoming' /\ q = Upcoming'
      BY <2>10, <3>1 DEF Counted, mod
    <3>2. CASE p \in Known \cup {Upcoming} /\ q = Upcoming'
      BY <2>3, <2>6, <2>9, <2>11, <3>2 DEF Counted, mod
    <3>3. CASE p = Upcoming' /\ q \in Known \cup {Upcoming}
      <4>1. q.number <= produced
        BY <2>1, <3>3, KnownTyped DEF FlowInv
      <4>2. p.number = produced + 1 /\ q.number \in Nat
        BY <2>6, <3>3, KnownTyped
      <4>3. QED  BY <2>1, <2>11, <4>1, <4>2
    <3>4. CASE p \in Known \cup {Upcoming} /\ q \in Known \cup {Upcoming}
      BY <2>3, <2>11, <3>4 DEF FlowInv, Counted, mod
    <3>5. QED  BY <2>2, <3>1, <3>2, <3>3, <3>4
  <2>12. QED  BY <2>4, <2>5, <2>8, <2>11 DEF FlowInv
<1>3. CASE Restart
  <2>1. /\ restarts' = restarts \cup {produced} /\ counter' = 0 /\ produced' = produced
        /\ UNCHANGED <<processorVars, transit>> /\ produced \in Nat
    BY <1>3 DEF Restart, TypeInv
  <2>2. Known' = Known /\ Upcoming'.number = produced /\ Upcoming'.seqcount = 0
    BY <2>1 DEF Known, Kept, Upcoming, Packet, processorVars
  <2>3. restarts' \subseteq 0 .. produced'
    BY <2>1 DEF FlowInv
  <2>4. \A p \in (Known \cup {Upcoming})' : p.number \in restarts' => p.seqcount = 0
    BY <2>1, <2>2, KnownTyped DEF FlowInv
  <2>5. ASSUME NEW p \in (Known \cup {Upcoming})', NEW q \in (Known \cup {Upcoming})',
               p.number <= q.number, SameEra(p.number, q.number)'
        PROVE  Counted(p, q)'
    <3>1. CASE p \in Known /\ q \in Known
      BY <2>1, <2>5, <3>1 DEF FlowInv, SameEra, Counted, mod
    <3>2. CASE p = Upcoming' /\ q = Upcoming'
      <4>1. 0 = (0 + (produced - produced)) % Modulo
        BY <2>1, Counts
      <4>2. QED  BY <2>2, <3>2, <4>1 DEF Counted, mod
    <3>3. CASE (p \in Known /\ q = Upcoming') \/ (p = Upcoming' /\ q \in Known)
      <4>1. \A r \in Known : r.number \in Nat /\ r.number < produced
        BY KnownTyped DEF FlowInv
      <4>2. (produced <= p.number) = (produced <= q.number)
        BY <2>1, <2>5 DEF SameEra
      <4>3. CASE p \in Known /\ q = Upcoming'
        <5>1. q.number = produced /\ p.number \in Nat /\ p.number < produced
          BY <2>2, <4>1, <4>3
        <5>2. QED  BY <2>1, <4>2, <5>1
      <4>4. CASE p = Upcoming' /\ q \in Known
        <5>1. p.number = produced /\ q.number \in Nat /\ q.number < produced
          BY <2>2, <4>1, <4>4
        <5>2. QED  BY <2>1, <4>2, <5>1
      <4>5. QED  BY <3>3, <4>3, <4>4
    <3>4. QED
      <4>1. (p \in Known \/ p = Upcoming') /\ (q \in Known \/ q = Upcoming')
        BY <2>2
      <4>2. \/ p \in Known /\ q \in Known
            \/ p = Upcoming' /\ q = Upcoming'
            \/ (p \in Known /\ q = Upcoming') \/ (p = Upcoming' /\ q \in Known)
        BY <4>1
      <4>3. QED  BY ONLY <3>1, <3>2, <3>3, <4>2
  <2>6. QED  BY <2>1, <2>2, <2>3, <2>4, <2>5 DEF FlowInv
<1>4. CASE UNCHANGED vars
  BY <1>4 DEF vars, processorVars, worldVars, FlowInv, Known, Kept, Upcoming, SameEra, Counted, mod
<1>5. QED  BY <1>1, <1>2, <1>3, <1>4 DEF Next

\* There are no packets yet.
LEMMA InitFlow ==
  ASSUME Init
  PROVE  FlowInv
<1>1. /\ transit = {} /\ emitted = <<>> /\ restarts = {} /\ produced = 0
      /\ apid_info.packet_dict = {} /\ apid_info.reset_packet = {}
  BY DEF Init, NewApidInfo
<1>2. Known = {}
  BY <1>1 DEF Known, Kept, ToSet
<1>3. Upcoming.number = 0 /\ counter = Upcoming.seqcount /\ counter \in 0 .. Modulo - 1
  BY <1>1, PacketBoundsAssumption DEF Upcoming, Packet, Init, SeqCounts
<1>4. counter = (counter + (0 - 0)) % Modulo
  BY <1>3, Counts
<1>5. Counted(Upcoming, Upcoming)
  BY <1>3, <1>4 DEF Counted, mod
<1>6. QED  BY <1>1, <1>2, <1>5 DEF FlowInv

\* All three hold in every reachable state.
LEMMA AlwaysFlow == Spec => [](TypeInv /\ PhaseInv /\ FlowInv)
<1>1. Init => TypeInv /\ PhaseInv /\ FlowInv
  BY InitInv, InitFlow
<1>2. (TypeInv /\ PhaseInv /\ FlowInv) /\ [Next]_vars => (TypeInv /\ PhaseInv /\ FlowInv)'
  BY NextInv, NextFlow
<1>3. QED  BY <1>1, <1>2, PTL DEF Spec

----------------------------------------------------------------------------
(* Without gaps. *)

\* While max_gap is 0 and nothing is reset the last count is that of the last packet sent,
\* and every packet that was sent follows the one before it.
GapInv ==
  /\ phase = "Purging" => resets # {}
  /\ max_gap = 0 /\ resets = {} /\ restarts = {} =>
       /\ ~apid_info.has_sent => emitted = <<>> /\ apid_info.packet_dict = {}
       /\ emitted # <<>> => apid_info.lastSeqCountSent = emitted[Len(emitted)].seqcount
       /\ \A i \in 1 .. Len(emitted) - 1 : emitted[i + 1].number = emitted[i].number + 1

\* As long as no restart is, and there are fewer packets than counts, a count tells that a
\* packet follows another.
LEMMA CountTells ==
  ASSUME TypeInv, FlowInv, MaxPackets < Modulo, NEW p \in Known, NEW q \in Known,
         SameEra(p.number, q.number), p.seqcount = Previous(q.seqcount)
  PROVE  q.number = p.number + 1
<1>1. /\ p.number \in 0 .. MaxPackets - 1 /\ q.number \in 0 .. MaxPackets - 1
      /\ p.seqcount \in 0 .. Modulo - 1 /\ q.seqcount \in 0 .. Modulo - 1
      /\ MaxPackets \in Nat /\ Modulo \in Nat \ {0}
  BY KnownTyped, PacketBoundsAssumption, Counts DEF Packets, SeqCounts
<1> DEFINE m == p.number
           n == q.number
           s == p.seqcount
           t == q.seqcount
<1>2. /\ m <= n => t = (s + (n - m)) % Modulo
      /\ n <= m => s = (t + (m - n)) % Modulo
  BY DEF FlowInv, Counted, mod, SameEra
<1>3. s = (t + Modulo - 1) % Modulo
  BY DEF Previous, mod
<1>4. /\ m \in 0 .. MaxPackets - 1 /\ n \in 0 .. MaxPackets - 1
      /\ s \in 0 .. Modulo - 1 /\ t \in 0 .. Modulo - 1
  BY <1>1
<1>. HIDE DEF m, n, s, t
<1>5. s = (t + (Modulo - 1)) % Modulo
  BY <1>1, <1>3, <1>4
<1>6. CASE n <= m
  <2>1. (t + (m - n)) % Modulo = (t + (Modulo - 1)) % Modulo
    BY <1>2, <1>5, <1>6
  <2>2. t + (m - n) = t + (Modulo - 1)
    <3> DEFINE x == t + (m - n)
               y == t + (Modulo - 1)
    <3>1. x \in Int /\ y \in Int /\ x - y < Modulo /\ y - x < Modulo /\ Modulo \in Nat \ {0}
      BY <1>1, <1>4, <1>6
    <3>2. x % Modulo = y % Modulo
      BY <2>1
    <3>. HIDE DEF x, y
    <3>3. x = y
      BY ONLY <3>1, <3>2, ModEqual
    <3>4. QED  BY <3>3 DEF x, y
  <2>3. QED  BY <1>1, <1>4, <1>6, <2>2
<1>7. CASE m < n
  <2>1. t = (s + (n - m)) % Modulo
    BY <1>2, <1>4, <1>7
  <2>2. (((s + (n - m)) % Modulo) + (Modulo - 1)) % Modulo =
          ((s + (n - m)) + (Modulo - 1)) % Modulo
    <3>1. Modulo \in Nat \ {0} /\ s + (n - m) \in Int /\ Modulo - 1 \in Int
      BY <1>1, <1>4
    <3>2. QED  BY ONLY <3>1, ModPlus
  <2>3. s = ((s + (n - m)) + (Modulo - 1)) % Modulo
    BY <1>5, <2>1, <2>2
  <2>4. s = (s + Modulo) % Modulo
    BY <1>1, <1>4
  <2>5. (s + (n - m)) + (Modulo - 1) = s + Modulo
    <3> DEFINE x == (s + (n - m)) + (Modulo - 1)
               y == s + Modulo
    <3>1. x \in Int /\ y \in Int /\ x - y < Modulo /\ y - x < Modulo /\ Modulo \in Nat \ {0}
      BY <1>1, <1>4, <1>7
    <3>2. x % Modulo = y % Modulo
      BY <2>3, <2>4
    <3>. HIDE DEF x, y
    <3>3. x = y
      BY ONLY <3>1, <3>2, ModEqual
    <3>4. QED  BY <3>3 DEF x, y
  <2>6. n = m + 1
    BY <1>1, <1>4, <2>5
  <2>7. QED  BY <2>6 DEF m, n
<1>8. QED  BY <1>4, <1>6, <1>7

\* Every step keeps that.
LEMMA NextGap ==
  ASSUME MaxPackets < Modulo, TypeInv, PhaseInv, FlowInv, GapInv, [Next]_vars
  PROVE  GapInv'
<1>0. ProperInfo(apid_info) /\ max_gap \in Nat /\ emitted \in Seq(Packets) /\ transit \subseteq Packets
  BY DEF TypeInv
<1>1. ASSUME NEW packet \in transit, NEW again \in BOOLEAN, Arrive(packet, again)
      PROVE  GapInv'
  <2>1. /\ packet \in Packets /\ Receive(packet) /\ apid_info.reset_packet = {}
        /\ UNCHANGED <<emitted, max_gap, restarts>>
    BY <1>0, <1>1 DEF Arrive, Receive, TypeInv
  <2> DEFINE begun == Begun(apid_info, packet)
  <2>2. /\ ProperInfo(begun) /\ begun.has_sent
        /\ apid_info.has_sent => begun.lastSeqCountSent = apid_info.lastSeqCountSent
    BY <1>0, <2>1, BegunEffect
  <2>3. CASE phase' = "Purging" /\ resets' = resets \cup {packet.number}
    BY <2>3 DEF GapInv
  <2>4. CASE apid_info' = begun /\ phase' = "Emitting" /\ resets' = resets
    BY <2>1, <2>2, <2>4 DEF GapInv
  <2>5. CASE /\ ProperInfo(store(begun, packet)) /\ apid_info' = check_gap(store(begun, packet))
             /\ phase' = "Emitting" /\ resets' = resets
    <3>1. max_gap = 0 => apid_info' = store(begun, packet)
      BY <1>0, <2>5, CheckGapEffect
    <3>2. /\ store(begun, packet).has_sent
          /\ store(begun, packet).lastSeqCountSent = begun.lastSeqCountSent
      BY <2>1, <2>2, StoreEffect
    <3>3. QED  BY <2>1, <2>2, <2>5, <3>1, <3>2 DEF GapInv
  <2>6. QED
    <3>1. \/ phase' = "Purging" /\ resets' = resets \cup {packet.number}
          \/ apid_info' = begun /\ phase' = "Emitting" /\ resets' = resets
          \/ /\ ProperInfo(store(begun, packet)) /\ apid_info' = check_gap(store(begun, packet))
             /\ phase' = "Emitting" /\ resets' = resets
      BY <1>0, <2>1, ReceiveIs
    <3>2. QED  BY ONLY <2>3, <2>4, <2>5, <3>1
<1>2. CASE EmitOne
  <2>1. /\ ready_for_emit(apid_info) /\ apid_info' = EmitNext(apid_info)
        /\ phase = "Emitting"
        /\ emitted' = emitted \o NextPackets(apid_info)
        /\ UNCHANGED <<phase, max_gap, resets, restarts>>
    BY <1>2 DEF EmitOne, worldVars
  <2> DEFINE next == get_next_value(apid_info.seq_counts)
  <2>2. CASE apid_info' = apid_info /\ emitted' = emitted
    BY <2>1, <2>2 DEF GapInv
  <2>3. ASSUME NEW p \in apid_info.packet_dict, p.seqcount = next, emitted' = emitted \o <<p>>,
               apid_info'.has_sent = apid_info.has_sent, apid_info'.lastSeqCountSent = next,
               max_gap = 0, resets = {}, restarts = {}
        PROVE  /\ apid_info'.has_sent
               /\ emitted' # <<>> /\ apid_info'.lastSeqCountSent = emitted'[Len(emitted')].seqcount
               /\ \A i \in 1 .. Len(emitted') - 1 : emitted'[i + 1].number = emitted'[i].number + 1
    <3>1. p \in Packets /\ p \in Known
      BY <1>0, <2>3 DEF ProperInfo, Infos, Known, Kept
    <3>2. /\ emitted' \in Seq(Packets) /\ Len(emitted') = Len(emitted) + 1 /\ Len(emitted) \in Nat
          /\ \A i \in 1 .. Len(emitted) : emitted'[i] = emitted[i]
          /\ emitted'[Len(emitted) + 1] = p
      BY <1>0, <2>3, <3>1, ToSetAppend
    <3>3. apid_info.has_sent
      BY <1>0, <2>3 DEF GapInv, ProperInfo, Infos
    <3>4. \A i \in 1 .. Len(emitted) - 1 : emitted'[i + 1].number = emitted'[i].number + 1
      <4>1. \A i \in 1 .. Len(emitted) - 1 : i \in 1 .. Len(emitted) /\ i + 1 \in 1 .. Len(emitted)
        BY <3>2
      <4>2. QED  BY <2>3, <3>2, <4>1 DEF GapInv
    <3>5. CASE emitted = <<>>
      <4>1. Len(emitted) = 0
        BY <3>5
      <4>2. QED  BY <2>3, <3>2, <3>3, <4>1
    <3>6. CASE emitted # <<>>
      <4> DEFINE e == emitted[Len(emitted)]
      <4>1. Len(emitted) \in 1 .. Len(emitted) /\ Len(emitted) \in DOMAIN emitted
        BY <1>0, <3>2, <3>6
      <4>2. e \in Known
        BY <4>1 DEF Known, Kept, ToSet
      <4>3. e.seqcount = Previous(p.seqcount)
        BY <2>1, <2>3, <3>6 DEF GapInv, ready_for_emit
      <4>4. SameEra(e.number, p.number)
        BY <2>3 DEF SameEra
      <4>5. p.number = e.number + 1
        BY <3>1, <4>2, <4>3, <4>4, CountTells
      <4>6. emitted'[Len(emitted) + 1].number = emitted'[Len(emitted)].number + 1
        BY <3>2, <4>1, <4>5
      <4>7. \A i \in 1 .. Len(emitted') - 1 : i \in 1 .. Len(emitted) - 1 \/ i = Len(emitted)
        BY <3>2
      <4>8. emitted' # <<>>
        BY <3>2
      <4>9. QED  BY <2>3, <3>2, <3>3, <3>4, <4>6, <4>7, <4>8
    <3>7. QED  BY <3>5, <3>6
  <2>4. QED
    <3>1. \/ apid_info' = apid_info /\ emitted' = emitted
          \/ \E p \in apid_info.packet_dict :
               /\ p.seqcount = next /\ emitted' = emitted \o <<p>>
               /\ apid_info'.has_sent = apid_info.has_sent /\ apid_info'.lastSeqCountSent = next
      BY <2>1, EmitMoves
    <3>. HIDE DEF next
    <3>2. QED  BY <2>1, <2>2, <2>3, <3>1 DEF GapInv
<1>3. CASE PurgeOne \/ FinishPurge
  BY <1>3 DEF PurgeOne, FinishPurge, GapInv
<1>4. CASE Restart
  BY <1>4 DEF Restart, GapInv, processorVars
<1>5. CASE Die \/ FinishEmit \/ Produce \/ (\E packet \in transit \ copies : Lose(packet)) \/ UNCHANGED vars
  <2>1. UNCHANGED <<apid_info, emitted, resets, max_gap, restarts>>
    BY <1>5 DEF Die, FinishEmit, Produce, Lose, vars, processorVars, worldVars
  <2>2. phase' = phase \/ phase' # "Purging"
    BY <1>5 DEF Die, FinishEmit, Produce, Lose, vars, processorVars, worldVars
  <2>3. QED  BY <2>1, <2>2 DEF GapInv
<1>6. QED  BY <1>1, <1>2, <1>3, <1>4, <1>5 DEF Next

\* When max_gap is 0 no packet is ever passed over, except at a reset: for fewer packets than
\* there are counts, which is when a count tells a packet from its neighbours.
THEOREM NoGapAllowedHolds ==
  ASSUME MaxPackets < Modulo
  PROVE  Spec => []NoGapAllowed
<1>1. Init => GapInv
  BY DEF Init, GapInv, NewApidInfo
<1>2. (TypeInv /\ PhaseInv /\ FlowInv) /\ GapInv /\ [Next]_vars => GapInv'
  BY NextGap
<1>3. GapInv => NoGapAllowed
  BY DEF GapInv, NoGapAllowed
<1>4. QED  BY <1>1, <1>2, <1>3, AlwaysFlow, PTL DEF Spec
=============================================================================
