------------------------- MODULE DecisionLogProofs -------------------------
(***************************************************************************)
(* What an append does to the window the loop detectors look at, for every *)
(* log and every window length.                                            *)
(***************************************************************************)
EXTENDS DecisionLog, FiniteSetTheorems, SequenceTheorems, TLAPS

(* A digest occurs in a log a natural number of times, at most once per entry. *)
LEMMA OccurrencesBounded ==
  ASSUME NEW T, NEW s \in Seq(T), NEW d
  PROVE  /\ IsFiniteSet({i \in 1..Len(s) : s[i] = d})
         /\ Occurrences(s, d) \in Nat
         /\ Occurrences(s, d) <= Len(s)
<1> DEFINE At == {i \in 1..Len(s) : s[i] = d}
<1>1. Len(s) \in Nat
  BY LenProperties
<1>2. IsFiniteSet(1..Len(s)) /\ Cardinality(1..Len(s)) = Len(s)
  BY <1>1, FS_Interval
<1>3. At \in SUBSET (1..Len(s))
  OBVIOUS
<1>4. IsFiniteSet(At) /\ Cardinality(At) <= Len(s)
  BY <1>2, <1>3, FS_Subset
<1>5. Cardinality(At) \in Nat
  BY <1>4, FS_CardinalityType
<1> QED
  BY <1>4, <1>5 DEF Occurrences

(* Appending a decision adds one occurrence of its own digest and none of another. *)
LEMMA OccurrencesOfAppend ==
  ASSUME NEW T, NEW s \in Seq(T), NEW e \in T, NEW d
  PROVE  Occurrences(Append(s, e), d) = Occurrences(s, d) + IF e = d THEN 1 ELSE 0
<1> DEFINE At == {i \in 1..Len(s) : s[i] = d}
           AtNow == {i \in 1..Len(Append(s, e)) : Append(s, e)[i] = d}
<1>1. Len(s) \in Nat /\ Len(Append(s, e)) = Len(s) + 1
  BY LenProperties, AppendProperties
<1>2. /\ \A i \in 1..Len(s) : Append(s, e)[i] = s[i]
      /\ Append(s, e)[Len(s) + 1] = e
  BY <1>1, AppendProperties
<1>3. IsFiniteSet(At) /\ Cardinality(At) \in Nat
  BY OccurrencesBounded DEF Occurrences
<1>4. CASE e = d
  <2>1. AtNow = At \union {Len(s) + 1}
    BY <1>1, <1>2, <1>4
  <2>2. Len(s) + 1 \notin At
    BY <1>1
  <2>3. Cardinality(AtNow) = Cardinality(At) + 1
    BY <1>3, <2>1, <2>2, FS_AddElement
  <2> QED
    BY <1>4, <2>3 DEF Occurrences
<1>5. CASE e /= d
  <2>1. AtNow = At
    BY <1>1, <1>2, <1>5
  <2> HIDE DEF At, AtNow
  <2>2. Cardinality(AtNow) = Cardinality(At) + 0
    BY <1>3, <2>1
  <2> QED
    BY <1>5, <2>2 DEF Occurrences, At, AtNow
<1> QED
  BY <1>4, <1>5

(* The last n entries of a log are a log of at most n entries. *)
LEMMA LastNIsALog ==
  ASSUME NEW T, NEW s \in Seq(T), NEW n \in Nat
  PROVE  /\ LastN(s, n) \in Seq(T)
         /\ Len(LastN(s, n)) = IF Len(s) <= n THEN Len(s) ELSE n
         /\ Len(s) > n =>
              \A i \in 1..n : LastN(s, n)[i] = s[Len(s) - n + i]
<1>1. Len(s) \in Nat
  BY LenProperties
<1>2. CASE Len(s) <= n
  BY <1>1, <1>2 DEF LastN
<1>3. CASE Len(s) > n
  <2> DEFINE first == Len(s) - n + 1
  <2>1. first \in Int /\ first >= 1 /\ Len(s) \in Int
    BY <1>1, <1>3
  <2>2. \A i \in first..Len(s) : s[i] \in T
    BY <1>1, <2>1, ElementOfSeq
  <2>3. /\ SubSeq(s, first, Len(s)) \in Seq(T)
        /\ Len(SubSeq(s, first, Len(s))) =
             IF first <= Len(s) THEN Len(s) - first + 1 ELSE 0
        /\ \A i \in 1..(Len(s) - first + 1) : SubSeq(s, first, Len(s))[i] = s[first + i - 1]
    BY <2>1, <2>2, SubSeqProperties
  <2>4. LastN(s, n) = SubSeq(s, first, Len(s))
    BY <1>1, <1>3 DEF LastN
  <2>5. Len(s) - first + 1 = n
    BY <1>1
  <2> HIDE DEF first
  <2>6. \A i \in 1..n : first + i - 1 = Len(s) - n + i
    BY <1>1 DEF first
  <2> QED
    BY <1>1, <1>3, <2>1, <2>3, <2>4, <2>5, <2>6
<1> QED
  BY <1>1, <1>2, <1>3

(* Entries that leave the window take occurrences with them. *)
LEMMA OccurrencesInLastN ==
  ASSUME NEW T, NEW s \in Seq(T), NEW n \in Nat, NEW d
  PROVE  Occurrences(LastN(s, n), d) <= Occurrences(s, d)
<1> DEFINE t == LastN(s, n)
           At == {i \in 1..Len(s) : s[i] = d}
           AtNow == {i \in 1..Len(t) : t[i] = d}
<1>1. Len(s) \in Nat
  BY LenProperties
<1>2. IsFiniteSet(At) /\ Occurrences(s, d) \in Nat
  BY OccurrencesBounded
<1>3. CASE Len(s) <= n
  BY <1>1, <1>2, <1>3 DEF LastN
<1>4. CASE Len(s) > n
  <2> DEFINE shift == [i \in AtNow |-> Len(s) - n + i]
  <2>1. Len(t) = n /\ \A i \in 1..n : t[i] = s[Len(s) - n + i]
    BY <1>1, <1>4, LastNIsALog
  <2> HIDE DEF t
  <2>2. \A i \in AtNow : Len(s) - n + i \in At
    BY <1>1, <1>4, <2>1
  <2>3. \A i, j \in AtNow : Len(s) - n + i = Len(s) - n + j => i = j
    BY <1>1, <2>1
  <2>4. shift \in Injection(AtNow, At)
    BY <2>2, <2>3 DEF Injection, IsInjective
  <2>5. Cardinality(AtNow) <= Cardinality(At)
    BY <1>2, <2>4, FS_Injection
  <2> QED
    BY <2>5 DEF Occurrences, t
<1> QED
  BY <1>1, <1>3, <1>4

(* What the gate and the router conclude when they see no loop in a window.  *)
LEMMA NoLoopMeansFewOccurrences ==
  ASSUME NEW T, NEW s \in Seq(T), Len(s) <= LoopWindow, ~LoopDetected(s), NEW d
  PROVE  Occurrences(s, d) < LoopThreshold
<1>1. LastN(s, LoopWindow) = s
  BY DEF LastN
<1>2. Occurrences(s, d) \in Nat /\ Len(s) \in Nat
  BY OccurrencesBounded, LenProperties
<1>3. \A i \in 1..Len(s) : ~(Occurrences(s, s[i]) >= LoopThreshold)
  BY <1>1 DEF LoopDetected
<1>4. CASE \E i \in 1..Len(s) : s[i] = d
  BY <1>2, <1>3, <1>4 DEF LoopThreshold
<1>5. CASE ~ \E i \in 1..Len(s) : s[i] = d
  <2>1. {i \in 1..Len(s) : s[i] = d} = {}
    BY <1>5
  <2>2. Occurrences(s, d) = 0
    BY <2>1, FS_EmptySet, Zenon DEF Occurrences
  <2> QED
    BY <2>2 DEF LoopThreshold
<1> QED
  BY <1>4, <1>5

(* The same of a log of any length, of which the detectors see a window.     *)
LEMMA NoLoopMeansFewInWindow ==
  ASSUME NEW T, NEW s \in Seq(T), ~LoopDetected(s), NEW d
  PROVE  Occurrences(LastN(s, LoopWindow), d) < LoopThreshold
<1> DEFINE w == LastN(s, LoopWindow)
<1>1. w \in Seq(T) /\ Len(w) <= LoopWindow
  BY LastNIsALog DEF LoopWindow
<1>2. LastN(w, LoopWindow) = w
  BY <1>1 DEF LastN
<1>3. ~LoopDetected(w)
  BY <1>2 DEF LoopDetected
<1> HIDE DEF w
<1>4. Occurrences(w, d) < LoopThreshold
  BY <1>1, <1>3, NoLoopMeansFewOccurrences
<1> QED
  BY <1>4 DEF w

\* The places, after the first a entries of a log and among the n before place
\* m and m itself, at which a digest stands.
Places(s, a, m, n, d) == {i \in (a + 1)..m : i > m - n /\ s[i] = d}

(* How often a digest occurs in the window of a part of a log is how many    *)
(* places it has there.                                                      *)
LEMMA WindowPlaces ==
  ASSUME NEW T, NEW s \in Seq(T), NEW a \in Nat, NEW m \in Nat, NEW n \in Nat, NEW d,
         a <= m, m <= Len(s)
  PROVE  /\ IsFiniteSet(Places(s, a, m, n, d))
         /\ Cardinality(Places(s, a, m, n, d))
              = Occurrences(LastN(SubSeq(s, a + 1, m), n), d)
<1> DEFINE part == SubSeq(s, a + 1, m)
           w == LastN(part, n)
           shift == IF m - a <= n THEN a ELSE m - n
           At == {i \in 1..Len(w) : w[i] = d}
           f == [i \in At |-> i + shift]
<1>1. Len(s) \in Nat /\ \A i \in (a + 1)..m : s[i] \in T
  BY LenProperties, ElementOfSeq
<1>2. /\ part \in Seq(T)
      /\ Len(part) = m - a
      /\ \A i \in 1..(m - a) : part[i] = s[a + i]
  <2>1. a + 1 \in Int /\ m \in Int
    OBVIOUS
  <2>2. /\ part \in Seq(T)
        /\ Len(part) = IF a + 1 <= m THEN m - (a + 1) + 1 ELSE 0
        /\ \A i \in 1..(m - (a + 1) + 1) : part[i] = s[a + 1 + i - 1]
    BY <1>1, <2>1, SubSeqProperties
  <2> HIDE DEF part
  <2>3. m - (a + 1) + 1 = m - a /\ \A i \in 1..(m - a) : a + 1 + i - 1 = a + i
    OBVIOUS
  <2> QED
    BY <2>2, <2>3
<1> HIDE DEF part
<1>l. /\ w \in Seq(T)
      /\ Len(w) = IF Len(part) <= n THEN Len(part) ELSE n
      /\ Len(part) > n => \A i \in 1..n : w[i] = part[Len(part) - n + i]
  BY <1>2, LastNIsALog
<1>3. shift \in Nat /\ shift >= a /\ shift >= m - n
  OBVIOUS
<1>4. Len(w) = m - shift /\ \A i \in 1..(m - shift) : w[i] = s[shift + i]
  <2>1. CASE m - a <= n
    BY <1>2, <2>1 DEF LastN
  <2>2. CASE m - a > n
    <3>1. Len(w) = n /\ \A i \in 1..n : w[i] = part[Len(part) - n + i]
      BY <1>2, <1>l, <2>2
    <3>2. \A i \in 1..n : m - a - n + i \in 1..(m - a) /\ a + (m - a - n + i) = m - n + i
      BY <2>2
    <3>3. shift = m - n /\ m - shift = n /\ Len(part) - n = m - a - n
      BY <1>2, <2>2
    <3> HIDE DEF w, shift
    <3>4. ASSUME NEW i \in 1..n
          PROVE  w[i] = s[shift + i]
      <4>1. w[i] = part[m - a - n + i]
        BY <3>1, <3>3
      <4>2. part[m - a - n + i] = s[a + (m - a - n + i)]
        BY <1>2, <3>2
      <4> QED
        BY <3>2, <3>3, <4>1, <4>2
    <3> QED
      BY <3>1, <3>3, <3>4
  <2> QED
    BY <2>1, <2>2
<1>5. IsFiniteSet(At) /\ Cardinality(At) = Occurrences(w, d)
  <2> HIDE DEF w
  <2> QED
    BY <1>l, OccurrencesBounded DEF Occurrences
<1> HIDE DEF w
<1>6. f \in Bijection(At, Places(s, a, m, n, d))
  <2>1. ASSUME NEW i \in At
        PROVE  i + shift \in Places(s, a, m, n, d)
    BY <1>3, <1>4 DEF Places
  <2>2. ASSUME NEW j \in Places(s, a, m, n, d)
        PROVE  j - shift \in At /\ (j - shift) + shift = j
    BY <1>3, <1>4 DEF Places
  <2>3. \A i, j \in At : i + shift = j + shift => i = j
    BY <1>3, <1>4
  <2>4. f \in Injection(At, Places(s, a, m, n, d))
    BY <2>1, <2>3 DEF Injection, IsInjective
  <2>5. f \in Surjection(At, Places(s, a, m, n, d))
    BY <2>1, <2>2 DEF Surjection
  <2> QED
    BY <2>4, <2>5 DEF Bijection
<1>7. /\ IsFiniteSet(Places(s, a, m, n, d))
      /\ Cardinality(Places(s, a, m, n, d)) = Cardinality(At)
  BY <1>5, <1>6, FS_Bijection DEF ExistsBijection
<1> QED
  BY <1>5, <1>7 DEF w, part

(* The entries after the first a of a log, up to any of them.                *)
LEMMA PrefixOfPart ==
  ASSUME NEW T, NEW s \in Seq(T), NEW a \in Nat, a <= Len(s)
  PROVE  LET part == SubSeq(s, a + 1, Len(s))
         IN  /\ Len(part) = Len(s) - a
             /\ \A n \in 1..Len(part) :
                  /\ part[n] = s[a + n]
                  /\ SubSeq(part, 1, n) = SubSeq(s, a + 1, a + n)
<1> DEFINE part == SubSeq(s, a + 1, Len(s))
<1>1. Len(s) \in Nat /\ \A i \in 1..Len(s) : s[i] \in T
  BY LenProperties, ElementOfSeq
<1>2. ASSUME NEW m \in a..Len(s)
      PROVE  /\ SubSeq(s, a + 1, m) \in Seq(T)
             /\ Len(SubSeq(s, a + 1, m)) = m - a
             /\ \A i \in 1..(m - a) : SubSeq(s, a + 1, m)[i] = s[a + i]
  <2> DEFINE u == SubSeq(s, a + 1, m)
  <2>1. a + 1 \in Int /\ m \in Int /\ \A i \in (a + 1)..m : s[i] \in T
    BY <1>1
  <2>2. /\ u \in Seq(T)
        /\ Len(u) = IF a + 1 <= m THEN m - (a + 1) + 1 ELSE 0
        /\ \A i \in 1..(m - (a + 1) + 1) : u[i] = s[a + 1 + i - 1]
    BY <2>1, SubSeqProperties
  <2> HIDE DEF u
  <2>3. m - (a + 1) + 1 = m - a /\ \A i \in 1..(m - a) : a + 1 + i - 1 = a + i
    BY <1>1
  <2>4. Len(u) = m - a
    BY <1>1, <2>2
  <2> QED
    BY <2>2, <2>3, <2>4 DEF u
<1>3. /\ part \in Seq(T) /\ Len(part) = Len(s) - a
      /\ \A i \in 1..(Len(s) - a) : part[i] = s[a + i]
  BY <1>1, <1>2
<1> HIDE DEF part
<1>4. ASSUME NEW n \in 1..Len(part)
      PROVE  SubSeq(part, 1, n) = SubSeq(s, a + 1, a + n)
  <2> DEFINE u == SubSeq(part, 1, n)
             v == SubSeq(s, a + 1, a + n)
  <2>1. v \in Seq(T) /\ Len(v) = n /\ \A i \in 1..n : v[i] = s[a + i]
    <3>1. a + n \in a..Len(s) /\ (a + n) - a = n
      BY <1>1, <1>3
    <3> QED
      BY <1>2, <3>1
  <2>2. 1 \in Int /\ n \in Int /\ \A i \in 1..n : part[i] \in T
    BY <1>1, <1>3
  <2>3. /\ u \in Seq(T)
        /\ Len(u) = IF 1 <= n THEN n - 1 + 1 ELSE 0
        /\ \A i \in 1..(n - 1 + 1) : u[i] = part[1 + i - 1]
    BY <1>3, <2>2, SubSeqProperties
  <2> HIDE DEF u, v
  <2>4. Len(u) = n
    BY <1>1, <1>3, <2>3
  <2>5. \A i \in 1..n : u[i] = part[i]
    BY <1>1, <1>3, <2>3
  <2>6. n \in 1..(Len(s) - a) /\ \A i \in 1..n : i \in 1..(Len(s) - a)
    BY <1>1, <1>3
  <2>7. \A i \in 1..Len(u) : u[i] = v[i]
    BY <1>3, <2>1, <2>4, <2>5, <2>6
  <2>8. u = v
    BY <2>1, <2>3, <2>4, <2>7, SeqEqual
  <2> QED
    BY <2>8 DEF u, v
<1>5. \A n \in 1..Len(part) : part[n] = s[a + n]
  BY <1>1, <1>3
<1> QED
  BY <1>3, <1>4, <1>5 DEF part

(* One append to a part of a log in which a digest stands below the          *)
(* threshold: it reaches the threshold there at most.                        *)
LEMMA PlacesAfterAppend ==
  ASSUME NEW T, NEW s \in Seq(T), NEW e \in T, NEW b \in Nat, NEW a \in Nat,
         b <= a, a <= Len(s), ~LoopDetected(SubSeq(s, b + 1, Len(s)))
  PROVE  LET now == Places(Append(s, e), a, Len(s) + 1, LoopWindow, e)
         IN  IsFiniteSet(now) /\ Cardinality(now) <= LoopThreshold
<1> DEFINE now == Places(Append(s, e), a, Len(s) + 1, LoopWindow, e)
           before == Places(s, b, Len(s), LoopWindow, e)
<1>1. /\ Len(s) \in Nat /\ Len(Append(s, e)) = Len(s) + 1
      /\ \A i \in 1..Len(s) : Append(s, e)[i] = s[i]
  BY LenProperties, AppendProperties
<1>2. SubSeq(s, b + 1, Len(s)) \in Seq(T)
  BY <1>1, ElementOfSeq, SubSeqProperties
<1>3. Occurrences(LastN(SubSeq(s, b + 1, Len(s)), LoopWindow), e) < LoopThreshold
  BY <1>2, NoLoopMeansFewInWindow
<1>4. IsFiniteSet(before) /\ Cardinality(before) < LoopThreshold
  BY <1>1, <1>3, WindowPlaces DEF LoopWindow
<1>5. /\ IsFiniteSet(before \union {Len(s) + 1})
      /\ Cardinality(before \union {Len(s) + 1}) <= LoopThreshold
  <2> HIDE DEF before
  <2>1. Cardinality(before) \in Nat
    BY <1>4, FS_CardinalityType
  <2>2. /\ IsFiniteSet(before \union {Len(s) + 1})
        /\ Cardinality(before \union {Len(s) + 1}) =
             IF Len(s) + 1 \in before THEN Cardinality(before) ELSE Cardinality(before) + 1
    BY <1>4, FS_AddElement
  <2> QED
    BY <1>4, <2>1, <2>2 DEF LoopThreshold
<1>6. now \in SUBSET (before \union {Len(s) + 1})
  BY <1>1 DEF Places, LoopWindow
<1>7. IsFiniteSet(now) /\ Cardinality(now) <= Cardinality(before \union {Len(s) + 1})
  BY <1>5, <1>6, FS_Subset
<1>8. Cardinality(now) \in Nat /\ Cardinality(before \union {Len(s) + 1}) \in Nat
  BY <1>5, <1>7, FS_CardinalityType
<1> QED
  BY <1>5, <1>7, <1>8 DEF LoopThreshold

(* One append to a window: the result is a window, and only the digest that  *)
(* was appended can occur more often than before, once more at most.         *)
THEOREM AppendToWindow ==
  ASSUME NEW T, NEW s \in Seq(T), NEW e \in T, NEW n \in Nat, NEW d
  PROVE  /\ AppendLastN(s, e, n) \in Seq(T)
         /\ Len(AppendLastN(s, e, n)) <= n
         /\ Len(AppendLastN(s, e, n)) <= Len(s) + 1
         /\ Occurrences(AppendLastN(s, e, n), d) \in Nat
         /\ Occurrences(AppendLastN(s, e, n), d)
              <= Occurrences(s, d) + IF e = d THEN 1 ELSE 0
<1>1. Append(s, e) \in Seq(T) /\ Len(Append(s, e)) = Len(s) + 1 /\ Len(s) \in Nat
  BY AppendProperties, LenProperties
<1>2. /\ LastN(Append(s, e), n) \in Seq(T)
      /\ Len(LastN(Append(s, e), n)) =
           IF Len(Append(s, e)) <= n THEN Len(Append(s, e)) ELSE n
  BY <1>1, LastNIsALog
<1>3. Occurrences(LastN(Append(s, e), n), d) <= Occurrences(Append(s, e), d)
  BY <1>1, OccurrencesInLastN
<1>4. Occurrences(Append(s, e), d) = Occurrences(s, d) + IF e = d THEN 1 ELSE 0
  BY OccurrencesOfAppend
<1>5. Occurrences(LastN(Append(s, e), n), d) \in Nat
  BY <1>2, OccurrencesBounded
<1> QED
  BY <1>1, <1>2, <1>3, <1>4, <1>5 DEF AppendLastN
=============================================================================
