------------------------ MODULE WorkingMemoryProofs ------------------------
(***************************************************************************)
(* Theorems about the budget of a model call's working memory, for any     *)
(* ceilings, parts, retrieval indexes and number of passes, with their     *)
(* proofs.  The order in which the parts are cut does not depend on how    *)
(* they add up; only when a budget is missed does.                         *)
(***************************************************************************)
EXTENDS WorkingMemory, FiniteSetTheorems, SequenceTheorems, TLAPS

-----------------------------------------------------------------------------
\* The parts of a working memory; retrieved texts may have any size.
PartsOf(S) ==
  [goal : Nat, constraints : Seq(Nat), subtask : Nat, error : Nat,
   retrieved : Seq(S), skill : Nat, recap : Nat, tools : Seq(Nat)]

Requests ==
  [goal : Goals, constraints : Constraints, subtask : Subtasks, error : Errors,
   skill : Skills, index : Indexes, mode : Modes, results : Results, edits : Edits]

Shapes ==
  /\ ceiling \in Nat /\ passes \in Nat
  /\ asked \in Requests
  /\ \E S : wm \in PartsOf(S)
  /\ given.tools \in Seq(Nat)
  /\ pc = "build" => wm = given

\* OldestResultsKept, at every control point.
ResultsSoFar ==
  /\ Len(wm.tools) <= Len(given.tools)
  /\ \A i \in 1..Len(wm.tools) : i < Len(wm.tools) => wm.tools[i] = given.tools[i]

IInv == Shapes /\ AnchorsCutLast /\ ResultsSoFar

-----------------------------------------------------------------------------
\* A function on 1..n is a sequence.
LEMMA FunctionIsSequence ==
  ASSUME NEW f, NEW n \in Nat, DOMAIN f = 1..n, f = [i \in 1..n |-> f[i]]
  PROVE  f \in Seq({f[i] : i \in 1..n})
<1> DEFINE S == {f[i] : i \in 1..n}
<1>1. \A i \in 1..n : f[i] \in S
  OBVIOUS
<1>2. f \in [1..n -> S]
  <2> HIDE DEF S
  <2> QED
    BY <1>1
<1> HIDE DEF S
<1>3. f \in Seq(S)
  BY <1>2
<1> QED
  BY <1>3 DEF S

\* The retrieved texts are a sequence, however the items are ranked.
LEMMA RankingsAreSequences ==
  ASSUME NEW index \in Indexes
  PROVE  /\ \E S : KeywordRanking(index) \in Seq(S)
         /\ \A ranking \in SemanticRankings(index) : \E S : ranking \in Seq(S)
<1>1. Len(index) \in Nat /\ DOMAIN index = 1..Len(index)
  BY IndexesAreSequences
<1> DEFINE relevant == {i \in DOMAIN index : index[i].relevance >= 1}
<1>2. Cardinality(relevant) \in Nat
  <2>1. IsFiniteSet(DOMAIN index)
    BY <1>1, FS_Interval
  <2> QED
    BY <2>1, FS_Subset, FS_CardinalityType
<1>3. KeywordRanking(index) \in Seq({KeywordRanking(index)[i] : i \in 1..Cardinality(relevant)})
  <2> DEFINE f == KeywordRanking(index)
  <2>1. DOMAIN f = 1..Cardinality(relevant) /\ f = [i \in 1..Cardinality(relevant) |-> f[i]]
    BY DEF KeywordRanking
  <2> QED
    BY <1>2, <2>1, FunctionIsSequence
<1>4. ASSUME NEW ranking \in SemanticRankings(index)
      PROVE  \E S : ranking \in Seq(S)
  <2>1. DOMAIN ranking = 1..Len(index) /\ ranking = [i \in 1..Len(index) |-> ranking[i]]
    BY DEF SemanticRankings
  <2>2. ranking \in Seq({ranking[i] : i \in 1..Len(index)})
    BY <1>1, <2>1, FunctionIsSequence
  <2> QED
    BY <2>2
<1> QED
  BY <1>3, <1>4

LEMMA RetrievedIsASequence ==
  ASSUME NEW S, NEW ranking \in Seq(S), NEW budget
  PROVE  \E T : CappedTotal(FirstK(ranking), budget) \in Seq(T)
<1> DEFINE texts == FirstK(ranking)
           kept == {i \in DOMAIN texts : Total(SubSeq(texts, 1, i - 1)) < budget}
           capped == CappedTotal(texts, budget)
<1>1. DOMAIN texts = 1..Smaller(TopK, Len(ranking)) /\ Smaller(TopK, Len(ranking)) \in Int
  BY SizesAreNat DEF FirstK, Smaller
<1>2. IsFiniteSet(kept)
  <2>1. IsFiniteSet(DOMAIN texts)
    BY <1>1, FS_Interval
  <2> QED
    BY <2>1, FS_Subset
<1>3. Cardinality(kept) \in Nat
  BY <1>2, FS_CardinalityType
<1>4. /\ DOMAIN capped = 1..Cardinality(kept)
      /\ capped = [i \in 1..Cardinality(kept) |-> capped[i]]
  BY DEF CappedTotal
<1>5. capped \in Seq({capped[i] : i \in 1..Cardinality(kept)})
  BY <1>3, <1>4, FunctionIsSequence
<1> QED
  BY <1>5

-----------------------------------------------------------------------------
\* The beginning of a sequence, and a constraint list cut short.
LEMMA FrontOf ==
  ASSUME NEW S, NEW s \in Seq(S), s /= << >>
  PROVE  /\ Front(s) \in Seq(S) /\ Len(Front(s)) = Len(s) - 1 /\ Front(s) /= s
         /\ \A i \in 1..(Len(s) - 1) : Front(s)[i] = s[i]
<1>1. Len(s) \in Nat /\ Len(s) > 0
  OBVIOUS
<1>2. Front(s) \in Seq(S) /\ Len(Front(s)) = Len(s) - 1
  <2>1. \A i \in 1..(Len(s) - 1) : s[i] \in S
    BY <1>1, ElementOfSeq
  <2>2. 1 \in Int /\ Len(s) - 1 \in Int
    BY <1>1
  <2>3. /\ Front(s) \in Seq(S)
        /\ Len(Front(s)) = IF 1 <= Len(s) - 1 THEN (Len(s) - 1) - 1 + 1 ELSE 0
    <3> DEFINE e == Len(s) - 1
    <3>1. 1 \in Int /\ e \in Int /\ \A i \in 1..e : s[i] \in S
      BY <2>1, <2>2
    <3> HIDE DEF e
    <3>2. /\ SubSeq(s, 1, e) \in Seq(S)
          /\ Len(SubSeq(s, 1, e)) = IF 1 <= e THEN e - 1 + 1 ELSE 0
      BY <3>1, SubSeqProperties
    <3> QED
      BY <3>2 DEF Front, e
  <2> DEFINE n == Len(s)
             k == Len(Front(s))
  <2>4. n \in Nat /\ n > 0 /\ k = IF 1 <= n - 1 THEN (n - 1) - 1 + 1 ELSE 0
    BY <1>1, <2>3
  <2> HIDE DEF n, k
  <2>5. k = n - 1
    BY <2>4
  <2> QED
    BY <2>3, <2>5 DEF n, k
<1>3. \A i \in 1..(Len(s) - 1) : Front(s)[i] = s[i]
  BY <1>1 DEF Front
<1> QED
  BY <1>1, <1>2, <1>3

LEMMA ShortConstraintsType ==
  ASSUME NEW s \in Seq(Nat), NEW size \in Nat
  PROVE  ShortConstraints(s, size) \in Seq(Nat)
<1>1. DOMAIN s = 1..Len(s) /\ Len(s) \in Nat
  OBVIOUS
<1>2. ShortConstraints(s, size) \in [1..Len(s) -> Nat]
  BY <1>1 DEF ShortConstraints, Smaller
<1> QED
  BY <1>1, <1>2

LEMMA SizesOfCuts ==
  ASSUME ceiling \in Nat
  PROVE  /\ \A n \in {3, 4, 5, 6, 8} : ceiling \div n \in Nat
         /\ ResultCap \in Nat /\ PartSize \in Nat /\ PartCap \in Nat
         /\ \A a, b \in Nat : Larger(a, b) \in Nat /\ Smaller(a, b) \in Nat
<1>1. \A n \in {3, 4, 5, 6, 8} : ceiling \div n \in Nat
  OBVIOUS
<1> QED
  BY <1>1 DEF ResultCap, PartSize, PartCap, Larger, Smaller

\* A pass takes the anchors only when nothing else is left, never leaves things as they
\* are while something is, and shortens the tool results from the newest on.
LEMMA PassProperties ==
  ASSUME ceiling \in Nat, NEW S, NEW m \in PartsOf(S)
  PROVE  LET t == Truncated(m)
         IN  /\ t \in PartsOf(S)
             /\ (t.goal = m.goal /\ t.constraints = m.constraints) \/ Bare(m)
             /\ Bare(m) => Bare(t)
             /\ t = m => Bare(m)
             /\ Len(t.tools) <= Len(m.tools)
             /\ \A i \in 1..Len(t.tools) : i < Len(t.tools) => t.tools[i] = m.tools[i]
<1> DEFINE t == Truncated(m)
<1>0. /\ m.goal \in Nat /\ m.constraints \in Seq(Nat) /\ m.subtask \in Nat
      /\ m.retrieved \in Seq(S) /\ m.skill \in Nat /\ m.recap \in Nat /\ m.tools \in Seq(Nat)
  BY DEF PartsOf
<1>1. CASE m.retrieved /= << >>
  <2> DEFINE front == Front(m.retrieved)
  <2>1. t = [m EXCEPT !.retrieved = front]
    BY <1>1 DEF Truncated
  <2>2. front \in Seq(S) /\ front /= m.retrieved
    BY <1>0, <1>1, FrontOf
  <2> HIDE DEF front, t
  <2>3. t \in PartsOf(S)
    BY <2>1, <2>2 DEF PartsOf
  <2>4. /\ t.tools = m.tools /\ t.goal = m.goal /\ t.constraints = m.constraints
        /\ t.retrieved = front
    BY <2>1 DEF PartsOf
  <2>5. ~Bare(m) /\ t /= m
    BY <1>1, <2>2, <2>4 DEF Bare
  <2> QED
    BY <1>0, <2>3, <2>4, <2>5 DEF t
<1>2. CASE m.retrieved = << >> /\ m.skill > 0
  <2>1. t = [m EXCEPT !.skill = 0]
    BY <1>2 DEF Truncated
  <2> HIDE DEF t
  <2>2. t \in PartsOf(S)
    BY <2>1 DEF PartsOf
  <2>3. /\ t.tools = m.tools /\ t.goal = m.goal /\ t.constraints = m.constraints
        /\ t.skill = 0
    BY <2>1 DEF PartsOf
  <2>4. t /= m /\ ~Bare(m)
    BY <1>0, <1>2, <2>3 DEF Bare
  <2> QED
    BY <1>0, <2>2, <2>3, <2>4 DEF t
<1>3. CASE m.retrieved = << >> /\ ~(m.skill > 0) /\ m.recap > 0
  <2>1. t = [m EXCEPT !.recap = m.recap - 1]
    BY <1>3 DEF Truncated
  <2> HIDE DEF t
  <2>2. t \in PartsOf(S)
    <3> DEFINE less == m.recap - 1
    <3>1. less \in Nat /\ t = [m EXCEPT !.recap = less]
      BY <1>0, <1>3, <2>1
    <3> HIDE DEF less
    <3> QED
      BY <3>1 DEF PartsOf
  <2>3. /\ t.tools = m.tools /\ t.goal = m.goal /\ t.constraints = m.constraints
        /\ t.recap = m.recap - 1
    BY <2>1 DEF PartsOf
  <2>4. t /= m /\ ~Bare(m)
    BY <1>0, <1>3, <2>3 DEF Bare
  <2> QED
    BY <1>0, <2>2, <2>3, <2>4 DEF t
<1>4. CASE m.retrieved = << >> /\ ~(m.skill > 0) /\ ~(m.recap > 0) /\ m.tools /= << >>
  <2> DEFINE n == Len(m.tools)
  <2>0. ResultCap \in Nat
    BY SizesOfCuts
  <2>1. n \in Nat /\ n > 0 /\ n \in 1..n
    BY <1>0, <1>4
  <2>2. CASE m.tools[n] > ResultCap
    <3> DEFINE cut == [m.tools EXCEPT ![n] = ResultCap]
    <3>1. t = [m EXCEPT !.tools = cut]
      BY <1>4, <2>2 DEF Truncated, Last
    <3>2. cut \in Seq(Nat) /\ Len(cut) = n
      BY <1>0, <2>0, <2>1, ExceptSeq
    <3>3. \A i \in 1..n : i < n => cut[i] = m.tools[i]
      BY <1>0, <2>1
    <3>6. cut /= m.tools
      <4>1. cut[n] = ResultCap /\ m.tools[n] \in Nat
        BY <1>0, <2>1
      <4> HIDE DEF cut
      <4> QED
        BY <2>0, <2>2, <4>1
    <3>4. t \in PartsOf(S) /\ t.tools = cut
      BY <3>1, <3>2 DEF PartsOf
    <3>5. t /= m
      BY <3>4, <3>6
    <3>7. t.goal = m.goal /\ t.constraints = m.constraints /\ ~Bare(m)
      BY <1>4, <3>1 DEF Bare, PartsOf
    <3> HIDE DEF t, cut
    <3> QED
      BY <2>1, <3>2, <3>3, <3>4, <3>5, <3>7 DEF t
  <2>3. CASE ~(m.tools[n] > ResultCap)
    <3>1. t = [m EXCEPT !.tools = Front(m.tools)]
      BY <1>4, <2>3 DEF Truncated, Last
    <3> DEFINE front == Front(m.tools)
    <3>2. /\ front \in Seq(Nat) /\ Len(front) = n - 1 /\ front /= m.tools
          /\ \A i \in 1..(n - 1) : front[i] = m.tools[i]
      BY <1>0, <1>4, FrontOf
    <3>3. t \in PartsOf(S) /\ t.tools = front
      BY <3>1, <3>2 DEF PartsOf
    <3>4. t /= m
      BY <3>2, <3>3
    <3>5. t.goal = m.goal /\ t.constraints = m.constraints /\ ~Bare(m)
      BY <1>4, <3>1 DEF Bare, PartsOf
    <3> HIDE DEF t, front
    <3> QED
      BY <2>1, <3>2, <3>3, <3>4, <3>5 DEF t
  <2> QED
    BY <2>2, <2>3
<1>5. CASE m.retrieved = << >> /\ ~(m.skill > 0) /\ ~(m.recap > 0) /\ m.tools = << >>
  <2>1. Bare(m)
    BY <1>0, <1>5 DEF Bare
  <2>2. \/ t = [m EXCEPT !.subtask = PartSize]
        \/ t = [m EXCEPT !.constraints = ShortConstraints(m.constraints, Larger(8, ceiling \div 8))]
        \/ t = [m EXCEPT !.goal = PartSize]
        \/ t = m
    BY <1>5 DEF Truncated
  <2>3. ShortConstraints(m.constraints, Larger(8, ceiling \div 8)) \in Seq(Nat)
    BY <1>0, SizesOfCuts, ShortConstraintsType
  <2>4. t \in PartsOf(S) /\ t.tools = m.tools /\ t.retrieved = m.retrieved
          /\ t.skill = m.skill /\ t.recap = m.recap
    BY <2>2, <2>3, SizesOfCuts DEF PartsOf
  <2> HIDE DEF t
  <2> QED
    BY <1>5, <2>1, <2>4 DEF Bare, t
<1> HIDE DEF t
<1> QED
  BY <1>0, <1>1, <1>2, <1>3, <1>4, <1>5 DEF t

\* The last resort keeps at most the oldest tool result, and nothing when all is gone.
LEMMA LastResortProperties ==
  ASSUME ceiling \in Nat, NEW S, NEW m \in PartsOf(S)
  PROVE  LET t == LastResort(m)
         IN  /\ t \in PartsOf(S)
             /\ Bare(m) => Bare(t)
             /\ Len(t.tools) <= Len(m.tools) /\ Len(t.tools) <= 1
<1> DEFINE t == LastResort(m)
           kept == SubSeq(m.constraints, 1, Smaller(Len(m.constraints), 2))
           first == SubSeq(m.tools, 1, Smaller(Len(m.tools), 1))
<1>0. /\ m.goal \in Nat /\ m.constraints \in Seq(Nat) /\ m.subtask \in Nat /\ m.error \in Nat
      /\ m.recap \in Nat /\ m.tools \in Seq(Nat)
  BY DEF PartsOf
<1>1. kept \in Seq(Nat)
  <2> DEFINE k == Smaller(Len(m.constraints), 2)
  <2>1. k \in Nat /\ k <= Len(m.constraints)
    BY <1>0 DEF Smaller
  <2> HIDE DEF k
  <2> QED
    BY <1>0, <2>1 DEF k
<1>2. ShortConstraints(kept, 8) \in Seq(Nat)
  BY <1>1, ShortConstraintsType
<1>3. first \in Seq(Nat) /\ Len(first) = Smaller(Len(m.tools), 1)
  <2> DEFINE k == Smaller(Len(m.tools), 1)
  <2>1. k \in Nat /\ k <= Len(m.tools)
    BY <1>0 DEF Smaller
  <2> HIDE DEF k
  <2> QED
    BY <1>0, <2>1 DEF k
<1>4. m.tools = << >> => first = << >>
  BY <1>0, <1>3 DEF Smaller
<1> HIDE DEF kept, first
<1>5. t = [m EXCEPT !.retrieved = << >>, !.skill = 0, !.recap = Smaller(m.recap, 2),
                    !.tools = first,
                    !.subtask = Smaller(m.subtask, Larger(12, ceiling \div 3)),
                    !.constraints = ShortConstraints(kept, 8),
                    !.goal = Smaller(m.goal, Larger(12, ceiling \div 5)),
                    !.error = Smaller(m.error, 8)]
  BY DEF LastResort, kept, first
<1>6. /\ Smaller(m.recap, 2) \in Nat /\ Smaller(m.error, 8) \in Nat
      /\ Smaller(m.subtask, Larger(12, ceiling \div 3)) \in Nat
      /\ Smaller(m.goal, Larger(12, ceiling \div 5)) \in Nat
  <2>1. ceiling \div 3 \in Nat /\ ceiling \div 5 \in Nat
    BY SizesOfCuts
  <2> QED
    BY <1>0, <2>1 DEF Smaller, Larger
<1>7. t \in PartsOf(S)
  <2> DEFINE recap == Smaller(m.recap, 2)
             subtask == Smaller(m.subtask, Larger(12, ceiling \div 3))
             constraints == ShortConstraints(kept, 8)
             goal == Smaller(m.goal, Larger(12, ceiling \div 5))
             error == Smaller(m.error, 8)
  <2>1. t = [m EXCEPT !.retrieved = << >>, !.skill = 0, !.recap = recap, !.tools = first,
                      !.subtask = subtask, !.constraints = constraints, !.goal = goal,
                      !.error = error]
    BY <1>5
  <2>2. recap \in Nat /\ subtask \in Nat /\ constraints \in Seq(Nat) /\ goal \in Nat /\ error \in Nat
    BY <1>2, <1>6
  <2>3. << >> \in Seq(S)
    OBVIOUS
  <2> HIDE DEF t, recap, subtask, constraints, goal, error
  <2> QED
    BY <1>3, <2>1, <2>2, <2>3 DEF PartsOf
<1>8. Bare(m) => Bare(t)
  BY <1>4, <1>5 DEF Bare, Smaller, PartsOf
<1>9. Len(t.tools) <= Len(m.tools) /\ Len(t.tools) <= 1
  <2> DEFINE n == Len(m.tools)
  <2>1. t.tools = first /\ n \in Nat
    BY <1>0, <1>5 DEF PartsOf
  <2>2. Len(t.tools) = Smaller(n, 1)
    BY <1>3, <2>1
  <2> HIDE DEF t, n
  <2>3. Len(t.tools) <= n /\ Len(t.tools) <= 1
    BY <2>1, <2>2 DEF Smaller
  <2> QED
    BY <2>3 DEF n
<1> QED
  BY <1>7, <1>8, <1>9

-----------------------------------------------------------------------------
LEMMA InitIInv == Init => IInv
<1> SUFFICES ASSUME Init PROVE IInv
  OBVIOUS
<1>1. << >> \in Seq(Nat) /\ Len(<< >>) = 0
  OBVIOUS
<1>2. wm = Empty /\ given = Empty /\ pc = "build" /\ asked \in Requests /\ ceiling \in Nat
      /\ passes \in Nat
  BY SizesAreNat DEF Init, Requests
<1>3. Empty \in PartsOf(Nat) /\ Empty.tools = << >>
  BY <1>1 DEF Empty, PartsOf
<1>4. Shapes
  BY <1>1, <1>2, <1>3 DEF Shapes
<1>5. AnchorsCutLast
  BY <1>2 DEF AnchorsCutLast
<1>6. ResultsSoFar
  BY <1>1, <1>2, <1>3 DEF ResultsSoFar
<1> QED
  BY <1>4, <1>5, <1>6 DEF IInv

LEMMA NextIInv == IInv /\ [Next]_vars => IInv'
<1> SUFFICES ASSUME IInv, [Next]_vars PROVE IInv'
  OBVIOUS
<1>0. ceiling \in Nat /\ asked \in Requests /\ passes \in Nat
  BY DEF IInv, Shapes
<1>1. CASE Build
  <2>1. /\ pc' = "fit" /\ given' = wm' /\ UNCHANGED <<ceiling, asked, passes>>
    BY <1>1 DEF Build
  <2>2. PICK retrieved, skill : wm' = Assembled(retrieved, skill) /\ skill \in Nat
                                  /\ \E T : retrieved \in Seq(T)
    <3>1. CASE memory_on
      <4>1. PICK ranking \in Rankings :
              wm' = Assembled(CappedTotal(FirstK(ranking), Larger(1, ceiling \div 4)),
                              Smaller(asked.skill, SkillBudget))
        BY <1>1, <3>1 DEF Build
      <4>2. \E S : ranking \in Seq(S)
        BY <1>0, RankingsAreSequences DEF Rankings, Requests
      <4>3. \E T : CappedTotal(FirstK(ranking), Larger(1, ceiling \div 4)) \in Seq(T)
        BY <4>2, RetrievedIsASequence
      <4>4. Smaller(asked.skill, SkillBudget) \in Nat
        BY <1>0, SizesAreNat DEF Smaller, Requests
      <4> QED
        BY <4>1, <4>3, <4>4
    <3>2. CASE ~memory_on
      <4>1. wm' = Assembled(<< >>, 0) /\ << >> \in Seq(Nat)
        BY <1>1, <3>2 DEF Build
      <4> QED
        BY <4>1
    <3> QED
      BY <3>1, <3>2
  <2>3. PICK T : retrieved \in Seq(T)
    BY <2>2
  <2>4. /\ asked.goal \in Nat /\ asked.constraints \in Seq(Nat) /\ asked.subtask \in Nat
        /\ asked.error \in Nat /\ asked.results \in Seq(Nat) /\ asked.edits \in Nat
    BY <1>0, SizesAreNat, ListsAreOfNat DEF Requests
  <2>5. Recap \in Nat
    BY <2>4 DEF Recap, Smaller
  <2>6. wm' \in PartsOf(T) /\ wm'.tools = asked.results
    BY <2>2, <2>3, <2>4, <2>5 DEF Assembled, PartsOf
  <2>7. Shapes'
    BY <1>0, <2>1, <2>4, <2>6 DEF Shapes
  <2>8. AnchorsCutLast'
    BY <2>1 DEF AnchorsCutLast
  <2>9. ResultsSoFar'
    BY <2>1, <2>4, <2>6 DEF ResultsSoFar
  <2> QED
    BY <2>7, <2>8, <2>9 DEF IInv
<1>2. ASSUME UNCHANGED <<ceiling, asked, wm, given, passes>>, pc' /= "build"
      PROVE  IInv'
  BY <1>2 DEF IInv, Shapes, AnchorsCutLast, ResultsSoFar, Bare
<1>3. CASE Pass
  <2>1. /\ wm' = Truncated(wm) /\ Truncated(wm) /= wm /\ passes' = passes + 1
        /\ pc' = "fit" /\ pc = "fit" /\ passes < Passes
        /\ UNCHANGED <<ceiling, asked, given>>
    BY <1>3 DEF Pass
  <2>2. PICK S : wm \in PartsOf(S)
    BY DEF IInv, Shapes
  <2>3. /\ wm' \in PartsOf(S)
        /\ (wm'.goal = wm.goal /\ wm'.constraints = wm.constraints) \/ Bare(wm)
        /\ Bare(wm) => Bare(wm')
        /\ Len(wm'.tools) <= Len(wm.tools)
        /\ \A i \in 1..Len(wm'.tools) : i < Len(wm'.tools) => wm'.tools[i] = wm.tools[i]
    BY <1>0, <2>1, <2>2, PassProperties
  <2>4. Shapes'
    BY <2>1, <2>3 DEF IInv, Shapes
  <2>5. AnchorsCutLast'
    <3>1. wm.goal /= given.goal \/ wm.constraints /= given.constraints => Bare(wm)
      <4>1. passes /= Passes
        BY <2>1, SizesAreNat DEF IInv, Shapes
      <4> QED
        BY <4>1 DEF IInv, AnchorsCutLast
    <3>2. wm'.goal /= given.goal \/ wm'.constraints /= given.constraints => Bare(wm')
      BY <2>3, <3>1
    <3> QED
      BY <2>1, <3>2 DEF AnchorsCutLast
  <2>6. ResultsSoFar'
    <3> DEFINE new == wm'.tools
               old == wm.tools
    <3>1. Len(new) \in Nat /\ Len(old) \in Nat /\ Len(given.tools) \in Nat
      BY <2>2, <2>3 DEF PartsOf, IInv, Shapes
    <3>2. /\ Len(new) <= Len(old) /\ Len(old) <= Len(given.tools)
          /\ \A i \in 1..Len(new) : i < Len(new) => new[i] = old[i]
          /\ \A i \in 1..Len(old) : i < Len(old) => old[i] = given.tools[i]
      BY <2>3 DEF IInv, ResultsSoFar
    <3> HIDE DEF new, old
    <3>3. /\ Len(new) <= Len(given.tools)
          /\ \A i \in 1..Len(new) : i < Len(new) => new[i] = given.tools[i]
      BY <3>1, <3>2
    <3> QED
      BY <2>1, <3>3 DEF ResultsSoFar, new
  <2> QED
    BY <2>4, <2>5, <2>6 DEF IInv
<1>4. CASE GiveUp
  <2>1. /\ wm' = LastResort(wm)
        /\ passes = Passes \/ Truncated(wm) = wm
        /\ pc' = "fallback" /\ UNCHANGED <<ceiling, asked, given, passes>>
    BY <1>4 DEF GiveUp
  <2>2. PICK S : wm \in PartsOf(S)
    BY DEF IInv, Shapes
  <2>3. /\ wm' \in PartsOf(S)
        /\ Bare(wm) => Bare(wm')
        /\ Len(wm'.tools) <= Len(wm.tools) /\ Len(wm'.tools) <= 1
    <3> DEFINE t == LastResort(wm)
    <3>1. /\ t \in PartsOf(S)
          /\ Bare(wm) => Bare(t)
          /\ Len(t.tools) <= Len(wm.tools) /\ Len(t.tools) <= 1
      BY <1>0, <2>2, LastResortProperties
    <3> QED
      BY <2>1, <3>1
  <2>4. Truncated(wm) = wm => Bare(wm)
    BY <1>0, <2>2, PassProperties
  <2>5. Shapes'
    BY <2>1, <2>3 DEF IInv, Shapes
  <2>6. AnchorsCutLast'
    <3>1. Bare(wm) => Bare(wm')
      BY <2>3
    <3>2. CASE passes = Passes
      BY <2>1, <3>2 DEF AnchorsCutLast
    <3>3. CASE Truncated(wm) = wm
      BY <2>4, <3>1, <3>3 DEF AnchorsCutLast
    <3> QED
      BY <2>1, <3>2, <3>3
  <2>7. ResultsSoFar'
    <3>1. /\ Len(wm'.tools) \in Nat /\ Len(wm.tools) \in Nat /\ Len(given.tools) \in Nat
          /\ Len(wm.tools) <= Len(given.tools)
      BY <2>2, <2>3 DEF PartsOf, IInv, Shapes, ResultsSoFar
    <3> QED
      BY <2>1, <2>3, <3>1 DEF ResultsSoFar
  <2> QED
    BY <2>5, <2>6, <2>7 DEF IInv
<1>5. CASE RetrievalRaises
  BY <1>2, <1>5 DEF RetrievalRaises
<1>6. CASE Return
  BY <1>2, <1>6 DEF Return
<1>7. CASE Raise
  BY <1>2, <1>7 DEF Raise
<1>8. CASE UNCHANGED vars
  BY <1>8 DEF vars, IInv, Shapes, AnchorsCutLast, ResultsSoFar, Bare
<1> QED
  BY <1>1, <1>3, <1>4, <1>5, <1>6, <1>7, <1>8 DEF Next

LEMMA Invariance == Spec => []IInv
  BY InitIInv, NextIInv, PTL DEF Spec

-----------------------------------------------------------------------------
\* The goal and the constraints are whole while any retrieved item, skill card, line of
\* the recap or tool result is left, unless the passes of _fit_to_budget were used up:
\* for any ceiling, any parts and any number of passes.
THEOREM AnchorsAreCutLast == Spec => []AnchorsCutLast
<1>1. IInv => AnchorsCutLast
  BY DEF IInv
<1> QED
  BY <1>1, Invariance, PTL

\* What truncation leaves of the turn's tool results is a beginning of them, of which
\* only the last can be cut: the newest results are lost first.
THEOREM OldestResultsAreKept == Spec => []OldestResultsKept
<1>1. IInv => OldestResultsKept
  BY DEF IInv, ResultsSoFar, OldestResultsKept
<1> QED
  BY <1>1, Invariance, PTL

-----------------------------------------------------------------------------
(* When a budget is missed.  The fold of Total has to be taken apart for    *)
(* that, which takes no induction: the last resort leaves two constraints.  *)
SumSteps(s, sum) ==
  [t \in SUBSET DOMAIN s |->
     IF t = {} THEN 0
     ELSE s[CHOOSE x \in t : TRUE] + sum[t \ {CHOOSE x \in t : TRUE}]]
SumOf(s) == CHOOSE sum : sum = SumSteps(s, sum)

LEMMA TotalIsSum == ASSUME NEW s PROVE Total(s) = SumOf(s)[DOMAIN s]
  BY DEF Total, FoldFunction, FoldFunctionOnSet, MapThenFoldSet, SumOf, SumSteps

LEMMA TotalOfNone == Total(<< >>) = 0
<1> DEFINE s == << >>
           sum == SumOf(s)
<1>1. DOMAIN s = {}
  OBVIOUS
<1> HIDE DEF s
<1>2. [t \in SUBSET {} |-> 0] = SumSteps(s, [t \in SUBSET {} |-> 0])
  BY <1>1 DEF SumSteps
<1>3. sum = SumSteps(s, sum)
  BY <1>2 DEF SumOf
<1> HIDE DEF sum
<1>4. sum[{}] = 0
  BY <1>1, <1>3 DEF SumSteps
<1> QED
  BY <1>1, <1>4, TotalIsSum DEF sum, s

LEMMA OnlyChoice == ASSUME NEW a PROVE (CHOOSE x \in {a} : TRUE) = a
<1>1. \E x : x \in {a}
  OBVIOUS
<1>2. (CHOOSE x \in {a} : TRUE) \in {a}
  BY <1>1
<1> QED
  BY <1>2

\* SumSteps has a fixed point as soon as it has one: sums over any set of places.
LEMMA SumUnfolds ==
  ASSUME NEW s, NEW guess, guess = SumSteps(s, guess), NEW t \in SUBSET DOMAIN s
  PROVE  SumOf(s)[t] = IF t = {} THEN 0
                       ELSE s[CHOOSE x \in t : TRUE] + SumOf(s)[t \ {CHOOSE x \in t : TRUE}]
<1> DEFINE sum == SumOf(s)
<1>1. sum = SumSteps(s, sum)
  BY DEF SumOf
<1> HIDE DEF sum
<1>2. sum[t] = IF t = {} THEN 0
               ELSE s[CHOOSE x \in t : TRUE] + sum[t \ {CHOOSE x \in t : TRUE}]
  BY <1>1 DEF SumSteps
<1> QED
  BY <1>2 DEF sum

LEMMA SumOverOne ==
  ASSUME NEW s, NEW a, DOMAIN s = {a}, s[a] \in Nat
  PROVE  SumOf(s)[{a}] = s[a]
<1> DEFINE none == {}
           one == {a}
           first(t) == CHOOSE x \in t : TRUE
           guess == [t \in SUBSET one |-> IF t = none THEN 0 ELSE s[a]]
<1>1. /\ none \in SUBSET one /\ one \in SUBSET one /\ one /= none /\ one \ {a} = none
      /\ \A t \in SUBSET one : t = none \/ t = one
  <2>1. ASSUME NEW t \in SUBSET one PROVE t = none \/ t = one
    <3>1. CASE a \in t
      BY <3>1
    <3>2. CASE a \notin t
      BY <3>2
    <3> QED
      BY <3>1, <3>2
  <2> QED
    BY <2>1
<1>2. first(one) = a
  BY OnlyChoice
<1> HIDE DEF none, one, first
<1>3. guess[none] = 0 /\ guess[one] = s[a]
  BY <1>1
<1>4. \A t \in SUBSET one : guess[t] = IF t = none THEN 0 ELSE s[first(t)] + guess[t \ {first(t)}]
  <2> HIDE DEF guess
  <2>1. s[first(one)] + guess[one \ {first(one)}] = s[a]
    <3>1. s[a] + 0 = s[a]
      OBVIOUS
    <3> QED
      BY <1>1, <1>2, <1>3, <3>1, Zenon
  <2>2. ASSUME NEW t \in SUBSET one
        PROVE  guess[t] = IF t = none THEN 0 ELSE s[first(t)] + guess[t \ {first(t)}]
    BY <1>1, <1>3, <2>1, Zenon
  <2> QED
    BY <2>2
<1>5. guess = [t \in SUBSET one |-> IF t = none THEN 0 ELSE s[first(t)] + guess[t \ {first(t)}]]
  <2>1. guess = [t \in SUBSET one |-> guess[t]]
    OBVIOUS
  <2> HIDE DEF guess
  <2> QED
    BY <1>4, <2>1
<1> HIDE DEF guess
<1>6. guess = SumSteps(s, guess)
  BY <1>5 DEF SumSteps, none, one, first
<1>7. \A t \in SUBSET one : SumOf(s)[t] = IF t = none THEN 0
                              ELSE s[first(t)] + SumOf(s)[t \ {first(t)}]
  BY <1>6, SumUnfolds DEF none, one, first
<1>8. SumOf(s)[none] = 0 /\ SumOf(s)[one] = s[a] + SumOf(s)[none]
  BY <1>1, <1>2, <1>7
<1> QED
  BY <1>8 DEF one

LEMMA SumOverTwo ==
  ASSUME NEW s, NEW a, NEW b, a /= b, DOMAIN s = {a, b}, s[a] \in Nat, s[b] \in Nat
  PROVE  SumOf(s)[{a, b}] = s[a] + s[b]
<1> DEFINE none == {}
           left == {a}
           right == {b}
           both == {a, b}
           first(t) == CHOOSE x \in t : TRUE
           guess == [t \in SUBSET both |-> IF t = none THEN 0 ELSE IF t = left THEN s[a]
                                           ELSE IF t = right THEN s[b] ELSE s[a] + s[b]]
<1>1. /\ none \in SUBSET both /\ left \in SUBSET both
      /\ right \in SUBSET both /\ both \in SUBSET both
  OBVIOUS
<1>2. /\ left /= none /\ right /= none /\ both /= none /\ left /= right
      /\ both /= left /\ both /= right
  OBVIOUS
<1>3. /\ left \ {a} = none /\ right \ {b} = none
      /\ both \ {a} = right /\ both \ {b} = left
  OBVIOUS
<1>4. ASSUME NEW t \in SUBSET both PROVE t = none \/ t = left \/ t = right \/ t = both
  <2>1. CASE a \in t /\ b \in t
    BY <2>1
  <2>2. CASE a \in t /\ b \notin t
    BY <2>2
  <2>3. CASE a \notin t /\ b \in t
    BY <2>3
  <2>4. CASE a \notin t /\ b \notin t
    BY <2>4
  <2> QED
    BY <2>1, <2>2, <2>3, <2>4
<1>5. first(left) = a /\ first(right) = b
  BY OnlyChoice
<1>6. first(both) = a \/ first(both) = b
  <2>1. \E x : x \in both
    OBVIOUS
  <2>2. first(both) \in both
    BY <2>1
  <2> QED
    BY <2>2
<1> HIDE DEF none, left, right, both, first
<1>7. guess[none] = 0 /\ guess[left] = s[a] /\ guess[right] = s[b] /\ guess[both] = s[a] + s[b]
  BY <1>1, <1>2
<1>8. \A t \in SUBSET both : guess[t] = IF t = none THEN 0 ELSE s[first(t)] + guess[t \ {first(t)}]
  <2> HIDE DEF guess
  <2>1. s[a] + guess[none] = s[a] /\ s[b] + guess[none] = s[b]
    BY <1>7
  <2>2. s[first(both)] + guess[both \ {first(both)}] = s[a] + s[b]
    <3>1. CASE first(both) = a
      BY <1>3, <1>7, <3>1, Zenon
    <3>2. CASE first(both) = b
      <4>1. s[b] + s[a] = s[a] + s[b]
        OBVIOUS
      <4> QED
        BY <1>3, <1>7, <3>2, <4>1, Zenon
    <3> QED
      BY <1>6, <3>1, <3>2
  <2>3. /\ s[first(left)] + guess[left \ {first(left)}] = guess[left]
        /\ s[first(right)] + guess[right \ {first(right)}] = guess[right]
        /\ s[first(both)] + guess[both \ {first(both)}] = guess[both]
    BY <1>3, <1>5, <1>7, <2>1, <2>2, Zenon
  <2>4. ASSUME NEW t \in SUBSET both
        PROVE  guess[t] = IF t = none THEN 0 ELSE s[first(t)] + guess[t \ {first(t)}]
    BY <1>4, <1>7, <2>3, Zenon
  <2> QED
    BY <2>4
<1>9. guess = [t \in SUBSET both |-> IF t = none THEN 0 ELSE s[first(t)] + guess[t \ {first(t)}]]
  <2>1. guess = [t \in SUBSET both |-> guess[t]]
    OBVIOUS
  <2> HIDE DEF guess
  <2> QED
    BY <1>8, <2>1
<1> HIDE DEF guess
<1>10. guess = SumSteps(s, guess)
  BY <1>9 DEF SumSteps, none, both, first
<1>11. \A t \in SUBSET both : SumOf(s)[t] = IF t = none THEN 0
                               ELSE s[first(t)] + SumOf(s)[t \ {first(t)}]
  BY <1>10, SumUnfolds DEF none, both, first
<1> DEFINE sum == SumOf(s)
<1> HIDE DEF sum
<1>12. \A t \in SUBSET both : sum[t] = IF t = none THEN 0 ELSE s[first(t)] + sum[t \ {first(t)}]
  BY <1>11 DEF sum
<1>13. sum[none] = 0
  BY <1>1, <1>12
<1>14. sum[left] = s[a] /\ sum[right] = s[b]
  BY <1>1, <1>2, <1>3, <1>5, <1>12, <1>13
<1>15. sum[both] = s[first(both)] + sum[both \ {first(both)}]
  BY <1>1, <1>2, <1>12
<1>16. sum[both] = s[a] + s[b]
  BY <1>3, <1>6, <1>14, <1>15
<1> QED
  BY <1>16 DEF sum, both

LEMMA TotalOfOne == ASSUME NEW s \in Seq(Nat), Len(s) = 1 PROVE Total(s) = s[1]
<1> DEFINE n == Len(s)
<1>1. DOMAIN s = 1..n /\ n = 1 /\ s[1] \in Nat
  <2>1. DOMAIN s = 1..n /\ n = 1
    OBVIOUS
  <2>2. \A i \in 1..n : s[i] \in Nat
    BY ElementOfSeq
  <2> HIDE DEF n
  <2>3. 1 \in 1..n
    BY <2>1
  <2>4. s[1] \in Nat
    BY <2>2, <2>3
  <2> QED
    BY <2>1, <2>4
<1> HIDE DEF n
<1>2. \A x : x \in 1..n <=> x \in {1}
  BY <1>1
<1>3. 1..n = {1}
  BY <1>2
<1> QED
  BY <1>1, <1>3, SumOverOne, TotalIsSum

LEMMA TotalOfTwo == ASSUME NEW s \in Seq(Nat), Len(s) = 2 PROVE Total(s) = s[1] + s[2]
<1>1. DOMAIN s = 1..2 /\ 1 \in DOMAIN s /\ 2 \in DOMAIN s
  OBVIOUS
<1>2. DOMAIN s = {1, 2} /\ s[1] \in Nat /\ s[2] \in Nat
  BY <1>1
<1>3. SumOf(s)[{1, 2}] = s[1] + s[2]
  BY <1>2, SumOverTwo
<1> QED
  BY <1>2, <1>3, TotalIsSum

\* Two texts of at most 8 tokens.
LEMMA TotalOfShort ==
  ASSUME NEW s \in Seq(Nat), Len(s) <= 2, \A i \in 1..Len(s) : s[i] <= 8
  PROVE  Total(s) \in Nat /\ Total(s) <= 16
<1>1. /\ Len(s) = 0 \/ Len(s) = 1 \/ Len(s) = 2
      /\ \A i \in 1..Len(s) : s[i] \in Nat /\ s[i] <= 8
  <2> DEFINE n == Len(s)
  <2>1. n \in Nat /\ n <= 2 /\ \A i \in 1..n : s[i] \in Nat
    OBVIOUS
  <2> HIDE DEF n
  <2>2. n = 0 \/ n = 1 \/ n = 2
    BY <2>1
  <2> QED
    BY <2>1, <2>2 DEF n
<1>2. CASE Len(s) = 0
  <2>1. s = << >>
    BY <1>2
  <2> QED
    BY <2>1, TotalOfNone
<1>3. CASE Len(s) = 1
  BY <1>1, <1>3, TotalOfOne
<1>4. CASE Len(s) = 2
  BY <1>1, <1>4, TotalOfTwo
<1> QED
  BY <1>1, <1>2, <1>3, <1>4

\* What the last resort leaves of the parts, but for the tool results.
Small(m) ==
  /\ m.retrieved = << >> /\ m.skill = 0 /\ m.recap <= 2 /\ m.error <= 8
  /\ Len(m.constraints) <= 2 /\ \A i \in 1..Len(m.constraints) : m.constraints[i] <= 8
  /\ m.subtask <= Larger(12, ceiling \div 3) /\ m.goal <= Larger(12, ceiling \div 5)

LEMMA LastResortIsSmall ==
  ASSUME ceiling \in Nat, NEW S, NEW m \in PartsOf(S)
  PROVE  Small(LastResort(m))
<1> DEFINE n == Smaller(Len(m.constraints), 2)
           kept == SubSeq(m.constraints, 1, n)
           short == ShortConstraints(kept, 8)
           p == Larger(12, ceiling \div 3)
           q == Larger(12, ceiling \div 5)
           t == LastResort(m)
<1>1. /\ m.goal \in Nat /\ m.constraints \in Seq(Nat) /\ m.subtask \in Nat /\ m.error \in Nat
      /\ m.recap \in Nat /\ m.tools \in Seq(Nat)
  BY DEF PartsOf
<1>2. p \in Nat /\ q \in Nat
  BY SizesOfCuts DEF Larger
<1>3. n \in Nat /\ n <= 2 /\ n <= Len(m.constraints)
  BY <1>1 DEF Smaller
<1> HIDE DEF n
<1>4. kept \in Seq(Nat) /\ Len(kept) = n
  BY <1>1, <1>3
<1> HIDE DEF kept
<1>5. /\ Len(short) = n
      /\ \A i \in 1..n : short[i] <= 8
  <2>1. DOMAIN kept = 1..n /\ \A i \in 1..n : kept[i] \in Nat
    BY <1>3, <1>4
  <2>2. short = [i \in 1..n |-> Smaller(kept[i], 8)]
    BY <2>1 DEF ShortConstraints
  <2>3. short \in Seq(Nat)
    BY <1>4, ShortConstraintsType
  <2>4. \A i \in 1..n : short[i] = Smaller(kept[i], 8)
    BY <2>2
  <2>5. DOMAIN short = 1..n /\ DOMAIN short = 1..Len(short) /\ Len(short) \in Nat
    BY <2>2, <2>3
  <2> HIDE DEF short
  <2>6. Len(short) = n
    BY <1>3, <2>5
  <2> QED
    BY <2>1, <2>4, <2>6 DEF Smaller
<1> DEFINE first == SubSeq(m.tools, 1, Smaller(Len(m.tools), 1))
           recap == Smaller(m.recap, 2)
           subtask == Smaller(m.subtask, p)
           goal == Smaller(m.goal, q)
           error == Smaller(m.error, 8)
<1>6. t = [m EXCEPT !.retrieved = << >>, !.skill = 0, !.recap = recap, !.tools = first,
                    !.subtask = subtask, !.constraints = short, !.goal = goal,
                    !.error = error]
  BY DEF LastResort, kept, n
<1>7. recap <= 2 /\ subtask <= p /\ goal <= q /\ error <= 8
  <2> HIDE DEF p, q
  <2> QED
    BY <1>1, <1>2 DEF Smaller
<1> HIDE DEF first, recap, subtask, goal, error, short, p, q, t
<1>8. /\ t.retrieved = << >> /\ t.skill = 0 /\ t.recap = recap /\ t.subtask = subtask
      /\ t.constraints = short /\ t.goal = goal /\ t.error = error
  BY <1>6 DEF PartsOf
<1>9. Small(t)
  BY <1>3, <1>5, <1>7, <1>8 DEF Small, p, q
<1> QED
  BY <1>9 DEF t

LEMMA PartsAddUp ==
  ASSUME NEW fixed \in Nat, NEW goal \in Nat, NEW c \in Nat, NEW subtask \in Nat,
         NEW error \in Nat, NEW l \in Nat, NEW two \in Nat, NEW p \in Nat, NEW q \in Nat,
         NEW most \in Nat, fixed + 24 + two + p + q <= most,
         goal <= q, subtask <= p, error <= 8, c <= 16, l <= two
  PROVE  fixed + goal + c + subtask + error + 0 + 0 + l + 0 + 0 <= most
OBVIOUS

\* With no tool result left, what the last resort leaves has its place in the budget.
LEMMA SmallFits ==
  ASSUME ceiling \in Nat, NEW S, NEW m \in PartsOf(S), Small(m), m.tools = << >>,
         Fixed + 24 + Line * 2 + Larger(12, ceiling \div 3) + Larger(12, ceiling \div 5) <= ceiling
  PROVE  Fits(m)
<1> DEFINE p == Larger(12, ceiling \div 3)
           q == Larger(12, ceiling \div 5)
           c == Total(m.constraints)
<1>1. p \in Nat /\ q \in Nat
  BY SizesOfCuts DEF Larger
<1>2. /\ m.goal \in Nat /\ m.subtask \in Nat /\ m.error \in Nat /\ m.recap \in Nat
      /\ m.constraints \in Seq(Nat)
  BY DEF PartsOf
<1>3. m.goal <= q /\ m.subtask <= p /\ m.error <= 8 /\ m.recap <= 2 /\ m.skill = 0
      /\ m.retrieved = << >>
  BY DEF Small
<1>4. c \in Nat /\ c <= 16
  BY <1>2, TotalOfShort DEF Small
<1>5. Total(m.retrieved) = 0 /\ Total(m.tools) = 0
  BY <1>3, TotalOfNone
<1>6. Fixed \in Nat /\ Line \in Nat /\ Header \in Nat
  BY SizesAreNat
<1>7. Header * Len(m.tools) = 0
  BY <1>6
<1>8. Line * m.recap \in Nat /\ Line * m.recap <= Line * 2
  <2>1. m.recap = 0 \/ m.recap = 1 \/ m.recap = 2
    BY <1>2, <1>3
  <2>2. Line * 0 = 0 /\ Line * 1 = Line /\ Line * 2 = Line + Line
    BY <1>6
  <2> QED
    BY <1>6, <2>1, <2>2
<1> DEFINE l == Line * m.recap
           two == Line * 2
<1>9. two \in Nat /\ Fixed + 24 + two + p + q <= ceiling
  BY <1>6
<1>10. Tokens(m) = Fixed + m.goal + c + m.subtask + m.error + 0 + 0 + l + 0 + 0
  <2>1. Tokens(m) = Fixed + m.goal + Total(m.constraints) + m.subtask + m.error + m.skill
                      + Total(m.retrieved) + Line * m.recap + Total(m.tools)
                      + Header * Len(m.tools)
    BY DEF Tokens
  <2> QED
    BY <1>3, <1>5, <1>7, <2>1, Zenon
<1>11. l \in Nat /\ l <= two
  BY <1>8
<1> HIDE DEF p, q, c, l, two
<1>12. Tokens(m) <= ceiling
  <2> DEFINE goal == m.goal
             subtask == m.subtask
             error == m.error
  <2>1. /\ goal \in Nat /\ c \in Nat /\ subtask \in Nat /\ error \in Nat /\ Fixed \in Nat
        /\ l \in Nat /\ two \in Nat /\ p \in Nat /\ q \in Nat /\ ceiling \in Nat
    BY <1>1, <1>2, <1>4, <1>6, <1>9, <1>11
  <2>2. /\ Fixed + 24 + two + p + q <= ceiling
        /\ goal <= q /\ subtask <= p /\ error <= 8 /\ c <= 16 /\ l <= two
    BY <1>3, <1>4, <1>9, <1>11
  <2>3. Tokens(m) = Fixed + goal + c + subtask + error + 0 + 0 + l + 0 + 0
    BY <1>10
  <2> HIDE DEF goal, subtask, error
  <2>4. Fixed + goal + c + subtask + error + 0 + 0 + l + 0 + 0 <= ceiling
    BY <2>1, <2>2, PartsAddUp
  <2> QED
    BY <2>3, <2>4
<1> QED
  BY <1>12 DEF Fits

\* What is known once the last resort was taken, and that nothing was built before.
CutDown ==
  /\ pc = "build" => given = Empty
  /\ pc = "fallback" \/ (pc = "raised" /\ given /= Empty) =>
       Small(wm) /\ (Bare(wm) \/ passes = Passes)
  /\ pc = "raised" /\ given /= Empty => ~Fits(wm)

LEMMA NextCutDown == IInv /\ CutDown /\ [Next]_vars => CutDown'
<1> SUFFICES ASSUME IInv, CutDown, [Next]_vars PROVE CutDown'
  OBVIOUS
<1>0. ceiling \in Nat
  BY DEF IInv, Shapes
<1>1. CASE Build
  BY <1>1 DEF Build, CutDown
<1>2. CASE RetrievalRaises
  BY <1>2 DEF RetrievalRaises, CutDown
<1>3. CASE Pass
  BY <1>3 DEF Pass, CutDown
<1>4. CASE GiveUp
  <2>1. /\ wm' = LastResort(wm)
        /\ passes = Passes \/ Truncated(wm) = wm
        /\ pc' = "fallback" /\ UNCHANGED <<ceiling, asked, given, passes>>
    BY <1>4 DEF GiveUp
  <2>2. PICK S : wm \in PartsOf(S)
    BY DEF IInv, Shapes
  <2>3. Small(wm)'
    <3>1. Small(LastResort(wm))
      BY <1>0, <2>2, LastResortIsSmall
    <3> QED
      BY <2>1, <3>1 DEF Small
  <2>4. Bare(wm)' \/ passes' = Passes
    <3>1. CASE passes = Passes
      BY <2>1, <3>1
    <3>2. CASE Truncated(wm) = wm
      <4>1. Bare(wm)
        BY <1>0, <2>2, <3>2, PassProperties
      <4> DEFINE t == LastResort(wm)
      <4>2. Bare(wm) => Bare(t)
        BY <1>0, <2>2, LastResortProperties
      <4> HIDE DEF t
      <4>3. Bare(t) /\ wm' = t
        BY <2>1, <4>1, <4>2 DEF t
      <4> QED
        BY <4>3 DEF Bare
    <3> QED
      BY <2>1, <3>1, <3>2
  <2> QED
    BY <2>1, <2>3, <2>4 DEF CutDown
<1>5. CASE Return
  BY <1>5 DEF Return, CutDown
<1>6. CASE Raise
  BY <1>6 DEF Raise, CutDown, Small, Bare, Fits, Tokens
<1>7. CASE UNCHANGED vars
  BY <1>7 DEF vars, CutDown, Small, Bare, Fits, Tokens
<1> QED
  BY <1>1, <1>2, <1>3, <1>4, <1>5, <1>6, <1>7 DEF Next

\* A budget that has room for what the last resort leaves of the fixed parts is missed
\* only when the passes of _fit_to_budget were used up on the turn's tool results, one
\* of which is still there: for any ceiling, any parts and any number of passes.
THEOREM RaisesAreOutOfPasses == Spec => []RaisesOnlyOutOfPasses
<1>1. IInv /\ CutDown => RaisesOnlyOutOfPasses
  <2> SUFFICES ASSUME IInv, CutDown, pc = "raised", given /= Empty,
                      Fixed + 24 + Line * 2 + Larger(12, ceiling \div 3)
                        + Larger(12, ceiling \div 5) <= ceiling
               PROVE  passes = Passes /\ wm.tools /= << >>
    BY DEF RaisesOnlyOutOfPasses
  <2>1. Small(wm) /\ (Bare(wm) \/ passes = Passes) /\ ~Fits(wm)
    BY DEF CutDown
  <2>2. ceiling \in Nat
    BY DEF IInv, Shapes
  <2>3. PICK S : wm \in PartsOf(S)
    BY DEF IInv, Shapes
  <2>4. wm.tools /= << >>
    BY <2>1, <2>2, <2>3, SmallFits
  <2> QED
    BY <2>1, <2>4 DEF Bare
<1>2. Init => CutDown
  BY DEF Init, CutDown
<1> QED
  BY <1>1, <1>2, InitIInv, NextIInv, NextCutDown, PTL DEF Spec
=============================================================================
