--------------------------- MODULE WorkingMemory ---------------------------
(***************************************************************************)
(* The L1 working memory of one model call: WorkingMemoryBuilder.build and *)
(* its _fit_to_budget (memory/working_memory.py) with the retrieval it     *)
(* uses (memory/retrieval.py), the recap of the turn                       *)
(* (memory/tool_results.py) and the skill card (slm/skills.py).            *)
(*                                                                         *)
(* A text is represented by its length in tokens, which the code estimates *)
(* as a quarter of its characters; a part that is absent has length 0.     *)
(* Headings and separators are counted in Fixed, Header and Line.          *)
(***************************************************************************)
EXTENDS Naturals, Sequences, FiniteSets, Functions

CONSTANTS
  Ceilings,        \* values of max_working_memory_tokens
  TopK,            \* retrieval_top_k of the profile, or top_k of memory.yaml
  ItemCap,         \* max_item_tokens of memory.yaml
  SkillBudget,     \* skill_budget_tokens of the profile
  Passes,          \* the number of passes _fit_to_budget makes
  Fixed,           \* tokens of the role, the scope, the ids and the labels
  Header, Line,    \* tokens of a tool result's header, of a line of the recap
  Goals, Constraints, Subtasks, Errors, Skills,  \* lengths to build with
  Indexes,         \* retrieval indexes, sequences of Item
  Results,         \* outputs of the turn's tool calls, the oldest first
  Edits,           \* numbers of code edits of the turn
  Modes            \* subset of {"keyword", "semantic"}

ASSUME SizesAreNat ==
  /\ Ceilings \subseteq Nat
  /\ {TopK, ItemCap, SkillBudget, Passes, Fixed, Header, Line} \subseteq Nat
  /\ Goals \subseteq Nat /\ Subtasks \subseteq Nat
  /\ Errors \subseteq Nat /\ Skills \subseteq Nat /\ Edits \subseteq Nat
ASSUME ListsAreOfNat == Constraints \subseteq Seq(Nat) /\ Results \subseteq Seq(Nat)
ASSUME IndexesAreSequences == \A index \in Indexes : index \in Seq(Range(index))

VARIABLES
  pc,        \* "build", "fit", "fallback", "returned" or "raised"
  ceiling,
  memory_on, \* enable_memory
  asked,     \* what build is called with and finds in the stores
  wm,        \* the parts of the working memory
  given,     \* the parts before anything was truncated
  passes     \* passes of the loop made

vars == <<pc, ceiling, memory_on, asked, wm, given, passes>>

Larger(a, b) == IF a < b THEN b ELSE a
Smaller(a, b) == IF a < b THEN a ELSE b
Total(s) == FoldFunction(LAMBDA a, b : a + b, 0, s)

Empty == [goal |-> 0, constraints |-> << >>, subtask |-> 0, error |-> 0,
          retrieved |-> << >>, skill |-> 0, recap |-> 0, tools |-> << >>]

Init ==
  /\ pc = "build"
  /\ ceiling \in Ceilings
  /\ memory_on \in BOOLEAN
  /\ asked \in [goal : Goals, constraints : Constraints, subtask : Subtasks,
                error : Errors, skill : Skills, index : Indexes, mode : Modes,
                results : Results, edits : Edits]
  /\ wm = Empty
  /\ given = Empty
  /\ passes = 0

-----------------------------------------------------------------------------
(* Retrieval.  Relevance, importance and recency are counted in twentieths,  *)
(* so min_relevance is 1, and the weights in tenths.                         *)
Score(item) ==
  3 * item.relevance +
  (IF item.relevance >= 1 THEN 5 * item.importance + 2 * item.recency ELSE 0)

\* The i-th item of the index comes before the j-th: sorted is stable.
Outranks(index, i, j) ==
  \/ Score(index[i]) > Score(index[j])
  \/ Score(index[i]) = Score(index[j]) /\ i < j

KeywordRanking(index) ==
  LET relevant == {i \in DOMAIN index : index[i].relevance >= 1}
      Nth(n) == CHOOSE i \in relevant :
                  Cardinality({j \in relevant : Outranks(index, j, i)}) = n - 1
  IN  [n \in 1..Cardinality(relevant) |-> index[Nth(n)].tokens]

\* Chroma ranks by embeddings, with no floor on relevance.
SemanticRankings(index) ==
  LET n == Len(index)
      orders == {f \in [1..n -> 1..n] : \A i, j \in 1..n : f[i] = f[j] => i = j}
  IN  {[i \in 1..n |-> index[f[i]].tokens] : f \in orders}

\* Chroma refuses a batch in which an id occurs twice.
ChromaRefuses(index) ==
  \E i, j \in DOMAIN index : i /= j /\ index[i].ref = index[j].ref

Rankings ==
  IF asked.mode = "semantic" THEN SemanticRankings(asked.index)
                             ELSE {KeywordRanking(asked.index)}

FirstK(ranking) ==
  [i \in 1..Smaller(TopK, Len(ranking)) |-> Smaller(ranking[i], ItemCap)]

\* _cap_retrieved_items: whole items while they fit, the next one cut, no more.
CappedTotal(texts, budget) ==
  LET Before(i) == Total(SubSeq(texts, 1, i - 1))
      kept == {i \in DOMAIN texts : Before(i) < budget}
  IN  [i \in 1..Cardinality(kept) |-> Smaller(texts[i], budget - Before(i))]

-----------------------------------------------------------------------------
(* build.                                                                    *)
\* The lines of the turn's last five edits.
Recap == Smaller(asked.edits, 5)

Assembled(retrieved, skill) ==
  [goal |-> asked.goal, constraints |-> asked.constraints, subtask |-> asked.subtask,
   error |-> asked.error, retrieved |-> retrieved, skill |-> skill,
   recap |-> Recap, tools |-> asked.results]

Build ==
  /\ pc = "build"
  /\ ~(memory_on /\ asked.mode = "semantic" /\ ChromaRefuses(asked.index))
  /\ IF memory_on
     THEN \E ranking \in Rankings :
            wm' = Assembled(CappedTotal(FirstK(ranking), Larger(1, ceiling \div 4)),
                            Smaller(asked.skill, SkillBudget))
     ELSE wm' = Assembled(<< >>, 0)
  /\ given' = wm'
  /\ pc' = "fit"
  /\ UNCHANGED <<ceiling, memory_on, asked, passes>>

\* The error of the vector store is no WorkingMemoryBudgetError and leaves build.
RetrievalRaises ==
  /\ pc = "build"
  /\ memory_on /\ asked.mode = "semantic" /\ ChromaRefuses(asked.index)
  /\ pc' = "raised"
  /\ UNCHANGED <<ceiling, memory_on, asked, wm, given, passes>>

-----------------------------------------------------------------------------
(* _fit_to_budget.                                                           *)
Tokens(m) ==
  Fixed + m.goal + Total(m.constraints) + m.subtask + m.error + m.skill
    + Total(m.retrieved) + Line * m.recap + Total(m.tools) + Header * Len(m.tools)

Fits(m) == Tokens(m) <= ceiling

Front(s) == SubSeq(s, 1, Len(s) - 1)
Last(s) == s[Len(s)]

ResultCap == Larger(20, ceiling \div 6)
PartCap == Larger(40, ceiling \div 3)    \* above it the subtask or goal is cut ...
PartSize == Larger(40, ceiling \div 4)   \* ... to this
LongConstraint(s) == \E i \in DOMAIN s : s[i] > Larger(8, ceiling \div 6)
ShortConstraints(s, size) == [i \in DOMAIN s |-> Smaller(s[i], size)]

\* Nothing but the role, the subtask and the anchors is left.
Bare(m) == m.retrieved = << >> /\ m.skill = 0 /\ m.recap = 0 /\ m.tools = << >>

\* Mutated: the goal is cut as soon as the tool results are gone or short.
TruncatedGoalEarly(m) ==
  IF m.retrieved /= << >> THEN [m EXCEPT !.retrieved = Front(@)]
  ELSE IF m.skill > 0 THEN [m EXCEPT !.skill = 0]
  ELSE IF m.goal > PartCap THEN [m EXCEPT !.goal = PartSize]
  ELSE IF m.tools /= << >> THEN [m EXCEPT !.tools = Front(@)]
  ELSE m

\* Mutated: the oldest tool result goes first.
TruncatedOldest(m) ==
  IF m.retrieved /= << >> THEN [m EXCEPT !.retrieved = Front(@)]
  ELSE IF m.tools /= << >> THEN [m EXCEPT !.tools = Tail(@)]
  ELSE m

\* What one pass takes away: the first of these that is there to take.
Truncated(m) ==
  IF m.retrieved /= << >> THEN [m EXCEPT !.retrieved = Front(@)]
  ELSE IF m.skill > 0 THEN [m EXCEPT !.skill = 0]
  ELSE IF m.recap > 0 THEN [m EXCEPT !.recap = @ - 1]
  ELSE IF m.tools /= << >> THEN
         IF Last(m.tools) > ResultCap THEN [m EXCEPT !.tools[Len(m.tools)] = ResultCap]
                                      ELSE [m EXCEPT !.tools = Front(@)]
  ELSE IF m.subtask > PartCap THEN [m EXCEPT !.subtask = PartSize]
  ELSE IF LongConstraint(m.constraints) THEN
         [m EXCEPT !.constraints = ShortConstraints(@, Larger(8, ceiling \div 8))]
  ELSE IF m.goal > PartCap THEN [m EXCEPT !.goal = PartSize]
  ELSE m

Pass ==
  /\ pc = "fit"
  /\ ~Fits(wm)
  /\ passes < Passes
  /\ Truncated(wm) /= wm
  /\ wm' = Truncated(wm)
  /\ passes' = passes + 1
  /\ UNCHANGED <<pc, ceiling, memory_on, asked, given>>

\* Mutated: the last resort keeps the error summary as it is.
LastResortWithError(m) ==
  [m EXCEPT !.retrieved = << >>, !.skill = 0, !.recap = Smaller(@, 2),
            !.tools = SubSeq(@, 1, Smaller(Len(@), 1)),
            !.subtask = Smaller(@, Larger(12, ceiling \div 3)),
            !.constraints = ShortConstraints(SubSeq(@, 1, Smaller(Len(@), 2)), 8),
            !.goal = Smaller(@, Larger(12, ceiling \div 5))]

\* What is left of the parts: the first tool result stays as long as it is.
LastResort(m) ==
  [m EXCEPT !.retrieved = << >>, !.skill = 0, !.recap = Smaller(@, 2),
            !.tools = SubSeq(@, 1, Smaller(Len(@), 1)),
            !.subtask = Smaller(@, Larger(12, ceiling \div 3)),
            !.constraints = ShortConstraints(SubSeq(@, 1, Smaller(Len(@), 2)), 8),
            !.goal = Smaller(@, Larger(12, ceiling \div 5)),
            !.error = Smaller(@, 8)]

\* The passes are made, or nothing can be taken away.
GiveUp ==
  /\ pc = "fit"
  /\ ~Fits(wm)
  /\ passes = Passes \/ Truncated(wm) = wm
  /\ wm' = LastResort(wm)
  /\ pc' = "fallback"
  /\ UNCHANGED <<ceiling, memory_on, asked, given, passes>>

Return ==
  /\ pc \in {"fit", "fallback"}
  /\ Fits(wm)
  /\ pc' = "returned"
  /\ UNCHANGED <<ceiling, memory_on, asked, wm, given, passes>>

\* WorkingMemoryBudgetError.
Raise ==
  /\ pc = "fallback"
  /\ ~Fits(wm)
  /\ pc' = "raised"
  /\ UNCHANGED <<ceiling, memory_on, asked, wm, given, passes>>

Next == Build \/ RetrievalRaises \/ Pass \/ GiveUp \/ Return \/ Raise

Spec == Init /\ [][Next]_vars

-----------------------------------------------------------------------------
(* Properties.                                                              *)
\* Goal and constraints, the anchors of the prompt, are cut last: while any retrieved
\* item, skill card, line of the recap or tool result is left they are whole, as
\* test_fit_to_budget_drops_retrieval_before_goal asks of the retrieved items.  Only
\* when all the passes were used up can they be cut beside a tool result.
AnchorsCutLast ==
  wm.goal /= given.goal \/ wm.constraints /= given.constraints
    => Bare(wm) \/ passes = Passes

\* The tool results left are the oldest of the turn, and all but the last of them
\* are whole: truncation pops the newest result, the one the next decision is about.
OldestResultsKept ==
  LET n == Len(wm.tools)
  IN  pc \in {"fit", "fallback", "returned"} =>
        /\ n <= Len(given.tools)
        /\ \A i \in 1..n : i < n => wm.tools[i] = given.tools[i]

\* A budget the fixed parts leave room in is only ever missed because a turn had more
\* tool results than the passes can shrink and drop: the last resort keeps the first
\* result as long as it is.
RaisesOnlyOutOfPasses ==
  /\ pc = "raised"
  /\ given /= Empty
  /\ Fixed + 24 + Line * 2 + Larger(12, ceiling \div 3) + Larger(12, ceiling \div 5) <= ceiling
  => passes = Passes /\ wm.tools /= << >>
=============================================================================
