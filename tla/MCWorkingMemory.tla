-------------------------- MODULE MCWorkingMemory --------------------------
EXTENDS WorkingMemory

Item(ref, tokens, relevance, importance, recency) ==
  [ref |-> ref, tokens |-> tokens, relevance |-> relevance,
   importance |-> importance, recency |-> recency]

\* The register and the dispatch of one subtask, a decision and a failed result; in
\* the second index the subtask has one item, in the third nothing is relevant.
MCIndexes ==
  {<<Item("subtask:st-0", 30, 4, 10, 20), Item("subtask:st-0", 12, 2, 10, 20),
     Item("decision:d-1", 400, 6, 10, 18), Item("result:r-1", 90, 6, 20, 10)>>,
   <<Item("subtask:st-0", 30, 4, 10, 20), Item("decision:d-1", 400, 6, 10, 18),
     Item("decision:d-2", 160, 0, 20, 20), Item("result:r-1", 150, 6, 20, 10)>>,
   <<Item("state:0", 20, 0, 10, 20)>>}

\* Up to 14 results: all whole files, all short listings, or one among the other.
MCResults ==
  {[i \in 1..n |-> big] : n \in 0..14, big \in {15, 1500}}
    \union {[i \in 1..n |-> IF i = k THEN 1500 ELSE 15] : n \in {1, 4, 13}, k \in {1, 4}}

MCCeilings == {500, 650, 750}
MCGoals == {30, 240, 900}
MCConstraints == {<< >>, <<10, 12>>, <<10, 130, 20>>}
MCSubtasks == {20, 300}
MCErrors == {0, 260}
MCSkills == {0, 90}
MCEdits == {0, 7}
MCModes == {"keyword", "semantic"}
=============================================================================
