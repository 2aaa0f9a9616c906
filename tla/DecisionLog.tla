---------------------------- MODULE DecisionLog ----------------------------
(***************************************************************************)
(* The part of the decision log that control decisions depend on.          *)
(*                                                                         *)
(* The log is an append-only sequence of entries.  Both loop detectors,    *)
(* the workflow router's (control/workflow.py) and the quality gate's      *)
(* (error_control/quality.py), look only at the digests of the last five   *)
(* entries, where a digest is the SHA-256 of kind and payload.  An entry   *)
(* is therefore represented by its digest.                                 *)
(***************************************************************************)
EXTENDS Naturals, Sequences, FiniteSets

LoopWindow == 5
LoopThreshold == 3

LastN(s, n) ==
  IF Len(s) <= n THEN s ELSE SubSeq(s, Len(s) - n + 1, Len(s))

\* An entry appended to a log of which only the last n entries are kept.
AppendLastN(s, d, n) == LastN(Append(s, d), n)

Occurrences(s, d) == Cardinality({i \in 1..Len(s) : s[i] = d})

LoopDetected(log) ==
  LET recent == LastN(log, LoopWindow)
  IN  \E i \in 1..Len(recent) : Occurrences(recent, recent[i]) >= LoopThreshold
=============================================================================
