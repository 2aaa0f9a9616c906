------------------------ MODULE DecisionCycleProofs ------------------------
(***************************************************************************)
(* Theorems about the decision cycles of all agents on one log, for any    *)
(* proposals, retry budgets, completion states and contradiction window,   *)
(* and any number of cycles, with their proofs.                            *)
(***************************************************************************)
EXTENDS DecisionCycle, DecisionLogProofs

-----------------------------------------------------------------------------
\* A proposal is past the gate, or past the self check, and not recorded yet.
PastGate == {"check", "act", "record"}
PastCheck == {"act", "record"}

\* What has happened in a cycle by the time each stage is next.
StageSoFar ==
  /\ pc \in {"idle", "call", "gate", "check", "act"} => ~acted
  /\ pc = "record" => acted
  /\ pc /= "return" => result = "none"
  /\ pc = "idle" => ~looped
  /\ floor <= turn_floor
  /\ ExhaustedDidNothing

\* How many calls have been made, and that a retry was left for the last one.
CallsSoFar ==
  /\ pc = "idle" => calls = 0 /\ retry_count = 0
  /\ pc = "call" => calls = retry_count
  /\ pc \in {"gate"} \union PastGate => calls = retry_count + 1
  /\ pc \in {"call", "gate"} \union PastGate =>
       retry_count = 0 \/ retry_count < request.max_retries
  /\ CallsBounded

\* What the gate has concluded about the log, which no stage after it changes.
VerdictsHold ==
  /\ pc \in PastGate => ~Looping
  /\ looped => Looping
  /\ LoopVerdictIsFinal

\* What the self check has concluded, and what it has concluded of each entry.
AgreesSoFar ==
  /\ settings.control /\ pc \in PastCheck => ~Contradicts(draft, log)
  /\ NoContradiction

\* RepetitionBounded, in terms of the places in the log.
RepetitionSoFar ==
  settings.error_control =>
    \A m \in (turn_floor + 1)..Len(log) :
      Cardinality(Places(DigestsOf(log), turn_floor, m, LoopWindow, DigestsOf(log)[m]))
        <= LoopThreshold

IInv ==
  /\ TypeOK /\ StageSoFar /\ CallsSoFar /\ VerdictsHold
  /\ AgreesSoFar /\ RepetitionSoFar

-----------------------------------------------------------------------------
(* The initial states are well typed.                                        *)
LEMMA InitTypeOK == Init => TypeOK
<1> SUFFICES ASSUME Init PROVE TypeOK
  OBVIOUS
<1>1. log \in Seq(Entries) /\ Len(log) = 0
  BY EmptySeq DEF Init
<1>2. request \in Requests \union {NoRequest} /\ draft \in Proposals \union {Garbage}
  BY Zenon DEF Init
<1>3. floor \in 0..Len(log) /\ turn_floor \in 0..Len(log) /\ cycles \in 0..MaxCycles
  BY <1>1, MaxCyclesIsNat DEF Init
<1>4. /\ pc = "idle" /\ result = "none" /\ retry_count = 0 /\ calls = 0
      /\ acted = FALSE /\ looped = FALSE
      /\ settings \in [control : BOOLEAN, error_control : BOOLEAN]
  BY DEF Init
<1> QED
  BY <1>1, <1>2, <1>3, <1>4 DEF TypeOK, ControlPoints, Results

(* An entry made of a proposal is one of the log's.                          *)
LEMMA EntryTypes ==
  ASSUME TypeOK, draft /= Garbage, NEW verdict \in {"pass", "exhausted"},
         log' = Append(log, Entry(verdict))
  PROVE  /\ Entry(verdict) \in Entries
         /\ log' \in Seq(Entries)
         /\ Len(log) \in Nat /\ Len(log') = Len(log) + 1
<1>1. draft \in Proposals
  BY DEF TypeOK
<1>2. Entry(verdict) \in Entries
  BY <1>1 DEF Entry, Entries
<1> QED
  BY <1>2, AppendProperties, LenProperties DEF TypeOK

(* How a retry leaves a cycle: one retry more, back at the call or done.     *)
LEMMA RetryTypes ==
  ASSUME TypeOK, Retry
  PROVE  /\ retry_count' = retry_count + 1
         /\ pc' \in {"call", "return"}
         /\ result' \in {result, "raised", "exhausted"}
BY DEF Retry, Finish

(* Every step keeps the types.                                               *)
LEMMA NextTypeOK == TypeOK /\ [Next]_vars => TypeOK'
<1> SUFFICES ASSUME TypeOK, [Next]_vars PROVE TypeOK'
  OBVIOUS
<1>t. Len(log) \in Nat
  BY LenProperties DEF TypeOK
<1> USE DEF TypeOK
<1>1. CASE NewTurn
  BY <1>t, <1>1 DEF NewTurn
<1>2. CASE Begin
  <2>1. floor' \in 0..Len(log)
    BY <1>t, <1>2 DEF Begin
  <2>2. pc' \in {"call", "return"} /\ result' \in Results
    BY <1>2 DEF Begin, Finish, Results
  <2>3. cycles' \in 0..MaxCycles
    BY <1>2, MaxCyclesIsNat DEF Begin
  <2> QED
    BY <1>2, <2>1, <2>2, <2>3 DEF Begin, ControlPoints
<1>3. CASE Call
  <2>1. calls' \in Nat
    BY <1>3 DEF Call
  <2>2. /\ pc' \in {"gate", "return"} /\ result' \in Results
        /\ draft' \in Proposals \union {Garbage}
    BY <1>3 DEF Call, Finish, Results
  <2> QED
    BY <1>3, <2>1, <2>2 DEF Call, Step, ControlPoints
<1>4. CASE Gate
  <2>1. looped' \in BOOLEAN
    BY <1>4 DEF Gate
  <2>2. CASE Rejected
    <3>1. Retry
      BY <1>4, <2>2 DEF Gate
    <3> QED
      BY <1>4, <2>1, <3>1, RetryTypes DEF Gate, Step, ControlPoints, Results
  <2>3. CASE ~Rejected
    BY <1>4, <2>1, <2>3 DEF Gate, Step, ControlPoints, Rejected
  <2> QED
    BY <2>2, <2>3
<1>5. CASE Check
  <2>1. CASE pc' = "act" /\ UNCHANGED <<retry_count, result, log>>
    BY <1>5, <2>1 DEF Check, Step, ControlPoints
  <2>2. CASE Retry /\ UNCHANGED log
    BY <1>5, <2>2, RetryTypes DEF Check, Step, ControlPoints, Results
  <2>3. CASE /\ retry_count' = retry_count + 1
             /\ log' = Append(log, Entry("exhausted"))
             /\ Finish("exhausted") \/ Finish("raised")
    <3>1. log' \in Seq(Entries) /\ Len(log') = Len(log) + 1
      BY <1>5, <2>3, EntryTypes DEF Check, Step
    <3> QED
      BY <1>t, <1>5, <2>3, <3>1 DEF Check, Step, Finish, ControlPoints, Results
  <2>4. CASE Finish("raised") /\ UNCHANGED <<retry_count, log>>
    BY <1>5, <2>4 DEF Check, Step, Finish, ControlPoints, Results
  <2> QED
    BY <1>5, <2>1, <2>2, <2>3, <2>4 DEF Check
<1>6. CASE Act
  BY <1>6 DEF Act, Step, Finish, ControlPoints, Results
<1>7. CASE Record
  <2>1. CASE log' = Append(log, Entry("pass"))
    <3>1. log' \in Seq(Entries) /\ Len(log') = Len(log) + 1
      BY <1>7, <2>1, EntryTypes DEF Record, Step
    <3> QED
      BY <1>t, <1>7, <3>1 DEF Record, Step, Finish, ControlPoints, Results
  <2>2. CASE UNCHANGED log
    BY <1>7, <2>2 DEF Record, Step, Finish, ControlPoints, Results
  <2> QED
    BY <1>7, <2>1, <2>2 DEF Record
<1>8. CASE Return
  <2>1. request' \in Requests \union {NoRequest} /\ draft' \in Proposals \union {Garbage}
    BY <1>8, Zenon DEF Return
  <2>2. floor' \in 0..Len(log') /\ turn_floor' \in 0..Len(log')
    BY <1>t, <1>8 DEF Return
  <2> QED
    BY <1>8, <2>1, <2>2 DEF Return, ControlPoints, Results
<1>9. CASE UNCHANGED vars
  BY <1>9 DEF vars
<1> QED
  BY <1>1, <1>2, <1>3, <1>4, <1>5, <1>6, <1>7, <1>8, <1>9 DEF Next, Run

(* Every variable keeps its type however many cycles run: what is recorded   *)
(* is a proposal with a verdict, and nothing that is not a proposal is       *)
(* checked, acted on or recorded.                                            *)
THEOREM TypeCorrect == Spec => []TypeOK
BY InitTypeOK, NextTypeOK, PTL DEF Spec

-----------------------------------------------------------------------------
(* Cycles are started with a natural number of retries.                      *)
LEMMA RetriesAreNat == TypeOK => request.max_retries \in Nat
<1> SUFFICES ASSUME TypeOK PROVE request.max_retries \in Nat
  OBVIOUS
<1>1. CASE request \in Requests
  BY <1>1, BudgetsAreNat DEF Requests, SessionRequests, TurnRequests, FinalizerRequests
<1>2. CASE request = NoRequest
  BY <1>2 DEF NoRequest
<1> QED
  BY <1>1, <1>2 DEF TypeOK

LEMMA InitStageSoFar == Init => StageSoFar
BY DEF Init, StageSoFar, ExhaustedDidNothing

(* A cycle acts between its self check and its record, or not at all.        *)
LEMMA NextStageSoFar == TypeOK /\ StageSoFar /\ [Next]_vars => StageSoFar'
<1> SUFFICES ASSUME TypeOK, StageSoFar, [Next]_vars PROVE StageSoFar'
  OBVIOUS
<1>t. Len(log) \in Nat /\ floor \in Nat /\ turn_floor \in Nat /\ pc \in ControlPoints
      /\ acted \in BOOLEAN /\ looped \in BOOLEAN
  BY LenProperties DEF TypeOK
<1> USE DEF StageSoFar, ExhaustedDidNothing
<1>1. CASE NewTurn
  BY <1>t, <1>1 DEF NewTurn, TypeOK
<1>2. CASE Begin
  BY <1>t, <1>2 DEF Begin, Finish
<1>3. CASE Call
  BY <1>t, <1>3 DEF Call, Step, Finish
<1>4. CASE Gate
  <2>1. CASE Retry
    BY <1>t, <1>4, <2>1 DEF Gate, Step, Retry, Finish
  <2>2. CASE pc' = "check" /\ UNCHANGED <<retry_count, result>>
    BY <1>t, <1>4, <2>2 DEF Gate, Step
  <2> QED
    BY <1>4, <2>1, <2>2 DEF Gate
<1>5. CASE Check
  <2>1. CASE Retry
    BY <1>t, <1>5, <2>1 DEF Check, Step, Retry, Finish
  <2>2. CASE pc' = "act" /\ UNCHANGED <<retry_count, result, log>>
    BY <1>t, <1>5, <2>2 DEF Check, Step
  <2>3. CASE Finish("exhausted") \/ Finish("raised")
    BY <1>t, <1>5, <2>3 DEF Check, Step, Finish
  <2> QED
    BY <1>5, <2>1, <2>2, <2>3 DEF Check
<1>6. CASE Act
  BY <1>t, <1>6 DEF Act, Step, Finish
<1>7. CASE Record
  BY <1>t, <1>7 DEF Record, Step, Finish
<1>8. CASE Return
  BY <1>t, <1>8 DEF Return
<1>9. CASE UNCHANGED vars
  BY <1>9 DEF vars
<1> QED
  BY <1>1, <1>2, <1>3, <1>4, <1>5, <1>6, <1>7, <1>8, <1>9 DEF Next, Run

-----------------------------------------------------------------------------
LEMMA InitCallsSoFar == Init => CallsSoFar
BY DEF Init, CallsSoFar, CallsBounded, NoRequest, PastGate

(* Every call uses up a retry, and another one is made only if one is left:  *)
(* the test of the loop and that of the limiter agree.                       *)
LEMMA NextCallsSoFar == TypeOK /\ CallsSoFar /\ [Next]_vars => CallsSoFar'
<1> SUFFICES ASSUME TypeOK, CallsSoFar, [Next]_vars PROVE CallsSoFar'
  OBVIOUS
<1>t. /\ request.max_retries \in Nat /\ retry_count \in Nat /\ calls \in Nat
      /\ pc \in ControlPoints
  BY RetriesAreNat DEF TypeOK
<1> USE DEF CallsSoFar, CallsBounded, PastGate
\* A step of a cycle that has called, and is retried or goes on.
<1>r. ASSUME pc \in {"gate", "check"}, UNCHANGED <<request, calls>>, Retry
      PROVE  CallsSoFar'
  <2>1. CASE MayRetry /\ pc' = "call"
    BY <1>t, <1>r, <2>1 DEF Retry, MayRetry
  <2>2. CASE pc' = "return"
    BY <1>t, <1>r, <2>2
  <2> QED
    BY <1>r, <2>1, <2>2 DEF Retry, Finish
<1>1. CASE NewTurn
  BY <1>t, <1>1 DEF NewTurn
<1>2. CASE Begin
  <2>1. request' \in Requests /\ pc' \in {"call", "return"} /\ calls' = 0 /\ retry_count' = 0
    BY <1>2 DEF Begin, Finish
  <2>2. request'.max_retries \in Nat
    BY <2>1, BudgetsAreNat
       DEF Requests, SessionRequests, TurnRequests, FinalizerRequests
  <2> QED
    BY <2>1, <2>2
<1>3. CASE Call
  <2>1. calls' = calls + 1 /\ retry_count' = retry_count /\ request' = request
    BY <1>t, <1>3 DEF Call, Step, CallsCap
  <2>2. pc = "call" /\ pc' \in {"gate", "return"}
    BY <1>3 DEF Call, Step, Finish
  <2> QED
    BY <1>t, <2>1, <2>2
<1>4. CASE Gate
  <2>1. pc = "gate" /\ UNCHANGED <<request, calls>>
    BY <1>4 DEF Gate, Step
  <2>2. CASE pc' = "check" /\ UNCHANGED retry_count
    BY <1>t, <2>1, <2>2
  <2> QED
    BY <1>r, <1>4, <2>1, <2>2 DEF Gate
<1>5. CASE Check
  <2>1. pc = "check" /\ UNCHANGED <<request, calls>>
    BY <1>5 DEF Check, Step
  <2>2. CASE pc' = "act" /\ UNCHANGED retry_count
    BY <1>t, <2>1, <2>2
  <2>3. CASE pc' = "return"
    BY <1>t, <2>1, <2>3
  <2> QED
    BY <1>r, <1>5, <2>1, <2>2, <2>3 DEF Check, Finish
<1>6. CASE Act
  BY <1>t, <1>6 DEF Act, Step, Finish
<1>7. CASE Record
  BY <1>t, <1>7 DEF Record, Step, Finish
<1>8. CASE Return
  BY <1>8 DEF Return, NoRequest
<1>9. CASE UNCHANGED vars
  BY <1>9 DEF vars
<1> QED
  BY <1>1, <1>2, <1>3, <1>4, <1>5, <1>6, <1>7, <1>8, <1>9 DEF Next, Run

-----------------------------------------------------------------------------
LEMMA InitVerdictsHold == Init => VerdictsHold
BY DEF Init, VerdictsHold, LoopVerdictIsFinal, PastGate

(* What the gate has concluded stays so while the log, the floor and the     *)
(* settings stay as they are.                                                *)
LEMMA LoopingStays ==
  UNCHANGED <<log, floor, settings>> => Looping' = Looping
BY DEF Looping, Visible, DigestsOf

(* No stage between the gate and the record changes what the gate looked at, *)
(* so neither of its verdicts is overtaken.                                  *)
LEMMA NextVerdictsHold ==
  TypeOK /\ StageSoFar /\ VerdictsHold /\ [Next]_vars => VerdictsHold'
<1> SUFFICES ASSUME TypeOK, StageSoFar, VerdictsHold, [Next]_vars PROVE VerdictsHold'
  OBVIOUS
<1>t. pc \in ControlPoints /\ acted \in BOOLEAN /\ looped \in BOOLEAN
  BY DEF TypeOK
<1> USE DEF VerdictsHold, LoopVerdictIsFinal, PastGate, StageSoFar
<1>1. CASE NewTurn
  BY <1>t, <1>1 DEF NewTurn
<1>2. CASE Begin
  BY <1>t, <1>2 DEF Begin, Finish
<1>3. CASE Call
  <2>1. Looping' = Looping
    BY <1>3, LoopingStays DEF Call, Step
  <2> QED
    BY <1>t, <1>3, <2>1 DEF Call, Step, Finish
<1>4. CASE Gate
  <2>1. Looping' = Looping
    BY <1>4, LoopingStays DEF Gate, Step
  <2>2. CASE Rejected
    <3>1. Retry /\ pc = "gate" /\ UNCHANGED acted
      BY <1>4, <2>2 DEF Gate, Step
    <3>2. pc' \in {"call", "return"} /\ result' /= "decision"
      BY <3>1 DEF Retry, Finish
    <3>3. looped' => Looping
      BY <1>4 DEF Gate
    <3> QED
      BY <1>t, <2>1, <3>1, <3>2, <3>3
  <2>3. CASE ~Rejected
    <3>1. ~Looping /\ pc' = "check" /\ ~looped'
      BY <1>t, <1>4, <2>3 DEF Gate, Step, Rejected
    <3> QED
      BY <2>1, <3>1
  <2> QED
    BY <2>2, <2>3
<1>5. CASE Check
  <2>1. pc = "check" /\ ~looped /\ looped' = looped
    BY <1>t, <1>5 DEF Check, Step
  <2>2. CASE UNCHANGED log
    <3>1. Looping' = Looping
      BY <1>5, <2>2, LoopingStays DEF Check, Step
    <3> QED
      BY <2>1, <3>1
  <2>3. CASE Finish("exhausted") \/ Finish("raised")
    BY <2>1, <2>3 DEF Finish
  <2> QED
    BY <1>5, <2>2, <2>3 DEF Check
<1>6. CASE Act
  <2>1. Looping' = Looping
    BY <1>6, LoopingStays DEF Act, Step
  <2> QED
    BY <1>t, <1>6, <2>1 DEF Act, Step
<1>7. CASE Record
  BY <1>t, <1>7 DEF Record, Step, Finish
<1>8. CASE Return
  BY <1>8 DEF Return
<1>9. CASE UNCHANGED vars
  BY <1>9, LoopingStays DEF vars
<1> QED
  BY <1>1, <1>2, <1>3, <1>4, <1>5, <1>6, <1>7, <1>8, <1>9 DEF Next, Run

-----------------------------------------------------------------------------
(* To disagree is mutual, and a matter of kind and payload only.             *)
LEMMA DisagreementIsMutual ==
  ASSUME NEW d, NEW e, NEW f, Disagree(d, e), f.kind = e.kind, f.payload = e.payload
  PROVE  Disagree(f, d)
BY DEF Disagree

LEMMA InitAgreesSoFar == Init => AgreesSoFar
<1> SUFFICES ASSUME Init PROVE AgreesSoFar
  OBVIOUS
<1>1. Len(log) = 0 /\ pc = "idle"
  BY DEF Init
<1>2. 1..0 = {}
  OBVIOUS
<1> QED
  BY <1>1, <1>2 DEF AgreesSoFar, NoContradiction, PastCheck

(* What the self check looks back on are the last entries of the log.        *)
LEMMA ContradictionWindowIsALog ==
  ASSUME log \in Seq(Entries)
  PROVE  LET recent == LastN(log, ContradictionWindow)
         IN  /\ Len(recent) = IF Len(log) <= ContradictionWindow
                              THEN Len(log) ELSE ContradictionWindow
             /\ Len(log) > ContradictionWindow =>
                  \A n \in 1..ContradictionWindow :
                    recent[n] = log[Len(log) - ContradictionWindow + n]
BY LastNIsALog, ContradictionWindowIsNat, Zenon

(* What a proposal was checked against is what it is recorded after.         *)
LEMMA NextAgreesSoFar == TypeOK /\ AgreesSoFar /\ [Next]_vars => AgreesSoFar'
<1> SUFFICES ASSUME TypeOK, AgreesSoFar, [Next]_vars PROVE AgreesSoFar'
  OBVIOUS
<1>t. Len(log) \in Nat /\ pc \in ControlPoints
  BY LenProperties DEF TypeOK
\* As long as nothing is appended the entries agree as before.
<1>s. ASSUME UNCHANGED <<log, settings>>, pc' \notin PastCheck
      PROVE  AgreesSoFar'
  BY <1>s DEF AgreesSoFar, NoContradiction
\* An entry agrees with those before it if it is accepted and was checked.
<1>a. ASSUME NEW verdict \in {"pass", "exhausted"}, draft /= Garbage,
             log' = Append(log, Entry(verdict)), settings' = settings,
             settings.control /\ verdict = "pass" => ~Contradicts(draft, log)
      PROVE  NoContradiction'
  <2> SUFFICES ASSUME settings.control, NEW i \in 1..Len(log'), NEW j \in 1..Len(log'),
                      i < j, j - i <= ContradictionWindow, log'[j].verdict = "pass"
               PROVE  ~Disagree(log'[i], log'[j])
    BY <1>a DEF NoContradiction
  <2>1. Len(log') = Len(log) + 1 /\ Entry(verdict) \in Entries
    BY <1>a, EntryTypes
  <2>2. /\ \A k \in 1..Len(log) : log'[k] = log[k]
        /\ log'[Len(log) + 1] = Entry(verdict)
    BY <1>a, <2>1, AppendProperties DEF TypeOK
  <2>3. CASE j <= Len(log)
    <3>1. i \in 1..Len(log) /\ j \in 1..Len(log)
      BY <1>t, <2>1, <2>3
    <3>2. log'[i] = log[i] /\ log'[j] = log[j]
      BY <2>2, <3>1
    <3> QED
      BY <3>1, <3>2 DEF AgreesSoFar, NoContradiction
  <2>4. CASE j = Len(log) + 1
    <3> DEFINE recent == LastN(log, ContradictionWindow)
               k == i - (Len(log) - Len(recent))
    <3>1. log'[j] = Entry(verdict) /\ i \in 1..Len(log) /\ log'[i] = log[i]
      BY <1>t, <2>1, <2>2, <2>4
    <3>2. verdict = "pass"
      BY <3>1 DEF Entry
    <3>3. /\ Len(recent) = IF Len(log) <= ContradictionWindow
                           THEN Len(log) ELSE ContradictionWindow
          /\ Len(log) > ContradictionWindow =>
               \A n \in 1..ContradictionWindow :
                 recent[n] = log[Len(log) - ContradictionWindow + n]
      BY ContradictionWindowIsALog DEF TypeOK
    <3>4. Len(log) <= ContradictionWindow => recent = log
      BY DEF LastN
    <3>5. k \in 1..Len(recent) /\ recent[k] = log[i]
      <4>1. CASE Len(log) <= ContradictionWindow
        BY <1>t, <3>1, <3>4, <4>1
      <4>2. CASE Len(log) > ContradictionWindow
        <5> HIDE DEF recent
        <5>1. Len(recent) = ContradictionWindow
          BY <1>t, <3>3, <4>2, ContradictionWindowIsNat
        <5>2. k \in 1..ContradictionWindow /\ Len(log) - ContradictionWindow + k = i
          BY <1>t, <2>4, <3>1, <4>2, <5>1, ContradictionWindowIsNat
        <5> HIDE DEF k
        <5> QED
          BY <3>3, <4>2, <5>1, <5>2
      <4> QED
        BY <1>t, <4>1, <4>2, ContradictionWindowIsNat
    <3>6. ~Disagree(draft, log[i])
      BY <1>a, <3>2, <3>5 DEF Contradicts
    <3>7. Entry(verdict).kind = draft.kind /\ Entry(verdict).payload = draft.payload
      BY DEF Entry
    <3> QED
      BY <3>1, <3>6, <3>7, DisagreementIsMutual
  <2> QED
    BY <1>t, <2>1, <2>3, <2>4
<1>1. CASE NewTurn
  BY <1>s, <1>t, <1>1 DEF NewTurn, PastCheck
<1>2. CASE Begin
  BY <1>s, <1>2 DEF Begin, Finish, PastCheck
<1>3. CASE Call
  BY <1>s, <1>3 DEF Call, Step, Finish, PastCheck
<1>4. CASE Gate
  BY <1>s, <1>4 DEF Gate, Step, Retry, Finish, PastCheck
<1>5. CASE Check
  <2>1. CASE Passes /\ pc' = "act" /\ UNCHANGED log
    <3>1. settings.control => ~Contradicts(draft, log)
      BY <2>1 DEF Passes, Accepts
    <3> QED
      BY <1>5, <2>1, <3>1
         DEF Check, Step, AgreesSoFar, NoContradiction, Contradicts
  <2>2. CASE Retry /\ UNCHANGED log
    BY <1>s, <1>5, <2>2 DEF Check, Step, Retry, Finish, PastCheck
  <2>3. CASE log' = Append(log, Entry("exhausted")) /\ pc' = "return"
    <3>1. draft /= Garbage /\ settings' = settings
      BY <1>5 DEF Check, Step, TypeOK
    <3>2. NoContradiction'
      BY <1>a, <2>3, <3>1
    <3> QED
      BY <2>3, <3>2 DEF AgreesSoFar, PastCheck
  <2>4. CASE Finish("raised") /\ UNCHANGED log
    BY <1>s, <1>5, <2>4 DEF Check, Step, Finish, PastCheck
  <2> QED
    BY <1>5, <2>1, <2>2, <2>3, <2>4 DEF Check, Finish
<1>6. CASE Act
  <2>1. pc \in PastCheck /\ UNCHANGED <<draft, log, settings>>
    BY <1>6 DEF Act, Step, PastCheck
  <2> QED
    BY <2>1 DEF AgreesSoFar, NoContradiction, Contradicts
<1>7. CASE Record
  <2>1. /\ pc = "record" /\ pc' = "return" /\ settings' = settings
    BY <1>7 DEF Record, Step, Finish
  <2>2. CASE log' = Append(log, Entry("pass"))
    <3>1. draft /= Garbage /\ (settings.control => ~Contradicts(draft, log))
      BY <2>1 DEF TypeOK, AgreesSoFar, PastCheck
    <3>2. NoContradiction'
      BY <1>a, <2>1, <2>2, <3>1
    <3> QED
      BY <2>1, <3>2 DEF AgreesSoFar, PastCheck
  <2>3. CASE UNCHANGED log
    BY <1>s, <2>1, <2>3 DEF PastCheck
  <2> QED
    BY <1>7, <2>2, <2>3 DEF Record
<1>8. CASE Return
  BY <1>s, <1>8 DEF Return, PastCheck
<1>9. CASE UNCHANGED vars
  BY <1>9 DEF vars, AgreesSoFar, NoContradiction, Contradicts
<1> QED
  BY <1>1, <1>2, <1>3, <1>4, <1>5, <1>6, <1>7, <1>8, <1>9 DEF Next, Run

-----------------------------------------------------------------------------
(* What the loop detectors see of a log: one digest for each entry.          *)
LEMMA DigestsOfLog ==
  ASSUME TypeOK
  PROVE  /\ DigestsOf(log) \in Seq({Digest(e) : e \in Entries})
         /\ Len(DigestsOf(log)) = Len(log) /\ Len(log) \in Nat
<1> DEFINE D == {Digest(e) : e \in Entries}
<1>1. Len(log) \in Nat /\ \A i \in 1..Len(log) : log[i] \in Entries
  BY LenProperties, ElementOfSeq DEF TypeOK
<1>2. DigestsOf(log) \in [1..Len(log) -> D]
  BY <1>1 DEF DigestsOf
<1>3. DigestsOf(log) \in Seq(D)
  BY <1>1, <1>2, SeqDef
<1> HIDE DEF D
<1>4. Len(DigestsOf(log)) \in Nat /\ DOMAIN DigestsOf(log) = 1..Len(DigestsOf(log))
  BY <1>3, LenProperties
<1>5. Len(DigestsOf(log)) = Len(log)
  BY <1>1, <1>2, <1>4
<1> QED
  BY <1>1, <1>3, <1>5 DEF D

(* They see an entry appended to the log as a digest appended.               *)
LEMMA DigestsAfterAppend ==
  ASSUME TypeOK, TypeOK', NEW e \in Entries, log' = Append(log, e)
  PROVE  DigestsOf(log)' = Append(DigestsOf(log), Digest(e))
<1> DEFINE D == {Digest(x) : x \in Entries}
           s == DigestsOf(log)
           t == DigestsOf(log)'
<1>1. s \in Seq(D) /\ Len(s) = Len(log) /\ Len(log) \in Nat
  BY DigestsOfLog
<1>2. /\ Len(log') = Len(log) + 1 /\ log'[Len(log) + 1] = e
      /\ \A i \in 1..Len(log) : log'[i] = log[i]
  BY AppendProperties DEF TypeOK
<1>3. t \in Seq(D) /\ Len(t) = Len(log) + 1
  <2>1. t \in [1..Len(log') -> D]
    <3>1. \A i \in 1..Len(log') : log'[i] \in Entries
      BY ElementOfSeq DEF TypeOK
    <3> QED
      BY <3>1 DEF DigestsOf
  <2>2. t \in Seq(D)
    BY <1>1, <1>2, <2>1, SeqDef
  <2> HIDE DEF t, D
  <2>3. Len(t) \in Nat /\ DOMAIN t = 1..Len(t)
    BY <2>2, LenProperties
  <2> QED
    BY <1>1, <1>2, <2>1, <2>2, <2>3
<1>4. Digest(e) \in D
  OBVIOUS
<1>5. /\ \A i \in 1..Len(log) : t[i] = s[i]
      /\ t[Len(log) + 1] = Digest(e)
  BY <1>1, <1>2 DEF DigestsOf
<1> HIDE DEF D, s, t
<1>6. /\ Append(s, Digest(e)) \in Seq(D) /\ Len(Append(s, Digest(e))) = Len(s) + 1
      /\ \A i \in 1..Len(s) : Append(s, Digest(e))[i] = s[i]
      /\ Append(s, Digest(e))[Len(s) + 1] = Digest(e)
  BY <1>1, <1>4, AppendProperties
<1>7. \A i \in 1..Len(t) : t[i] = Append(s, Digest(e))[i]
  BY <1>1, <1>3, <1>5, <1>6
<1>8. t = Append(s, Digest(e))
  BY <1>1, <1>3, <1>6, <1>7, SeqEqual
<1> QED
  BY <1>8 DEF s, t

LEMMA InitRepetitionSoFar == Init => RepetitionSoFar
<1> SUFFICES ASSUME Init PROVE RepetitionSoFar
  OBVIOUS
<1>1. Len(log) = 0 /\ turn_floor = 0
  BY DEF Init
<1>2. (0 + 1)..0 = {}
  OBVIOUS
<1> QED
  BY <1>1, <1>2 DEF RepetitionSoFar

(* A cycle judges at least the decisions of the turn.  A decision that is    *)
(* recorded stood below the threshold among them, so it may reach it now,    *)
(* and the window of every earlier decision is as it was.                    *)
LEMMA NextRepetitionSoFar ==
  ASSUME TypeOK, TypeOK', StageSoFar, VerdictsHold, RepetitionSoFar, [Next]_vars
  PROVE  RepetitionSoFar'
<1> DEFINE D == {Digest(e) : e \in Entries}
           s == DigestsOf(log)
           Count(t, m) == Cardinality(Places(t, turn_floor, m, LoopWindow, t[m]))
<1>t. /\ s \in Seq(D) /\ Len(s) = Len(log) /\ Len(log) \in Nat
      /\ floor \in Nat /\ turn_floor \in Nat /\ turn_floor <= Len(log) /\ floor <= turn_floor
      /\ settings.error_control \in BOOLEAN
  BY DigestsOfLog DEF TypeOK, StageSoFar
\* As long as nothing is appended the windows are as before.
<1>s. ASSUME UNCHANGED <<log, turn_floor, settings>>
      PROVE  RepetitionSoFar'
  <2>1. DigestsOf(log)' = DigestsOf(log)
    BY <1>s DEF DigestsOf
  <2> QED
    BY <1>s, <2>1 DEF RepetitionSoFar
\* A decision is recorded only while the gate sees no loop.
<1>a. ASSUME NEW verdict \in {"pass", "exhausted"}, draft /= Garbage,
             log' = Append(log, Entry(verdict)), pc \in PastGate,
             UNCHANGED <<turn_floor, settings>>
      PROVE  RepetitionSoFar'
  <2> SUFFICES ASSUME settings.error_control, NEW m \in (turn_floor + 1)..(Len(log) + 1)
               PROVE  Count(DigestsOf(log)', m) <= LoopThreshold
    <3>1. Len(log') = Len(log) + 1
      BY <1>a, EntryTypes
    <3> QED
      BY <1>a, <3>1 DEF RepetitionSoFar
  <2> DEFINE e == Digest(Entry(verdict))
             t == Append(s, e)
  <2>1. Entry(verdict) \in Entries
    BY <1>a, EntryTypes
  <2>2. e \in D
    BY <2>1
  <2>3. DigestsOf(log)' = t
    BY <1>a, <2>1, DigestsAfterAppend
  <2>4. ~LoopDetected(SubSeq(s, floor + 1, Len(s)))
    BY <1>a, <1>t DEF VerdictsHold, Looping, Visible
  <2> HIDE DEF D, e, s
  <2>5. t[Len(log) + 1] = e /\ \A i \in 1..Len(log) : t[i] = s[i]
    BY <1>t, <2>2, AppendProperties
  <2> HIDE DEF t
  <2>6. CASE m = Len(log) + 1
    <3>1. Cardinality(Places(Append(s, e), turn_floor, Len(s) + 1, LoopWindow, e))
            <= LoopThreshold
      BY <1>t, <2>2, <2>4, PlacesAfterAppend
    <3> QED
      BY <1>t, <2>3, <2>5, <2>6, <3>1 DEF t
  <2>7. CASE m <= Len(log)
    <3>1. m \in (turn_floor + 1)..Len(log) /\ t[m] = s[m]
      BY <1>t, <2>5, <2>7
    <3>2. Places(t, turn_floor, m, LoopWindow, s[m]) = Places(s, turn_floor, m, LoopWindow, s[m])
      BY <1>t, <2>5, <3>1 DEF Places
    <3>3. Count(s, m) <= LoopThreshold
      BY <3>1 DEF RepetitionSoFar, s
    <3> QED
      BY <2>3, <3>1, <3>2, <3>3
  <2> QED
    BY <1>t, <2>6, <2>7
<1>1. CASE NewTurn
  <2>1. turn_floor' = Len(log) /\ log' = log
    BY <1>1 DEF NewTurn
  <2>2. (turn_floor' + 1)..Len(log') = {}
    BY <1>t, <2>1
  <2> QED
    BY <2>2 DEF RepetitionSoFar
<1>2. CASE Begin
  BY <1>s, <1>2 DEF Begin
<1>3. CASE Call
  BY <1>s, <1>3 DEF Call, Step
<1>4. CASE Gate
  BY <1>s, <1>4 DEF Gate, Step
<1>5. CASE Check
  <2>1. /\ pc \in PastGate /\ draft /= Garbage
        /\ UNCHANGED <<turn_floor, settings>>
    BY <1>5 DEF Check, Step, PastGate, TypeOK
  <2>2. CASE UNCHANGED log
    BY <1>s, <2>1, <2>2
  <2>3. CASE log' = Append(log, Entry("exhausted"))
    BY <1>a, <2>1, <2>3
  <2> QED
    BY <1>5, <2>2, <2>3 DEF Check
<1>6. CASE Act
  BY <1>s, <1>6 DEF Act, Step
<1>7. CASE Record
  <2>1. /\ pc \in PastGate /\ draft /= Garbage
        /\ UNCHANGED <<turn_floor, settings>>
    BY <1>7 DEF Record, Step, PastGate, TypeOK
  <2>2. CASE UNCHANGED log
    BY <1>s, <2>1, <2>2
  <2>3. CASE log' = Append(log, Entry("pass"))
    BY <1>a, <2>1, <2>3
  <2> QED
    BY <1>7, <2>2, <2>3 DEF Record
<1>8. CASE Return
  BY <1>s, <1>8 DEF Return
<1>9. CASE UNCHANGED vars
  BY <1>s, <1>9 DEF vars
<1> QED
  BY <1>1, <1>2, <1>3, <1>4, <1>5, <1>6, <1>7, <1>8, <1>9 DEF Next, Run

-----------------------------------------------------------------------------
(* What holds at every place of the turn is what holds of the turn's window  *)
(* at every decision.                                                        *)
LEMMA RepetitionFollows == TypeOK /\ RepetitionSoFar => RepetitionBounded
<1> SUFFICES ASSUME TypeOK, RepetitionSoFar, settings.error_control
             PROVE  RepetitionBounded
  BY DEF RepetitionBounded
<1> DEFINE D == {Digest(e) : e \in Entries}
           s == DigestsOf(log)
           part == SubSeq(s, turn_floor + 1, Len(s))
<1>1. /\ s \in Seq(D) /\ Len(s) = Len(log) /\ Len(log) \in Nat
      /\ turn_floor \in Nat /\ turn_floor <= Len(s)
  BY DigestsOfLog DEF TypeOK
<1>2. \A m \in (turn_floor + 1)..Len(log) :
        Cardinality(Places(s, turn_floor, m, LoopWindow, s[m])) <= LoopThreshold
  BY DEF RepetitionSoFar
<1> HIDE DEF D, s
<1>3. /\ Len(part) = Len(s) - turn_floor
      /\ \A n \in 1..Len(part) :
           /\ part[n] = s[turn_floor + n]
           /\ SubSeq(part, 1, n) = SubSeq(s, turn_floor + 1, turn_floor + n)
  BY <1>1, PrefixOfPart
<1> HIDE DEF part
<1>4. ASSUME NEW n \in 1..Len(part)
      PROVE  Occurrences(LastN(SubSeq(part, 1, n), LoopWindow), part[n]) <= LoopThreshold
  <2> DEFINE m == turn_floor + n
  <2>1. m \in Nat /\ m \in (turn_floor + 1)..Len(log) /\ turn_floor <= m /\ m <= Len(s)
    BY <1>1, <1>3
  <2> HIDE DEF m
  <2>2. Cardinality(Places(s, turn_floor, m, LoopWindow, s[m]))
          = Occurrences(LastN(SubSeq(s, turn_floor + 1, m), LoopWindow), s[m])
    BY <1>1, <2>1, WindowPlaces DEF LoopWindow
  <2>3. part[n] = s[m] /\ SubSeq(part, 1, n) = SubSeq(s, turn_floor + 1, m)
    BY <1>3 DEF m
  <2> QED
    BY <1>2, <2>1, <2>2, <2>3
<1> QED
  BY <1>1, <1>4 DEF RepetitionBounded, part, s

LEMMA InitIInv == Init => IInv
BY InitTypeOK, InitStageSoFar, InitCallsSoFar, InitVerdictsHold, InitAgreesSoFar,
   InitRepetitionSoFar DEF IInv

LEMMA NextIInv == IInv /\ [Next]_vars => IInv'
BY NextTypeOK, NextStageSoFar, NextCallsSoFar, NextVerdictsHold, NextAgreesSoFar,
   NextRepetitionSoFar DEF IInv

LEMMA Inductive == Spec => []IInv
BY InitIInv, NextIInv, PTL DEF Spec

(* A cycle calls the model at most max_retries times, once if that is 0,     *)
(* whatever the model answers and however the calls fail.                    *)
THEOREM CallsAlwaysBounded == Spec => []CallsBounded
<1>1. IInv => CallsBounded
  BY DEF IInv, CallsSoFar
<1> QED
  BY <1>1, Inductive, PTL

(* With error control on, no decision is recorded more than LoopThreshold    *)
(* times in LoopWindow consecutive decisions of a turn: a decision that is   *)
(* recorded passed the gate, which judged at least the decisions of the turn *)
(* and has not been overtaken since.                                         *)
THEOREM RepetitionAlwaysBounded == Spec => []RepetitionBounded
<1>1. IInv => RepetitionBounded
  BY RepetitionFollows DEF IInv
<1> QED
  BY <1>1, Inductive, PTL

(* A loop the gate has seen is still there at every retry, so the cycle      *)
(* never gets past the gate again: it neither acts nor decides.              *)
THEOREM LoopVerdictAlwaysFinal == Spec => []LoopVerdictIsFinal
<1>1. IInv => LoopVerdictIsFinal
  BY DEF IInv, VerdictsHold
<1> QED
  BY <1>1, Inductive, PTL

(* Whenever a cycle is reported exhausted, for any budget, its action has    *)
(* not been run: a caller may run another cycle in its place.                *)
THEOREM ExhaustedNeverActed == Spec => []ExhaustedDidNothing
<1>1. IInv => ExhaustedDidNothing
  BY DEF IInv, StageSoFar
<1> QED
  BY <1>1, Inductive, PTL

(* With control on, an accepted decision agrees with each of the             *)
(* ContradictionWindow decisions before it, of whatever cycle or turn.       *)
THEOREM NeverAContradiction == Spec => []NoContradiction
<1>1. IInv => NoContradiction
  BY DEF IInv, AgreesSoFar
<1> QED
  BY <1>1, Inductive, PTL

-----------------------------------------------------------------------------
(* The log as the contract sees it: of each entry a digest and a verdict.    *)
Judged(entry) == [digest |-> Digest(entry), verdict |-> entry.verdict]
JudgedLog == [i \in 1..Len(log) |-> Judged(log[i])]

LEMMA JudgedLogIsALog ==
  ASSUME TypeOK
  PROVE  /\ JudgedLog \in Seq({Judged(e) : e \in Entries})
         /\ Len(JudgedLog) = Len(log) /\ Len(log) \in Nat
         /\ \A i \in 1..Len(log) : JudgedLog[i] = Judged(log[i])
<1> DEFINE J == {Judged(e) : e \in Entries}
<1>1. Len(log) \in Nat /\ \A i \in 1..Len(log) : log[i] \in Entries
  BY LenProperties, ElementOfSeq DEF TypeOK
<1>2. /\ JudgedLog \in [1..Len(log) -> J]
      /\ \A i \in 1..Len(log) : JudgedLog[i] = Judged(log[i])
  BY <1>1 DEF JudgedLog
<1>3. JudgedLog \in Seq(J)
  BY <1>1, <1>2, SeqDef
<1> HIDE DEF J
<1>4. Len(JudgedLog) \in Nat /\ DOMAIN JudgedLog = 1..Len(JudgedLog)
  BY <1>3, LenProperties
<1>5. Len(JudgedLog) = Len(log)
  BY <1>1, <1>2, <1>4
<1> QED
  BY <1>1, <1>2, <1>3, <1>5 DEF J

(* An entry of a proposal is appended as the contract appends its digest.    *)
LEMMA JudgedAfterAppend ==
  ASSUME TypeOK, TypeOK', draft /= Garbage, NEW verdict \in {"pass", "exhausted"},
         log' = Append(log, Entry(verdict))
  PROVE  /\ Digest(draft) \in {Digest(p) : p \in Proposals}
         /\ JudgedLog' = Append(JudgedLog, [digest |-> Digest(draft), verdict |-> verdict])
<1> DEFINE J == {Judged(e) : e \in Entries}
           now == [digest |-> Digest(draft), verdict |-> verdict]
           s == JudgedLog
           t == JudgedLog'
<1>1. Digest(draft) \in {Digest(p) : p \in Proposals}
  BY DEF TypeOK
<1>2. Entry(verdict) \in Entries /\ now = Judged(Entry(verdict))
  BY EntryTypes DEF Judged, Entry, Digest
<1>3. /\ Len(log') = Len(log) + 1 /\ log'[Len(log) + 1] = Entry(verdict)
      /\ \A i \in 1..Len(log) : log'[i] = log[i]
  BY <1>2, AppendProperties DEF TypeOK
<1>4. /\ s \in Seq(J) /\ Len(s) = Len(log) /\ Len(log) \in Nat
      /\ \A i \in 1..Len(log) : s[i] = Judged(log[i])
  BY JudgedLogIsALog
<1>5. t \in Seq(J) /\ Len(t) = Len(log')
  <2>1. Len(log') \in Nat /\ \A i \in 1..Len(log') : log'[i] \in Entries
    BY LenProperties, ElementOfSeq DEF TypeOK
  <2>2. t \in [1..Len(log') -> J]
    BY <2>1 DEF JudgedLog
  <2>3. t \in Seq(J)
    BY <2>1, <2>2, SeqDef
  <2> HIDE DEF J, t
  <2>4. Len(t) \in Nat /\ DOMAIN t = 1..Len(t)
    BY <2>3, LenProperties
  <2> QED
    BY <2>1, <2>2, <2>3, <2>4
<1>6. \A i \in 1..Len(log') : t[i] = Judged(log'[i])
  BY DEF JudgedLog
<1>7. now \in J
  BY <1>2
<1> HIDE DEF J, now, s, t
<1>8. /\ Append(s, now) \in Seq(J) /\ Len(Append(s, now)) = Len(s) + 1
      /\ \A i \in 1..Len(s) : Append(s, now)[i] = s[i]
      /\ Append(s, now)[Len(s) + 1] = now
  BY <1>4, <1>7, AppendProperties
<1>9. \A i \in 1..Len(t) : t[i] = Append(s, now)[i]
  BY <1>2, <1>3, <1>4, <1>5, <1>6, <1>8
<1>10. t = Append(s, now)
  BY <1>3, <1>4, <1>5, <1>8, <1>9, SeqEqual
<1> QED
  BY <1>1, <1>10 DEF now, s, t

(* The contract sees a loop in it exactly when the gate does.                *)
LEMMA SameLoops == TypeOK => (Contract!Looping <=> Looping)
<1> SUFFICES ASSUME TypeOK PROVE Contract!Looping <=> Looping
  OBVIOUS
<1>1. /\ Len(JudgedLog) = Len(log)
      /\ \A i \in 1..Len(log) : JudgedLog[i] = Judged(log[i])
  BY JudgedLogIsALog
<1>2. [i \in 1..Len(JudgedLog) |-> JudgedLog[i].digest] = DigestsOf(log)
  <2>1. ASSUME NEW i \in 1..Len(log)
        PROVE  JudgedLog[i].digest = Digest(log[i])
    <3>1. JudgedLog[i] = Judged(log[i])
      BY <1>1
    <3>2. Judged(log[i]).digest = Digest(log[i])
      BY DEF Judged
    <3> QED
      BY <3>1, <3>2
  <2> QED
    BY <1>1, <2>1 DEF DigestsOf
<1>c. \A S : Contract!Cardinality(S) = Cardinality(S)
  BY Zenon DEF Contract!Cardinality, Cardinality
<1>3. ASSUME NEW s
      PROVE  Contract!LoopDetected(s) <=> LoopDetected(s)
  BY <1>c DEF Contract!LoopDetected, LoopDetected, Contract!LastN, LastN,
         Contract!Occurrences, Occurrences, Contract!LoopWindow, LoopWindow,
         Contract!LoopThreshold, LoopThreshold
<1>4. Contract!Looping <=>
        settings.error_control
          /\ Contract!LoopDetected(SubSeq([i \in 1..Len(JudgedLog) |-> JudgedLog[i].digest],
                                          floor + 1, Len(JudgedLog)))
  BY DEF Contract!Looping, JudgedLog, Judged
<1> QED
  BY <1>1, <1>2, <1>3, <1>4 DEF Looping, Visible

(* The cycle starts as the contract does.                                    *)
LEMMA InitContract == Init => Contract!Init
<1> SUFFICES ASSUME Init PROVE Contract!Init
  OBVIOUS
<1>1. JudgedLog = << >>
  <2>1. Len(log) = 0
    BY DEF Init
  <2> QED
    BY <2>1, SeqDef DEF JudgedLog
<1> QED
  BY <1>1 DEF Init, Contract!Init, JudgedLog, Judged

(* Every step of a cycle is one of the contract, or one it does not see.     *)
LEMMA NextContract == IInv /\ IInv' /\ [Next]_vars => [Contract!Next]_(Contract!vars)
<1> SUFFICES ASSUME IInv, IInv', [Next]_vars PROVE [Contract!Next]_(Contract!vars)
  OBVIOUS
<1> DEFINE busy == pc \notin {"idle", "return"}
<1>t. /\ TypeOK /\ TypeOK' /\ StageSoFar /\ VerdictsHold
      /\ Len(JudgedLog) = Len(log) /\ pc \in ControlPoints /\ acted \in BOOLEAN
      /\ (Contract!Looping <=> Looping)
  BY JudgedLogIsALog, SameLoops DEF IInv, TypeOK
<1>l. log' = log => JudgedLog' = JudgedLog
  BY DEF JudgedLog
<1>v. /\ (/\ UNCHANGED <<JudgedLog, floor, settings, acted>> /\ busy' = busy)
        => UNCHANGED Contract!vars
      /\ (/\ busy /\ ~busy' /\ UNCHANGED <<JudgedLog, floor, settings, acted>>)
        => Contract!End
      /\ (/\ ~busy /\ acted' = FALSE /\ floor' \in 0..Len(JudgedLog)
          /\ UNCHANGED <<JudgedLog, settings>>)
        => Contract!Start
      /\ (/\ busy /\ ~acted /\ ~Looping /\ acted' = TRUE
          /\ UNCHANGED <<JudgedLog, floor, settings>>)
        => Contract!Act
  BY <1>t DEF Contract!vars, Contract!End, Contract!Start, Contract!Act, JudgedLog, Judged
<1>w. ASSUME NEW verdict \in {"pass", "exhausted"}, draft /= Garbage,
             log' = Append(log, Entry(verdict)), busy, ~busy',
             UNCHANGED <<floor, settings, acted>>,
             IF verdict = "pass" THEN acted ELSE ~acted /\ ~Looping
      PROVE  Contract!Accept \/ Contract!Reject
  <2>1. /\ Digest(draft) \in {Digest(p) : p \in Proposals}
        /\ JudgedLog' = Append(JudgedLog, [digest |-> Digest(draft), verdict |-> verdict])
    BY <1>t, <1>w, JudgedAfterAppend
  <2>2. \E d \in {Digest(p) : p \in Proposals} : Contract!Appended(d, verdict)
    BY <2>1 DEF Contract!Appended, JudgedLog, Judged
  <2> QED
    BY <1>t, <1>w, <2>2 DEF Contract!Accept, Contract!Reject
<1> HIDE DEF busy
<1>1. CASE NewTurn
  BY <1>1, <1>l, <1>v DEF NewTurn, busy
<1>2. CASE Begin
  <2>1. /\ ~busy /\ acted' = FALSE /\ UNCHANGED <<log, settings>>
    BY <1>2, <1>t DEF Begin, busy, StageSoFar
  <2>2. floor' \in 0..Len(log)
    BY <1>2, <1>t, JudgedLogIsALog DEF Begin, TypeOK
  <2>3. Contract!Start
    BY <1>t, <1>l, <1>v, <2>1, <2>2
  <2> QED
    BY <2>3 DEF Contract!Next
<1>3. CASE Call
  <2>1. /\ busy /\ UNCHANGED <<log, floor, settings, acted>>
        /\ pc' \in {"gate", "return"}
    BY <1>3 DEF Call, Step, Finish, busy
  <2>2. UNCHANGED Contract!vars \/ Contract!End
    BY <1>l, <1>v, <2>1 DEF busy
  <2> QED
    BY <2>2 DEF Contract!Next
<1>4. CASE Gate
  <2>1. /\ busy /\ UNCHANGED <<log, floor, settings, acted>>
        /\ pc' \in {"call", "check", "return"}
    BY <1>4 DEF Gate, Step, Retry, Finish, busy
  <2>2. UNCHANGED Contract!vars \/ Contract!End
    BY <1>l, <1>v, <2>1 DEF busy
  <2> QED
    BY <2>2 DEF Contract!Next
<1>5. CASE Check
  <2>1. busy /\ ~acted /\ ~Looping /\ draft /= Garbage /\ UNCHANGED <<floor, settings, acted>>
    BY <1>5, <1>t DEF Check, Step, busy, StageSoFar, VerdictsHold, PastGate, TypeOK
  <2>2. CASE UNCHANGED log /\ pc' \in {"act", "call", "return"}
    <3>1. UNCHANGED Contract!vars \/ Contract!End
      BY <1>l, <1>v, <2>1, <2>2 DEF busy
    <3> QED
      BY <3>1 DEF Contract!Next
  <2>3. CASE log' = Append(log, Entry("exhausted")) /\ pc' = "return"
    <3>1. ~busy'
      BY <2>3 DEF busy
    <3>2. Contract!Accept \/ Contract!Reject
      BY <1>w, <2>1, <2>3, <3>1
    <3> QED
      BY <3>2 DEF Contract!Next
  <2> QED
    BY <1>5, <2>2, <2>3 DEF Check, Retry, Finish
<1>6. CASE Act
  <2>1. /\ busy /\ ~acted /\ ~Looping /\ UNCHANGED <<log, floor, settings>>
    BY <1>6, <1>t DEF Act, Step, busy, StageSoFar, VerdictsHold, PastGate
  <2>2. acted' = TRUE \/ (acted' = FALSE /\ ~busy')
    BY <1>6 DEF Act, Finish, busy
  <2>3. Contract!Act \/ Contract!End
    BY <1>l, <1>t, <1>v, <2>1, <2>2
  <2> QED
    BY <2>3 DEF Contract!Next
<1>7. CASE Record
  <2>1. /\ busy /\ ~busy' /\ acted /\ draft /= Garbage
        /\ UNCHANGED <<floor, settings, acted>>
    BY <1>7, <1>t DEF Record, Step, Finish, busy, StageSoFar, TypeOK
  <2>2. CASE UNCHANGED log
    <3>1. Contract!End
      BY <1>l, <1>v, <2>1, <2>2
    <3> QED
      BY <3>1 DEF Contract!Next
  <2>3. CASE log' = Append(log, Entry("pass"))
    <3>1. Contract!Accept \/ Contract!Reject
      BY <1>w, <2>1, <2>3
    <3> QED
      BY <3>1 DEF Contract!Next
  <2> QED
    BY <1>7, <2>2, <2>3 DEF Record
<1>8. CASE Return
  <2>1. /\ ~busy /\ acted' = FALSE /\ floor' = 0 /\ UNCHANGED <<log, settings>>
    BY <1>8 DEF Return, busy
  <2>2. 0 \in 0..Len(JudgedLog)
    BY <1>t, JudgedLogIsALog
  <2>3. Contract!Start
    BY <1>l, <1>v, <2>1, <2>2
  <2> QED
    BY <2>3 DEF Contract!Next
<1>9. CASE UNCHANGED vars
  BY <1>9, <1>l, <1>v DEF vars, busy
<1> QED
  BY <1>1, <1>2, <1>3, <1>4, <1>5, <1>6, <1>7, <1>8, <1>9 DEF Next, Run

(* The cycle keeps the promise the turn and the session rely on: it acts at  *)
(* most once, what it records as accepted it has acted on, it records at     *)
(* most one decision and that last, and neither while the log loops.         *)
THEOREM CycleImplementsContract == Spec => ImplementsContract
BY InitContract, Inductive, NextContract, PTL DEF Spec, ImplementsContract, Contract!Spec
=============================================================================
