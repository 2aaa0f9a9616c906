------------------------- MODULE ModelClientProofs -------------------------
(***************************************************************************)
(* Theorems about the model clients of a session, for any providers, keys, *)
(* profiles and budgets of retries, attempts and calls.                    *)
(***************************************************************************)
EXTENDS ModelClient, TLAPS

-----------------------------------------------------------------------------
\* Which clients are open, and what the stores know of the session, at each point.
ClientsSoFar ==
  /\ pc \in {"start", "probe", "open", "refused", "returned"} => open = {}
  /\ pc \in {"ping", "pong"} => open = {"probe"} /\ caller = "probe"
  /\ pc \in {"engine", "call", "answer", "report"} => open = Roles /\ begun = "start"
  /\ pc \in {"call", "answer"} => caller \in Roles
  /\ pc \in {"start", "probe", "ping", "pong", "open", "refused"} => begun = "nothing"
  /\ pc = "raised" => "probe" \notin open

\* What is left of the budgets while a call, an attempt or an engine goes on.
BudgetsLeft ==
  /\ pc = "start" => attempts = 0
  /\ pc \in {"ping", "call"} => posts < MaxRetries
  /\ pc = "probe" => attempts < MaxAttempts
  /\ pc \in {"call", "answer"} => llm_calls < calls \/ calls = MaxCalls

\* The planner's calls get as far as its provider.
PlannerCanCall == ~KeyMissing("planner") /\ setting.timed["planner"]

\* What a probe has found out, and why a call came back without a request.
ProbedSoFar ==
  /\ pc = "ping" => PlannerCanCall
  /\ pc = "pong" /\ error = "none" => PlannerCanCall
  /\ setting.probe /\ pc \in {"open", "engine", "call", "answer"} => PlannerCanCall
  /\ pc = "answer" /\ posts = 0 =>
       \/ error = "missing_api_key" /\ KeyMissing(caller)
       \/ error = "unknown_role" /\ ~setting.timed[Role(caller)]

IInv == TypeOK /\ ClientsSoFar /\ BudgetsLeft /\ ProbedSoFar

-----------------------------------------------------------------------------
\* A request leads to a readable answer, to another request or to an exception.
LEMMA PostTypes ==
  ASSUME NEW answered, NEW raised, Post(answered, raised),
         posts \in 0..MaxRetries, posts < MaxRetries, error \in Errors
  PROVE  /\ posts' = posts + 1
         /\ posts' \in 0..MaxRetries
         /\ answer' \in Answers
         /\ error' \in Errors
         /\ caller' = caller
         /\ \/ pc' = raised
            \/ pc' = pc /\ posts' < MaxRetries
            \/ pc' = answered
<1>1. PICK a \in Answers :
        /\ posts' = posts + 1 /\ answer' = a /\ caller' = caller
        /\ IF a \in Unreadable THEN pc' = raised /\ error' = error
           ELSE IF a \in Retryable /\ posts + 1 < MaxRetries THEN pc' = pc /\ error' = error
           ELSE pc' = answered /\ error' = ErrorOf(a)
  BY DEF Post, Counted
<1>2. ErrorOf(a) \in Errors
  BY DEF ErrorOf, Errors, Reported
<1>3. posts' \in 0..MaxRetries
  BY <1>1, AtLeastOnePost
<1>4. CASE a \in Unreadable
  BY <1>1, <1>3, <1>4
<1>5. CASE a \notin Unreadable /\ a \in Retryable /\ posts + 1 < MaxRetries
  BY <1>1, <1>3, <1>5
<1>6. CASE a \notin Unreadable /\ ~(a \in Retryable /\ posts + 1 < MaxRetries)
  BY <1>1, <1>2, <1>3, <1>6
<1> QED
  BY <1>4, <1>5, <1>6

\* A call begins with a request to post, or comes back for one of two reasons.
LEMMA BeginCallTypes ==
  ASSUME NEW client, NEW calling, NEW answered, BeginCall(client, calling, answered)
  PROVE  /\ caller' = client /\ posts' = 0 /\ answer' = "none"
         /\ \/ pc' = answered /\ error' = "missing_api_key" /\ KeyMissing(client)
            \/ pc' = answered /\ error' = "unknown_role" /\ ~setting.timed[Role(client)]
            \/ /\ pc' = calling /\ error' = "none"
               /\ ~KeyMissing(client) /\ setting.timed[Role(client)]
  BY DEF BeginCall

\* The probe's client is the planner's.
LEMMA ProbeIsPlanner ==
  /\ KeyMissing("probe") <=> KeyMissing("planner")
  /\ Role("probe") = "planner" /\ Role("planner") = "planner" /\ Role("executor") = "executor"
  BY DEF KeyMissing, ProviderOf, Role

-----------------------------------------------------------------------------
(* The sessions begin well typed.                                           *)
LEMMA InitIInv == Init => IInv
<1> SUFFICES ASSUME Init PROVE IInv
  OBVIOUS
<1>1. TypeOK
  <2>1. driver \in Engines
    BY DEF Init, Settings
  <2> QED
    BY <2>1, AtLeastOnePost, AtLeastOneAttempt, MaxCallsIsNat DEF Init, TypeOK, Roles, Errors
<1> QED
  BY <1>1, AtLeastOnePost, AtLeastOneAttempt
     DEF IInv, Init, ClientsSoFar, BudgetsLeft, ProbedSoFar

(* What a session is called with and finds configured stays as it is.       *)
LEMMA SettingStays ==
  ASSUME [Next]_vars
  PROVE  /\ setting' = setting
         /\ PlannerCanCall' <=> PlannerCanCall
         /\ \A c : KeyMissing(c)' <=> KeyMissing(c)
<1>1. setting' = setting
  BY DEF Next, vars, Start, ProbeAttempt, Ping, Judge, OpenClients, EngineCalls, EnginePosts,
         Record, Promote, EngineEnds, SessionRaises, Finish
<1> QED
  BY <1>1 DEF PlannerCanCall, KeyMissing, ProviderOf, Role

(* Every step keeps the invariant.                                          *)
LEMMA NextIInv == IInv /\ [Next]_vars => IInv'
<1> SUFFICES ASSUME IInv, [Next]_vars PROVE IInv'
  OBVIOUS
<1> USE AtLeastOnePost, AtLeastOneAttempt, MaxCallsIsNat, SettingStays
<1> USE DEF IInv
<1>1. CASE Start
  <2>1. /\ pc = "start" /\ pc' \in {"open", "refused", "probe"}
        /\ setting.probe => pc' /= "open"
    BY <1>1 DEF Start
  <2>2. UNCHANGED <<setting, driver, open, begun, caller, posts, answer, error,
                    attempts, calls, llm_calls>>
    BY <1>1 DEF Start, request, counters
  <2>3. TypeOK'
    BY <2>1, <2>2 DEF TypeOK
  <2>4. ClientsSoFar'
    BY <2>1, <2>2 DEF ClientsSoFar
  <2>5. BudgetsLeft'
    BY <2>1, <2>2 DEF BudgetsLeft
  <2>6. ProbedSoFar'
    BY <2>1, <2>2 DEF ProbedSoFar
  <2> QED
    BY <2>3, <2>4, <2>5, <2>6
<1>2. CASE ProbeAttempt
  <2>1. pc = "probe" /\ UNCHANGED <<setting, driver, begun, calls, llm_calls>>
    BY <1>2 DEF ProbeAttempt
  <2>2. CASE Resolved("planner")
    <3>1. /\ open' = open \union {"probe"}
          /\ attempts' = attempts + 1
          /\ BeginCall("probe", "ping", "pong")
      BY <1>2, <2>2 DEF ProbeAttempt
    <3>2. /\ caller' = "probe" /\ posts' = 0 /\ answer' = "none"
          /\ \/ pc' = "pong" /\ error' \in {"missing_api_key", "unknown_role"}
             \/ pc' = "ping" /\ error' = "none" /\ PlannerCanCall
      BY <3>1, BeginCallTypes, ProbeIsPlanner DEF PlannerCanCall
    <3>3. TypeOK'
      BY <2>1, <3>1, <3>2 DEF TypeOK, BudgetsLeft, Errors
    <3>4. ClientsSoFar'
      BY <2>1, <3>1, <3>2 DEF ClientsSoFar
    <3>5. BudgetsLeft'
      BY <2>1, <3>1, <3>2 DEF BudgetsLeft, TypeOK
    <3>6. ProbedSoFar'
      BY <2>1, <3>2 DEF ProbedSoFar
    <3> QED
      BY <3>3, <3>4, <3>5, <3>6
  <2>3. CASE ~Resolved("planner")
    <3>1. pc' = "refused" /\ UNCHANGED <<open, attempts, caller, posts, answer, error>>
      BY <1>2, <2>3 DEF ProbeAttempt, request
    <3> QED
      BY <2>1, <3>1 DEF TypeOK, ClientsSoFar, BudgetsLeft, ProbedSoFar
  <2> QED
    BY <2>2, <2>3
<1>3. CASE Ping
  <2>1. /\ pc = "ping" /\ Post("pong", "refused")
        /\ open' = IF pc' = "refused" THEN open \ {"probe"} ELSE open
        /\ UNCHANGED <<setting, driver, begun, attempts, calls, llm_calls>>
    BY <1>3 DEF Ping, counters
  <2>2. /\ posts' = posts + 1 /\ posts' \in 0..MaxRetries /\ answer' \in Answers
        /\ error' \in Errors /\ caller' = caller
        /\ \/ pc' = "refused"
           \/ pc' = pc /\ posts' < MaxRetries
           \/ pc' = "pong"
    BY <2>1, PostTypes DEF TypeOK, BudgetsLeft
  <2>3. TypeOK'
    BY <2>1, <2>2 DEF TypeOK
  <2>4. ClientsSoFar'
    BY <2>1, <2>2 DEF ClientsSoFar
  <2>5. BudgetsLeft'
    BY <2>1, <2>2 DEF BudgetsLeft
  <2>6. ProbedSoFar'
    BY <2>1, <2>2 DEF ProbedSoFar
  <2> QED
    BY <2>3, <2>4, <2>5, <2>6
<1>4. CASE Judge
  <2>1. /\ pc = "pong" /\ open' = open \ {"probe"}
        /\ \/ pc' = "open" /\ error = "none"
           \/ pc' = "probe" /\ attempts < MaxAttempts
           \/ pc' = "refused"
        /\ UNCHANGED <<setting, driver, begun, caller, posts, answer, error,
                       attempts, calls, llm_calls>>
    BY <1>4 DEF Judge, ProbePassed, request, counters
  <2>2. TypeOK'
    BY <2>1 DEF TypeOK
  <2>3. ClientsSoFar'
    BY <2>1 DEF ClientsSoFar
  <2>4. BudgetsLeft' /\ ProbedSoFar'
    BY <2>1 DEF BudgetsLeft, ProbedSoFar
  <2> QED
    BY <2>2, <2>3, <2>4
<1>5. CASE OpenClients
  <2>1. /\ pc = "open"
        /\ \/ open' = Roles /\ begun' = "start" /\ pc' = "engine"
           \/ open' \subseteq Roles /\ begun' = "root" /\ pc' = "raised"
           \/ open' = open /\ begun' = begun /\ pc' = "raised"
        /\ UNCHANGED <<setting, driver, caller, posts, answer, error, attempts, calls, llm_calls>>
    BY <1>5 DEF OpenClients, Roles, request, counters
  <2>2. TypeOK'
    BY <2>1 DEF TypeOK, Roles
  <2>3. ClientsSoFar' /\ BudgetsLeft' /\ ProbedSoFar'
    BY <2>1 DEF ClientsSoFar, BudgetsLeft, ProbedSoFar, Roles
  <2> QED
    BY <2>2, <2>3
<1>6. ASSUME NEW role \in Roles, EngineCalls(role) PROVE IInv'
  <2>1. /\ pc = "engine" /\ calls' = UpToMaxCalls(calls)
        /\ BeginCall(role, "call", "answer")
        /\ UNCHANGED <<setting, driver, open, begun, attempts, llm_calls>>
    BY <1>6 DEF EngineCalls
  <2>a. /\ calls' \in 0..MaxCalls /\ llm_calls' \in 0..calls'
        /\ llm_calls' < calls' \/ calls' = MaxCalls
    BY <2>1 DEF UpToMaxCalls, TypeOK
  <2>2. /\ caller' = role /\ posts' = 0 /\ answer' = "none"
        /\ \/ /\ pc' = "answer" /\ error' = "missing_api_key" /\ KeyMissing(role)
           \/ /\ pc' = "answer" /\ error' = "unknown_role" /\ ~setting.timed[Role(role)]
           \/ pc' = "call" /\ error' = "none"
    BY <2>1, BeginCallTypes
  <2>3. TypeOK'
    BY <2>1, <2>a, <2>2 DEF TypeOK, Errors
  <2>4. ClientsSoFar'
    BY <2>1, <2>2 DEF ClientsSoFar
  <2>5. BudgetsLeft'
    BY <2>1, <2>a, <2>2 DEF BudgetsLeft, TypeOK
  <2>6. ProbedSoFar'
    BY <2>1, <2>2 DEF ProbedSoFar, KeyMissing, ProviderOf, Role
  <2> QED
    BY <2>3, <2>4, <2>5, <2>6
<1>7. CASE EnginePosts
  <2> DEFINE raised == IF driver = "interactive" THEN "raised" ELSE "report"
  <2>1. /\ pc = "call" /\ Post("answer", raised)
        /\ UNCHANGED <<setting, driver, open, begun, attempts, calls, llm_calls>>
    BY <1>7 DEF EnginePosts, counters
  <2>2. /\ posts' = posts + 1 /\ posts' \in 0..MaxRetries /\ answer' \in Answers
        /\ error' \in Errors /\ caller' = caller
        /\ \/ pc' = raised
           \/ pc' = pc /\ posts' < MaxRetries
           \/ pc' = "answer"
    BY <2>1, PostTypes DEF TypeOK, BudgetsLeft
  <2>3. TypeOK'
    BY <2>1, <2>2 DEF TypeOK
  <2>4. ClientsSoFar'
    BY <2>1, <2>2 DEF ClientsSoFar, Roles
  <2>5. BudgetsLeft'
    BY <2>1, <2>2 DEF BudgetsLeft
  <2>6. ProbedSoFar'
    <3>1. posts' /= 0
      BY <2>2 DEF TypeOK
    <3> QED
      BY <2>1, <2>2, <3>1 DEF ProbedSoFar
  <2> QED
    BY <2>3, <2>4, <2>5, <2>6
<1>8. CASE Record
  <2>1. /\ pc = "answer" /\ pc' = "engine" /\ llm_calls' = UpToMaxCalls(llm_calls)
        /\ UNCHANGED <<setting, driver, open, begun, caller, posts, answer, error, attempts, calls>>
    BY <1>8 DEF Record, request
  <2>2. TypeOK'
    BY <2>1 DEF TypeOK, BudgetsLeft, UpToMaxCalls
  <2>3. ClientsSoFar' /\ BudgetsLeft' /\ ProbedSoFar'
    BY <2>1 DEF ClientsSoFar, BudgetsLeft, ProbedSoFar
  <2> QED
    BY <2>2, <2>3
<1>9. CASE Promote
  <2>1. /\ pc = "engine" /\ pc' = pc /\ driver' = "graph"
        /\ UNCHANGED <<setting, open, begun, caller, posts, answer, error, attempts, calls, llm_calls>>
    BY <1>9 DEF Promote, request, counters
  <2>2. TypeOK'
    BY <2>1 DEF TypeOK, Engines
  <2>3. ClientsSoFar' /\ BudgetsLeft' /\ ProbedSoFar'
    BY <2>1 DEF ClientsSoFar, BudgetsLeft, ProbedSoFar
  <2> QED
    BY <2>2, <2>3
<1>10. CASE EngineEnds \/ SessionRaises
  <2>1. /\ pc \in {"engine", "report"} /\ pc' \in {"report", "raised"}
        /\ UNCHANGED <<setting, driver, open, begun, caller, posts, answer, error,
                       attempts, calls, llm_calls>>
    BY <1>10 DEF EngineEnds, SessionRaises, request, counters
  <2>2. TypeOK'
    BY <2>1 DEF TypeOK
  <2>3. ClientsSoFar'
    BY <2>1 DEF ClientsSoFar, Roles
  <2>4. BudgetsLeft' /\ ProbedSoFar'
    BY <2>1 DEF BudgetsLeft, ProbedSoFar
  <2> QED
    BY <2>2, <2>3, <2>4
<1>11. CASE Finish
  <2>1. /\ pc = "report" /\ pc' = "returned" /\ open' = {}
        /\ UNCHANGED <<setting, driver, begun, caller, posts, answer, error,
                       attempts, calls, llm_calls>>
    BY <1>11 DEF Finish, OpenAfterReturn, request, counters
  <2>2. TypeOK'
    BY <2>1 DEF TypeOK
  <2>3. ClientsSoFar' /\ BudgetsLeft' /\ ProbedSoFar'
    BY <2>1 DEF ClientsSoFar, BudgetsLeft, ProbedSoFar
  <2> QED
    BY <2>2, <2>3
<1>12. CASE UNCHANGED vars
  <2>1. UNCHANGED <<pc, setting, driver, open, begun, caller, posts, answer, error,
                    attempts, calls, llm_calls>>
    BY <1>12 DEF vars
  <2>2. TypeOK' /\ ClientsSoFar' /\ BudgetsLeft'
    BY <2>1 DEF TypeOK, ClientsSoFar, BudgetsLeft
  <2>3. ProbedSoFar'
    BY <2>1 DEF ProbedSoFar
  <2> QED
    BY <2>2, <2>3
<1> QED
  BY <1>1, <1>2, <1>3, <1>4, <1>5, <1>6, <1>7, <1>8, <1>9, <1>10, <1>11, <1>12 DEF Next

LEMMA Invariance == Spec => []IInv
  BY InitIInv, NextIInv, PTL DEF Spec

-----------------------------------------------------------------------------
\* No call posts more often than _MAX_RETRIES, no probe attempts more often than
\* max_attempts, and no call is billed that the engine did not make.
THEOREM TypeCorrect == Spec => []TypeOK
<1>1. IInv => TypeOK
  BY DEF IInv
<1> QED
  BY <1>1, Invariance, PTL

\* A probe always closes its client, a refused session has left nothing behind, and
\* one that returns has closed its clients, whichever of its engine's and its own calls
\* fail on the way: for any provider that answers anything.
THEOREM EndsAreClean == Spec => []CleanEnds
<1>1. IInv => CleanEnds
  BY DEF IInv, ClientsSoFar, CleanEnds
<1> QED
  BY <1>1, Invariance, PTL

\* A probe that passed rules out that the planner's calls come back unposted, for any
\* profiles, keys and timeouts of the two roles.
THEOREM TheProbeVouches == Spec => []ProbeVouches
<1>1. IInv => ProbeVouches
  <2> SUFFICES ASSUME IInv, setting.probe, pc = "answer", posts = 0
               PROVE  /\ caller = "executor"
                      /\ error = "missing_api_key" =>
                           setting.provider["executor"] /= setting.provider["planner"]
    BY DEF ProbeVouches
  <2>1. PlannerCanCall /\ caller \in {"planner", "executor"}
    BY DEF IInv, ProbedSoFar, ClientsSoFar, Roles
  <2>2. \/ error = "missing_api_key" /\ KeyMissing(caller)
        \/ error = "unknown_role" /\ ~setting.timed[caller]
    BY <2>1 DEF IInv, ProbedSoFar, Role
  <2>3. caller = "executor"
    BY <2>1, <2>2 DEF PlannerCanCall
  <2>4. error = "missing_api_key" => setting.provider["executor"] /= setting.provider["planner"]
    BY <2>1, <2>2, <2>3 DEF PlannerCanCall, KeyMissing, ProviderOf, Role
  <2> QED
    BY <2>3, <2>4
<1> QED
  BY <1>1, Invariance, PTL
=============================================================================
